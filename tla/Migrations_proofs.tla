-------------------------- MODULE Migrations_proofs --------------------------
(***************************************************************************)
(* Theorems about Migrations, for any number of openers and any files that *)
(* satisfy its assumptions: the variables have their types, no migration   *)
(* is applied out of order or after a handle was open, nothing is lost, a  *)
(* file of an agent opens, and concurrent openers leave what one alone     *)
(* would have left.                                                        *)
(***************************************************************************)
EXTENDS Migrations, FiniteSetTheorems, TLAPS

(***************************************************************************)
(* The inductive invariant.  Migrations that an opener has behind it are   *)
(* not to come any more, and one that it is about to apply is to come      *)
(* still, unless another opener was faster.  Hence openers that are about  *)
(* to migrate are all at the same migration, the first that is to come.    *)
(***************************************************************************)
AllBehind == {"validate", "required", "open", "repair"}

\* The migrations that an opener has looked at.
Behind(o) == IF pc[o] \in AllBehind THEN Packaged ELSE 1 .. version[o] - 1

NoneDue(f, versions) == \A v \in versions : ~Due(f, v)

\* The loop starts at the first migration.
StartsOver(o) == pc[o] \in AllBehind \cup {"closed"} => version[o] = 1

BehindIsDone(o) == NoneDue(file, Behind(o))

NextIsDue(o) ==
  pc[o] \in {"lock", "migrate"} => version[o] \in file.ledger \/ Due(file, version[o])

\* The user_version an opener has read may be stale, but only in a way that
\* does not change whether its migration is applicable.
StaleReadIsHarmless(o) ==
  pc[o] = "applicable" /\ version[o] >= 6 /\ version[o] \notin file.ledger =>
    \/ seen[o] = file.version
    \/ ~Due(file, version[o]) /\ ~Applicable(file, version[o], seen[o])

NewerIsClosed(o) == file.version \notin 0 .. 8 => pc[o] = "closed"

InOrder(o) ==
  /\ StartsOver(o)
  /\ BehindIsDone(o)
  /\ NextIsDue(o)
  /\ StaleReadIsHarmless(o)
  /\ NewerIsClosed(o)

VersionInOrder == \A v \in Packaged : v < file.version => ~Due(file, v)

WrittenIsDone == written => NoneDue(file, Packaged)

OrderInv ==
  /\ TypeOK
  /\ IsFiniteSet(file.results)
  /\ ReadsBlank(file)
  /\ VersionInOrder
  /\ WrittenIsDone
  /\ \A o \in Opener : InOrder(o)

\* A sound file is new, or stays sound.
SoundInv ==
  IsSound(origin) =>
    /\ IsSound(file)
    /\ \A o \in Opener :
         /\ outcome[o] \in {"none", "open", "busy", "error"}
         /\ pc[o] = "required" => 
              seen[o] \in file.ledger \cap Packaged /\ Required[seen[o]] \subseteq file.columns

\* A complete score row has the id of its run and framework.
ScoresKeyed(f) == \A s \in f.scores : ~IsLegacyScore(s) => s.id = <<s.run_id, s.framework_id>>

NeedsScores(f) == ~ ScoreColumns \subseteq f.columns \/ \E s \in f.scores : IsLegacyScore(s)

\* Results of runs that openers write are there only once they wrote them.
RunsAreFresh ==
  \A o \in Opener : \A r \in file.results :
    /\ r.run_id = NewRun[o] => NewRun[o] \in file.runs
    /\ ~written => r.run_id # NewRun[o] /\ \A i \in IdentitiesIn[r.id] : i.run_id # NewRun[o]

\* The score table of a file found with an early one is to be recounted still,
\* or it is right and no migration changes the results any more.
ScoresInv ==
  /\ ScoresKeyed(file)
  /\ RunsAreFresh
  /\ 1 \notin file.ledger => file.results = {}
  /\ NeedsScores(origin) =>
       \/ NeedsScores(file)
       \/ ScoresMatch(file) /\ (file.results = {} \/ NoneDue(file, Packaged))

\* One undisturbed open from here on would end as it would have from the start.
SettlesAlike ==
  ~written => WithoutScores(Settled(file)) = WithoutScores(Settled(origin))

-----------------------------------------------------------------------------
(***************************************************************************)
(* What a migration does to a file.                                        *)
(***************************************************************************)

\* The columns that a migration adds.
Added(f, v) ==
  CASE v = 1 -> {c \in CurrentColumns \cup ScoreId \cup ScoreColumns : c[1] \notin TablesOf(f)}
    [] v = 2 -> Links
    [] v = 3 -> GapFilters
    [] v = 4 -> Locator
    [] v = 5 -> ResultSubject \cup ResultRun \cup Locator
    [] v = 6 -> Links
    [] v = 7 -> Class
    [] v = 8 -> RunTime \cup ResultExport \cup LinkSnapshot \cup RunCatalogue


ResultsAfter(f, v) ==
  CASE v = 5 -> {StatusFilled(f, Identified(r)) : r \in f.results}
    [] v = 8 -> {IF IsIdentity(r.id)
                   THEN [r EXCEPT !.framework_id = OrElse(@, TheIdentity(r.id).framework_id)]
                   ELSE r : r \in f.results}
    [] OTHER -> f.results

PairsNamed(f) ==
  {<<r.run_id, r.evidence_id>> :
     r \in {r \in f.results : r.run_id # Blank /\ r.evidence_id # Blank}}

LinksAfter(f, v) ==
  CASE v = 2 -> Linked(f.links, {<<e.run_id, e.id>> : e \in f.evidence})
    [] v = 6 -> Linked(f.links, PairsNamed(f) \cup OnlyRun(f) \X {e.id : e \in f.evidence})
    [] v = 8 -> {SnapshotFilled(f, l) : l \in f.links}
    [] OTHER -> f.links

CatalogueAfter(f, v) ==
  IF v = 8 THEN <<f.framework_links \cup CataloguedFrameworks(f),
                  f.control_links \cup CataloguedControls(f)>>
           ELSE <<f.framework_links, f.control_links>>

NotNullAfter(f, v) ==
  IF v = 1 THEN f.scores_not_null \/ "score_summaries" \notin TablesOf(f) ELSE f.scores_not_null

Fields ==
  {"version", "ledger", "columns", "runs", "frameworks", "controls", "evidence", "results",
   "gaps", "links", "framework_links", "control_links", "scores", "scores_not_null"}

\* A file has these tables and no other.
LEMMA FileFields == \A f \in File : DOMAIN f = Fields
BY DEF File, Fields

\* What the body of a migration does, table by table.
LEMMA BodyFields ==
  ASSUME NEW f \in File, NEW v \in Packaged
  PROVE  /\ DOMAIN Body(f, v) = Fields
         /\ \A t \in Fields \ {"columns", "results", "links", "framework_links", "control_links",
                               "scores_not_null"} : Body(f, v)[t] = f[t]
         /\ Body(f, v).columns = f.columns \cup Added(f, v)
         /\ Body(f, v).results = ResultsAfter(f, v)
         /\ Body(f, v).links = LinksAfter(f, v)
         /\ Body(f, v).framework_links = CatalogueAfter(f, v)[1]
         /\ Body(f, v).control_links = CatalogueAfter(f, v)[2]
         /\ Body(f, v).scores_not_null = NotNullAfter(f, v)
<1>. DOMAIN f = Fields
  BY FileFields
<1>1. CASE v = 1
  <2>1. Body(f, v) = [f EXCEPT !.columns = f.columns \cup Added(f, v), !.scores_not_null = NotNullAfter(f, v)]
    BY <1>1 DEF InitialSchema, Body, Added, NotNullAfter
  <2>2. /\ ResultsAfter(f, v) = f.results
        /\ LinksAfter(f, v) = f.links
        /\ CatalogueAfter(f, v)[1] = f.framework_links
        /\ CatalogueAfter(f, v)[2] = f.control_links
    BY <1>1 DEF CatalogueAfter, LinksAfter, ResultsAfter
  <2>3. /\ DOMAIN Body(f, v) = Fields
        /\ \A t \in Fields \ {"columns", "scores_not_null"} : Body(f, v)[t] = f[t]
    BY <2>1
  <2>4. /\ Body(f, v).columns = f.columns \cup Added(f, v)
        /\ Body(f, v).scores_not_null = NotNullAfter(f, v)
    BY <2>1 DEF Fields
  <2>. QED  BY <1>1, <2>2, <2>3, <2>4 DEF Fields
<1>2. CASE v = 2
  <2>1. Body(f, v) = [f EXCEPT !.columns = f.columns \cup Added(f, v), !.links = LinksAfter(f, v)]
    BY <1>2 DEF RunEvidenceLinks, Body, Added, LinksAfter
  <2>2. /\ ResultsAfter(f, v) = f.results
        /\ CatalogueAfter(f, v)[1] = f.framework_links
        /\ CatalogueAfter(f, v)[2] = f.control_links
        /\ NotNullAfter(f, v) = f.scores_not_null
    BY <1>2 DEF CatalogueAfter, NotNullAfter, ResultsAfter
  <2>3. /\ DOMAIN Body(f, v) = Fields
        /\ \A t \in Fields \ {"columns", "links"} : Body(f, v)[t] = f[t]
    BY <2>1
  <2>4. /\ Body(f, v).columns = f.columns \cup Added(f, v)
        /\ Body(f, v).links = LinksAfter(f, v)
    BY <2>1 DEF Fields
  <2>. QED  BY <1>2, <2>2, <2>3, <2>4 DEF Fields
<1>3. CASE v = 3
  <2>1. Body(f, v) = [f EXCEPT !.columns = f.columns \cup Added(f, v)]
    BY <1>3 DEF GapQueryFilters, Body, Added
  <2>2. /\ ResultsAfter(f, v) = f.results
        /\ LinksAfter(f, v) = f.links
        /\ CatalogueAfter(f, v)[1] = f.framework_links
        /\ CatalogueAfter(f, v)[2] = f.control_links
        /\ NotNullAfter(f, v) = f.scores_not_null
    BY <1>3 DEF CatalogueAfter, LinksAfter, NotNullAfter, ResultsAfter
  <2>3. /\ DOMAIN Body(f, v) = Fields
        /\ \A t \in Fields \ {"columns"} : Body(f, v)[t] = f[t]
    BY <2>1
  <2>4. /\ Body(f, v).columns = f.columns \cup Added(f, v)
    BY <2>1 DEF Fields
  <2>. QED  BY <1>3, <2>2, <2>3, <2>4 DEF Fields
<1>4. CASE v = 4
  <2>1. Body(f, v) = [f EXCEPT !.columns = f.columns \cup Added(f, v)]
    BY <1>4 DEF EvidenceLocators, Body, Added
  <2>2. /\ ResultsAfter(f, v) = f.results
        /\ LinksAfter(f, v) = f.links
        /\ CatalogueAfter(f, v)[1] = f.framework_links
        /\ CatalogueAfter(f, v)[2] = f.control_links
        /\ NotNullAfter(f, v) = f.scores_not_null
    BY <1>4 DEF CatalogueAfter, LinksAfter, NotNullAfter, ResultsAfter
  <2>3. /\ DOMAIN Body(f, v) = Fields
        /\ \A t \in Fields \ {"columns"} : Body(f, v)[t] = f[t]
    BY <2>1
  <2>4. /\ Body(f, v).columns = f.columns \cup Added(f, v)
    BY <2>1 DEF Fields
  <2>. QED  BY <1>4, <2>2, <2>3, <2>4 DEF Fields
<1>5. CASE v = 5
  <2>0. /\ Body(f, v) = ResultQueryFilters(f)
        /\ f.columns \cup Added(f, v) = f.columns \cup ResultSubject \cup ResultRun \cup Locator
    BY <1>5 DEF Body, Added
  <2>results. ResultsAfter(f, v) = {StatusFilled(f, Identified(r)) : r \in f.results}
    BY <1>5 DEF ResultsAfter
  <2>1. Body(f, v) = [f EXCEPT !.columns = f.columns \cup Added(f, v), !.results = ResultsAfter(f, v)]
    BY <2>0, <2>results, Zenon DEF ResultQueryFilters
  <2>2. /\ LinksAfter(f, v) = f.links
        /\ CatalogueAfter(f, v)[1] = f.framework_links
        /\ CatalogueAfter(f, v)[2] = f.control_links
        /\ NotNullAfter(f, v) = f.scores_not_null
    BY <1>5 DEF CatalogueAfter, LinksAfter, NotNullAfter
  <2>3. /\ DOMAIN Body(f, v) = Fields
        /\ \A t \in Fields \ {"columns", "results"} : Body(f, v)[t] = f[t]
    BY <2>1
  <2>4. /\ Body(f, v).columns = f.columns \cup Added(f, v)
        /\ Body(f, v).results = ResultsAfter(f, v)
    BY <2>1 DEF Fields
  <2>. QED  BY <1>5, <2>2, <2>3, <2>4 DEF Fields
<1>6. CASE v = 6
  <2>1. Body(f, v) = [f EXCEPT !.columns = f.columns \cup Added(f, v), !.links = LinksAfter(f, v)]
    BY <1>6 DEF RunEvidenceIndex, Body, Added, LinksAfter, PairsNamed
  <2>2. /\ ResultsAfter(f, v) = f.results
        /\ CatalogueAfter(f, v)[1] = f.framework_links
        /\ CatalogueAfter(f, v)[2] = f.control_links
        /\ NotNullAfter(f, v) = f.scores_not_null
    BY <1>6 DEF CatalogueAfter, NotNullAfter, ResultsAfter
  <2>3. /\ DOMAIN Body(f, v) = Fields
        /\ \A t \in Fields \ {"columns", "links"} : Body(f, v)[t] = f[t]
    BY <2>1
  <2>4. /\ Body(f, v).columns = f.columns \cup Added(f, v)
        /\ Body(f, v).links = LinksAfter(f, v)
    BY <2>1 DEF Fields
  <2>. QED  BY <1>6, <2>2, <2>3, <2>4 DEF Fields
<1>7. CASE v = 7
  <2>1. Body(f, v) = [f EXCEPT !.columns = f.columns \cup Added(f, v)]
    BY <1>7 DEF EvidenceClassifications, Body, Added
  <2>2. /\ ResultsAfter(f, v) = f.results
        /\ LinksAfter(f, v) = f.links
        /\ CatalogueAfter(f, v)[1] = f.framework_links
        /\ CatalogueAfter(f, v)[2] = f.control_links
        /\ NotNullAfter(f, v) = f.scores_not_null
    BY <1>7 DEF CatalogueAfter, LinksAfter, NotNullAfter, ResultsAfter
  <2>3. /\ DOMAIN Body(f, v) = Fields
        /\ \A t \in Fields \ {"columns"} : Body(f, v)[t] = f[t]
    BY <2>1
  <2>4. /\ Body(f, v).columns = f.columns \cup Added(f, v)
    BY <2>1 DEF Fields
  <2>. QED  BY <1>7, <2>2, <2>3, <2>4 DEF Fields
<1>8. CASE v = 8
  <2>0. /\ Body(f, v) = ExportReconstruction(f)
        /\ f.columns \cup Added(f, v) = f.columns \cup RunTime \cup ResultExport \cup LinkSnapshot \cup RunCatalogue
    BY <1>8 DEF Body, Added
  <2>results. ResultsAfter(f, v) = {IF IsIdentity(r.id)
                           THEN [r EXCEPT !.framework_id = OrElse(@, TheIdentity(r.id).framework_id)]
                           ELSE r : r \in f.results}
    BY <1>8 DEF ResultsAfter
  <2>framework_links. CatalogueAfter(f, v)[1] = f.framework_links \cup CataloguedFrameworks(f)
    BY <1>8 DEF CatalogueAfter
  <2>control_links. CatalogueAfter(f, v)[2] = f.control_links \cup CataloguedControls(f)
    BY <1>8 DEF CatalogueAfter
  <2>links. LinksAfter(f, v) = {SnapshotFilled(f, l) : l \in f.links}
    BY <1>8 DEF LinksAfter
  <2>1. Body(f, v) = [f EXCEPT !.columns = f.columns \cup Added(f, v), !.results = ResultsAfter(f, v), !.framework_links = CatalogueAfter(f, v)[1], !.control_links = CatalogueAfter(f, v)[2], !.links = LinksAfter(f, v)]
    BY <2>0, <2>results, <2>framework_links, <2>control_links, <2>links, Zenon DEF ExportReconstruction
  <2>2. /\ NotNullAfter(f, v) = f.scores_not_null
    BY <1>8 DEF NotNullAfter
  <2>3. /\ DOMAIN Body(f, v) = Fields
        /\ \A t \in Fields \ {"columns", "results", "framework_links", "control_links", "links"} : Body(f, v)[t] = f[t]
    BY <2>1
  <2>4. /\ Body(f, v).columns = f.columns \cup Added(f, v)
        /\ Body(f, v).results = ResultsAfter(f, v)
        /\ Body(f, v).framework_links = CatalogueAfter(f, v)[1]
        /\ Body(f, v).control_links = CatalogueAfter(f, v)[2]
        /\ Body(f, v).links = LinksAfter(f, v)
    BY <2>1 DEF Fields
  <2>. QED  BY <1>8, <2>2, <2>3, <2>4 DEF Fields
<1>. QED  BY <1>1, <1>2, <1>3, <1>4, <1>5, <1>6, <1>7, <1>8 DEF Packaged

\* A migration records itself, adds its columns, and leaves alone what it does
\* not backfill.
LEMMA MigratedFields ==
  ASSUME NEW f \in File, NEW v \in Packaged
  PROVE  /\ DOMAIN Migrated(f, v) = Fields
         /\ Migrated(f, v) = [t \in Fields |-> Migrated(f, v)[t]]
         /\ Migrated(f, v).version = v
         /\ Migrated(f, v).ledger = f.ledger \cup {v}
         /\ Migrated(f, v).columns = f.columns \cup Added(f, v)
         /\ \A t \in {"runs", "frameworks", "controls", "evidence", "gaps", "scores"} :
              Migrated(f, v)[t] = f[t]
         /\ Migrated(f, v).results = ResultsAfter(f, v)
         /\ Migrated(f, v).links = LinksAfter(f, v)
         /\ Migrated(f, v).framework_links = CatalogueAfter(f, v)[1]
         /\ Migrated(f, v).control_links = CatalogueAfter(f, v)[2]
         /\ Migrated(f, v).scores_not_null = NotNullAfter(f, v)
<1>1. /\ DOMAIN Body(f, v) = Fields
      /\ Body(f, v).ledger = f.ledger
  BY BodyFields DEF Fields
<1>2. ASSUME NEW b, b = Body(f, v)
      PROVE  /\ DOMAIN Migrated(f, v) = Fields
             /\ Migrated(f, v) = [t \in Fields |-> Migrated(f, v)[t]]
             /\ Migrated(f, v).version = v
             /\ Migrated(f, v).ledger = b.ledger \cup {v}
             /\ \A t \in Fields \ {"version", "ledger"} : Migrated(f, v)[t] = b[t]
  <2>1. DOMAIN b = Fields
    BY <1>1, <1>2
  <2>2. Migrated(f, v) = [b EXCEPT !.ledger = @ \cup {v}, !.version = v]
    BY <1>2 DEF Migrated
  <2>. QED  BY <2>1, <2>2 DEF Fields
<1>3. /\ DOMAIN Migrated(f, v) = Fields
      /\ Migrated(f, v) = [t \in Fields |-> Migrated(f, v)[t]]
      /\ Migrated(f, v).version = v
      /\ Migrated(f, v).ledger = Body(f, v).ledger \cup {v}
      /\ \A t \in Fields \ {"version", "ledger"} : Migrated(f, v)[t] = Body(f, v)[t]
  BY <1>2
<1>4. /\ Migrated(f, v).columns = Body(f, v).columns
      /\ Migrated(f, v).results = Body(f, v).results
      /\ Migrated(f, v).links = Body(f, v).links
      /\ Migrated(f, v).framework_links = Body(f, v).framework_links
      /\ Migrated(f, v).control_links = Body(f, v).control_links
      /\ Migrated(f, v).scores_not_null = Body(f, v).scores_not_null
      /\ \A t \in {"runs", "frameworks", "controls", "evidence", "gaps", "scores"} :
           Migrated(f, v)[t] = Body(f, v)[t]
  BY <1>3 DEF Fields
<1>5. \A t \in {"runs", "frameworks", "controls", "evidence", "gaps", "scores"} :
        Body(f, v)[t] = f[t]
  BY BodyFields DEF Fields
<1>. QED  BY <1>1, <1>3, <1>4, <1>5, BodyFields

-----------------------------------------------------------------------------
(***************************************************************************)
(* Types.                                                                  *)
(***************************************************************************)

\* A text is read as one of the names, or as Unknown.
LEMMA NamedType ==
  ASSUME NEW text
  PROVE  Named(text) \in STRING
<1>1. CASE \E n \in DOMAIN Spelling : Spelling[n] = text
  <2>1. Named(text) = CHOOSE n \in DOMAIN Spelling : Spelling[n] = text
    BY <1>1 DEF Named
  <2>2. Named(text) \in DOMAIN Spelling
    BY <1>1, <2>1
  <2>. QED  BY <2>2, SpellingAssumption
<1>2. CASE ~ \E n \in DOMAIN Spelling : Spelling[n] = text
  <2>1. Named(text) = Unknown
    BY <1>2, Zenon DEF Named
  <2>. QED  BY <2>1, LiteralsAssumption
<1>. QED  BY <1>1, <1>2

\* What a result's id says it is of is four texts.
LEMMA IdentityType ==
  ASSUME NEW id \in ResultIds
  PROVE  \A i \in IdentitiesIn[id] :
           /\ i.run_id \in STRING /\ i.framework_id \in STRING
           /\ i.control_id \in STRING /\ i.rule_id \in STRING
BY NamedType DEF IdentitiesIn

\* What a decoded id names are texts.
LEMMA TheIdentityType ==
  ASSUME NEW id \in ResultIds, IsIdentity(id)
  PROVE  /\ TheIdentity(id).run_id \in STRING /\ TheIdentity(id).framework_id \in STRING
         /\ TheIdentity(id).control_id \in STRING /\ TheIdentity(id).rule_id \in STRING
BY IdentityType DEF IsIdentity, TheIdentity

\* A value that is there is kept.
LEMMA OrElseKeeps ==
  ASSUME NEW value \in STRING, NEW default \in STRING
  PROVE  /\ OrElse(value, default) \in STRING
         /\ value # Blank => OrElse(value, default) = value
BY DEF OrElse

\* Migration 5 recovers the run of a result, and fills in what is blank.
LEMMA IdentifiedType ==
  ASSUME NEW r \in ResultRow
  PROVE  /\ Identified(r) \in ResultRow
         /\ \A field \in {"id", "status", "evidence_id", "framework_id"} :
              Identified(r)[field] = r[field]
         /\ \A field \in {"control_id", "rule_id"} :
              r[field] # Blank => Identified(r)[field] = r[field]
<1>1. CASE IsIdentity(r.id)
  <2>1. PICK i : /\ i = TheIdentity(r.id)
                 /\ i.run_id \in STRING /\ i.control_id \in STRING /\ i.rule_id \in STRING
    BY <1>1, TheIdentityType DEF ResultRow
  <2>2. r.control_id \in STRING /\ r.rule_id \in STRING
    BY DEF ResultRow
  <2>3. PICK control \in STRING : /\ control = OrElse(r.control_id, i.control_id)
                                  /\ r.control_id # Blank => control = r.control_id
    BY <2>1, <2>2, OrElseKeeps
  <2>4. PICK rule \in STRING : /\ rule = OrElse(r.rule_id, i.rule_id)
                               /\ r.rule_id # Blank => rule = r.rule_id
    BY <2>1, <2>2, OrElseKeeps
  <2>5. PICK run \in STRING : run = i.run_id
    BY <2>1
  <2>6. Identified(r) = [r EXCEPT !.run_id = run, !.control_id = control, !.rule_id = rule]
    BY <1>1, <2>1, <2>3, <2>4, <2>5 DEF Identified
  <2>. QED  BY <2>3, <2>4, <2>6 DEF ResultRow
<1>2. CASE ~IsIdentity(r.id)
  BY <1>2 DEF Identified
<1>. QED  BY <1>1, <1>2

\* A set of numbers that is not empty has a least one.
LEMMA LeastNumber ==
  ASSUME NEW S \in SUBSET Nat, S # {}
  PROVE  \E n \in S : \A m \in S : n <= m
<1>. DEFINE below == {0 .. n : n \in S}
<1>1. below \subseteq FiniteSubsetsOf(Nat) /\ below # {}
  <2>1. \A n \in S : 0 .. n \in SUBSET Nat /\ IsFiniteSet(0 .. n)
    BY FS_Interval
  <2>. QED  BY <2>1 DEF FiniteSubsetsOf
<1>2. PICK least \in below : \A b \in below : ~ (<<b, least>> \in StrictSubsetOrdering(Nat))
  <2>. HIDE DEF below
  <2>. QED  BY <1>1, FS_StrictSubsetOrderingWellFounded, WFMin
<1>3. PICK n \in S : least = 0 .. n
  BY <1>2
<1>4. ASSUME NEW m \in S, ~(n <= m)
      PROVE  FALSE
  <2>1. 0 .. m \subseteq 0 .. n /\ n \in 0 .. n /\ n \notin 0 .. m
    BY <1>4
  <2>2. <<0 .. m, 0 .. n>> \in StrictSubsetOrdering(Nat)
    BY <2>1 DEF StrictSubsetOrdering
  <2>. QED  BY <1>2, <1>3, <2>2
<1>. QED  BY <1>4

\* A set of gaps that is not empty has a first one.
LEMMA FirstGap ==
  ASSUME NEW f \in File, NEW gaps \in SUBSET f.gaps, gaps # {}
  PROVE  \E g \in gaps : \A h \in gaps : g.id <= h.id
<1>. DEFINE ids == {g.id : g \in gaps}
<1>1. ids \in SUBSET Nat /\ ids # {}
  BY DEF File
<1>2. PICK n \in ids : \A m \in ids : n <= m
  <2>. HIDE DEF ids
  <2>. QED  BY <1>1, LeastNumber
<1>. QED  BY <1>2

\* The status of a gap is only taken where there is none.
LEMMA StatusFilledType ==
  ASSUME NEW f \in File, NEW r \in ResultRow
  PROVE  /\ StatusFilled(f, r) \in ResultRow
         /\ \A field \in {"id", "run_id", "control_id", "rule_id", "evidence_id", "framework_id"} :
              StatusFilled(f, r)[field] = r[field]
         /\ r.status # Blank => StatusFilled(f, r).status = r.status
<1>. DEFINE gaps == GapsOf(f, r)
<1>1. CASE r.status = Blank /\ gaps # {}
  <2>1. gaps \subseteq f.gaps
    BY DEF GapsOf
  <2>2. PICK first \in gaps : first = CHOOSE g \in gaps : \A h \in gaps : g.id <= h.id
    <3>. HIDE DEF gaps
    <3>1. \E g \in gaps : \A h \in gaps : g.id <= h.id
      BY <1>1, <2>1, FirstGap
    <3>. QED  BY <3>1
  <2>3. first.status \in STRING
    BY <2>1 DEF File
  <2>4. StatusFilled(f, r) = [r EXCEPT !.status = first.status]
    BY <1>1, <2>2 DEF StatusFilled
  <2>. QED  BY <1>1, <2>3, <2>4 DEF ResultRow
<1>2. CASE ~(r.status = Blank /\ gaps # {})
  BY <1>2 DEF StatusFilled
<1>. QED  BY <1>1, <1>2

\* The framework that migration 8 reads from a result's id.
Framed(r) ==
  IF IsIdentity(r.id)
    THEN [r EXCEPT !.framework_id = OrElse(@, TheIdentity(r.id).framework_id)] ELSE r

\* Filling a framework in changes nothing else of a result.
LEMMA FramedType ==
  ASSUME NEW r \in ResultRow
  PROVE  /\ Framed(r) \in ResultRow
         /\ \A field \in {"id", "run_id", "control_id", "rule_id", "status", "evidence_id"} :
              Framed(r)[field] = r[field]
         /\ r.framework_id # Blank => Framed(r).framework_id = r.framework_id
<1>1. CASE IsIdentity(r.id)
  <2>1. PICK framework \in STRING : framework = OrElse(r.framework_id, TheIdentity(r.id).framework_id)
    BY <1>1, TheIdentityType, OrElseKeeps DEF ResultRow
  <2>2. Framed(r) = [r EXCEPT !.framework_id = framework]
    BY <1>1, <2>1 DEF Framed
  <2>3. r.framework_id # Blank => framework = r.framework_id
    BY <2>1 DEF OrElse
  <2>. QED  BY <2>2, <2>3 DEF ResultRow
<1>2. CASE ~IsIdentity(r.id)
  BY <1>2 DEF Framed
<1>. QED  BY <1>1, <1>2

\* The image of a finite set is finite.
LEMMA FiniteImage ==
  ASSUME NEW S, IsFiniteSet(S), NEW T, NEW g \in [S -> T]
  PROVE  IsFiniteSet({g[x] : x \in S})
<1>1. g \in Surjection(S, {g[x] : x \in S})
  BY DEF Surjection
<1>. QED  BY <1>1, FS_Surjection

\* Migrations change the fields of a result that they recover, and no result
\* goes or comes.
LEMMA ResultsAfterType ==
  ASSUME NEW f \in File, NEW v \in Packaged
  PROVE  /\ ResultsAfter(f, v) \subseteq ResultRow
         /\ IsFiniteSet(f.results) => IsFiniteSet(ResultsAfter(f, v))
<1>. f.results \subseteq ResultRow
  BY DEF File
<1>1. CASE v = 5
  <2>. DEFINE filled == [r \in f.results |-> StatusFilled(f, Identified(r))]
  <2>1. ResultsAfter(f, v) = {filled[r] : r \in f.results}
    <3>1. ResultsAfter(f, v) = {StatusFilled(f, Identified(r)) : r \in f.results}
      BY <1>1 DEF ResultsAfter
    <3>. QED  BY <3>1
  <2>2. filled \in [f.results -> ResultRow]
    BY IdentifiedType, StatusFilledType
  <2>. HIDE DEF filled
  <2>3. IsFiniteSet(f.results) => IsFiniteSet({filled[r] : r \in f.results})
    BY <2>2, FiniteImage
  <2>. QED  BY <2>1, <2>2, <2>3
<1>2. CASE v = 8
  <2>. DEFINE framed == [r \in f.results |-> Framed(r)]
  <2>1. ResultsAfter(f, v) = {framed[r] : r \in f.results}
    <3>1. ResultsAfter(f, v) = {Framed(r) : r \in f.results}
      BY <1>2 DEF ResultsAfter, Framed
    <3>. QED  BY <3>1
  <2>2. framed \in [f.results -> ResultRow]
    BY FramedType
  <2>. HIDE DEF framed
  <2>3. IsFiniteSet(f.results) => IsFiniteSet({framed[r] : r \in f.results})
    BY <2>2, FiniteImage
  <2>. QED  BY <2>1, <2>2, <2>3
<1>3. CASE v \notin {5, 8}
  BY <1>3 DEF ResultsAfter
<1>. QED  BY <1>1, <1>2, <1>3

LinkRow == [run_id : STRING, evidence_id : STRING, digest : STRING]

\* New links have no digest yet, and a digest is that of an evidence row.
LEMMA LinksAfterType ==
  ASSUME NEW f \in File, NEW v \in Packaged
  PROVE  LinksAfter(f, v) \subseteq LinkRow
<1>. f.links \subseteq LinkRow
  BY DEF File, LinkRow
<1>. \A e \in f.evidence : e.id \in STRING /\ e.run_id \in STRING /\ e.digest \in STRING
  BY DEF File
<1>1. ASSUME NEW pairs \in SUBSET (STRING \X STRING)
      PROVE  Linked(f.links, pairs) \subseteq LinkRow
  BY LiteralsAssumption DEF Linked, LinkRow
<1>2. CASE v = 2
  <2>1. {<<e.run_id, e.id>> : e \in f.evidence} \subseteq STRING \X STRING
    OBVIOUS
  <2>. QED  BY <1>1, <1>2, <2>1 DEF LinksAfter
<1>3. CASE v = 6
  <2>1. PairsNamed(f) \subseteq STRING \X STRING
    BY DEF PairsNamed, File, ResultRow
  <2>2. OnlyRun(f) \X {e.id : e \in f.evidence} \subseteq STRING \X STRING
    BY DEF OnlyRun, File
  <2>. QED  BY <1>1, <1>3, <2>1, <2>2 DEF LinksAfter
<1>4. CASE v = 8
  <2>1. ASSUME NEW l \in f.links
        PROVE  SnapshotFilled(f, l) \in LinkRow
    BY DEF SnapshotFilled, LinkRow
  <2>. QED  BY <1>4, <2>1 DEF LinksAfter
<1>5. CASE v \notin {2, 6, 8}
  BY <1>5 DEF LinksAfter
<1>. QED  BY <1>2, <1>3, <1>4, <1>5

\* The catalogue is completed from the ids of the results, or for the only run
\* there is.
LEMMA CatalogueAfterType ==
  ASSUME NEW f \in File, NEW v \in Packaged
  PROVE  /\ CatalogueAfter(f, v)[1] \subseteq STRING \X STRING
         /\ CatalogueAfter(f, v)[2] \subseteq STRING \X STRING \X STRING
         /\ f.framework_links \subseteq CatalogueAfter(f, v)[1]
         /\ f.control_links \subseteq CatalogueAfter(f, v)[2]
<1>1. EncodedControls(f) \subseteq STRING \X STRING \X STRING
  <2>1. ASSUME NEW r \in f.results, NEW i \in IdentitiesIn[r.id]
        PROVE  <<OrElse(r.run_id, i.run_id), i.framework_id, OrElse(r.control_id, i.control_id)>>
                 \in STRING \X STRING \X STRING
    <3>1. r.id \in ResultIds /\ r.run_id \in STRING /\ r.control_id \in STRING
      BY DEF File, ResultRow
    <3>2. i.run_id \in STRING /\ i.framework_id \in STRING /\ i.control_id \in STRING
      BY <3>1, IdentityType
    <3>. QED  BY <3>1, <3>2, OrElseKeeps
  <2>. QED  BY <2>1 DEF EncodedControls
<1>2. /\ OnlyRun(f) \subseteq STRING
      /\ f.frameworks \subseteq STRING
      /\ f.controls \subseteq STRING
      /\ f.framework_links \subseteq STRING \X STRING
      /\ f.control_links \subseteq STRING \X STRING \X STRING
  BY DEF File, OnlyRun
<1>3. CataloguedFrameworks(f) \subseteq STRING \X STRING
  <2>1. {<<c[1], c[2]>> : c \in {c \in EncodedControls(f) : c[2] # Blank}} \subseteq STRING \X STRING
    BY <1>1
  <2>. QED  BY <1>2, <2>1 DEF CataloguedFrameworks
<1>4. CataloguedControls(f) \subseteq STRING \X STRING \X STRING
  BY <1>1, <1>2 DEF CataloguedControls
<1>. QED  BY <1>2, <1>3, <1>4 DEF CatalogueAfter

\* A migration leaves a file.
LEMMA MigratedType ==
  ASSUME NEW f \in File, IsFiniteSet(f.results), NEW v \in Packaged
  PROVE  Migrated(f, v) \in File /\ IsFiniteSet(Migrated(f, v).results)
<1>1. v \in Nat
  BY DEF Packaged
<1>2. f.columns \cup Added(f, v) \subseteq CurrentColumns \cup EvidenceOwner \cup ScoreId \cup ScoreColumns
  <2>1. Added(f, v) \subseteq CurrentColumns \cup ScoreId \cup ScoreColumns
    BY DEF Added, Packaged, CurrentColumns
  <2>. QED  BY <2>1 DEF File
<1>3. NotNullAfter(f, v) \in BOOLEAN
  BY DEF NotNullAfter, File
<1>4. Migrated(f, v) = [t \in Fields |-> Migrated(f, v)[t]]
  BY MigratedFields
<1>5. PICK g : g = Migrated(f, v)
  OBVIOUS
<1>6. /\ g = [t \in Fields |-> g[t]]
      /\ g.version = v /\ g.ledger = f.ledger \cup {v}
      /\ g.runs = f.runs /\ g.frameworks = f.frameworks /\ g.controls = f.controls
      /\ g.evidence = f.evidence /\ g.gaps = f.gaps /\ g.scores = f.scores
  BY <1>4, <1>5, MigratedFields
<1>7. /\ g.columns \subseteq CurrentColumns \cup EvidenceOwner \cup ScoreId \cup ScoreColumns
      /\ g.scores_not_null \in BOOLEAN
  BY <1>2, <1>3, <1>5, MigratedFields
<1>8. /\ g.results \subseteq ResultRow /\ IsFiniteSet(g.results)
      /\ g.links \subseteq LinkRow
      /\ g.framework_links \subseteq STRING \X STRING
      /\ g.control_links \subseteq STRING \X STRING \X STRING
  BY <1>5, MigratedFields, ResultsAfterType, LinksAfterType, CatalogueAfterType
<1>9. g \in File
  BY <1>1, <1>6, <1>7, <1>8 DEF File, Fields, LinkRow
<1>. QED  BY <1>5, <1>8, <1>9

-----------------------------------------------------------------------------
(***************************************************************************)
(* What an open handle does to a file.                                     *)
(***************************************************************************)
ScoreRows ==
  [id : Seq(STRING), run_id : STRING, framework_id : STRING, counts : Seq(Nat)]

\* The counts of a score row are numbers.
LEMMA ScoreRowType ==
  ASSUME NEW results, IsFiniteSet(results), NEW run \in STRING, NEW framework \in STRING
  PROVE  /\ ScoreRow(results, run, framework) \in ScoreRows
         /\ ScoreRow(results, run, framework).id = <<run, framework>>
<1>1. CountsOf(results, run, framework) \in Seq(Nat)
  <2>. DEFINE Count(status) ==
         Cardinality({r \in results : /\ r.run_id = run /\ r.framework_id = framework
                                      /\ r.status = status})
  <2>1. \A status : Count(status) \in Nat
    BY FS_Subset, FS_CardinalityType
  <2>2. CountsOf(results, run, framework) = <<Count("PASS"), Count("FAIL"), Count("WARNING")>>
    BY DEF CountsOf
  <2>. HIDE DEF Count
  <2>. QED  BY <2>1, <2>2
<1>2. PICK counts \in Seq(Nat) : counts = CountsOf(results, run, framework)
  BY <1>1
<1>3. ScoreRow(results, run, framework) =
        [id |-> <<run, framework>>, run_id |-> run, framework_id |-> framework, counts |-> counts]
  BY <1>2 DEF ScoreRow
<1>. QED  BY <1>3 DEF ScoreRows

\* A repair changes the score table only.
LEMMA RepairedFields ==
  ASSUME NEW f \in File
  PROVE  /\ DOMAIN ScoresRepaired(f) = Fields
         /\ ScoresRepaired(f) = [t \in Fields |-> ScoresRepaired(f)[t]]
         /\ ScoresRepaired(f).columns = f.columns \cup ScoreColumns
         /\ ScoresRepaired(f).scores = Recounted(f).scores
         /\ ScoresRepaired(f).scores_not_null = TRUE
         /\ \A t \in Fields \ {"columns", "scores", "scores_not_null"} :
              ScoresRepaired(f)[t] = f[t]
<1>1. /\ DOMAIN Recounted(f) = Fields
      /\ \A t \in Fields \ {"scores"} : Recounted(f)[t] = f[t]
  <2>1. ASSUME NEW scores
        PROVE  LET g == [f EXCEPT !.scores = scores]
               IN  DOMAIN g = Fields /\ \A t \in Fields \ {"scores"} : g[t] = f[t]
    BY FileFields DEF Fields
  <2>. QED  BY <2>1, FileFields DEF Recounted, ScoresBackfilled
<1>2. PICK g : g = Recounted(f)
  OBVIOUS
<1>3. DOMAIN g = Fields /\ \A t \in Fields \ {"scores"} : g[t] = f[t]
  BY <1>1, <1>2
<1>4. PICK h : h = ScoresRepaired(f)
  OBVIOUS
<1>5. h = [g EXCEPT !.columns = g.columns \cup ScoreColumns, !.scores_not_null = TRUE]
  BY <1>2, <1>4 DEF ScoresRepaired
<1>6. /\ DOMAIN h = Fields
      /\ h = [t \in Fields |-> h[t]]
      /\ h.columns = g.columns \cup ScoreColumns
      /\ h.scores_not_null = TRUE
      /\ \A t \in Fields \ {"columns", "scores_not_null"} : h[t] = g[t]
  BY <1>3, <1>5 DEF Fields
<1>7. g.columns = f.columns /\ h.scores = g.scores
  BY <1>3, <1>6 DEF Fields
<1>8. \A t \in Fields \ {"columns", "scores", "scores_not_null"} : h[t] = f[t]
  BY <1>3, <1>6
<1>. QED  BY <1>2, <1>4, <1>6, <1>7, <1>8

\* A recount keeps the rows without a NULL, or replaces them by rows of the same
\* id.
LEMMA RecountedScores ==
  ASSUME NEW f \in File, IsFiniteSet(f.results)
  PROVE  /\ Recounted(f).scores \subseteq ScoreRows
         /\ \A s \in f.scores : ~IsLegacyScore(s) => \E t \in Recounted(f).scores : t.id = s.id
<1>. f.scores \subseteq ScoreRows /\ f.results \subseteq ResultRow /\ DOMAIN f = Fields
  BY FileFields DEF File, ScoreRows
<1>1. CASE Recounted(f) = f
  BY <1>1
<1>2. CASE Recounted(f) # f
  <2>. DEFINE scored == {r \in f.results : r.run_id # Blank /\ r.framework_id # Blank}
              rows   == {ScoreRow(scored, r.run_id, r.framework_id) : r \in scored}
              kept   == {s \in f.scores : ~IsLegacyScore(s)}
  <2>1. Recounted(f) = [f EXCEPT !.scores = ScoresReplaced(kept, rows)]
    BY <1>2 DEF Recounted, ScoresBackfilled
  <2>2. Recounted(f).scores = ScoresReplaced(kept, rows)
    <3>. HIDE DEF kept, rows
    <3>. QED  BY <2>1 DEF Fields
  <2>3. rows \subseteq ScoreRows
    <3>1. IsFiniteSet(scored) /\ \A r \in scored : r.run_id \in STRING /\ r.framework_id \in STRING
      BY FS_Subset DEF ResultRow
    <3>. HIDE DEF scored
    <3>. QED  BY <3>1, ScoreRowType
  <2>. HIDE DEF rows
  <2>. QED  BY <2>2, <2>3 DEF ScoresReplaced
<1>. QED  BY <1>1, <1>2

\* A repair leaves a file.
LEMMA RepairedType ==
  ASSUME NEW f \in File, IsFiniteSet(f.results)
  PROVE  ScoresRepaired(f) \in File /\ IsFiniteSet(ScoresRepaired(f).results)
<1>1. PICK g : g = ScoresRepaired(f)
  OBVIOUS
<1>2. /\ g = [t \in Fields |-> g[t]]
      /\ g.columns = f.columns \cup ScoreColumns
      /\ g.scores \subseteq ScoreRows
      /\ g.scores_not_null = TRUE
      /\ \A t \in Fields \ {"columns", "scores", "scores_not_null"} : g[t] = f[t]
  BY <1>1, RepairedFields, RecountedScores
<1>3. g.results = f.results
  BY <1>2 DEF Fields
<1>4. g \in File
  BY <1>2 DEF File, Fields, ScoreRows
<1>. QED  BY <1>1, <1>3, <1>4

\* A write adds the rows of its run to a repaired file.
LEMMA WrittenFields ==
  ASSUME NEW f \in File, NEW run
  PROVE  LET g == RunWritten(f, run)
         IN  /\ DOMAIN g = Fields
             /\ g = [t \in Fields |-> g[t]]
             /\ g.version = f.version /\ g.ledger = f.ledger /\ g.gaps = f.gaps
             /\ g.columns = f.columns \cup ScoreColumns
             /\ g.runs = f.runs \cup {run}
             /\ g.frameworks = f.frameworks \cup {"f"}
             /\ g.controls = f.controls \cup {"c"}
             /\ g.evidence = f.evidence \cup {[id |-> run, run_id |-> run, digest |-> "d"]}
             /\ g.results = f.results \cup {NewResult(run)}
             /\ g.scores = ScoresReplaced(Recounted(f).scores, {ScoreRow({NewResult(run)}, run, "f")})
             /\ g.links = f.links \cup {[run_id |-> run, evidence_id |-> run, digest |-> "d"]}
             /\ g.framework_links = f.framework_links \cup {<<run, "f">>}
             /\ g.control_links = f.control_links \cup {<<run, "f", "c">>}
             /\ g.scores_not_null = TRUE
<1>1. PICK h : h = ScoresRepaired(f)
  OBVIOUS
<1>2. /\ DOMAIN h = Fields
      /\ h.columns = f.columns \cup ScoreColumns
      /\ h.scores = Recounted(f).scores
      /\ h.scores_not_null = TRUE
      /\ \A t \in Fields \ {"columns", "scores", "scores_not_null"} : h[t] = f[t]
  BY <1>1, RepairedFields
<1>3. PICK g : g = RunWritten(f, run)
  OBVIOUS
<1>4. PICK evidence, scores, links, flinks, clinks :
        /\ evidence = h.evidence \cup {[id |-> run, run_id |-> run, digest |-> "d"]}
        /\ scores = ScoresReplaced(h.scores, {ScoreRow({NewResult(run)}, run, "f")})
        /\ links = h.links \cup {[run_id |-> run, evidence_id |-> run, digest |-> "d"]}
        /\ flinks = h.framework_links \cup {<<run, "f">>}
        /\ clinks = h.control_links \cup {<<run, "f", "c">>}
  BY Zenon
<1>5. /\ DOMAIN g = Fields
      /\ g = [t \in Fields |-> g[t]]
      /\ g.version = h.version /\ g.ledger = h.ledger /\ g.gaps = h.gaps
      /\ g.columns = h.columns /\ g.scores_not_null = h.scores_not_null
      /\ g.runs = h.runs \cup {run}
      /\ g.frameworks = h.frameworks \cup {"f"} /\ g.controls = h.controls \cup {"c"}
      /\ g.evidence = evidence /\ g.results = h.results \cup {NewResult(run)}
      /\ g.scores = scores /\ g.links = links
      /\ g.framework_links = flinks /\ g.control_links = clinks
  <2>1. g = [h EXCEPT !.runs = h.runs \cup {run}, !.frameworks = h.frameworks \cup {"f"},
                      !.controls = h.controls \cup {"c"}, !.evidence = evidence,
                      !.results = h.results \cup {NewResult(run)}, !.scores = scores,
                      !.links = links, !.framework_links = flinks, !.control_links = clinks]
    BY <1>1, <1>3, <1>4, Zenon DEF RunWritten
  <2>. QED  BY <1>2, <2>1 DEF Fields
<1>6. /\ h.version = f.version /\ h.ledger = f.ledger /\ h.gaps = f.gaps /\ h.runs = f.runs
      /\ h.frameworks = f.frameworks /\ h.controls = f.controls /\ h.evidence = f.evidence
      /\ h.results = f.results /\ h.links = f.links
      /\ h.framework_links = f.framework_links /\ h.control_links = f.control_links
  BY <1>2 DEF Fields
<1>. QED  BY <1>2, <1>3, <1>4, <1>5, <1>6

\* A write leaves a file.
LEMMA WrittenType ==
  ASSUME NEW f \in File, IsFiniteSet(f.results), NEW o \in Opener
  PROVE  RunWritten(f, NewRun[o]) \in File /\ IsFiniteSet(RunWritten(f, NewRun[o]).results)
<1>. DEFINE run == NewRun[o]
            identity == [run_id |-> run, framework_id |-> "f", control_id |-> "c", rule_id |-> "k"]
<1>1. run \in STRING /\ identity \in Identities
  BY NewRunAssumption
<1>. HIDE DEF run
<1>2. NewResult(run) \in ResultRow
  <2>1. WrittenIds[identity] \in ResultIds
    BY <1>1 DEF WrittenIds, ResultIds
  <2>2. PICK id \in ResultIds : id = WrittenIds[identity]
    BY <2>1
  <2>3. NewResult(run) = [id |-> id, run_id |-> run, control_id |-> "c", rule_id |-> "k",
                          status |-> "PASS", evidence_id |-> run, framework_id |-> "f"]
    BY <2>2 DEF NewResult
  <2>. QED  BY <1>1, <2>3, LiteralsAssumption DEF ResultRow
<1>3. PICK g : g = RunWritten(f, run)
  OBVIOUS
<1>4. g.scores \subseteq ScoreRows
  <2>1. IsFiniteSet({NewResult(run)})
    BY FS_Singleton
  <2>2. ScoreRow({NewResult(run)}, run, "f") \in ScoreRows
    BY <1>1, <2>1, ScoreRowType, LiteralsAssumption
  <2>3. g.scores = ScoresReplaced(Recounted(f).scores, {ScoreRow({NewResult(run)}, run, "f")})
    BY <1>3, WrittenFields
  <2>. QED  BY <2>2, <2>3, RecountedScores DEF ScoresReplaced
<1>5. /\ g = [t \in Fields |-> g[t]]
      /\ g.version = f.version /\ g.ledger = f.ledger /\ g.gaps = f.gaps
      /\ g.columns = f.columns \cup ScoreColumns
      /\ g.runs = f.runs \cup {run}
      /\ g.frameworks = f.frameworks \cup {"f"}
      /\ g.controls = f.controls \cup {"c"}
      /\ g.scores_not_null = TRUE
  BY <1>3, WrittenFields
<1>6. g.results \subseteq ResultRow /\ IsFiniteSet(g.results)
  <2>1. g.results = f.results \cup {NewResult(run)}
    BY <1>3, WrittenFields
  <2>2. f.results \subseteq ResultRow
    BY DEF File
  <2>3. IsFiniteSet(f.results \cup {NewResult(run)})
    BY FS_AddElement
  <2>. QED  BY <1>2, <2>1, <2>2, <2>3, Zenon
<1>7. g.evidence \subseteq [id : STRING, run_id : STRING, digest : STRING]
  <2>1. g.evidence = f.evidence \cup {[id |-> run, run_id |-> run, digest |-> "d"]}
    BY <1>3, WrittenFields
  <2>. QED  BY <1>1, <2>1, LiteralsAssumption DEF File
<1>8. g.links \subseteq LinkRow
  <2>1. g.links = f.links \cup {[run_id |-> run, evidence_id |-> run, digest |-> "d"]}
    BY <1>3, WrittenFields
  <2>. QED  BY <1>1, <2>1, LiteralsAssumption DEF File, LinkRow
<1>9. /\ g.framework_links \subseteq STRING \X STRING
      /\ g.control_links \subseteq STRING \X STRING \X STRING
  <2>1. /\ g.framework_links = f.framework_links \cup {<<run, "f">>}
        /\ g.control_links = f.control_links \cup {<<run, "f", "c">>}
    BY <1>3, WrittenFields
  <2>. QED  BY <1>1, <2>1, LiteralsAssumption DEF File
<1>10. g \in File
  BY <1>1, <1>4, <1>5, <1>6, <1>7, <1>8, <1>9, LiteralsAssumption DEF File, Fields, LinkRow, ScoreRows
<1>. QED  BY <1>3, <1>6, <1>10, Zenon DEF run

-----------------------------------------------------------------------------
(***************************************************************************)
(* The variables have their types.                                         *)
(***************************************************************************)

\* What a step may do to the file.
LEMMA FileSteps ==
  ASSUME [Next]_vars
  PROVE  \/ file' = file
         \/ \E o \in Opener : \/ Migrate(o)
                              \/ RepairScores(o)
                              \/ Write(o)
BY DEF Next, OpenStep, vars, CheckLedger, ReadVersion, CheckApplicable, TakeLock, BusyTimeout,
       SkipMigration, MigrationFails, ReadFinalVersion, Validate, RejectInvalid, RepairRefused,
       RejectNewer, StartMigrations, StatementFails, Crash, Close, FindScoresOutdated, End

\* Every step leaves a file that is one.
LEMMA FileType ==
  ASSUME TypeOK, IsFiniteSet(file.results), [Next]_vars
  PROVE  file' \in File /\ IsFiniteSet(file'.results)
<1>1. CASE file' = file
  BY <1>1 DEF TypeOK
<1>2. ASSUME NEW o \in Opener, Migrate(o)
      PROVE  file' \in File /\ IsFiniteSet(file'.results)
  BY <1>2, MigratedType DEF Migrate, TypeOK
<1>3. ASSUME NEW o \in Opener, RepairScores(o)
      PROVE  file' \in File /\ IsFiniteSet(file'.results)
  BY <1>3, RepairedType DEF RepairScores, TypeOK
<1>4. ASSUME NEW o \in Opener, Write(o)
      PROVE  file' \in File /\ IsFiniteSet(file'.results)
  BY <1>4, WrittenType DEF Write, TypeOK
<1>. QED  BY <1>1, <1>2, <1>3, <1>4, FileSteps

\* All but the file.
StepsTyped ==
  /\ origin \in Origins
  /\ lock \in Opener \cup {Nobody}
  /\ pc \in [Opener -> Steps]
  /\ version \in [Opener -> Packaged]
  /\ seen \in [Opener -> Nat]
  /\ outcome \in [Opener -> Outcomes]
  /\ written \in BOOLEAN
  /\ \A o \in Opener : pc[o] = "migrate" <=> lock = o

\* Every step leaves the openers with the types of their variables, and only the
\* holder of the lock migrates.
LEMMA StepsType ==
  ASSUME TypeOK, [Next]_vars
  PROVE  StepsTyped'
<1>. USE DEF StepsTyped, TypeOK
<1>1. CASE UNCHANGED vars
  BY <1>1 DEF vars
<1>2. ASSUME NEW o \in Opener, NextMigration(o)
      PROVE  /\ pc' \in [Opener -> Steps] /\ version' \in [Opener -> Packaged]
             /\ pc'[o] # "migrate" /\ \A other \in Opener \ {o} : pc'[other] = pc[other]
  BY <1>2 DEF NextMigration, Goto, Steps, Packaged
<1>3. ASSUME NEW o \in Opener, NEW result \in Outcomes, End(o, result)
      PROVE  StepsTyped'
  BY <1>3, NobodyAssumption DEF End, Goto, Steps, Packaged
<1>4. ASSUME NEW o \in Opener, RejectNewer(o) \/ BusyTimeout(o) \/ MigrationFails(o) \/ RejectInvalid(o)
                                 \/ StatementFails(o) \/ Crash(o) \/ Close(o)
      PROVE  StepsTyped'
  BY <1>3, <1>4 DEF RejectNewer, BusyTimeout, MigrationFails, RejectInvalid, StatementFails, Crash, Close, Outcomes
<1>5. ASSUME NEW o \in Opener, CheckLedger(o) \/ CheckApplicable(o)
      PROVE  StepsTyped'
  BY <1>2, <1>5 DEF CheckLedger, CheckApplicable, Goto, Steps
<1>6. ASSUME NEW o \in Opener, SkipMigration(o) \/ Migrate(o)
      PROVE  StepsTyped'
  BY <1>2, <1>6, NobodyAssumption DEF SkipMigration, Migrate
<1>7. ASSUME NEW o \in Opener, TakeLock(o)
      PROVE  StepsTyped'
  BY <1>7, NobodyAssumption DEF TakeLock, Goto, Steps
<1>8. ASSUME NEW o \in Opener, ReadVersion(o) \/ ReadFinalVersion(o) \/ Validate(o)
      PROVE  StepsTyped'
  <2>1. file.version \in Nat
    BY DEF File
  <2>2. CASE ReadVersion(o)
    BY <2>1, <2>2 DEF ReadVersion, Goto, Steps
  <2>3. CASE ReadFinalVersion(o)
    BY <2>1, <2>3 DEF ReadFinalVersion, Goto, Steps
  <2>4. CASE Validate(o)
    BY <2>4 DEF Validate, Goto, Steps, Outcomes
  <2>. QED  BY <1>8, <2>2, <2>3, <2>4
<1>9. ASSUME NEW o \in Opener, StartMigrations(o) \/ FindScoresOutdated(o) \/ RepairScores(o)
                                 \/ RepairRefused(o) \/ Write(o)
      PROVE  StepsTyped'
  BY <1>9 DEF StartMigrations, FindScoresOutdated, RepairScores, RepairRefused, Write, Goto, Steps, Outcomes
<1>. QED  BY <1>1, <1>4, <1>5, <1>6, <1>7, <1>8, <1>9 DEF Next, OpenStep

\* Every step keeps the types, and the results a finite set.
LEMMA TypeStart == Init => TypeOK /\ IsFiniteSet(file.results)
<1>. SUFFICES ASSUME Init PROVE TypeOK /\ IsFiniteSet(file.results)
  OBVIOUS
<1>1. file \in File /\ IsFiniteSet(file.results)
  BY OriginsAssumption DEF Init
<1>2. /\ pc \in [Opener -> Steps] /\ outcome \in [Opener -> Outcomes]
      /\ version \in [Opener -> Packaged] /\ seen \in [Opener -> Nat]
  BY DEF Init, Packaged, Steps, Outcomes
<1>3. \A o \in Opener : pc[o] = "migrate" <=> lock = o
  BY NobodyAssumption DEF Init
<1>. QED  BY <1>1, <1>2, <1>3 DEF Init, TypeOK

\* The type invariant is inductive once the results are known to be finitely many.
LEMMA TypeStep ==
  ASSUME TypeOK, IsFiniteSet(file.results), [Next]_vars
  PROVE  TypeOK' /\ IsFiniteSet(file'.results)
<1>1. TypeOK' <=> StepsTyped' /\ file' \in File
  BY DEF TypeOK, StepsTyped
<1>. QED  BY <1>1, FileType, StepsType

\* Every variable has its type whatever files are opened by however many
\* processes: no migration, repair or write ever makes a row, a ledger entry or a
\* column that the tables of local_db.rs do not have.
THEOREM TypeCorrect == Spec => []TypeOK
<1>1. TypeOK /\ IsFiniteSet(file.results) /\ [Next]_vars => (TypeOK /\ IsFiniteSet(file.results))'
  BY TypeStep
<1>. QED  BY <1>1, TypeStart, PTL DEF Spec

-----------------------------------------------------------------------------
(***************************************************************************)
(* Columns: which migration adds which, and which no migration adds.       *)
(***************************************************************************)
FirstTables == EvidenceOwner \cup EvidenceBase \cup ResultId \cup GapId \cup RunId \cup FrameworkCols \cup ControlCols

SubjectColumns == GapFilters \cup ResultSubject \cup ResultRun \cup Locator

\* The columns that each version requires, told by what it adds.
LEMMA RequiredColumns ==
  /\ \A v \in {1, 2} : Required[v] = FrameworkCols \cup EvidenceBase
  /\ Required[3] = Required[1] \cup GapFilters
  /\ Required[4] = Required[3] \cup ResultSubject \cup Locator
  /\ Required[5] = Required[4] \cup ResultRun
  /\ Required[6] = Required[5] \cup Links
  /\ Required[7] = Required[6] \cup Class
  /\ Required[8] = Required[7] \cup RunTime \cup ResultExport \cup LinkSnapshot \cup RunCatalogue
BY DEF Required

\* After the first, no migration adds a column of the first tables, and after
\* the fifth none adds what tells results, gaps and evidence apart.
LEMMA AddedColumns ==
  ASSUME NEW f, NEW v \in Packaged, v > 1
  PROVE  /\ Added(f, v) \cap FirstTables = {}
         /\ v > 5 => Added(f, v) \cap SubjectColumns = {}
         /\ v > 6 => Added(f, v) \cap Links = {}
         /\ v > 7 => Added(f, v) \cap Class = {}
         /\ v = 5 => Locator \subseteq Added(f, v)
<1>. USE DEF Packaged, FirstTables, SubjectColumns, EvidenceOwner, EvidenceBase, ResultId, GapId, RunId,
             FrameworkCols, ControlCols, GapFilters, GapRun, ResultSubject, ResultRun, Locator,
             Links, Class
<1>1. CASE v \in {2, 6}
  BY <1>1 DEF Added
<1>2. CASE v = 3
  BY <1>2 DEF Added
<1>3. CASE v = 4
  BY <1>3 DEF Added
<1>4. CASE v = 5
  BY <1>4 DEF Added
<1>5. CASE v = 7
  BY <1>5 DEF Added
<1>6. CASE v = 8
  BY <1>6 DEF Added, RunTime, ResultExport, LinkSnapshot, RunCatalogue
<1>. QED  BY <1>1, <1>2, <1>3, <1>4, <1>5, <1>6

\* The score columns are no migration's concern.
LEMMA ScoreColumnsApart ==
  ScoreColumns \cap (FirstTables \cup SubjectColumns \cup Links \cup Class \cup Required[8] \cup CurrentColumns) = {}
<1>1. ScoreColumns \cap Required[8] = {}
  BY RequiredColumns DEF ScoreColumns, EvidenceBase, FrameworkCols, GapFilters, GapRun, ResultSubject,
     ResultRun, Locator, Links, Class, RunTime, ResultExport, LinkSnapshot, RunCatalogue
<1>. QED  BY <1>1 DEF ScoreColumns, FirstTables, SubjectColumns, EvidenceOwner, EvidenceBase, ResultId,
  GapId, RunId, FrameworkCols, ControlCols, GapFilters, GapRun, ResultSubject, ResultRun, Locator, Links, Class,
  CurrentColumns, RunTime, ResultExport, LinkSnapshot, RunCatalogue

-----------------------------------------------------------------------------
(***************************************************************************)
(* Migrations that are not to come stay so.                                *)
(***************************************************************************)

\* The cases of Applicable, one by one.
LEMMA WhenApplicable ==
  ASSUME NEW f, NEW read
  PROVE  /\ Applicable(f, 1, read)
         /\ Applicable(f, 2, read) <=> EvidenceOwner \subseteq f.columns
         /\ Applicable(f, 3, read) <=> GapId \subseteq f.columns /\ ~ GapRun \subseteq f.columns
         /\ Applicable(f, 4, read) <=> /\ EvidenceBase \cup ResultSubject \subseteq f.columns
                                       /\ ~ Locator \subseteq f.columns
         /\ Applicable(f, 5, read) <=> ResultId \subseteq f.columns /\ ~ ResultRun \subseteq f.columns
         /\ Applicable(f, 6, read) <=>
              /\ Recognized(f, read, 5)
              /\ RunId \cup EvidenceBase \cup ResultRun \cup ResultSubject \subseteq f.columns
              /\ read > 1 \/ ~ Links \subseteq f.columns
         /\ Applicable(f, 7, read) <=> /\ Recognized(f, read, 6) /\ Required[6] \subseteq f.columns
                                       /\ ~ Class \subseteq f.columns
         /\ Applicable(f, 8, read) <=> /\ Recognized(f, read, 7) /\ Required[7] \subseteq f.columns
                                       /\ ~ Required[8] \subseteq f.columns
<1>1. Applicable(f, 1, read)
  BY DEF Applicable
<1>2. Applicable(f, 2, read) <=> EvidenceOwner \subseteq f.columns
  BY DEF Applicable
<1>3. Applicable(f, 3, read) <=> GapId \subseteq f.columns /\ ~ GapRun \subseteq f.columns
  BY DEF Applicable
<1>4. Applicable(f, 4, read) <=> /\ EvidenceBase \cup ResultSubject \subseteq f.columns
                                /\ ~ Locator \subseteq f.columns
  BY DEF Applicable
<1>5. Applicable(f, 5, read) <=> ResultId \subseteq f.columns /\ ~ ResultRun \subseteq f.columns
  BY DEF Applicable
<1>6. Applicable(f, 6, read) <=>
        /\ Recognized(f, read, 5)
        /\ RunId \cup EvidenceBase \cup ResultRun \cup ResultSubject \subseteq f.columns
        /\ read > 1 \/ ~ Links \subseteq f.columns
  BY DEF Applicable
<1>7. Applicable(f, 7, read) <=> /\ Recognized(f, read, 6) /\ Required[6] \subseteq f.columns
                                /\ ~ Class \subseteq f.columns
  BY DEF Applicable
<1>8. Applicable(f, 8, read) <=> /\ Recognized(f, read, 7) /\ Required[7] \subseteq f.columns
                                /\ ~ Required[8] \subseteq f.columns
  BY DEF Applicable
<1>. QED  BY <1>1, <1>2, <1>3, <1>4, <1>5, <1>6, <1>7, <1>8

\* Up to migration 5 the version read does not matter.
LEMMA EarlyApplicable ==
  ASSUME NEW f, NEW v \in 1 .. 5, NEW read, NEW other
  PROVE  Applicable(f, v, read) <=> Applicable(f, v, other)
BY WhenApplicable

\* A migration looks no later than at the version and the columns of its time.
LEMMA DoneStaysDone ==
  ASSUME NEW f \in File, NEW v \in Packaged, NEW w \in Packaged, w < v, ~Due(f, w)
  PROVE  ~Due(Migrated(f, v), w)
<1>1. PICK g : g = Migrated(f, v)
  OBVIOUS
<1>. SUFFICES ~Due(g, w)
  BY <1>1
<1>2. /\ g.version = v
      /\ g.ledger = f.ledger \cup {v}
      /\ g.columns = f.columns \cup Added(f, v)
  BY <1>1, MigratedFields
<1>3. PICK added : added = Added(f, v)
  OBVIOUS
<1>4. /\ added \cap FirstTables = {}
      /\ v > 5 => added \cap SubjectColumns = {}
      /\ v = 5 => Locator \subseteq added
  BY <1>3, AddedColumns DEF Packaged
<1>5. CASE w = 1
  BY <1>2, <1>5, WhenApplicable DEF Due
<1>6. CASE w = 2
  BY <1>2, <1>3, <1>4, <1>6, WhenApplicable DEF Due, FirstTables
<1>7. CASE w = 3
  BY <1>2, <1>3, <1>4, <1>7, WhenApplicable DEF Due, FirstTables
<1>8. CASE w = 4
  <2>. v = 5 \/ v > 5
    BY <1>8 DEF Packaged
  <2>. QED  BY <1>2, <1>3, <1>4, <1>8, WhenApplicable DEF Due, FirstTables, SubjectColumns
<1>9. CASE w = 5
  BY <1>2, <1>3, <1>4, <1>9, WhenApplicable DEF Due, FirstTables
<1>10. CASE w \in {6, 7}
  BY <1>2, <1>10, WhenApplicable DEF Due, Recognized, Packaged
<1>11. w \in 1 .. 7
  BY DEF Packaged
<1>. QED  BY <1>5, <1>6, <1>7, <1>8, <1>9, <1>10, <1>11

\* A later migration does not make one applicable to who read an old version.
LEMMA StaleStaysHarmless ==
  ASSUME NEW f \in File, NEW v \in Packaged, NEW w \in {6, 7}, w < v, NEW read \in Nat,
         ~Applicable(f, w, read)
  PROVE  ~Applicable(Migrated(f, v), w, read)
<1>1. PICK g : g = Migrated(f, v)
  OBVIOUS
<1>. SUFFICES ~Applicable(g, w, read)
  BY <1>1
<1>2. /\ g.ledger = f.ledger \cup {v}
      /\ g.columns = f.columns \cup Added(f, v)
  BY <1>1, MigratedFields
<1>3. PICK added : added = Added(f, v)
  OBVIOUS
<1>4. /\ added \cap FirstTables = {}
      /\ added \cap SubjectColumns = {}
      /\ added \cap Links = {}
  BY <1>3, AddedColumns DEF Packaged
<1>5. \A n \in {5, 6} : n < w => (Recognized(g, read, n) <=> Recognized(f, read, n))
  BY <1>2 DEF Recognized, Packaged
<1>6. Required[6] \subseteq FirstTables \cup SubjectColumns \cup Links
  BY RequiredColumns DEF FirstTables, SubjectColumns
<1>7. CASE w = 6
  BY <1>2, <1>3, <1>4, <1>5, <1>7, WhenApplicable DEF FirstTables, SubjectColumns
<1>8. CASE w = 7
  <2>1. Required[6] \subseteq g.columns => Required[6] \subseteq f.columns
    BY <1>2, <1>3, <1>4, <1>6
  <2>2. ~ Class \subseteq g.columns => ~ Class \subseteq f.columns
    BY <1>2
  <2>. QED  BY <1>5, <1>8, <2>1, <2>2, WhenApplicable
<1>. QED  BY <1>7, <1>8

\* Neither a repair nor a write has a bearing on the migrations.
LEMMA HandlesKeepDue ==
  ASSUME NEW f, NEW g, g.version = f.version, g.ledger = f.ledger,
         g.columns = f.columns \cup ScoreColumns, NEW v \in Packaged
  PROVE  /\ Due(g, v) <=> Due(f, v)
         /\ \A read : Applicable(g, v, read) <=> Applicable(f, v, read)
<1>1. \A columns : columns \cap ScoreColumns = {} =>
        (columns \subseteq g.columns <=> columns \subseteq f.columns)
  OBVIOUS
<1>2. \A columns \in SUBSET (FirstTables \cup SubjectColumns \cup Links \cup Class \cup Required[8]) :
        columns \subseteq g.columns <=> columns \subseteq f.columns
  BY <1>1, ScoreColumnsApart
<1>3. /\ Required[6] \subseteq Required[8] /\ Required[7] \subseteq Required[8]
      /\ GapRun \subseteq SubjectColumns
  BY RequiredColumns DEF SubjectColumns, GapFilters
<1>4. \A read, n : Recognized(g, read, n) <=> Recognized(f, read, n)
  BY DEF Recognized
<1>5. \A read : Applicable(g, v, read) <=> Applicable(f, v, read)
  BY <1>2, <1>3, <1>4, WhenApplicable DEF Packaged, FirstTables, SubjectColumns
<1>. QED  BY <1>5 DEF Due

-----------------------------------------------------------------------------
(***************************************************************************)
(* Every step keeps the order of the migrations.                           *)
(***************************************************************************)
\* A step of an opener that leaves the file alone concerns only that opener.
LEMMA OwnStep ==
  ASSUME OrderInv, TypeOK', NEW o \in Opener, file' = file, written' = written,
         \A p \in Opener \ {o} :
           pc'[p] = pc[p] /\ version'[p] = version[p] /\ seen'[p] = seen[p],
         InOrder(o)'
  PROVE  OrderInv'
<1>1. ASSUME NEW p \in Opener \ {o}
      PROVE  InOrder(p)'
  <2>1. InOrder(p) /\ pc'[p] = pc[p] /\ version'[p] = version[p] /\ seen'[p] = seen[p]
    BY DEF OrderInv
  <2>. QED  BY <2>1 DEF InOrder, StartsOver, BehindIsDone, NextIsDue, StaleReadIsHarmless,
                        NewerIsClosed, NoneDue, Behind
<1>2. VersionInOrder' /\ WrittenIsDone'
  BY DEF OrderInv, VersionInOrder, WrittenIsDone, NoneDue
<1>3. IsFiniteSet(file'.results) /\ ReadsBlank(file')
  BY DEF OrderInv
<1>. QED  BY <1>1, <1>2, <1>3 DEF OrderInv

\* An attempt that is over has nothing behind it.
LEMMA EndInOrder ==
  ASSUME OrderInv, TypeOK', NEW o \in Opener, NEW result, End(o, result)
  PROVE  OrderInv'
<1>1. pc'[o] = "closed" /\ version'[o] = 1
  BY DEF End, Goto, OrderInv, TypeOK
<1>2. InOrder(o)'
  BY <1>1 DEF InOrder, StartsOver, BehindIsDone, NextIsDue, StaleReadIsHarmless,
              NewerIsClosed, NoneDue, Behind, AllBehind
<1>3. \A p \in Opener \ {o} :
        pc'[p] = pc[p] /\ version'[p] = version[p] /\ seen'[p] = seen[p]
  BY DEF End, Goto, OrderInv, TypeOK
<1>. QED  BY <1>2, <1>3, OwnStep DEF End

\* What an opener goes past is behind it.
LEMMA NextInOrder ==
  ASSUME OrderInv, TypeOK', NEW o \in Opener, NextMigration(o), pc[o] \notin AllBehind \cup {"closed"},
         ~Due(file, version[o]), file' = file, written' = written, seen' = seen
  PROVE  OrderInv'
<1>1. InOrder(o)
  BY DEF OrderInv
<1>2. PICK n \in 1 .. 8 : n = version[o]
  BY DEF OrderInv, TypeOK, Packaged
<1>3. \A v \in 1 .. n : ~Due(file, v)
  <2>1. Behind(o) = 1 .. n - 1
    BY <1>2 DEF Behind
  <2>2. \A v \in 1 .. n : v = n \/ v \in 1 .. n - 1
    OBVIOUS
  <2>. QED  BY <1>1, <1>2, <2>1, <2>2 DEF InOrder, BehindIsDone, NoneDue
<1>4. InOrder(o)'
  <2>1. CASE n + 1 \in Packaged
    <3>1. pc'[o] = "ledger" /\ version'[o] = n + 1
      BY <1>2, <2>1 DEF NextMigration, Goto, OrderInv, TypeOK
    <3>2. Behind(o)' = 1 .. n
      <4>1. (n + 1) - 1 = n
        OBVIOUS
      <4>. QED  BY <3>1, <4>1 DEF Behind, AllBehind
    <3>. QED  BY <1>1, <1>3, <3>1, <3>2 DEF InOrder, StartsOver, BehindIsDone, NextIsDue,
                StaleReadIsHarmless, NewerIsClosed, NoneDue, AllBehind
  <2>2. CASE n + 1 \notin Packaged
    <3>1. pc'[o] = "validate" /\ version'[o] = 1
      BY <1>2, <2>2 DEF NextMigration, Goto, OrderInv, TypeOK
    <3>2. Behind(o)' = 1 .. n
      BY <2>2, <3>1 DEF Behind, AllBehind, Packaged
    <3>. QED  BY <1>1, <1>3, <3>1, <3>2 DEF InOrder, StartsOver, BehindIsDone, NextIsDue,
                StaleReadIsHarmless, NewerIsClosed, NoneDue, AllBehind
  <2>. QED  BY <2>1, <2>2
<1>5. \A p \in Opener \ {o} :
        pc'[p] = pc[p] /\ version'[p] = version[p] /\ seen'[p] = seen[p]
  BY DEF NextMigration, Goto, OrderInv, TypeOK
<1>. QED  BY <1>4, <1>5, OwnStep

\* A check of the ledger goes past what is recorded, and one of the columns
\* past what is not applicable, whenever the version was read.
LEMMA ChecksInOrder ==
  ASSUME OrderInv, TypeOK', NEW o \in Opener, CheckLedger(o) \/ CheckApplicable(o) \/ SkipMigration(o)
  PROVE  OrderInv'
<1>1. InOrder(o) /\ version[o] \in 1 .. 8
  BY DEF OrderInv, TypeOK, Packaged
<1>2. \A p \in Opener \ {o} :
        pc'[p] = pc[p] /\ version'[p] = version[p] /\ seen'[p] = seen[p]
  BY DEF NextMigration, Goto, OrderInv, TypeOK, CheckLedger, CheckApplicable, SkipMigration
<1>3. CASE CheckLedger(o)
  <2>1. CASE version[o] \in file.ledger
    BY <1>3, <2>1, NextInOrder DEF CheckLedger, Due, AllBehind
  <2>2. CASE version[o] \notin file.ledger
    <3>1. /\ pc[o] = "ledger" /\ version' = version
          /\ pc'[o] = IF version[o] >= 6 THEN "version" ELSE "applicable"
      BY <1>3, <2>2 DEF CheckLedger, Goto, OrderInv, TypeOK
    <3>2. Behind(o)' = Behind(o)
      BY <3>1 DEF Behind, AllBehind
    <3>3. InOrder(o)'
      BY <1>1, <1>3, <3>1, <3>2 DEF CheckLedger, InOrder, StartsOver, BehindIsDone, NextIsDue,
           StaleReadIsHarmless, NewerIsClosed, NoneDue, AllBehind
    <3>. QED  BY <1>2, <1>3, <3>3, OwnStep DEF CheckLedger
  <2>. QED  BY <2>1, <2>2
<1>4. CASE CheckApplicable(o)
  <2>1. \A read : version[o] < 6 => (Applicable(file, version[o], read) <=> Applicable(file, version[o], file.version))
    BY <1>1, EarlyApplicable
  <2>2. CASE Applicable(file, version[o], seen[o])
    <3>1. pc[o] = "applicable" /\ version' = version /\ pc'[o] = "lock"
      BY <1>4, <2>2 DEF CheckApplicable, Goto, OrderInv, TypeOK
    <3>2. Behind(o)' = Behind(o)
      BY <3>1 DEF Behind, AllBehind
    <3>3. version[o] \in file.ledger \/ Due(file, version[o])
      BY <1>1, <2>1, <2>2, <3>1 DEF InOrder, StaleReadIsHarmless, Due
    <3>4. InOrder(o)'
      BY <1>1, <1>4, <3>1, <3>2, <3>3 DEF CheckApplicable, InOrder, StartsOver, BehindIsDone, NextIsDue,
           StaleReadIsHarmless, NewerIsClosed, NoneDue, AllBehind
    <3>. QED  BY <1>2, <1>4, <3>4, OwnStep DEF CheckApplicable
  <2>3. CASE ~Applicable(file, version[o], seen[o])
    <3>1. pc[o] = "applicable"
      BY <1>4 DEF CheckApplicable
    <3>2. ~Due(file, version[o])
      BY <1>1, <2>1, <2>3, <3>1 DEF InOrder, StaleReadIsHarmless, Due
    <3>. QED  BY <1>4, <2>3, <3>1, <3>2, NextInOrder DEF CheckApplicable, AllBehind
  <2>. QED  BY <2>2, <2>3
<1>5. CASE SkipMigration(o)
  BY <1>5, NextInOrder DEF SkipMigration, AlreadyApplied, Due, AllBehind
<1>. QED  BY <1>3, <1>4, <1>5

\* The other steps that leave the file alone.
LEMMA WaitsInOrder ==
  ASSUME OrderInv, TypeOK', NEW o \in Opener,
         \/ StartMigrations(o) \/ ReadVersion(o) \/ TakeLock(o) \/ ReadFinalVersion(o)
         \/ Validate(o) \/ FindScoresOutdated(o) \/ RepairRefused(o)
  PROVE  OrderInv'
<1>1. InOrder(o) /\ version[o] \in 1 .. 8 /\ file.version \in Nat
  BY DEF OrderInv, TypeOK, Packaged, File
<1>2. \A p \in Opener \ {o} :
        pc'[p] = pc[p] /\ version'[p] = version[p] /\ seen'[p] = seen[p]
  BY DEF Goto, OrderInv, TypeOK, StartMigrations, ReadVersion, TakeLock, ReadFinalVersion, Validate,
         FindScoresOutdated, RepairRefused
<1>. USE DEF InOrder, StartsOver, BehindIsDone, NextIsDue, StaleReadIsHarmless, NewerIsClosed, NoneDue,
             Behind, AllBehind
<1>3. CASE StartMigrations(o)
  <2>1. /\ pc[o] = "closed" /\ pc'[o] = "ledger" /\ version' = version /\ file.version \in 0 .. 8
    BY <1>1, <1>3 DEF StartMigrations, Goto, OrderInv, TypeOK, Packaged
  <2>2. InOrder(o)'
    BY <1>1, <1>3, <2>1 DEF StartMigrations
  <2>. QED  BY <1>2, <1>3, <2>2, OwnStep DEF StartMigrations
<1>4. CASE ReadVersion(o)
  <2>1. /\ pc[o] = "version" /\ pc'[o] = "applicable" /\ version' = version /\ seen'[o] = file.version
    BY <1>4 DEF ReadVersion, Goto, OrderInv, TypeOK
  <2>2. InOrder(o)'
    BY <1>1, <1>4, <2>1 DEF ReadVersion
  <2>. QED  BY <1>2, <1>4, <2>2, OwnStep DEF ReadVersion
<1>5. CASE TakeLock(o)
  <2>1. pc[o] = "lock" /\ pc'[o] = "migrate" /\ version' = version
    BY <1>5 DEF TakeLock, Goto, OrderInv, TypeOK
  <2>2. InOrder(o)'
    BY <1>1, <1>5, <2>1 DEF TakeLock
  <2>. QED  BY <1>2, <1>5, <2>2, OwnStep DEF TakeLock
<1>6. CASE ReadFinalVersion(o) \/ Validate(o) \/ FindScoresOutdated(o) \/ RepairRefused(o)
  <2>1. /\ pc[o] \in AllBehind /\ pc'[o] \in AllBehind /\ version' = version
        /\ file' = file /\ written' = written
    BY <1>6 DEF ReadFinalVersion, Validate, FindScoresOutdated, RepairRefused, Goto, OrderInv, TypeOK
  <2>2. InOrder(o)'
    BY <1>1, <2>1
  <2>. QED  BY <1>2, <2>1, <2>2, OwnStep
<1>. QED  BY <1>3, <1>4, <1>5, <1>6

\* A column that is there is not blank any more; migrations 5 and 8 fill in only
\* the columns they add.
LEMMA MigratedReadsBlank ==
  ASSUME NEW f \in File, ReadsBlank(f), NEW v \in Packaged
  PROVE  ReadsBlank(Migrated(f, v))
<1>1. PICK g : g = Migrated(f, v)
  OBVIOUS
<1>2. g.results = ResultsAfter(f, v) /\ g.columns = f.columns \cup Added(f, v)
  BY <1>1, MigratedFields
<1>. f.results \subseteq ResultRow
  BY DEF File
<1>3. CASE v = 5
  <2>1. ResultRun \subseteq g.columns
    BY <1>2, <1>3 DEF Added
  <2>2. \A r \in f.results : StatusFilled(f, Identified(r)).framework_id = r.framework_id
    BY IdentifiedType, StatusFilledType
  <2>3. g.results = {StatusFilled(f, Identified(r)) : r \in f.results}
    BY <1>2, <1>3 DEF ResultsAfter
  <2>4. ReadsBlank(g)
    BY <1>2, <2>1, <2>2, <2>3 DEF ReadsBlank
  <2>. QED  BY <1>1, <2>4
<1>4. CASE v = 8
  <2>1. ResultExport \subseteq g.columns
    BY <1>2, <1>4 DEF Added
  <2>2. \A r \in f.results : Framed(r).run_id = r.run_id /\ Framed(r).status = r.status
    BY FramedType
  <2>3. g.results = {Framed(r) : r \in f.results}
    BY <1>2, <1>4 DEF ResultsAfter, Framed
  <2>4. ReadsBlank(g)
    BY <1>2, <2>1, <2>2, <2>3 DEF ReadsBlank
  <2>. QED  BY <1>1, <2>4
<1>5. CASE v \notin {5, 8}
  <2>1. g.results = f.results
    BY <1>2, <1>5 DEF ResultsAfter
  <2>2. ReadsBlank(g)
    BY <1>2, <2>1 DEF ReadsBlank
  <2>. QED  BY <1>1, <2>2
<1>. QED  BY <1>3, <1>4, <1>5

\* Whoever is about to apply a migration applies the first that is to come.
LEMMA FirstDue ==
  ASSUME OrderInv, NEW o \in Opener, pc[o] = "migrate", version[o] \notin file.ledger
  PROVE  /\ Due(file, version[o])
         /\ \A w \in Packaged : w < version[o] => ~Due(file, w)
         /\ \A w \in Packaged : Due(file, w) => file.version <= w
         /\ ~written
         /\ \A p \in Opener : pc[p] \notin AllBehind /\ version[p] <= version[o]
<1>1. InOrder(o) /\ version[o] \in Packaged /\ file.version \in Nat
  BY DEF OrderInv, TypeOK, File
<1>2. Due(file, version[o])
  BY <1>1 DEF InOrder, NextIsDue
<1>3. \A w \in Packaged : w < version[o] => ~Due(file, w)
  BY <1>1 DEF InOrder, BehindIsDone, NoneDue, Behind, AllBehind, Packaged
<1>4. \A w \in Packaged : Due(file, w) => file.version <= w
  BY <1>1 DEF OrderInv, VersionInOrder, Packaged
<1>5. ~written
  BY <1>1, <1>2 DEF OrderInv, WrittenIsDone, NoneDue
<1>6. ASSUME NEW p \in Opener
      PROVE  pc[p] \notin AllBehind /\ version[p] <= version[o]
  <2>1. version[o] \notin Behind(p)
    BY <1>2 DEF OrderInv, InOrder, BehindIsDone, NoneDue
  <2>. QED  BY <1>1, <2>1 DEF Behind, OrderInv, TypeOK, Packaged
<1>. QED  BY <1>2, <1>3, <1>4, <1>5, <1>6

\* The others that are about to migrate are at the migration just applied, and
\* what the rest have read is as stale as it may be.
LEMMA MigrateInOrder ==
  ASSUME OrderInv, TypeOK', IsFiniteSet(file'.results), NEW o \in Opener, Migrate(o)
  PROVE  OrderInv'
<1>1. PICK v \in Packaged : v = version[o]
  BY DEF OrderInv, TypeOK
<1>2. /\ pc[o] = "migrate" /\ v \notin file.ledger /\ file \in File
      /\ file' = Migrated(file, v) /\ written' = written /\ seen' = seen
      /\ NextMigration(o)
  BY <1>1 DEF Migrate, AlreadyApplied, OrderInv, TypeOK
<1>3. /\ Due(file, v)
      /\ \A w \in Packaged : w < v => ~Due(file, w)
      /\ ~written
      /\ \A p \in Opener : pc[p] \notin AllBehind /\ version[p] <= v
  BY <1>1, <1>2, FirstDue
<1>4. file'.version = v /\ file'.ledger = file.ledger \cup {v}
  BY <1>2, MigratedFields
<1>5. \A w \in Packaged : w < v => ~Due(file', w)
  BY <1>2, <1>3, DoneStaysDone
<1>6. ~Due(file', v)
  BY <1>4 DEF Due
<1>7. VersionInOrder' /\ WrittenIsDone'
  BY <1>2, <1>3, <1>4, <1>5 DEF VersionInOrder, WrittenIsDone
<1>8. ReadsBlank(file')
  BY <1>2, MigratedReadsBlank DEF OrderInv
<1>9. InOrder(o)'
  <2>1. CASE v + 1 \in Packaged
    <3>1. pc'[o] = "ledger" /\ version'[o] = v + 1
      BY <1>1, <1>2, <2>1 DEF NextMigration, Goto, OrderInv, TypeOK
    <3>2. \A w \in 1 .. v : w \in Packaged /\ (w < v \/ w = v)
      BY DEF Packaged
    <3>3. NoneDue(file', Behind(o)')
      <4>1. (v + 1) - 1 = v
        BY DEF Packaged
      <4>2. Behind(o)' = 1 .. v
        BY <3>1, <4>1 DEF Behind, AllBehind
      <4>. QED  BY <1>5, <1>6, <3>2, <4>2 DEF NoneDue
    <3>. QED  BY <1>4, <3>1, <3>3 DEF InOrder, StartsOver, BehindIsDone, NextIsDue,
                StaleReadIsHarmless, NewerIsClosed, AllBehind, Packaged
  <2>2. CASE v + 1 \notin Packaged
    <3>1. pc'[o] = "validate" /\ version'[o] = 1
      BY <1>1, <1>2, <2>2 DEF NextMigration, Goto, OrderInv, TypeOK
    <3>2. \A w \in Packaged : w < v \/ w = v
      BY <2>2 DEF Packaged
    <3>3. NoneDue(file', Behind(o)')
      BY <1>5, <1>6, <3>1, <3>2 DEF NoneDue, Behind, AllBehind
    <3>. QED  BY <1>4, <3>1, <3>3 DEF InOrder, StartsOver, BehindIsDone, NextIsDue,
                StaleReadIsHarmless, NewerIsClosed, AllBehind, Packaged
  <2>. QED  BY <2>1, <2>2
<1>10. ASSUME NEW p \in Opener \ {o}
       PROVE  InOrder(p)'
  <2>1. pc'[p] = pc[p] /\ version'[p] = version[p] /\ seen'[p] = seen[p]
    BY <1>2 DEF NextMigration, Goto, OrderInv, TypeOK
  <2>2. PICK w \in Packaged : w = version[p]
    BY DEF OrderInv, TypeOK
  <2>3. InOrder(p) /\ w <= v /\ pc[p] \notin AllBehind
    BY <1>3, <2>2 DEF OrderInv
  <2>4. BehindIsDone(p)'
    <3>1. \A u \in 1 .. w - 1 : u \in Packaged /\ u < v
      BY <2>3 DEF Packaged
    <3>. QED  BY <1>5, <2>1, <2>2, <2>3, <3>1 DEF BehindIsDone, NoneDue, Behind
  <2>5. NextIsDue(p)'
    <3>1. CASE w = v
      <4>1. version'[p] \in file'.ledger
        BY <1>4, <2>1, <2>2, <3>1
      <4>. QED  BY <4>1 DEF NextIsDue
    <3>2. CASE w # v
      <4>1. ~Due(file, w)
        BY <1>3, <2>3, <3>2 DEF Packaged
      <4>. QED  BY <1>4, <2>1, <2>2, <2>3, <4>1 DEF NextIsDue, InOrder
    <3>. QED  BY <3>1, <3>2
  <2>6. StaleReadIsHarmless(p)'
    <3>. SUFFICES ASSUME pc[p] = "applicable", w >= 6, w \notin file'.ledger
                  PROVE  ~Due(file', w) /\ ~Applicable(file', w, seen[p])
      BY <2>1, <2>2 DEF StaleReadIsHarmless
    <3>1. w < v /\ w \in {6, 7} /\ w \notin file.ledger
      BY <1>4, <2>3 DEF Packaged
    <3>2. ~Due(file, w)
      BY <1>3, <3>1
    <3>3. ~Applicable(file, w, seen[p])
      BY <2>2, <2>3, <3>1, <3>2 DEF InOrder, StaleReadIsHarmless, Due
    <3>4. seen[p] \in Nat
      BY DEF OrderInv, TypeOK
    <3>. QED  BY <1>2, <1>5, <3>1, <3>3, <3>4, StaleStaysHarmless
  <2>. QED  BY <1>4, <2>1, <2>3, <2>4, <2>5, <2>6 DEF InOrder, StartsOver, NewerIsClosed, Packaged
<1>. QED  BY <1>7, <1>8, <1>9, <1>10 DEF OrderInv

\* A handle writes and repairs what no migration looks at.
LEMMA HandleInOrder ==
  ASSUME OrderInv, TypeOK', IsFiniteSet(file'.results), NEW o \in Opener, RepairScores(o) \/ Write(o)
  PROVE  OrderInv'
<1>1. file \in File /\ InOrder(o) /\ pc[o] \in AllBehind
  BY DEF OrderInv, TypeOK, RepairScores, Write, AllBehind
<1>2. /\ file'.version = file.version /\ file'.ledger = file.ledger
      /\ file'.columns = file.columns \cup ScoreColumns
      /\ ReadsBlank(file')
  <2>1. CASE RepairScores(o)
    <3>1. PICK g : g = file'
      OBVIOUS
    <3>2. /\ g.version = file.version /\ g.ledger = file.ledger /\ g.results = file.results
          /\ g.columns = file.columns \cup ScoreColumns
      BY <1>1, <2>1, <3>1, RepairedFields DEF RepairScores, Fields
    <3>. QED  BY <3>1, <3>2 DEF OrderInv, ReadsBlank
  <2>2. CASE Write(o)
    <3>1. PICK g : g = file'
      OBVIOUS
    <3>2. /\ g.version = file.version /\ g.ledger = file.ledger
          /\ g.columns = file.columns \cup ScoreColumns
      BY <1>1, <2>2, <3>1, WrittenFields DEF Write
    <3>3. ResultRun \subseteq g.columns /\ ResultExport \subseteq g.columns
      BY <2>2, <3>2 DEF Write, CurrentColumns
    <3>. QED  BY <3>1, <3>2, <3>3 DEF ReadsBlank
  <2>. QED  BY <2>1, <2>2
<1>3. \A v \in Packaged : /\ Due(file', v) <=> Due(file, v)
                          /\ \A read : Applicable(file', v, read) <=> Applicable(file, v, read)
  BY <1>2, HandlesKeepDue
<1>4. NoneDue(file', Packaged)
  BY <1>1, <1>3 DEF InOrder, BehindIsDone, NoneDue, Behind
<1>5. /\ pc' = [pc EXCEPT ![o] = "open"]
      /\ version' = version /\ seen' = seen
  BY <1>1 DEF RepairScores, Write, Goto, OrderInv, TypeOK
<1>6. ASSUME NEW p \in Opener
      PROVE  InOrder(p)'
  <2>1. InOrder(p) /\ version[p] \in Packaged
    BY DEF OrderInv, TypeOK
  <2>2. BehindIsDone(p)'
    BY <1>4, <1>5, <2>1 DEF BehindIsDone, NoneDue, Behind, Packaged
  <2>3. /\ version'[p] = version[p] /\ seen'[p] = seen[p]
        /\ pc'[p] # pc[p] => pc[p] \in AllBehind /\ pc'[p] = "open"
    <3>1. pc \in [Opener -> Steps]
      BY DEF OrderInv, TypeOK
    <3>. QED  BY <1>1, <1>5, <3>1
  <2>4. NextIsDue(p)' /\ StaleReadIsHarmless(p)'
    BY <1>2, <1>3, <2>1, <2>3 DEF InOrder, NextIsDue, StaleReadIsHarmless
  <2>5. StartsOver(p)' /\ NewerIsClosed(p)'
    BY <1>2, <2>1, <2>3 DEF InOrder, StartsOver, NewerIsClosed, AllBehind
  <2>. QED  BY <2>2, <2>4, <2>5 DEF InOrder
<1>7. VersionInOrder' /\ WrittenIsDone'
  BY <1>4 DEF VersionInOrder, WrittenIsDone, NoneDue
<1>. QED  BY <1>2, <1>6, <1>7 DEF OrderInv

\* Nobody has looked at the file yet.
LEMMA OrderStart == Init => OrderInv
<1>. SUFFICES ASSUME Init PROVE OrderInv
  OBVIOUS
<1>1. TypeOK /\ IsFiniteSet(file.results)
  BY TypeStart
<1>2. ReadsBlank(file) /\ VersionInOrder /\ WrittenIsDone
  BY OriginsAssumption, OrderAssumption DEF Init, VersionInOrder, WrittenIsDone
<1>3. ASSUME NEW o \in Opener
      PROVE  InOrder(o)
  <2>1. pc[o] = "closed" /\ version[o] = 1
    BY DEF Init
  <2>2. Behind(o) = {}
    BY <2>1 DEF Behind, AllBehind
  <2>. QED  BY <2>1, <2>2 DEF InOrder, StartsOver, BehindIsDone, NextIsDue, StaleReadIsHarmless,
                            NewerIsClosed, NoneDue
<1>. QED  BY <1>1, <1>2, <1>3 DEF OrderInv

\* Every step of every opener keeps the order.
LEMMA OrderStep == OrderInv /\ [Next]_vars => OrderInv'
<1>. SUFFICES ASSUME OrderInv, [Next]_vars PROVE OrderInv'
  OBVIOUS
<1>1. TypeOK' /\ IsFiniteSet(file'.results)
  BY TypeStep DEF OrderInv
<1>2. CASE UNCHANGED vars
  BY <1>2 DEF vars, OrderInv, TypeOK, InOrder, StartsOver, BehindIsDone, NextIsDue, StaleReadIsHarmless,
         NewerIsClosed, VersionInOrder, WrittenIsDone, NoneDue, Behind
<1>3. ASSUME NEW o \in Opener, \/ RejectNewer(o) \/ BusyTimeout(o) \/ MigrationFails(o) \/ RejectInvalid(o)
                               \/ StatementFails(o) \/ Crash(o) \/ Close(o)
      PROVE  OrderInv'
  BY <1>1, <1>3, EndInOrder DEF RejectNewer, BusyTimeout, MigrationFails, RejectInvalid,
         StatementFails, Crash, Close
<1>4. ASSUME NEW o \in Opener, CheckLedger(o) \/ CheckApplicable(o) \/ SkipMigration(o)
      PROVE  OrderInv'
  BY <1>1, <1>4, ChecksInOrder
<1>5. ASSUME NEW o \in Opener, \/ StartMigrations(o) \/ ReadVersion(o) \/ TakeLock(o) \/ ReadFinalVersion(o)
                               \/ Validate(o) \/ FindScoresOutdated(o) \/ RepairRefused(o)
      PROVE  OrderInv'
  BY <1>1, <1>5, WaitsInOrder
<1>6. ASSUME NEW o \in Opener, Migrate(o)
      PROVE  OrderInv'
  BY <1>1, <1>6, MigrateInOrder
<1>7. ASSUME NEW o \in Opener, RepairScores(o) \/ Write(o)
      PROVE  OrderInv'
  BY <1>1, <1>7, HandleInOrder
<1>. QED  BY <1>2, <1>3, <1>4, <1>5, <1>6, <1>7 DEF Next, OpenStep

\* However many openers interleave, each applies only the first migration that
\* is to come, in a file that has none before it to come.
THEOREM MigrationsInOrder == Spec => []OrderInv
BY OrderStart, OrderStep, PTL DEF Spec

-----------------------------------------------------------------------------
(***************************************************************************)
(* Nothing is lost.                                                        *)
(***************************************************************************)
ResultsKept(f, g) ==
  \A r \in f.results : \E s \in g.results :
    /\ s.id = r.id
    /\ \A field \in DOMAIN r \ {"id"} : r[field] # Blank => s[field] = r[field]

LinksKept(f, g) ==
  \A l \in f.links : \E m \in g.links : m.run_id = l.run_id /\ m.evidence_id = l.evidence_id

ScoresKept(f, g) ==
  \A s \in f.scores : ~IsLegacyScore(s) => \E t \in g.scores : t.id = s.id

Kept(f, g) ==
  /\ f.version <= g.version
  /\ f.ledger \subseteq g.ledger
  /\ f.columns \subseteq g.columns
  /\ \A t \in {"runs", "frameworks", "controls", "evidence", "gaps",
               "framework_links", "control_links"} : f[t] \subseteq g[t]
  /\ ResultsKept(f, g)
  /\ LinksKept(f, g)
  /\ ScoresKept(f, g)

\* Migration 5 replaces the run of a result, but it is only to come where the
\* results have no run yet.
LEMMA MigratedResultsKept ==
  ASSUME NEW f \in File, ReadsBlank(f), NEW v \in Packaged, Due(f, v)
  PROVE  ResultsKept(f, Migrated(f, v))
<1>1. PICK g : g = Migrated(f, v)
  OBVIOUS
<1>2. g.results = ResultsAfter(f, v)
  BY <1>1, MigratedFields
<1>3. \A r \in f.results :
        /\ r \in ResultRow
        /\ DOMAIN r = {"id", "run_id", "control_id", "rule_id", "status", "evidence_id", "framework_id"}
  BY DEF File, ResultRow
<1>4. ASSUME NEW r \in f.results
      PROVE  \E s \in g.results :
               /\ s.id = r.id
               /\ \A field \in DOMAIN r \ {"id"} : r[field] # Blank => s[field] = r[field]
  <2>1. CASE v = 5
    <3>1. r.run_id = Blank
      BY <2>1, WhenApplicable DEF Due, ReadsBlank
    <3>2. PICK s : s = StatusFilled(f, Identified(r))
      OBVIOUS
    <3>3. s \in g.results
      BY <1>2, <2>1, <3>2 DEF ResultsAfter
    <3>4. /\ \A field \in {"id", "evidence_id", "framework_id"} : s[field] = r[field]
          /\ \A field \in {"control_id", "rule_id"} : r[field] # Blank => s[field] = r[field]
          /\ r.status # Blank => s.status = r.status
      <4>1. PICK i \in ResultRow : i = Identified(r)
        BY <1>3, IdentifiedType
      <4>2. /\ \A field \in {"id", "status", "evidence_id", "framework_id"} : i[field] = r[field]
            /\ \A field \in {"control_id", "rule_id"} : r[field] # Blank => i[field] = r[field]
        BY <1>3, <4>1, IdentifiedType
      <4>3. /\ \A field \in {"id", "run_id", "control_id", "rule_id", "evidence_id", "framework_id"} :
                 s[field] = i[field]
            /\ i.status # Blank => s.status = i.status
        BY <3>2, <4>1, StatusFilledType
      <4>. QED  BY <4>2, <4>3
    <3>5. \A field \in DOMAIN r \ {"id"} : r[field] # Blank => s[field] = r[field]
      BY <1>3, <3>1, <3>4
    <3>. QED  BY <3>3, <3>4, <3>5
  <2>2. CASE v = 8
    <3>1. PICK s : s = Framed(r)
      OBVIOUS
    <3>2. s \in g.results
      <4>1. g.results = {Framed(row) : row \in f.results}
        BY <1>2, <2>2 DEF ResultsAfter, Framed
      <4>. QED  BY <3>1, <4>1
    <3>3. /\ \A field \in {"id", "run_id", "control_id", "rule_id", "status", "evidence_id"} :
               s[field] = r[field]
          /\ r.framework_id # Blank => s.framework_id = r.framework_id
      BY <1>3, <3>1, FramedType
    <3>. QED  BY <1>3, <3>2, <3>3
  <2>3. CASE v \notin {5, 8}
    BY <1>2, <2>3 DEF ResultsAfter
  <2>. QED  BY <2>1, <2>2, <2>3
<1>. QED  BY <1>1, <1>4 DEF ResultsKept

\* A migration keeps the evidence of every run.
LEMMA MigratedLinksKept ==
  ASSUME NEW f \in File, NEW v \in Packaged
  PROVE  LinksKept(f, Migrated(f, v))
<1>1. PICK g : g = Migrated(f, v)
  OBVIOUS
<1>2. g.links = LinksAfter(f, v)
  BY <1>1, MigratedFields
<1>3. CASE v = 8
  <2>1. ASSUME NEW l \in f.links
        PROVE  /\ SnapshotFilled(f, l).run_id = l.run_id
               /\ SnapshotFilled(f, l).evidence_id = l.evidence_id
    <3>1. l \in LinkRow
      BY DEF File, LinkRow
    <3>. QED  BY <3>1 DEF SnapshotFilled, LinkRow
  <2>2. g.links = {SnapshotFilled(f, l) : l \in f.links}
    BY <1>2, <1>3 DEF LinksAfter
  <2>. QED  BY <1>1, <2>1, <2>2 DEF LinksKept
<1>4. CASE v # 8
  <2>1. f.links \subseteq g.links
    BY <1>2, <1>4 DEF LinksAfter, Linked
  <2>. QED  BY <1>1, <2>1 DEF LinksKept
<1>. QED  BY <1>3, <1>4

\* A migration that is due keeps everything.
LEMMA MigratedKeeps ==
  ASSUME NEW f \in File, ReadsBlank(f), NEW v \in Packaged, Due(f, v), f.version <= v
  PROVE  Kept(f, Migrated(f, v))
<1>1. PICK g : g = Migrated(f, v)
  OBVIOUS
<1>2. /\ g.version = v /\ g.ledger = f.ledger \cup {v} /\ g.columns = f.columns \cup Added(f, v)
      /\ \A t \in {"runs", "frameworks", "controls", "evidence", "gaps", "scores"} : g[t] = f[t]
      /\ g.framework_links = CatalogueAfter(f, v)[1]
      /\ g.control_links = CatalogueAfter(f, v)[2]
  BY <1>1, MigratedFields
<1>3. f.framework_links \subseteq g.framework_links /\ f.control_links \subseteq g.control_links
  BY <1>2, CatalogueAfterType
<1>4. ResultsKept(f, g) /\ LinksKept(f, g)
  BY <1>1, MigratedResultsKept, MigratedLinksKept
<1>5. ScoresKept(f, g)
  BY <1>2 DEF ScoresKept
<1>6. Kept(f, g)
  BY <1>2, <1>3, <1>4, <1>5 DEF Kept
<1>. QED  BY <1>1, <1>6

\* The repair of the scores keeps everything.
LEMMA RepairedKeeps ==
  ASSUME NEW f \in File, IsFiniteSet(f.results)
  PROVE  Kept(f, ScoresRepaired(f))
<1>1. PICK g : g = ScoresRepaired(f)
  OBVIOUS
<1>2. /\ g.columns = f.columns \cup ScoreColumns
      /\ \A t \in Fields \ {"columns", "scores", "scores_not_null"} : g[t] = f[t]
  BY <1>1, RepairedFields
<1>3. /\ g.version = f.version /\ g.ledger = f.ledger /\ g.results = f.results /\ g.links = f.links
      /\ \A t \in {"runs", "frameworks", "controls", "evidence", "gaps", "framework_links", "control_links"} :
           g[t] = f[t]
  <2>1. /\ {"version", "ledger", "results", "links"} \subseteq Fields \ {"columns", "scores", "scores_not_null"}
        /\ {"runs", "frameworks", "controls", "evidence", "gaps", "framework_links", "control_links"}
             \subseteq Fields \ {"columns", "scores", "scores_not_null"}
    BY DEF Fields
  <2>2. /\ \A t \in {"version", "ledger", "results", "links"} : g[t] = f[t]
        /\ \A t \in {"runs", "frameworks", "controls", "evidence", "gaps", "framework_links", "control_links"} :
             g[t] = f[t]
    BY <1>2, <2>1, Zenon
  <2>. QED  BY <2>2
<1>4. ScoresKept(f, g)
  <2>1. g.scores = Recounted(f).scores
    BY <1>1, RepairedFields
  <2>2. \A s \in f.scores : ~IsLegacyScore(s) => \E t \in Recounted(f).scores : t.id = s.id
    BY RecountedScores
  <2>. QED  BY <2>1, <2>2 DEF ScoresKept
<1>5. ResultsKept(f, g) /\ LinksKept(f, g) /\ f.version <= g.version
  BY <1>3 DEF ResultsKept, LinksKept, File
<1>6. Kept(f, g)
  BY <1>2, <1>3, <1>4, <1>5 DEF Kept
<1>. QED  BY <1>1, <1>6

\* The write of a run keeps everything.
LEMMA WrittenKeeps ==
  ASSUME NEW f \in File, IsFiniteSet(f.results), NEW run
  PROVE  Kept(f, RunWritten(f, run))
<1>1. PICK g : g = RunWritten(f, run)
  OBVIOUS
<1>2. /\ g.version = f.version /\ g.ledger = f.ledger /\ g.gaps = f.gaps
      /\ g.columns = f.columns \cup ScoreColumns
      /\ f.runs \subseteq g.runs /\ f.frameworks \subseteq g.frameworks /\ f.controls \subseteq g.controls
  <2>1. /\ g.version = f.version /\ g.ledger = f.ledger /\ g.gaps = f.gaps
        /\ g.columns = f.columns \cup ScoreColumns
        /\ g.runs = f.runs \cup {run} /\ g.frameworks = f.frameworks \cup {"f"}
        /\ g.controls = f.controls \cup {"c"}
    BY <1>1, WrittenFields
  <2>. QED  BY <2>1
<1>3. f.evidence \subseteq g.evidence
  <2>1. g.evidence = f.evidence \cup {[id |-> run, run_id |-> run, digest |-> "d"]}
    BY <1>1, WrittenFields
  <2>. QED  BY <2>1
<1>4. f.results \subseteq g.results
  <2>1. g.results = f.results \cup {NewResult(run)}
    BY <1>1, WrittenFields
  <2>. QED  BY <2>1
<1>5. f.links \subseteq g.links
  <2>1. g.links = f.links \cup {[run_id |-> run, evidence_id |-> run, digest |-> "d"]}
    BY <1>1, WrittenFields
  <2>. QED  BY <2>1
<1>6. f.framework_links \subseteq g.framework_links /\ f.control_links \subseteq g.control_links
  <2>1. /\ g.framework_links = f.framework_links \cup {<<run, "f">>}
        /\ g.control_links = f.control_links \cup {<<run, "f", "c">>}
    BY <1>1, WrittenFields
  <2>. QED  BY <2>1
<1>7. ScoresKept(f, g)
  <2>1. g.scores = ScoresReplaced(Recounted(f).scores, {ScoreRow({NewResult(run)}, run, "f")})
    BY <1>1, WrittenFields
  <2>2. \A s \in Recounted(f).scores : \E t \in g.scores : t.id = s.id
    BY <2>1 DEF ScoresReplaced
  <2>. QED  BY <2>2, RecountedScores DEF ScoresKept
<1>8. ResultsKept(f, g) /\ LinksKept(f, g) /\ f.version <= g.version
  BY <1>2, <1>4, <1>5 DEF ResultsKept, LinksKept, File
<1>9. Kept(f, g)
  BY <1>2, <1>3, <1>6, <1>7, <1>8 DEF Kept
<1>. QED  BY <1>1, <1>9

\* No step loses anything, and none changes a file of a later version.
LEMMA NothingIsLost ==
  ASSUME OrderInv, [Next]_vars
  PROVE  Kept(file, file') /\ ((\A v \in Packaged : file.version > v) => file' = file)
<1>1. file \in File /\ IsFiniteSet(file.results) /\ ReadsBlank(file)
  BY DEF OrderInv, TypeOK
<1>2. CASE file' = file
  <2>1. ResultsKept(file, file) /\ LinksKept(file, file) /\ ScoresKept(file, file) /\ file.version <= file.version
    BY <1>1 DEF ResultsKept, LinksKept, ScoresKept, File
  <2>. QED  BY <1>2, <2>1 DEF Kept
<1>3. ASSUME NEW o \in Opener, pc[o] # "closed"
      PROVE  ~ \A v \in Packaged : file.version > v
  BY <1>3 DEF OrderInv, InOrder, NewerIsClosed, Packaged
<1>4. ASSUME NEW o \in Opener, Migrate(o)
      PROVE  Kept(file, file') /\ pc[o] # "closed"
  BY <1>1, <1>4, FirstDue, MigratedKeeps DEF Migrate, AlreadyApplied, OrderInv, TypeOK
<1>5. ASSUME NEW o \in Opener, RepairScores(o)
      PROVE  Kept(file, file') /\ pc[o] # "closed"
  BY <1>1, <1>5, RepairedKeeps DEF RepairScores
<1>6. ASSUME NEW o \in Opener, Write(o)
      PROVE  Kept(file, file') /\ pc[o] # "closed"
  BY <1>1, <1>6, WrittenKeeps DEF Write
<1>. QED  BY <1>2, <1>3, <1>4, <1>5, <1>6, FileSteps

\* No migration, repair or write drops a column, a ledger entry or a row, blanks
\* a value or lowers the version, whatever interleaves and wherever it stops.
THEOREM DataIsKept == Spec => LegacyDataIsKept
<1>1. OrderInv /\ [Next]_vars =>
        [/\ file.version <= file'.version
         /\ file.ledger \subseteq file'.ledger
         /\ file.columns \subseteq file'.columns
         /\ \A t \in {"runs", "frameworks", "controls", "evidence", "gaps",
                      "framework_links", "control_links"} : file[t] \subseteq file'[t]
         /\ \A r \in file.results : \E s \in file'.results :
              /\ s.id = r.id
              /\ \A field \in DOMAIN r \ {"id"} : r[field] # Blank => s[field] = r[field]
         /\ \A l \in file.links : \E m \in file'.links :
              m.run_id = l.run_id /\ m.evidence_id = l.evidence_id
         /\ \A s \in file.scores : ~IsLegacyScore(s) => \E t \in file'.scores : t.id = s.id
         /\ (\A v \in Packaged : file.version > v) => file' = file]_vars
  BY NothingIsLost, Zenon DEF Kept, ResultsKept, LinksKept, ScoresKept
<1>. QED  BY <1>1, OrderStart, OrderStep, PTL DEF Spec, LegacyDataIsKept

\* All of a file but its score table survives a repair.
LEMMA RepairedRest ==
  ASSUME NEW f \in File
  PROVE  WithoutScores(ScoresRepaired(f)) = WithoutScores(f)
<1>1. PICK g : g = ScoresRepaired(f)
  OBVIOUS
<1>2. /\ DOMAIN g = Fields /\ DOMAIN f = Fields
      /\ g.columns = f.columns \cup ScoreColumns
      /\ \A t \in Fields \ {"columns", "scores", "scores_not_null"} : g[t] = f[t]
  BY <1>1, RepairedFields, FileFields
<1>3. g.columns \ ScoreColumns = f.columns \ ScoreColumns
  BY <1>2
<1>4. PICK columns : columns = f.columns \ ScoreColumns
  OBVIOUS
<1>5. /\ WithoutScores(g) = [g EXCEPT !.scores = {}, !.scores_not_null = FALSE, !.columns = columns]
      /\ WithoutScores(f) = [f EXCEPT !.scores = {}, !.scores_not_null = FALSE, !.columns = columns]
  BY <1>3, <1>4, Zenon DEF WithoutScores
<1>6. PICK bare : bare = [f EXCEPT !.scores = {}, !.scores_not_null = FALSE, !.columns = columns]
  OBVIOUS
<1>7. /\ DOMAIN bare = Fields
      /\ bare.scores = {} /\ bare.scores_not_null = FALSE /\ bare.columns = columns
      /\ \A t \in Fields \ {"columns", "scores", "scores_not_null"} : bare[t] = f[t]
      /\ bare = [t \in Fields |-> bare[t]]
  BY <1>2, <1>6 DEF Fields
<1>8. PICK other : other = [g EXCEPT !.scores = {}, !.scores_not_null = FALSE, !.columns = columns]
  OBVIOUS
<1>9. /\ DOMAIN other = Fields
      /\ other.scores = {} /\ other.scores_not_null = FALSE /\ other.columns = columns
      /\ \A t \in Fields \ {"columns", "scores", "scores_not_null"} : other[t] = g[t]
      /\ other = [t \in Fields |-> other[t]]
  BY <1>2, <1>8 DEF Fields
<1>10. \A t \in Fields : bare[t] = other[t]
  BY <1>2, <1>7, <1>9
<1>11. bare = other
  BY <1>7, <1>9, <1>10
<1>. QED  BY <1>1, <1>5, <1>6, <1>8, <1>11

\* Once somebody had the file open, only handles change it.
THEOREM OpenedFilesAreNotMigrated == Spec => OpenedFileNeverMigrates
<1>1. ASSUME OrderInv, [Next]_vars, written \/ \E o \in Opener : HasHandle(o), file' # file
      PROVE  \E o \in Opener :
               /\ HasHandle(o)
               /\ \/ NewRun[o] \in file'.runs \ file.runs
                  \/ WithoutScores(file') = WithoutScores(file)
  <2>1. file \in File
    BY <1>1 DEF OrderInv, TypeOK
  <2>2. ASSUME NEW o \in Opener, Migrate(o)
        PROVE  FALSE
    BY <1>1, <2>2, FirstDue DEF Migrate, AlreadyApplied, HasHandle, AllBehind
  <2>3. ASSUME NEW o \in Opener, RepairScores(o)
        PROVE  HasHandle(o) /\ WithoutScores(file') = WithoutScores(file)
    BY <2>1, <2>3, RepairedRest DEF RepairScores, HasHandle
  <2>4. ASSUME NEW o \in Opener, Write(o)
        PROVE  HasHandle(o) /\ NewRun[o] \in file'.runs \ file.runs
    <3>1. file'.runs = file.runs \cup {NewRun[o]}
      BY <2>1, <2>4, WrittenFields DEF Write
    <3>. QED  BY <2>4, <3>1 DEF Write, HasHandle
  <2>5. \E o \in Opener : Migrate(o) \/ RepairScores(o) \/ Write(o)
    BY <1>1, FileSteps, Zenon
  <2>. QED  BY <2>2, <2>3, <2>4, <2>5, Zenon
<1>2. OrderInv /\ [Next]_vars =>
        [(written \/ \E o \in Opener : HasHandle(o)) /\ file' # file =>
           \E o \in Opener :
             /\ HasHandle(o)
             /\ \/ NewRun[o] \in file'.runs \ file.runs
                \/ WithoutScores(file') = WithoutScores(file)]_vars
  BY <1>1
<1>. QED  BY <1>2, OrderStart, OrderStep, PTL DEF Spec, OpenedFileNeverMigrates

-----------------------------------------------------------------------------
(***************************************************************************)
(* A file of an agent opens.                                               *)
(***************************************************************************)
BaseColumns == ResultId \cup GapId \cup RunId \cup ControlCols

\* A file that the first migration was applied to.
IsShaped(f) ==
  /\ f.version \in f.ledger \cap Packaged
  /\ \A v \in f.ledger : v <= f.version
  /\ Required[f.version] \cup BaseColumns \subseteq f.columns
  /\ GapRun \subseteq f.columns => GapFilters \subseteq f.columns
  /\ ResultRun \subseteq f.columns => ResultSubject \cup Locator \subseteq f.columns

IsEmpty(f) == f.columns = {} /\ f.ledger = {} /\ f.version = 0

\* A sound file is empty or has the columns of its version.
LEMMA SoundIs == \A f : IsSound(f) <=> IsEmpty(f) \/ IsShaped(f)
BY DEF IsSound, IsEmpty, IsShaped, BaseColumns

\* A version requires what the versions before it do.
LEMMA RequiredGrows ==
  ASSUME NEW n \in Packaged
  PROVE  /\ Required[1] \subseteq Required[n]
         /\ \A m \in Packaged : m <= n => Required[m] \subseteq Required[n]
<1>1. /\ Required[1] = Required[2] /\ Required[2] \subseteq Required[3] /\ Required[3] \subseteq Required[4]
      /\ Required[4] \subseteq Required[5] /\ Required[5] \subseteq Required[6]
      /\ Required[6] \subseteq Required[7] /\ Required[7] \subseteq Required[8]
  BY RequiredColumns
<1>2. \A m \in Packaged : m <= n => Required[m] \subseteq Required[n]
  <2>1. CASE n \in {1, 2, 3, 4}
    BY <1>1, <2>1 DEF Packaged
  <2>2. CASE n \in {5, 6}
    BY <1>1, <2>2 DEF Packaged
  <2>3. CASE n = 7
    BY <1>1, <2>3 DEF Packaged
  <2>4. CASE n = 8
    BY <1>1, <2>4 DEF Packaged
  <2>. QED  BY <2>1, <2>2, <2>3, <2>4 DEF Packaged
<1>. QED  BY <1>2 DEF Packaged

\* The first table that a migration does not create is there, and gaps have
\* their filters once migration 3 is not to come.
LEMMA ShapedGaps ==
  ASSUME NEW f, IsShaped(f), ~Due(f, 3)
  PROVE  GapFilters \subseteq f.columns
<1>1. CASE 3 \in f.ledger
  <2>1. f.version \in Packaged /\ 3 <= f.version
    BY <1>1 DEF IsShaped
  <2>2. Required[3] \subseteq Required[f.version]
    BY <2>1, RequiredGrows DEF Packaged
  <2>. QED  BY <2>2, RequiredColumns DEF IsShaped
<1>2. CASE 3 \notin f.ledger
  BY <1>2, WhenApplicable DEF Due, IsShaped, BaseColumns
<1>. QED  BY <1>1, <1>2

\* A migration that is to come does not fail.
LEMMA ShapedMigrates ==
  ASSUME NEW f, IsShaped(f) \/ IsEmpty(f), NEW v \in Packaged, Due(f, v),
         \A w \in Packaged : w < v => ~Due(f, w)
  PROVE  ~BodyFails(f, v)
<1>1. v = 5 => GapFilters \subseteq f.columns
  <2>1. CASE IsShaped(f)
    BY <2>1, ShapedGaps DEF Packaged
  <2>2. CASE IsEmpty(f)
    <3>1. Due(f, 1)
      BY <2>2, WhenApplicable DEF Due, IsEmpty
    <3>. QED  BY <3>1 DEF Packaged
  <2>. QED  BY <2>1, <2>2
<1>2. v = 7 => ~ Class \subseteq f.columns
  BY WhenApplicable DEF Due
<1>. QED  BY <1>1, <1>2 DEF BodyFails, Due

\* The first migration makes every table of a new file.
LEMMA EmptyMigrated ==
  ASSUME NEW f \in File, IsEmpty(f)
  PROVE  IsShaped(Migrated(f, 1))
<1>1. PICK g : g = Migrated(f, 1)
  OBVIOUS
<1>2. g.version = 1 /\ g.ledger = f.ledger \cup {1} /\ g.columns = f.columns \cup Added(f, 1)
  BY <1>1, MigratedFields DEF Packaged
<1>3. CurrentColumns \subseteq g.columns
  <2>1. TablesOf(f) = {}
    BY DEF IsEmpty, TablesOf
  <2>. QED  BY <1>2, <2>1 DEF Added
<1>4. Required[1] \cup BaseColumns \cup GapFilters \cup ResultSubject \cup Locator \subseteq CurrentColumns
  BY RequiredColumns DEF CurrentColumns, BaseColumns
<1>5. IsShaped(g)
  BY <1>2, <1>3, <1>4 DEF IsShaped, IsEmpty, Packaged
<1>. QED  BY <1>1, <1>5

\* Only migration 3 adds the run of a gap, and only migration 5 that of a result.
LEMMA AddedRuns ==
  ASSUME NEW f, NEW v \in Packaged, v > 1
  PROVE  /\ v # 3 => Added(f, v) \cap GapRun = {}
         /\ v # 5 => Added(f, v) \cap ResultRun = {}
<1>. USE DEF Packaged, GapFilters, GapRun, ResultSubject, ResultRun, Locator, Links, Class
<1>1. CASE v \in {2, 6}
  BY <1>1 DEF Added
<1>2. CASE v = 3
  BY <1>2 DEF Added
<1>3. CASE v = 4
  BY <1>3 DEF Added
<1>4. CASE v = 5
  BY <1>4 DEF Added
<1>5. CASE v = 7
  BY <1>5 DEF Added
<1>6. CASE v = 8
  BY <1>6 DEF Added, RunTime, ResultExport, LinkSnapshot, RunCatalogue
<1>. QED  BY <1>1, <1>2, <1>3, <1>4, <1>5, <1>6

\* A migration that is to come leaves the columns of its version.
LEMMA ShapedMigrated ==
  ASSUME NEW f \in File, IsShaped(f), NEW v \in Packaged, Due(f, v), f.version <= v,
         \A w \in Packaged : w < v => ~Due(f, w)
  PROVE  IsShaped(Migrated(f, v))
<1>1. PICK g : g = Migrated(f, v)
  OBVIOUS
<1>2. PICK added : added = Added(f, v)
  OBVIOUS
<1>3. g.version = v /\ g.ledger = f.ledger \cup {v} /\ g.columns = f.columns \cup added
  BY <1>1, <1>2, MigratedFields
<1>4. v > 1 /\ v \notin f.ledger /\ f.version \in Packaged /\ f.version < v
  BY DEF IsShaped, Due, Packaged
<1>5. g.version \in g.ledger \cap Packaged /\ \A w \in g.ledger : w <= g.version
  <2>1. \A w \in f.ledger : w \in Nat /\ w <= f.version
    BY DEF IsShaped, File
  <2>. QED  BY <1>3, <1>4, <2>1 DEF Packaged
<1>6. Required[1] \cup BaseColumns \subseteq f.columns
  BY <1>4, RequiredGrows DEF IsShaped
<1>7. v > 3 => GapFilters \subseteq f.columns
  BY ShapedGaps DEF Packaged
<1>8. Required[v] \subseteq g.columns
  <2>1. CASE v \in {2, 3}
    BY <1>2, <1>3, <1>6, <2>1, RequiredColumns DEF Added
  <2>2. CASE v = 4
    <3>1. added = Locator /\ ResultSubject \subseteq f.columns
      BY <1>2, <2>2, WhenApplicable DEF Added, Due
    <3>. QED  BY <1>3, <1>6, <1>7, <2>2, <3>1, RequiredColumns
  <2>3. CASE v = 5
    <3>1. added = ResultSubject \cup ResultRun \cup Locator
      BY <1>2, <2>3 DEF Added
    <3>. QED  BY <1>3, <1>6, <1>7, <2>3, <3>1, RequiredColumns
  <2>4. CASE v = 6
    <3>1. added = Links /\ ResultRun \cup ResultSubject \subseteq f.columns
      BY <1>2, <2>4, WhenApplicable DEF Added, Due
    <3>2. Locator \subseteq f.columns
      BY <3>1 DEF IsShaped
    <3>. QED  BY <1>3, <1>6, <1>7, <2>4, <3>1, <3>2, RequiredColumns
  <2>5. CASE v = 7
    <3>1. added = Class /\ Required[6] \subseteq f.columns
      BY <1>2, <2>5, WhenApplicable DEF Added, Due
    <3>. QED  BY <1>3, <2>5, <3>1, RequiredColumns
  <2>6. CASE v = 8
    <3>1. added = RunTime \cup ResultExport \cup LinkSnapshot \cup RunCatalogue
      BY <1>2, <2>6 DEF Added
    <3>2. Required[7] \subseteq f.columns
      BY <2>6, WhenApplicable DEF Due
    <3>. QED  BY <1>3, <2>6, <3>1, <3>2, RequiredColumns
  <2>. QED  BY <1>4, <2>1, <2>2, <2>3, <2>4, <2>5, <2>6 DEF Packaged
<1>9. GapRun \subseteq g.columns => GapFilters \subseteq g.columns
  <2>1. CASE v = 3
    BY <1>2, <1>3, <2>1 DEF Added
  <2>2. CASE v # 3
    BY <1>2, <1>3, <1>4, <2>2, AddedRuns DEF IsShaped
  <2>. QED  BY <2>1, <2>2
<1>10. ResultRun \subseteq g.columns => ResultSubject \cup Locator \subseteq g.columns
  <2>1. CASE v = 5
    BY <1>2, <1>3, <2>1 DEF Added
  <2>2. CASE v # 5
    BY <1>2, <1>3, <1>4, <2>2, AddedRuns DEF IsShaped
  <2>. QED  BY <2>1, <2>2
<1>11. IsShaped(g)
  BY <1>3, <1>5, <1>6, <1>8, <1>9, <1>10 DEF IsShaped
<1>. QED  BY <1>1, <1>11

\* A file without migrations to come has all columns: its version is the last,
\* or it had the columns of the later ones already.
LEMMA ShapedIsCurrent ==
  ASSUME NEW f \in File, IsShaped(f), NoneDue(f, Packaged)
  PROVE  CurrentColumns \subseteq f.columns
<1>1. PICK n \in Packaged : n = f.version
  BY DEF IsShaped
<1>2. /\ n \in f.ledger /\ Required[n] \cup BaseColumns \subseteq f.columns
      /\ \A v \in Packaged : v > n => v \notin f.ledger
  <2>1. \A v \in f.ledger : v <= n
    BY <1>1 DEF IsShaped
  <2>. QED  BY <1>1, <2>1 DEF IsShaped, Packaged
<1>3. \A v \in Packaged : v > n => ~Applicable(f, v, n)
  BY <1>1, <1>2 DEF NoneDue, Due
<1>4. \A m \in 5 .. 7 : n <= m => Recognized(f, n, m)
  BY <1>2 DEF Recognized, Packaged
<1>5. Required[6] \subseteq f.columns
  <2>1. CASE n >= 6
    <3>1. Required[6] \subseteq Required[n]
      BY <2>1, RequiredGrows DEF Packaged
    <3>. QED  BY <1>2, <3>1
  <2>2. CASE n < 6
    <3>1. GapFilters \subseteq f.columns
      BY ShapedGaps DEF NoneDue, Packaged
    <3>2. ResultRun \cup ResultSubject \cup Locator \subseteq f.columns
      <4>1. CASE n = 5
        BY <1>2, <4>1, RequiredColumns
      <4>2. CASE n < 5
        <5>1. ~Applicable(f, 5, n)
          BY <1>3, <4>2 DEF Packaged
        <5>. QED  BY <1>2, <5>1, WhenApplicable DEF IsShaped, BaseColumns
      <4>. QED  BY <2>2, <4>1, <4>2 DEF Packaged
    <3>3. Required[1] \subseteq f.columns
      BY <1>2, RequiredGrows
    <3>4. Links \subseteq f.columns
      <4>1. ~Applicable(f, 6, n) /\ Recognized(f, n, 5)
        BY <1>3, <1>4, <2>2 DEF Packaged
      <4>2. RunId \cup EvidenceBase \subseteq f.columns
        BY <1>2, <3>3, RequiredColumns DEF BaseColumns
      <4>. QED  BY <3>2, <4>1, <4>2, WhenApplicable
    <3>. QED  BY <3>1, <3>2, <3>3, <3>4, RequiredColumns
  <2>. QED  BY <2>1, <2>2 DEF Packaged
<1>6. Required[7] \subseteq f.columns
  <2>1. CASE n >= 7
    <3>1. Required[7] \subseteq Required[n]
      BY <2>1, RequiredGrows DEF Packaged
    <3>. QED  BY <1>2, <3>1
  <2>2. CASE n < 7
    <3>1. ~Applicable(f, 7, n) /\ Recognized(f, n, 6)
      BY <1>3, <1>4, <2>2 DEF Packaged
    <3>. QED  BY <1>5, <3>1, WhenApplicable, RequiredColumns
  <2>. QED  BY <2>1, <2>2 DEF Packaged
<1>7. Required[8] \subseteq f.columns
  <2>1. CASE n = 8
    BY <1>2, <2>1
  <2>2. CASE n < 8
    <3>1. ~Applicable(f, 8, n) /\ Recognized(f, n, 7)
      BY <1>3, <1>4, <2>2 DEF Packaged
    <3>. QED  BY <1>6, <3>1, WhenApplicable
  <2>. QED  BY <2>1, <2>2 DEF Packaged
<1>. QED  BY <1>2, <1>7, RequiredColumns DEF CurrentColumns, BaseColumns

\* A handle leaves a sound file sound.
LEMMA HandledIsShaped ==
  ASSUME NEW f, IsShaped(f), NEW g, g.version = f.version, g.ledger = f.ledger,
         g.columns = f.columns \cup ScoreColumns
  PROVE  IsShaped(g)
<1>1. \A columns : columns \cap ScoreColumns = {} =>
        (columns \subseteq g.columns <=> columns \subseteq f.columns)
  OBVIOUS
<1>2. /\ GapRun \subseteq g.columns => GapRun \subseteq f.columns
      /\ ResultRun \subseteq g.columns => ResultRun \subseteq f.columns
  BY <1>1, ScoreColumnsApart DEF SubjectColumns, GapFilters
<1>. QED  BY <1>2 DEF IsShaped

\* What a step makes of a sound file.
LEMMA SoundFileStep ==
  ASSUME OrderInv, IsSound(file), [Next]_vars
  PROVE  /\ IsSound(file')
         /\ file.ledger \subseteq file'.ledger /\ file.columns \subseteq file'.columns
<1>1. file \in File /\ (IsEmpty(file) \/ IsShaped(file))
  BY SoundIs DEF OrderInv, TypeOK
<1>2. file.ledger \subseteq file'.ledger /\ file.columns \subseteq file'.columns
  BY NothingIsLost DEF Kept
<1>3. ASSUME NEW o \in Opener, Migrate(o)
      PROVE  IsShaped(file')
  <2>1. PICK v \in Packaged : v = version[o]
    BY DEF OrderInv, TypeOK
  <2>2. /\ file' = Migrated(file, v) /\ Due(file, v) /\ file.version <= v
        /\ \A w \in Packaged : w < v => ~Due(file, w)
    BY <1>3, <2>1, FirstDue DEF Migrate, AlreadyApplied
  <2>3. CASE IsShaped(file)
    BY <1>1, <2>2, <2>3, ShapedMigrated
  <2>4. CASE IsEmpty(file)
    <3>1. Due(file, 1)
      BY <2>4, WhenApplicable DEF Due, IsEmpty
    <3>2. v = 1
      BY <2>2, <3>1 DEF Packaged
    <3>. QED  BY <1>1, <2>2, <2>4, <3>2, EmptyMigrated
  <2>. QED  BY <1>1, <2>3, <2>4
<1>4. ASSUME NEW o \in Opener, RepairScores(o) \/ Write(o)
      PROVE  IsShaped(file')
  <2>1. PICK g : g = file'
    OBVIOUS
  <2>2. /\ g.version = file.version /\ g.ledger = file.ledger
        /\ g.columns = file.columns \cup ScoreColumns
    <3>1. CASE RepairScores(o)
      BY <1>1, <2>1, <3>1, RepairedFields DEF RepairScores, Fields
    <3>2. CASE Write(o)
      BY <1>1, <2>1, <3>2, WrittenFields DEF Write
    <3>. QED  BY <1>4, <3>1, <3>2
  <2>3. ~IsEmpty(file)
    <3>1. InOrder(o) /\ pc[o] \in AllBehind
      BY <1>4 DEF OrderInv, RepairScores, Write, AllBehind
    <3>2. ~Due(file, 1)
      BY <3>1 DEF InOrder, BehindIsDone, NoneDue, Behind, Packaged
    <3>. QED  BY <3>2, WhenApplicable DEF Due, IsEmpty
  <2>. QED  BY <1>1, <2>1, <2>2, <2>3, HandledIsShaped
<1>5. IsSound(file')
  BY <1>1, <1>3, <1>4, SoundIs, FileSteps
<1>. QED  BY <1>2, <1>5

\* The outcome of each step of an opener of a sound file.
LEMMA SoundOutcomes ==
  ASSUME OrderInv, SoundInv, IsSound(origin), NEW o \in Opener
  PROVE  /\ ~RejectNewer(o) /\ ~MigrationFails(o) /\ ~RejectInvalid(o)
         /\ ReadFinalVersion(o) =>
              seen'[o] \in file.ledger \cap Packaged /\ Required[seen'[o]] \subseteq file.columns
<1>1. /\ IsEmpty(file) \/ IsShaped(file)
      /\ pc[o] = "required" =>
           seen[o] \in file.ledger \cap Packaged /\ Required[seen[o]] \subseteq file.columns
  BY SoundIs DEF SoundInv
<1>2. ~RejectNewer(o)
  BY <1>1 DEF RejectNewer, IsEmpty, IsShaped, Packaged
<1>3. ~RejectInvalid(o)
  BY <1>1 DEF RejectInvalid, IsValid
<1>4. ~MigrationFails(o)
  <2>. SUFFICES ASSUME MigrationFails(o) PROVE FALSE
    OBVIOUS
  <2>1. PICK v \in Packaged : v = version[o]
    BY DEF OrderInv, TypeOK
  <2>2. Due(file, v) /\ \A w \in Packaged : w < v => ~Due(file, w)
    BY <2>1, FirstDue DEF MigrationFails, AlreadyApplied
  <2>. QED  BY <1>1, <2>1, <2>2, ShapedMigrates DEF MigrationFails
<1>5. ASSUME ReadFinalVersion(o)
      PROVE  seen'[o] \in file.ledger \cap Packaged /\ Required[seen'[o]] \subseteq file.columns
  <2>1. ~Due(file, 1)
    BY <1>5 DEF ReadFinalVersion, OrderInv, InOrder, BehindIsDone, NoneDue, Behind, AllBehind, Packaged
  <2>2. IsShaped(file)
    BY <1>1, <2>1, WhenApplicable DEF Due, IsEmpty
  <2>3. seen'[o] = file.version
    BY <1>5 DEF ReadFinalVersion, OrderInv, TypeOK
  <2>. QED  BY <2>2, <2>3 DEF IsShaped
<1>. QED  BY <1>2, <1>3, <1>4, <1>5

\* Every step keeps a sound file sound and refuses nobody for it.
LEMMA SoundStep ==
  ASSUME OrderInv, SoundInv, [Next]_vars
  PROVE  SoundInv'
<1>1. origin' = origin
  BY DEF Next, OpenStep, vars, CheckLedger, ReadVersion, CheckApplicable, TakeLock, BusyTimeout,
       SkipMigration, Migrate, MigrationFails, ReadFinalVersion, Validate, RejectInvalid, RepairScores,
       RepairRefused, RejectNewer, StartMigrations, StatementFails, Crash, Close, FindScoresOutdated,
       Write, End
<1>. SUFFICES ASSUME IsSound(origin) PROVE SoundInv'
  BY <1>1 DEF SoundInv
<1>2. IsSound(file) /\ IsSound(file') /\ file.ledger \subseteq file'.ledger /\ file.columns \subseteq file'.columns
  BY SoundFileStep DEF SoundInv
<1>. DEFINE Good(o) == /\ outcome[o] \in {"none", "open", "busy", "error"}
                       /\ pc[o] = "required" =>
                            seen[o] \in file.ledger \cap Packaged /\ Required[seen[o]] \subseteq file.columns
<1>3. \A o \in Opener : Good(o)
  BY DEF SoundInv
<1>4. ASSUME NEW p \in Opener, pc'[p] = pc[p], seen'[p] = seen[p], outcome'[p] = outcome[p]
      PROVE  Good(p)'
  BY <1>2, <1>3, <1>4
<1>5. ASSUME NEW o \in Opener, pc'[o] # "required", outcome'[o] \in {"none", "open", "busy", "error"},
             \A p \in Opener \ {o} : pc'[p] = pc[p] /\ seen'[p] = seen[p] /\ outcome'[p] = outcome[p]
      PROVE  \A p \in Opener : Good(p)'
  BY <1>4, <1>5
<1>. HIDE DEF Good
<1>6. ASSUME UNCHANGED vars
      PROVE  \A p \in Opener : Good(p)'
  BY <1>4, <1>6 DEF vars
<1>. USE DEF OrderInv, TypeOK
<1>7. ASSUME NEW o \in Opener, NEW result \in {"none", "busy", "error"}, End(o, result)
      PROVE  \A p \in Opener : Good(p)'
  BY <1>5, <1>7 DEF End, Goto
<1>8. ASSUME NEW o \in Opener, BusyTimeout(o) \/ StatementFails(o) \/ Crash(o) \/ Close(o)
      PROVE  \A p \in Opener : Good(p)'
  BY <1>7, <1>8 DEF BusyTimeout, StatementFails, Crash, Close
<1>9. ASSUME NEW o \in Opener, RejectNewer(o) \/ MigrationFails(o) \/ RejectInvalid(o)
      PROVE  FALSE
  BY <1>9, SoundOutcomes
<1>10. ASSUME NEW o \in Opener, ReadFinalVersion(o)
       PROVE  \A p \in Opener : Good(p)'
  <2>1. file' = file /\ outcome' = outcome
    BY <1>10 DEF ReadFinalVersion
  <2>2. outcome[o] \in {"none", "open", "busy", "error"}
    BY <1>3 DEF Good
  <2>3. Good(o)'
    BY <1>10, <2>1, <2>2, SoundOutcomes DEF Good
  <2>4. \A p \in Opener \ {o} : pc'[p] = pc[p] /\ seen'[p] = seen[p]
    BY <1>10 DEF ReadFinalVersion, Goto
  <2>. QED  BY <1>4, <2>1, <2>3, <2>4
<1>11. \A o \in Opener : outcome[o] \in {"none", "open", "busy", "error"}
  BY <1>3 DEF Good
<1>12. ASSUME NEW o \in Opener, StartMigrations(o) \/ Validate(o)
       PROVE  \A p \in Opener : Good(p)'
  BY <1>5, <1>12 DEF StartMigrations, Validate, Goto
<1>13. ASSUME NEW o \in Opener, NextMigration(o)
       PROVE  pc'[o] # "required" /\ \A p \in Opener \ {o} : pc'[p] = pc[p]
  BY <1>13 DEF NextMigration, Goto
<1>14. ASSUME NEW o \in Opener, CheckLedger(o) \/ CheckApplicable(o) \/ SkipMigration(o) \/ Migrate(o)
       PROVE  \A p \in Opener : Good(p)'
  <2>1. pc'[o] # "required" /\ \A p \in Opener \ {o} : pc'[p] = pc[p]
    BY <1>13, <1>14 DEF CheckLedger, CheckApplicable, SkipMigration, Migrate, Goto
  <2>2. seen' = seen /\ outcome' = outcome
    BY <1>14 DEF CheckLedger, CheckApplicable, SkipMigration, Migrate
  <2>. QED  BY <1>5, <1>11, <2>1, <2>2
<1>15. ASSUME NEW o \in Opener, \/ ReadVersion(o) \/ TakeLock(o) \/ FindScoresOutdated(o) \/ RepairScores(o)
                                \/ RepairRefused(o) \/ Write(o)
       PROVE  \A p \in Opener : Good(p)'
  <2>1. pc'[o] # "required" /\ \A p \in Opener \ {o} : pc'[p] = pc[p] /\ seen'[p] = seen[p]
    BY <1>15 DEF ReadVersion, TakeLock, FindScoresOutdated, RepairScores, RepairRefused, Write, Goto
  <2>2. outcome' = outcome
    BY <1>15 DEF ReadVersion, TakeLock, FindScoresOutdated, RepairScores, RepairRefused, Write
  <2>. QED  BY <1>5, <1>11, <2>1, <2>2
<1>16. \A p \in Opener : Good(p)'
  BY <1>6, <1>8, <1>9, <1>10, <1>12, <1>14, <1>15 DEF Next, OpenStep
<1>. QED  BY <1>2, <1>16 DEF SoundInv, Good

\* No interleaving of openers makes the opening of a sound file fail, and who
\* has it open finds all its columns.
THEOREM SoundFilesDoOpen == Spec => []SoundFilesOpen
<1>1. Init => SoundInv
  BY DEF Init, SoundInv
<1>2. OrderInv /\ SoundInv => SoundFilesOpen
  <2>. SUFFICES ASSUME OrderInv, SoundInv, IsSound(origin), NEW o \in Opener
                PROVE  /\ outcome[o] \in {"none", "open", "busy", "error"}
                       /\ HasHandle(o) => CurrentColumns \subseteq file.columns
    BY DEF SoundFilesOpen
  <2>1. ASSUME HasHandle(o)
        PROVE  CurrentColumns \subseteq file.columns
    <3>1. file \in File /\ NoneDue(file, Packaged)
      BY <2>1 DEF OrderInv, TypeOK, InOrder, BehindIsDone, Behind, AllBehind, HasHandle
    <3>2. ~IsEmpty(file)
      BY <3>1, WhenApplicable DEF NoneDue, Due, IsEmpty, Packaged
    <3>3. IsShaped(file)
      BY <3>2, SoundIs DEF SoundInv
    <3>. QED  BY <3>1, <3>3, ShapedIsCurrent
  <2>. QED  BY <2>1 DEF SoundInv
<1>3. OrderInv /\ SoundInv /\ [Next]_vars => SoundInv'
  BY SoundStep
<1>. QED  BY <1>1, <1>2, <1>3, OrderStart, OrderStep, PTL DEF Spec

-----------------------------------------------------------------------------
(***************************************************************************)
(* Concurrent openers leave what one alone would have left.                *)
(***************************************************************************)

\* Stages is defined by recursion over the migrations.
LEMMA StagesAre ==
  ASSUME NEW f
  PROVE  /\ Stages(f)[0] = f
         /\ \A v \in 1 .. 8 : Stages(f)[v] = Attempted(Stages(f)[v - 1], v)
<1>. DEFINE Def(g) == g = [v \in {0} \cup Packaged |-> IF v = 0 THEN f ELSE Attempted(g[v - 1], v)]
<1>1. \E g : Def(g)
  <2>1. PICK s1 : s1 = Attempted(f, 1)
    OBVIOUS
  <2>2. PICK s2 : s2 = Attempted(s1, 2)
    OBVIOUS
  <2>3. PICK s3 : s3 = Attempted(s2, 3)
    OBVIOUS
  <2>4. PICK s4 : s4 = Attempted(s3, 4)
    OBVIOUS
  <2>5. PICK s5 : s5 = Attempted(s4, 5)
    OBVIOUS
  <2>6. PICK s6 : s6 = Attempted(s5, 6)
    OBVIOUS
  <2>7. PICK s7 : s7 = Attempted(s6, 7)
    OBVIOUS
  <2>8. PICK s8 : s8 = Attempted(s7, 8)
    OBVIOUS
  <2>9. PICK stage : stage = <<f, s1, s2, s3, s4, s5, s6, s7, s8>>
    OBVIOUS
  <2>10. PICK g : g = [v \in {0} \cup Packaged |-> stage[v + 1]]
    OBVIOUS
  <2>11. /\ g[0] = f /\ g[1] = s1 /\ g[2] = s2 /\ g[3] = s3 /\ g[4] = s4
         /\ g[5] = s5 /\ g[6] = s6 /\ g[7] = s7 /\ g[8] = s8
    BY <2>9, <2>10 DEF Packaged
  <2>12. \A v \in {0} \cup Packaged : g[v] = IF v = 0 THEN f ELSE Attempted(g[v - 1], v)
    BY <2>1, <2>2, <2>3, <2>4, <2>5, <2>6, <2>7, <2>8, <2>11 DEF Packaged
  <2>13. Def(g)
    BY <2>10, <2>12
  <2>. QED  BY <2>13
<1>2. Stages(f) = CHOOSE g : Def(g)
  BY DEF Stages
<1>3. Def(Stages(f))
  <2>. HIDE DEF Def
  <2>. QED  BY <1>1, <1>2
<1>. QED  BY <1>3 DEF Packaged

\* A migration that is not to come is passed over.
LEMMA NotDueIsSkipped ==
  ASSUME NEW f, NEW v, ~Due(f, v)
  PROVE  Attempted(f, v) = f
BY DEF Attempted, Due

\* The openings of a file go alike once they are alike.
LEMMA StagesAgree ==
  ASSUME NEW f, NEW g, NEW v \in 0 .. 8, Stages(f)[v] = Stages(g)[v]
  PROVE  Settled(f) = Settled(g)
<1>. DEFINE Agree(n) == Stages(f)[n] = Stages(g)[n]
<1>1. ASSUME NEW n \in 1 .. 8, Agree(n - 1)
      PROVE  Agree(n)
  BY <1>1, StagesAre
<1>. HIDE DEF Agree
<1>2. \A n \in 0 .. 7 : Agree(n) => Agree(n + 1)
  <2>1. \A n \in 0 .. 7 : n + 1 \in 1 .. 8 /\ (n + 1) - 1 = n
    OBVIOUS
  <2>. QED  BY <1>1, <2>1
<1>3. Agree(7) => Agree(8)
  BY <1>2
<1>4. Agree(6) => Agree(8)
  BY <1>2, <1>3
<1>5. Agree(5) => Agree(8)
  BY <1>2, <1>4
<1>6. Agree(4) => Agree(8)
  BY <1>2, <1>5
<1>7. Agree(3) => Agree(8)
  BY <1>2, <1>6
<1>8. Agree(2) => Agree(8)
  BY <1>2, <1>7
<1>9. Agree(1) => Agree(8)
  BY <1>2, <1>8
<1>10. Agree(0) => Agree(8)
  BY <1>2, <1>9
<1>11. Agree(v)
  BY DEF Agree
<1>12. v \in {0, 1, 2, 3, 4, 5, 6, 7, 8}
  OBVIOUS
<1>13. Agree(8)
  BY <1>3, <1>4, <1>5, <1>6, <1>7, <1>8, <1>9, <1>10, <1>11, <1>12
<1>. QED  BY <1>13 DEF Agree, Settled

\* As long as nothing is to come, an opening changes nothing.
LEMMA StagesIdle ==
  ASSUME NEW f, NEW v \in 0 .. 8, \A w \in 1 .. v : ~Due(f, w)
  PROVE  Stages(f)[v] = f
<1>. DEFINE Idle(n) == Stages(f)[n] = f
<1>1. ASSUME NEW n \in 0 .. 7, n < v, Idle(n)
      PROVE  Idle(n + 1)
  <2>1. n + 1 \in 1 .. 8 /\ (n + 1) - 1 = n /\ n + 1 \in 1 .. v
    BY <1>1
  <2>2. Stages(f)[n + 1] = Attempted(Stages(f)[(n + 1) - 1], n + 1)
    BY <2>1, StagesAre
  <2>3. Attempted(f, n + 1) = f
    BY <2>1, NotDueIsSkipped
  <2>. QED  BY <1>1, <2>1, <2>2, <2>3
<1>2. Idle(0)
  BY StagesAre
<1>. HIDE DEF Idle
<1>3. 0 < v => Idle(1)
  BY <1>1, <1>2
<1>4. 1 < v => Idle(2)
  BY <1>1, <1>3
<1>5. 2 < v => Idle(3)
  BY <1>1, <1>4
<1>6. 3 < v => Idle(4)
  BY <1>1, <1>5
<1>7. 4 < v => Idle(5)
  BY <1>1, <1>6
<1>8. 5 < v => Idle(6)
  BY <1>1, <1>7
<1>9. 6 < v => Idle(7)
  BY <1>1, <1>8
<1>10. 7 < v => Idle(8)
  BY <1>1, <1>9
<1>11. Idle(v)
  <2>1. v \in {0, 1, 2, 3, 4, 5, 6, 7, 8}
    OBVIOUS
  <2>. QED  BY <1>2, <1>3, <1>4, <1>5, <1>6, <1>7, <1>8, <1>9, <1>10, <2>1
<1>. QED  BY <1>11 DEF Idle

\* The first migration that is to come may be applied before the opening.
LEMMA FirstMigrationFirst ==
  ASSUME NEW f \in File, NEW v \in Packaged, Due(f, v), ~BodyFails(f, v),
         \A w \in Packaged : w < v => ~Due(f, w)
  PROVE  Settled(Migrated(f, v)) = Settled(f)
<1>1. PICK g : g = Migrated(f, v)
  OBVIOUS
<1>2. v \in 1 .. 8 /\ v - 1 \in 0 .. 8
  BY DEF Packaged
<1>3. Stages(f)[v] = g
  <2>1. \A w \in 1 .. v - 1 : ~Due(f, w)
    BY DEF Packaged
  <2>2. Stages(f)[v - 1] = f
    BY <1>2, <2>1, StagesIdle
  <2>3. Attempted(f, v) = Migrated(f, v)
    BY DEF Attempted, Due
  <2>. QED  BY <1>1, <1>2, <2>2, <2>3, StagesAre
<1>4. Stages(g)[v] = g
  <2>1. \A w \in Packaged : w < v => ~Due(g, w)
    BY <1>1, DoneStaysDone
  <2>2. ~Due(g, v)
    BY <1>1, MigratedFields DEF Due
  <2>3. \A w \in 1 .. v : ~Due(g, w)
    BY <2>1, <2>2 DEF Packaged
  <2>. QED  BY <1>2, <2>3, StagesIdle DEF Packaged
<1>. QED  BY <1>1, <1>2, <1>3, <1>4, StagesAgree DEF Packaged

\* Where nothing is to come an undisturbed opening changes nothing.
LEMMA NoneDueIsSettled ==
  ASSUME NEW f, NoneDue(f, Packaged)
  PROVE  Settled(f) = f
<1>1. \A w \in 1 .. 8 : ~Due(f, w)
  BY DEF NoneDue, Packaged
<1>2. Stages(f)[8] = f
  BY <1>1, StagesIdle
<1>. QED  BY <1>2 DEF Settled

\* No step changes what an undisturbed opening would make of the file.
LEMMA SettlesStep ==
  ASSUME OrderInv, SettlesAlike, [Next]_vars
  PROVE  SettlesAlike'
<1>1. origin' = origin /\ (written' = written \/ written' = TRUE)
  BY DEF Next, OpenStep, vars, CheckLedger, ReadVersion, CheckApplicable, TakeLock, BusyTimeout,
       SkipMigration, Migrate, MigrationFails, ReadFinalVersion, Validate, RejectInvalid, RepairScores,
       RepairRefused, RejectNewer, StartMigrations, StatementFails, Crash, Close, FindScoresOutdated,
       Write, End
<1>2. file \in File
  BY DEF OrderInv, TypeOK
<1>3. CASE file' = file
  BY <1>1, <1>3 DEF SettlesAlike
<1>4. ASSUME NEW o \in Opener, Migrate(o)
      PROVE  SettlesAlike'
  <2>1. PICK v \in Packaged : v = version[o]
    BY DEF OrderInv, TypeOK
  <2>2. /\ file' = Migrated(file, v) /\ Due(file, v) /\ ~BodyFails(file, v)
        /\ \A w \in Packaged : w < v => ~Due(file, w)
    BY <1>4, <2>1, FirstDue DEF Migrate, AlreadyApplied
  <2>3. Settled(file') = Settled(file)
    BY <1>2, <2>2, FirstMigrationFirst
  <2>. QED  BY <1>1, <2>3 DEF SettlesAlike
<1>5. ASSUME NEW o \in Opener, RepairScores(o)
      PROVE  SettlesAlike'
  <2>1. NoneDue(file, Packaged)
    BY <1>5 DEF RepairScores, OrderInv, InOrder, BehindIsDone, Behind, AllBehind
  <2>2. NoneDue(file', Packaged)
    <3>1. PICK g : g = file'
      OBVIOUS
    <3>2. /\ g.version = file.version /\ g.ledger = file.ledger
          /\ g.columns = file.columns \cup ScoreColumns
      BY <1>2, <1>5, <3>1, RepairedFields DEF RepairScores, Fields
    <3>3. NoneDue(g, Packaged)
      BY <2>1, <3>2, HandlesKeepDue DEF NoneDue
    <3>. QED  BY <3>1, <3>3
  <2>3. Settled(file) = file /\ Settled(file') = file'
    BY <2>1, <2>2, NoneDueIsSettled
  <2>4. WithoutScores(file') = WithoutScores(file)
    BY <1>2, <1>5, RepairedRest DEF RepairScores
  <2>. QED  BY <1>1, <2>3, <2>4 DEF SettlesAlike
<1>6. ASSUME NEW o \in Opener, Write(o)
      PROVE  SettlesAlike'
  BY <1>6 DEF Write, SettlesAlike
<1>. QED  BY <1>3, <1>4, <1>5, <1>6, FileSteps

\* Whatever interleaves, fails or crashes, a file that somebody has open is what
\* one undisturbed opening would have made of it.
THEOREM OpenedFilesAreSettled == Spec => []OpenedFileIsSettled
<1>1. Init => SettlesAlike
  BY DEF Init, SettlesAlike
<1>2. OrderInv /\ SettlesAlike /\ [Next]_vars => SettlesAlike'
  BY SettlesStep
<1>3. OrderInv /\ SettlesAlike => OpenedFileIsSettled
  <2>. SUFFICES ASSUME OrderInv, SettlesAlike, ~written, NEW o \in Opener, HasHandle(o)
                PROVE  WithoutScores(file) = WithoutScores(Settled(origin))
    BY DEF OpenedFileIsSettled
  <2>1. NoneDue(file, Packaged)
    BY DEF OrderInv, InOrder, BehindIsDone, Behind, AllBehind, HasHandle
  <2>2. Settled(file) = file
    BY <2>1, NoneDueIsSettled
  <2>. QED  BY <2>2 DEF SettlesAlike
<1>. QED  BY <1>1, <1>2, <1>3, OrderStart, OrderStep, PTL DEF Spec

-----------------------------------------------------------------------------
(***************************************************************************)
(* Repaired score tables are right.                                        *)
(***************************************************************************)
LEMMA NeedsScoresIs == \A f : NeedsScores(f) <=> NeedsBackfill(f)
BY DEF NeedsScores, NeedsBackfill

\* A migration keeps the id of a result, and gives it no run but its own or the
\* one in its id.
LEMMA MigratedRuns ==
  ASSUME NEW f \in File, NEW v \in Packaged, NEW s \in Migrated(f, v).results
  PROVE  \E r \in f.results :
           /\ s.id = r.id
           /\ s.run_id = r.run_id \/ \E i \in IdentitiesIn[r.id] : s.run_id = i.run_id
<1>1. s \in ResultsAfter(f, v)
  BY MigratedFields
<1>. f.results \subseteq ResultRow
  BY DEF File
<1>2. CASE v = 5
  <2>1. PICK r \in f.results : s = StatusFilled(f, Identified(r))
    BY <1>1, <1>2 DEF ResultsAfter
  <2>2. PICK i \in ResultRow : i = Identified(r) /\ i.id = r.id
    BY IdentifiedType
  <2>3. s.id = i.id /\ s.run_id = i.run_id
    BY <2>1, <2>2, StatusFilledType
  <2>4. i.run_id = r.run_id \/ \E j \in IdentitiesIn[r.id] : i.run_id = j.run_id
    <3>1. CASE IsIdentity(r.id)
      <4>1. PICK j \in IdentitiesIn[r.id] : j = TheIdentity(r.id)
        BY <3>1 DEF IsIdentity, TheIdentity
      <4>2. PICK control, rule : /\ control = OrElse(r.control_id, j.control_id)
                                 /\ rule = OrElse(r.rule_id, j.rule_id)
        BY Zenon
      <4>3. i = [r EXCEPT !.run_id = j.run_id, !.control_id = control, !.rule_id = rule]
        BY <2>2, <3>1, <4>1, <4>2 DEF Identified
      <4>. QED  BY <4>3 DEF ResultRow
    <3>2. CASE ~IsIdentity(r.id)
      BY <2>2, <3>2 DEF Identified
    <3>. QED  BY <3>1, <3>2
  <2>. QED  BY <2>2, <2>3, <2>4
<1>3. CASE v = 8
  <2>1. PICK r \in f.results : s = Framed(r)
    BY <1>1, <1>3 DEF ResultsAfter, Framed
  <2>. QED  BY <2>1, FramedType
<1>4. CASE v \notin {5, 8}
  BY <1>1, <1>4 DEF ResultsAfter
<1>. QED  BY <1>2, <1>3, <1>4

\* Without results there is nothing to fill in.
LEMMA NoResultsMigrated ==
  ASSUME NEW f \in File, f.results = {}, NEW v \in Packaged
  PROVE  Migrated(f, v).results = {}
<1>1. {StatusFilled(f, Identified(r)) : r \in f.results} = {}
  OBVIOUS
<1>2. {Framed(r) : r \in f.results} = {}
  OBVIOUS
<1>3. ResultsAfter(f, v) = {}
  BY <1>1, <1>2 DEF ResultsAfter, Framed
<1>. QED  BY <1>3, MigratedFields

\* The counts of a run and framework do not see results of none.
LEMMA ScoreRowOfScored ==
  ASSUME NEW results, NEW run, NEW framework, run # Blank, framework # Blank,
         NEW scored, scored = {r \in results : r.run_id # Blank /\ r.framework_id # Blank}
  PROVE  ScoreRow(scored, run, framework) = ScoreRow(results, run, framework)
<1>1. \A status :
        {r \in scored : r.run_id = run /\ r.framework_id = framework /\ r.status = status}
          = {r \in results : r.run_id = run /\ r.framework_id = framework /\ r.status = status}
  OBVIOUS
<1>2. CountsOf(scored, run, framework) = CountsOf(results, run, framework)
  BY <1>1, Zenon DEF CountsOf
<1>. QED  BY <1>2 DEF ScoreRow

\* A recounted row is about its run and framework.
LEMMA ScoreRowFields ==
  ASSUME NEW results, NEW run, NEW framework
  PROVE  /\ ScoreRow(results, run, framework).id = <<run, framework>>
         /\ ScoreRow(results, run, framework).run_id = run
         /\ ScoreRow(results, run, framework).framework_id = framework
BY DEF ScoreRow

\* A recount leaves the rows of the results, and other complete rows.
LEMMA RecountedMatch ==
  ASSUME NEW f \in File, ReadsBlank(f), ScoresKeyed(f)
  PROVE  /\ ScoresKeyed(Recounted(f))
         /\ NeedsBackfill(f) \/ ScoresMatch(f) =>
              \A r \in f.results : r.run_id # Blank /\ r.framework_id # Blank =>
                {s \in Recounted(f).scores : s.run_id = r.run_id /\ s.framework_id = r.framework_id}
                  = {ScoreRow(f.results, r.run_id, r.framework_id)}
<1>. f.results \subseteq ResultRow /\ DOMAIN f = Fields
  BY FileFields DEF File
<1>1. CASE ~NeedsBackfill(f)
  BY <1>1 DEF Recounted, ScoresMatch
<1>2. CASE NeedsBackfill(f) /\ ~ (ResultRun \cup ResultExport \subseteq f.columns)
  <2>1. Recounted(f) = f
    BY <1>2 DEF Recounted, ScoresBackfilled
  <2>2. \A r \in f.results : r.run_id = Blank \/ r.framework_id = Blank
    BY <1>2 DEF ReadsBlank
  <2>. QED  BY <2>1, <2>2
<1>3. CASE NeedsBackfill(f) /\ ResultRun \cup ResultExport \subseteq f.columns
  <2>. DEFINE scored == {r \in f.results : r.run_id # Blank /\ r.framework_id # Blank}
              rows   == {ScoreRow(scored, r.run_id, r.framework_id) : r \in scored}
              kept   == {s \in f.scores : ~IsLegacyScore(s)}
  <2>1. Recounted(f) = [f EXCEPT !.scores = ScoresReplaced(kept, rows)]
    BY <1>3 DEF Recounted, ScoresBackfilled
  <2>2. Recounted(f).scores = ScoresReplaced(kept, rows)
    <3>. HIDE DEF kept, rows
    <3>. QED  BY <2>1 DEF Fields
  <2>3. \A t \in rows : /\ t.id = <<t.run_id, t.framework_id>>
                        /\ \E r \in scored : t = ScoreRow(scored, r.run_id, r.framework_id)
    <3>. HIDE DEF scored
    <3>. SUFFICES ASSUME NEW t \in rows
                  PROVE  /\ t.id = <<t.run_id, t.framework_id>>
                         /\ \E r \in scored : t = ScoreRow(scored, r.run_id, r.framework_id)
      OBVIOUS
    <3>1. PICK r \in scored : t = ScoreRow(scored, r.run_id, r.framework_id)
      OBVIOUS
    <3>. QED  BY <3>1, ScoreRowFields
  <2>4. ScoresKeyed(Recounted(f))
    <3>. HIDE DEF rows
    <3>. QED  BY <2>2, <2>3 DEF ScoresKeyed, ScoresReplaced
  <2>5. ASSUME NEW r \in f.results, r.run_id # Blank, r.framework_id # Blank
        PROVE  {s \in Recounted(f).scores : s.run_id = r.run_id /\ s.framework_id = r.framework_id}
                 = {ScoreRow(f.results, r.run_id, r.framework_id)}
    <3>1. PICK row : row = ScoreRow(f.results, r.run_id, r.framework_id)
      OBVIOUS
    <3>2. row = ScoreRow(scored, r.run_id, r.framework_id)
      BY <2>5, <3>1, ScoreRowOfScored
    <3>3. row \in rows
      BY <2>5, <3>2
    <3>4. /\ row.id = <<r.run_id, r.framework_id>> /\ row.run_id = r.run_id
          /\ row.framework_id = r.framework_id
      BY <3>1, ScoreRowFields
    <3>5. ASSUME NEW s \in Recounted(f).scores, s.run_id = r.run_id, s.framework_id = r.framework_id
          PROVE  s = row
      <4>1. s \in rows \/ (s \in kept /\ \A t \in rows : t.id # s.id)
        <5>. HIDE DEF kept, rows
        <5>. QED  BY <2>2, <3>5 DEF ScoresReplaced
      <4>2. CASE s \in rows
        <5>1. PICK x \in scored : s = ScoreRow(scored, x.run_id, x.framework_id)
          BY <2>3, <4>2
        <5>2. x.run_id = r.run_id /\ x.framework_id = r.framework_id
          BY <3>5, <5>1, ScoreRowFields
        <5>. QED  BY <3>2, <5>1, <5>2
      <4>3. CASE s \in kept /\ \A t \in rows : t.id # s.id
        <5>1. s.id = <<s.run_id, s.framework_id>>
          BY <4>3 DEF ScoresKeyed
        <5>2. row.id = s.id
          BY <3>4, <3>5, <5>1
        <5>. QED  BY <3>3, <4>3, <5>2
      <4>. QED  BY <4>1, <4>2, <4>3
    <3>6. row \in Recounted(f).scores
      <4>. HIDE DEF kept, rows
      <4>. QED  BY <2>2, <3>3 DEF ScoresReplaced
    <3>7. {s \in Recounted(f).scores : s.run_id = r.run_id /\ s.framework_id = r.framework_id} = {row}
      BY <3>4, <3>5, <3>6
    <3>. QED  BY <3>1, <3>7
  <2>. QED  BY <2>4, <2>5
<1>. QED  BY <1>1, <1>2, <1>3

\* Only a migration, a repair and a write change the file.
LEMMA OtherSteps ==
  ASSUME [Next]_vars
  PROVE  /\ origin' = origin
         /\ \/ file' = file /\ written' = written
            \/ \E o \in Opener : Migrate(o) \/ RepairScores(o) \/ Write(o)
BY DEF Next, OpenStep, vars, CheckLedger, ReadVersion, CheckApplicable, TakeLock, BusyTimeout,
       SkipMigration, Migrate, MigrationFails, ReadFinalVersion, Validate, RejectInvalid, RepairScores,
       RepairRefused, RejectNewer, StartMigrations, StatementFails, Crash, Close, FindScoresOutdated,
       Write, End

\* A migration does not touch the counts.
LEMMA MigrateKeepsScores ==
  ASSUME OrderInv, ScoresInv, NEW o \in Opener, Migrate(o)
  PROVE  ScoresInv'
<1>1. PICK v \in Packaged : v = version[o]
  BY DEF OrderInv, TypeOK
<1>2. PICK g : g = file'
  OBVIOUS
<1>3. /\ file \in File /\ g = Migrated(file, v) /\ Due(file, v) /\ ~written /\ written' = written
      /\ origin' = origin
      /\ \A w \in Packaged : w < v => ~Due(file, w)
  BY <1>1, <1>2, FirstDue DEF Migrate, AlreadyApplied, OrderInv, TypeOK
<1>4. /\ g.scores = file.scores /\ g.runs = file.runs /\ g.ledger = file.ledger \cup {v}
      /\ g.columns = file.columns \cup Added(file, v)
  BY <1>3, MigratedFields
<1>5. ScoresKeyed(g)
  BY <1>4 DEF ScoresInv, ScoresKeyed
<1>6. \A p \in Opener : \A s \in g.results :
        s.run_id # NewRun[p] /\ \A i \in IdentitiesIn[s.id] : i.run_id # NewRun[p]
  <2>. SUFFICES ASSUME NEW p \in Opener, NEW s \in g.results
                PROVE  s.run_id # NewRun[p] /\ \A i \in IdentitiesIn[s.id] : i.run_id # NewRun[p]
    OBVIOUS
  <2>1. PICK r \in file.results :
          /\ s.id = r.id
          /\ s.run_id = r.run_id \/ \E i \in IdentitiesIn[r.id] : s.run_id = i.run_id
    BY <1>3, MigratedRuns
  <2>2. \A i \in IdentitiesIn[r.id] : i.run_id # NewRun[p]
    BY <1>3 DEF ScoresInv, RunsAreFresh
  <2>3. r.run_id # NewRun[p]
    BY <1>3 DEF ScoresInv, RunsAreFresh
  <2>. QED  BY <2>1, <2>2, <2>3
<1>7. RunsAreFresh'
  BY <1>2, <1>6 DEF RunsAreFresh
<1>8. 1 \notin g.ledger => g.results = {}
  BY <1>3, <1>4, NoResultsMigrated DEF ScoresInv
<1>9. ASSUME NeedsScores(origin)
      PROVE  NeedsScores(g) \/ (ScoresMatch(g) /\ (g.results = {} \/ NoneDue(g, Packaged)))
  <2>1. CASE v = 1
    <3>1. file.results = {}
      BY <1>3, <2>1 DEF Due, ScoresInv
    <3>2. g.results = {}
      BY <1>3, <3>1, NoResultsMigrated
    <3>. QED  BY <3>2 DEF ScoresMatch
  <2>2. CASE v # 1 /\ NeedsScores(file)
    <3>1. Added(file, v) \cap ScoreColumns = {}
      BY <2>2 DEF Added, Packaged, ScoreColumns, Links, GapFilters, GapRun, Locator, ResultSubject, ResultRun,
           Class, RunTime, ResultExport, LinkSnapshot, RunCatalogue
    <3>2. ScoreColumns \subseteq g.columns => ScoreColumns \subseteq file.columns
      BY <1>4, <3>1
    <3>. QED  BY <1>4, <2>2, <3>2 DEF NeedsScores
  <2>3. CASE v # 1 /\ ~NeedsScores(file)
    <3>1. file.results = {}
      BY <1>3, <1>9, <2>3 DEF ScoresInv, NoneDue
    <3>2. g.results = {}
      BY <1>3, <3>1, NoResultsMigrated
    <3>. QED  BY <3>2 DEF ScoresMatch
  <2>. QED  BY <2>1, <2>2, <2>3
<1>. QED  BY <1>2, <1>3, <1>5, <1>7, <1>8, <1>9 DEF ScoresInv

\* A handle has no migration to come before or after its step.
LEMMA HandleIsDone ==
  ASSUME OrderInv, NEW o \in Opener, RepairScores(o) \/ Write(o)
  PROVE  NoneDue(file, Packaged) /\ NoneDue(file', Packaged)
<1>1. NoneDue(file, Packaged)
  BY DEF RepairScores, Write, OrderInv, InOrder, BehindIsDone, Behind, AllBehind
<1>2. PICK g : g = file'
  OBVIOUS
<1>3. /\ g.version = file.version /\ g.ledger = file.ledger
      /\ g.columns = file.columns \cup ScoreColumns
  <2>1. file \in File
    BY DEF OrderInv, TypeOK
  <2>2. CASE RepairScores(o)
    BY <1>2, <2>1, <2>2, RepairedFields DEF RepairScores, Fields
  <2>3. CASE Write(o)
    BY <1>2, <2>1, <2>3, WrittenFields DEF Write
  <2>. QED  BY <2>2, <2>3
<1>4. NoneDue(g, Packaged)
  BY <1>1, <1>3, HandlesKeepDue DEF NoneDue
<1>. QED  BY <1>1, <1>2, <1>4

\* A repair counts every result of every run.
LEMMA RepairKeepsScores ==
  ASSUME OrderInv, ScoresInv, NEW o \in Opener, RepairScores(o)
  PROVE  ScoresInv'
<1>1. PICK g : g = file'
  OBVIOUS
<1>2. /\ file \in File /\ ReadsBlank(file) /\ g = ScoresRepaired(file)
      /\ written' = written /\ origin' = origin
  BY <1>1 DEF RepairScores, OrderInv, TypeOK
<1>3. /\ g.runs = file.runs /\ g.ledger = file.ledger /\ g.results = file.results
      /\ g.scores = Recounted(file).scores
  BY <1>2, RepairedFields DEF Fields
<1>4. ScoresKeyed(g)
  BY <1>2, <1>3, RecountedMatch DEF ScoresInv, ScoresKeyed
<1>5. RunsAreFresh'
  BY <1>1, <1>2, <1>3 DEF ScoresInv, RunsAreFresh
<1>6. NoneDue(g, Packaged)
  BY <1>1, HandleIsDone
<1>7. NeedsScores(origin) => ScoresMatch(g)
  <2>1. NeedsScores(origin) => NeedsBackfill(file) \/ ScoresMatch(file)
    BY NeedsScoresIs DEF ScoresInv
  <2>. QED  BY <1>2, <1>3, <2>1, RecountedMatch DEF ScoresInv, ScoresMatch
<1>. QED  BY <1>1, <1>2, <1>3, <1>4, <1>5, <1>6, <1>7 DEF ScoresInv

\* A write recounts the older runs first, and its own run has no other result.
LEMMA WriteKeepsScores ==
  ASSUME OrderInv, ScoresInv, NEW o \in Opener, Write(o)
  PROVE  ScoresInv'
<1>1. PICK g : g = file'
  OBVIOUS
<1>2. PICK run : run = NewRun[o]
  OBVIOUS
<1>3. /\ file \in File /\ ReadsBlank(file) /\ g = RunWritten(file, run) /\ run \notin file.runs
      /\ written' = TRUE /\ origin' = origin
  BY <1>1, <1>2 DEF Write, OrderInv, TypeOK
<1>4. run # Blank /\ "f" \in STRING
  BY <1>2, NewRunAssumption, LiteralsAssumption
<1>5. g.ledger = file.ledger /\ g.runs = file.runs \cup {run}
  BY <1>3, WrittenFields
<1>6. PICK new : new = NewResult(run)
  OBVIOUS
<1>7. new.run_id = run /\ new.framework_id = "f"
  BY <1>6 DEF NewResult
<1>8. PICK row : row = ScoreRow({new}, run, "f")
  OBVIOUS
<1>9. row.id = <<run, "f">> /\ row.run_id = run /\ row.framework_id = "f"
  BY <1>8, ScoreRowFields
<1>10. PICK old : old = Recounted(file).scores
  OBVIOUS
<1>11. g.results = file.results \cup {new} /\ g.scores = {row} \cup {s \in old : row.id # s.id}
  <2>1. g.results = file.results \cup {NewResult(run)}
    BY <1>3, WrittenFields
  <2>2. g.scores = ScoresReplaced(Recounted(file).scores, {ScoreRow({NewResult(run)}, run, "f")})
    BY <1>3, WrittenFields
  <2>3. g.scores = ScoresReplaced(old, {row})
    BY <1>6, <1>8, <1>10, <2>2
  <2>. QED  BY <1>6, <2>1, <2>3 DEF ScoresReplaced
<1>12. \A s \in old : ~IsLegacyScore(s) => s.id = <<s.run_id, s.framework_id>>
  BY <1>3, <1>10, RecountedMatch DEF ScoresInv, ScoresKeyed
<1>13. \A s \in old : ~IsLegacyScore(s)
  BY <1>10 DEF Write, RepairFails
<1>14. ScoresKeyed(g)
  BY <1>9, <1>11, <1>12 DEF ScoresKeyed
<1>15. \A r \in file.results : r.run_id # run
  BY <1>2, <1>3 DEF ScoresInv, RunsAreFresh
<1>16. RunsAreFresh'
  <2>1. \A p \in Opener : \A r \in g.results : r.run_id = NewRun[p] => NewRun[p] \in g.runs
    BY <1>5, <1>7, <1>11 DEF ScoresInv, RunsAreFresh
  <2>. QED  BY <1>1, <1>3, <2>1 DEF RunsAreFresh
<1>17. 1 \in g.ledger
  <2>1. ~Due(file, 1)
    BY HandleIsDone DEF NoneDue, Packaged
  <2>. QED  BY <1>5, <2>1, WhenApplicable DEF Due
<1>18. ASSUME NeedsScores(origin)
       PROVE  ScoresMatch(g)
  <2>1. NeedsBackfill(file) \/ ScoresMatch(file)
    BY <1>18, NeedsScoresIs DEF ScoresInv
  <2>2. \A r \in file.results : r.run_id # Blank /\ r.framework_id # Blank =>
          {s \in old : s.run_id = r.run_id /\ s.framework_id = r.framework_id}
            = {ScoreRow(file.results, r.run_id, r.framework_id)}
    BY <1>3, <1>10, <2>1, RecountedMatch DEF ScoresInv
  <2>3. ScoreRow(g.results, run, "f") = row
    <3>1. \A status : {r \in g.results : r.run_id = run /\ r.framework_id = "f" /\ r.status = status}
                        = {r \in {new} : r.run_id = run /\ r.framework_id = "f" /\ r.status = status}
      BY <1>11, <1>15
    <3>2. CountsOf(g.results, run, "f") = CountsOf({new}, run, "f")
      BY <3>1, Zenon DEF CountsOf
    <3>. QED  BY <1>8, <3>2 DEF ScoreRow
  <2>4. ASSUME NEW r \in file.results, r.run_id # Blank, r.framework_id # Blank
        PROVE  {s \in g.scores : s.run_id = r.run_id /\ s.framework_id = r.framework_id}
                 = {ScoreRow(g.results, r.run_id, r.framework_id)}
    <3>1. r.run_id # run
      BY <1>15
    <3>2. {s \in g.scores : s.run_id = r.run_id /\ s.framework_id = r.framework_id}
            = {s \in old : s.run_id = r.run_id /\ s.framework_id = r.framework_id}
      <4>1. \A s \in old : s.run_id = r.run_id => s.id # row.id
        BY <1>9, <1>12, <1>13, <3>1
      <4>. QED  BY <1>9, <1>11, <3>1, <4>1
    <3>3. ScoreRow(g.results, r.run_id, r.framework_id) = ScoreRow(file.results, r.run_id, r.framework_id)
      <4>1. PICK run2, framework : run2 = r.run_id /\ framework = r.framework_id
        OBVIOUS
      <4>2. \A status :
              {x \in g.results : x.run_id = run2 /\ x.framework_id = framework /\ x.status = status}
                = {x \in file.results : x.run_id = run2 /\ x.framework_id = framework /\ x.status = status}
        BY <1>7, <1>11, <3>1, <4>1
      <4>3. CountsOf(g.results, run2, framework) = CountsOf(file.results, run2, framework)
        BY <4>2, Zenon DEF CountsOf
      <4>. QED  BY <4>1, <4>3 DEF ScoreRow
    <3>. QED  BY <2>2, <2>4, <3>2, <3>3
  <2>5. {s \in g.scores : s.run_id = run /\ s.framework_id = "f"} = {row}
    <3>1. \A s \in old : s.run_id = run /\ s.framework_id = "f" => s.id = row.id
      BY <1>9, <1>12, <1>13
    <3>. QED  BY <1>9, <1>11, <3>1
  <2>6. \A r \in g.results : r.run_id # Blank /\ r.framework_id # Blank =>
          {s \in g.scores : s.run_id = r.run_id /\ s.framework_id = r.framework_id}
            = {ScoreRow(g.results, r.run_id, r.framework_id)}
    <3>. TAKE r \in g.results
    <3>1. CASE r = new
      BY <1>7, <2>3, <2>5, <3>1
    <3>2. CASE r # new
      BY <1>11, <2>4, <3>2
    <3>. QED  BY <3>1, <3>2
  <2>. QED  BY <2>6 DEF ScoresMatch
<1>19. NoneDue(g, Packaged)
  BY <1>1, HandleIsDone
<1>. QED  BY <1>1, <1>3, <1>14, <1>16, <1>17, <1>18, <1>19 DEF ScoresInv

\* However repairs, writes and migrations race, a score table that was found
\* without columns or values counts every result once it is repaired.
THEOREM RepairedScoresAreRight == Spec => []RepairedScoresMatchResults
<1>1. Init => ScoresInv
  <2>. SUFFICES ASSUME Init PROVE ScoresInv
    OBVIOUS
  <2>1. file \in Origins /\ file = origin
    BY DEF Init
  <2>2. ScoresKeyed(file) /\ (1 \notin file.ledger => file.results = {})
    BY <2>1, ScoresAssumption DEF ScoresKeyed
  <2>3. RunsAreFresh
    BY <2>1, FreshRunsAssumption DEF RunsAreFresh
  <2>. QED  BY <2>1, <2>2, <2>3 DEF ScoresInv
<1>2. ASSUME OrderInv, ScoresInv, [Next]_vars
      PROVE  ScoresInv'
  <2>1. ASSUME file' = file, written' = written, origin' = origin
        PROVE  ScoresInv'
    BY <1>2, <2>1 DEF ScoresInv, RunsAreFresh
  <2>. QED  BY <1>2, <2>1, OtherSteps, MigrateKeepsScores, RepairKeepsScores, WriteKeepsScores
<1>3. ScoresInv => RepairedScoresMatchResults
  BY NeedsScoresIs DEF ScoresInv, RepairedScoresMatchResults, NeedsScores, IsOutdated
<1>. QED  BY <1>1, <1>2, <1>3, OrderStart, OrderStep, PTL DEF Spec

=============================================================================
