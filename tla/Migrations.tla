----------------------------- MODULE Migrations -----------------------------
(***************************************************************************)
(* LocalDatabase::open (src/src/local_db.rs): several processes opening    *)
(* one file, each applying the packaged migrations that the file lacks.    *)
(*                                                                         *)
(* An opener goes through the migrations in order.  Whether one is applied *)
(* and applicable is read outside any transaction; only the ledger is read *)
(* again once BEGIN IMMEDIATE holds the write lock.  A migration's         *)
(* transaction is visible to others when it commits, so its statements are *)
(* one step here; a failure or a crash inside it leaves no trace.          *)
(*                                                                         *)
(* No migration touches score_summaries.  An open handle repairs a table   *)
(* of an early shape when it first reads or writes scores.                 *)
(*                                                                         *)
(* A file is its PRAGMA user_version, its ledger (schema_migrations), its  *)
(* columns and the rows the migrations read or write.  Columns that are    *)
(* created and required together are one element, <<table, group>>.  A     *)
(* column a table lacks reads as Blank in its rows, the DEFAULT it gets    *)
(* when it is added.                                                       *)
(***************************************************************************)
EXTENDS FiniteSets, RowIds

CONSTANTS
  Opener,    \* the processes that open the file
  Nobody,    \* the value of `lock` when no transaction writes
  Origins,   \* the files they may find, a file that does not exist included
  NewRun,    \* the run each opener writes once it has the file open
  Spelling,  \* the text of each run, framework, control and rule
  Identities \* what result ids may be written for, with a run, a control and a rule

VARIABLES
  file,      \* the committed content of the file
  origin,    \* history: the content before anybody opened it
  lock,      \* the opener whose transaction holds the write lock
  pc,        \* where each opener is
  version,   \* the migration each opener looks at
  seen,      \* the user_version each opener last read
  outcome,   \* how each opener's last attempt ended
  written    \* history: some handle has written a run

vars == <<file, origin, lock, pc, version, seen, outcome, written>>

Blank    == ""
Packaged == 1 .. 8
Steps    == {"closed", "ledger", "version", "applicable", "lock", "migrate",
             "validate", "required", "open", "repair"}
Outcomes == {"none", "open", "newer", "invalid", "migration failed", "busy", "error"}

-----------------------------------------------------------------------------
(***************************************************************************)
(* Columns.                                                                *)
(***************************************************************************)
EvidenceOwner  == {<<"evidence_metadata", "run_id">>}
EvidenceBase   == {<<"evidence_metadata", "id">>}
Locator        == {<<"evidence_metadata", "locator">>}
Class          == {<<"evidence_metadata", "classification">>}
ResultId       == {<<"control_results", "id">>}
ResultSubject  == {<<"control_results", "control_id">>}  \* control_id, rule_id, evidence_id
ResultRun      == {<<"control_results", "run_id">>}      \* run_id, status
ResultExport   == {<<"control_results", "framework_id">>}
GapId          == {<<"compliance_gaps", "id">>}
GapRun         == {<<"compliance_gaps", "run_id">>}
GapFilters     == GapRun \cup {<<"compliance_gaps", "rule_id">>}
Links          == {<<"run_evidence_links", "run_id">>}
LinkSnapshot   == {<<"run_evidence_links", "digest">>}
RunId          == {<<"scan_runs", "id">>}
RunTime        == {<<"scan_runs", "executed_at">>}
FrameworkCols  == {<<"frameworks", "version">>}
ControlCols    == {<<"controls", "id">>}
RunCatalogue   == {<<"run_framework_links", "run_id">>, <<"run_control_links", "run_id">>}

ScoreId        == {<<"score_summaries", "id">>}
\* The run, then the framework and the three counts.
ScoreColumns   == {<<"score_summaries", "run_id">>, <<"score_summaries", "counts">>}

\* The current shape of every table that migrations touch.
CurrentColumns ==
  EvidenceBase \cup Locator \cup Class \cup ResultId \cup ResultSubject \cup ResultRun
    \cup ResultExport \cup GapId \cup GapFilters \cup Links \cup LinkSnapshot \cup RunId
    \cup RunTime \cup FrameworkCols \cup ControlCols \cup RunCatalogue

\* SCHEMA_VERSION_n_REQUIRED_COLUMNS; version 2 requires what version 1 does.
Required ==
  LET v1 == FrameworkCols \cup EvidenceBase
      v3 == v1 \cup GapFilters
      v4 == v3 \cup ResultSubject \cup Locator
      v5 == v4 \cup ResultRun
      v6 == v5 \cup Links
      v7 == v6 \cup Class
      v8 == v7 \cup RunTime \cup ResultExport \cup LinkSnapshot \cup RunCatalogue
  IN  <<v1, v1, v3, v4, v5, v6, v7, v8>>

-----------------------------------------------------------------------------
(***************************************************************************)
(* Rows.  The id of a result is a text, from which RowIds reads the run,   *)
(* the framework, the control and the rule; a text that none of these is   *)
(* spelled with is Unknown.  A gap's id is its place in the order of ids.  *)
(***************************************************************************)
Unknown == "unknown"

Named(text) ==
  IF \E n \in DOMAIN Spelling : Spelling[n] = text
    THEN CHOOSE n \in DOMAIN Spelling : Spelling[n] = text
    ELSE Unknown

RowIdOf(i) ==
  ControlResultRowId(Spelling[i.run_id], Spelling[i.framework_id], Spelling[i.control_id],
                     Spelling[i.rule_id])

\* The id an agent writes for each identity, and all ids that occur.
WrittenIds == [i \in Identities |-> RowIdOf(i)]

ResultIds == {WrittenIds[i] : i \in Identities} \cup {r.id : r \in UNION {f.results : f \in Origins}}

\* What a result's id says it is of: one identity, or none.
IdentitiesIn ==
  [id \in ResultIds |->
     {[run_id |-> Named(i[1]), framework_id |-> Named(i[2]), control_id |-> Named(i[3]),
       rule_id |-> Named(i[4])] : i \in ControlResultIdentity(id)}]

IsIdentity(id) == IdentitiesIn[id] # {}
TheIdentity(id) == CHOOSE i \in IdentitiesIn[id] : TRUE

OrElse(value, default) == IF value = Blank THEN default ELSE value

\* backfill_control_result_identity_fields
Identified(r) ==
  IF IsIdentity(r.id)
    THEN LET i == TheIdentity(r.id)
         IN  [r EXCEPT !.run_id = i.run_id,
                       !.control_id = OrElse(@, i.control_id),
                       !.rule_id = OrElse(@, i.rule_id)]
    ELSE r

GapsOf(f, r) ==
  {g \in f.gaps : /\ r.run_id # Blank /\ g.run_id = r.run_id
                 /\ g.control_id = r.control_id /\ g.rule_id = r.rule_id}

\* The status of the first matching gap, when the result has none.
StatusFilled(f, r) ==
  LET gaps == GapsOf(f, r)
  IN  IF r.status = Blank /\ gaps # {}
        THEN [r EXCEPT !.status = (CHOOSE g \in gaps : \A h \in gaps : g.id <= h.id).status]
        ELSE r

\* Not the code: links are rebuilt instead of completed.
LinkedAnew(links, pairs) ==
  {[run_id |-> p[1], evidence_id |-> p[2], digest |-> Blank] : p \in pairs}

\* INSERT OR IGNORE INTO run_evidence_links(run_id, evidence_id).
Linked(links, pairs) ==
  links \cup {[run_id |-> p[1], evidence_id |-> p[2], digest |-> Blank] :
                p \in {p \in pairs : \A l \in links : <<l.run_id, l.evidence_id>> # p}}

OnlyRun(f) == IF Cardinality(f.runs) = 1 THEN f.runs ELSE {}

\* backfill_export_catalog_links: (run, framework) and (run, framework, control).
EncodedControls(f) ==
  UNION {{<<OrElse(r.run_id, i.run_id), i.framework_id, OrElse(r.control_id, i.control_id)>> :
            i \in IdentitiesIn[r.id]} : r \in f.results}

CataloguedFrameworks(f) ==
  {<<c[1], c[2]>> : c \in {c \in EncodedControls(f) : c[2] # Blank}} \cup OnlyRun(f) \X f.frameworks

CataloguedControls(f) ==
  EncodedControls(f)
  \cup IF Cardinality(f.frameworks) = 1 THEN OnlyRun(f) \X f.frameworks \X f.controls ELSE {}

\* backfill_run_snapshot_metadata
SnapshotFilled(f, l) ==
  LET known == {e \in f.evidence : e.id = l.evidence_id}
  IN  IF known = {} THEN l ELSE [l EXCEPT !.digest = (CHOOSE e \in known : TRUE).digest]

-----------------------------------------------------------------------------
(***************************************************************************)
(* The body of each migration.                                             *)
(***************************************************************************)
TablesOf(f) == {c[1] : c \in f.columns}

\* INITIAL_SCHEMA_SQL creates the tables that do not exist.
InitialSchema(f) ==
  [f EXCEPT !.columns = @ \cup {c \in CurrentColumns \cup ScoreId \cup ScoreColumns :
                                 c[1] \notin TablesOf(f)},
            !.scores_not_null = @ \/ "score_summaries" \notin TablesOf(f)]

RunEvidenceLinks(f) ==
  [f EXCEPT !.columns = @ \cup Links,
            !.links = Linked(@, {<<e.run_id, e.id>> : e \in f.evidence})]

GapQueryFilters(f)  == [f EXCEPT !.columns = @ \cup GapFilters]
EvidenceLocators(f) == [f EXCEPT !.columns = @ \cup Locator]

\* Not the code: migration 5 adds its columns and leaves them blank.
ResultColumnsOnly(f) == [f EXCEPT !.columns = @ \cup ResultSubject \cup ResultRun \cup Locator]

ResultQueryFilters(f) ==
  [f EXCEPT !.columns = @ \cup ResultSubject \cup ResultRun \cup Locator,
            !.results = {StatusFilled(f, Identified(r)) : r \in @}]

RunEvidenceIndex(f) ==
  LET named == {<<r.run_id, r.evidence_id>> :
                  r \in {r \in f.results : r.run_id # Blank /\ r.evidence_id # Blank}}
  IN  [f EXCEPT !.columns = @ \cup Links,
                !.links = Linked(@, named \cup OnlyRun(f) \X {e.id : e \in f.evidence})]

EvidenceClassifications(f) == [f EXCEPT !.columns = @ \cup Class]

ExportReconstruction(f) ==
  [f EXCEPT !.columns = @ \cup RunTime \cup ResultExport \cup LinkSnapshot \cup RunCatalogue,
            !.results = {IF IsIdentity(r.id)
                           THEN [r EXCEPT !.framework_id = OrElse(@, TheIdentity(r.id).framework_id)]
                           ELSE r : r \in @},
            !.framework_links = @ \cup CataloguedFrameworks(f),
            !.control_links = @ \cup CataloguedControls(f),
            !.links = {SnapshotFilled(f, l) : l \in @}]

Body(f, v) ==
  CASE v = 1 -> InitialSchema(f)
    [] v = 2 -> RunEvidenceLinks(f)
    [] v = 3 -> GapQueryFilters(f)
    [] v = 4 -> EvidenceLocators(f)
    [] v = 5 -> ResultQueryFilters(f)
    [] v = 6 -> RunEvidenceIndex(f)
    [] v = 7 -> EvidenceClassifications(f)
    [] v = 8 -> ExportReconstruction(f)

(***************************************************************************)
(* score_summaries: a row per run and framework with the counts of PASS,   *)
(* FAIL and WARNING.  A NULL is Blank, or <<>> in the counts.              *)
(***************************************************************************)
IsLegacyScore(s) == s.run_id = Blank \/ s.framework_id = Blank \/ s.counts = <<>>

CountsOf(results, run, framework) ==
  LET Count(status) ==
        Cardinality({r \in results : /\ r.run_id = run /\ r.framework_id = framework
                                     /\ r.status = status})
  IN  <<Count("PASS"), Count("FAIL"), Count("WARNING")>>

ScoreRow(results, run, framework) ==
  [id |-> <<run, framework>>, run_id |-> run, framework_id |-> framework,
   counts |-> CountsOf(results, run, framework)]

\* INSERT OR REPLACE
ScoresReplaced(scores, rows) == rows \cup {s \in scores : \A t \in rows : t.id # s.id}

\* backfill_score_summaries_from_results
ScoresBackfilled(f) ==
  LET scored == {r \in f.results : r.run_id # Blank /\ r.framework_id # Blank}
      rows   == {ScoreRow(scored, r.run_id, r.framework_id) : r \in scored}
  IN  IF ResultRun \cup ResultExport \subseteq f.columns
        THEN [f EXCEPT !.scores = ScoresReplaced({s \in @ : ~IsLegacyScore(s)}, rows)]
        ELSE f

\* Not the code: columns that were just added do not ask for a recount.
NeedsBackfillOfRows(f) == \E s \in f.scores : IsLegacyScore(s)

NeedsBackfill(f) ==
  ~ ScoreColumns \subseteq f.columns \/ \E s \in f.scores : IsLegacyScore(s)

\* score_summary_schema_is_current, negated.
IsOutdated(f) == NeedsBackfill(f) \/ ~f.scores_not_null

Recounted(f) == IF NeedsBackfill(f) THEN ScoresBackfilled(f) ELSE f

\* add_missing_score_summary_columns: the columns, the recount, and the table
\* rebuilt with NOT NULL columns.
ScoresRepaired(f) ==
  [Recounted(f) EXCEPT !.columns = @ \cup ScoreColumns, !.scores_not_null = TRUE]

\* There is no table to alter, or the rebuilt one refuses a row with a NULL.
RepairFails(f) ==
  ~ ScoreId \subseteq f.columns \/ \E s \in Recounted(f).scores : IsLegacyScore(s)

-----------------------------------------------------------------------------
\* A statement of the transaction fails: a column that its SQL names is
\* missing, a column it adds is there, the ledger already has the version.
BodyFails(f, v) ==
  \/ v \in f.ledger
  \/ v = 5 /\ ~ GapFilters \subseteq f.columns
  \/ v = 7 /\ Class \subseteq f.columns

Migrated(f, v) ==
  [Body(f, v) EXCEPT !.ledger = @ \cup {v}, !.version = v]

\* A file whose version lies between 1 and n and whose ledger says so.
Recognized(f, read, n) == read \in 1 .. n /\ read \in f.ledger

(***************************************************************************)
(* migration_is_applicable.  `read` is the user_version the opener read    *)
(* before it looked at the ledger and the columns.                         *)
(***************************************************************************)
Applicable(f, v, read) ==
  LET Has(columns) == columns \subseteq f.columns
  IN  CASE v = 1 -> TRUE
        [] v = 2 -> Has(EvidenceOwner)
        [] v = 3 -> Has(GapId) /\ ~Has(GapRun)
        [] v = 4 -> Has(EvidenceBase \cup ResultSubject) /\ ~Has(Locator)
        [] v = 5 -> Has(ResultId) /\ ~Has(ResultRun)
        [] v = 6 -> /\ Recognized(f, read, 5)
                    /\ Has(RunId \cup EvidenceBase \cup ResultRun \cup ResultSubject)
                    /\ read > 1 \/ ~Has(Links)
        [] v = 7 -> Recognized(f, read, 6) /\ Has(Required[6]) /\ ~Has(Class)
        [] v = 8 -> Recognized(f, read, 7) /\ Has(Required[7]) /\ ~Has(Required[8])

\* Migration v is still to come.
Due(f, v) == v \notin f.ledger /\ Applicable(f, v, f.version)

-----------------------------------------------------------------------------
(***************************************************************************)
(* The files that are found.                                               *)
(***************************************************************************)
ResultRow ==
  [id : ResultIds, run_id : STRING, control_id : STRING, rule_id : STRING, status : STRING,
   evidence_id : STRING, framework_id : STRING]

File ==
  [version : Nat, ledger : SUBSET Nat,
   columns : SUBSET (CurrentColumns \cup EvidenceOwner \cup ScoreId \cup ScoreColumns),
   runs : SUBSET STRING, frameworks : SUBSET STRING, controls : SUBSET STRING,
   evidence : SUBSET [id : STRING, run_id : STRING, digest : STRING],
   results : SUBSET ResultRow,
   gaps : SUBSET [id : Nat, run_id : STRING, control_id : STRING, rule_id : STRING,
                  status : STRING],
   links : SUBSET [run_id : STRING, evidence_id : STRING, digest : STRING],
   framework_links : SUBSET (STRING \X STRING),
   control_links : SUBSET (STRING \X STRING \X STRING),
   scores : SUBSET [id : Seq(STRING), run_id : STRING, framework_id : STRING,
                    counts : Seq(Nat)],
   scores_not_null : BOOLEAN]

\* A column that a table lacks reads as Blank in its rows.
ReadsBlank(f) ==
  \A r \in f.results :
    /\ ~ ResultRun \subseteq f.columns => r.run_id = Blank /\ r.status = Blank
    /\ ~ ResultExport \subseteq f.columns => r.framework_id = Blank

ASSUME NobodyAssumption   == Nobody \notin Opener
ASSUME SpellingAssumption == DOMAIN Spelling \subseteq STRING
ASSUME LiteralsAssumption == {Blank, Unknown, "f", "c", "k", "d", "PASS"} \subseteq STRING
ASSUME NewRunAssumption   ==
  \A o \in Opener :
    /\ NewRun[o] \in STRING \ {Blank}
    /\ [run_id |-> NewRun[o], framework_id |-> "f", control_id |-> "c", rule_id |-> "k"]
         \in Identities
ASSUME OriginsAssumption  ==
  \A f \in Origins : f \in File /\ IsFiniteSet(f.results) /\ ReadsBlank(f)

\* Whoever left a file behind went through the migrations in their order: none
\* before the version of the file is still to come.
ASSUME OrderAssumption ==
  \A f \in Origins : \A v \in Packaged : v < f.version => ~Due(f, v)

\* A complete score row has the id of its run and framework, and a file that no
\* agent has initialised holds no results.
ASSUME ScoresAssumption ==
  \A f \in Origins :
    /\ \A s \in f.scores : ~IsLegacyScore(s) => s.id = <<s.run_id, s.framework_id>>
    /\ 1 \notin f.ledger => f.results = {}

\* The id of a run that is yet to be written occurs nowhere.
ASSUME FreshRunsAssumption ==
  \A o \in Opener : \A f \in Origins : \A r \in f.results :
    /\ r.run_id # NewRun[o]
    /\ \A i \in IdentitiesIn[r.id] : i.run_id # NewRun[o]

-----------------------------------------------------------------------------
(***************************************************************************)
(* The steps of an opener.                                                 *)
(***************************************************************************)
Init ==
  /\ origin \in Origins
  /\ file = origin
  /\ lock = Nobody
  /\ pc = [o \in Opener |-> "closed"]
  /\ version = [o \in Opener |-> 1]
  /\ seen = [o \in Opener |-> 0]
  /\ outcome = [o \in Opener |-> "none"]
  /\ written = FALSE

Goto(o, step) == pc' = [pc EXCEPT ![o] = step]

\* The attempt is over; a transaction that was open is rolled back.
End(o, result) ==
  /\ Goto(o, "closed")
  /\ outcome' = [outcome EXCEPT ![o] = result]
  /\ version' = [version EXCEPT ![o] = 1]
  /\ seen' = [seen EXCEPT ![o] = 0]
  /\ lock' = IF lock = o THEN Nobody ELSE lock
  /\ UNCHANGED <<file, origin, written>>

\* Not the code: the loop stops one migration short.
NextMigrationButLast(o) ==
  IF version[o] + 2 \in Packaged
    THEN Goto(o, "ledger") /\ version' = [version EXCEPT ![o] = @ + 1]
    ELSE Goto(o, "validate") /\ version' = [version EXCEPT ![o] = 1]

\* Look at the next migration, or validate once there is none.
NextMigration(o) ==
  IF version[o] + 1 \in Packaged
    THEN Goto(o, "ledger") /\ version' = [version EXCEPT ![o] = @ + 1]
    ELSE Goto(o, "validate") /\ version' = [version EXCEPT ![o] = 1]

\* reject_newer_schema_version
RejectNewer(o) ==
  /\ pc[o] = "closed"
  /\ \A v \in Packaged : file.version > v
  /\ End(o, "newer")

StartMigrations(o) ==
  /\ pc[o] = "closed"
  /\ \E v \in Packaged : file.version <= v
  /\ Goto(o, "ledger")
  /\ outcome' = [outcome EXCEPT ![o] = "none"]
  /\ UNCHANGED <<file, origin, lock, version, seen, written>>

\* The first migration_is_applied, outside the transaction.
CheckLedger(o) ==
  /\ pc[o] = "ledger"
  /\ IF version[o] \in file.ledger
       THEN NextMigration(o)
       ELSE /\ Goto(o, IF version[o] >= 6 THEN "version" ELSE "applicable")
            /\ UNCHANGED version
  /\ UNCHANGED <<file, origin, lock, seen, outcome, written>>

\* From migration 6 on, the user_version is read before the columns are.
ReadVersion(o) ==
  /\ pc[o] = "version"
  /\ seen' = [seen EXCEPT ![o] = file.version]
  /\ Goto(o, "applicable")
  /\ UNCHANGED <<file, origin, lock, version, outcome, written>>

CheckApplicable(o) ==
  /\ pc[o] = "applicable"
  /\ IF Applicable(file, version[o], seen[o])
       THEN Goto(o, "lock") /\ UNCHANGED version
       ELSE NextMigration(o)
  /\ UNCHANGED <<file, origin, lock, seen, outcome, written>>

\* BEGIN IMMEDIATE takes the write lock, or waits until the busy timeout.
TakeLock(o) ==
  /\ pc[o] = "lock"
  /\ lock = Nobody
  /\ lock' = o
  /\ Goto(o, "migrate")
  /\ UNCHANGED <<file, origin, version, seen, outcome, written>>

\* Not the code: a busy file is taken for a migrated one.
BusyTimeoutSkips(o) ==
  /\ pc[o] = "lock"
  /\ lock # Nobody
  /\ NextMigration(o)
  /\ UNCHANGED <<file, origin, lock, seen, outcome, written>>

\* Not the code: a busy answer starts the migration over.
BusyTimeoutRetries(o) ==
  /\ pc[o] = "lock"
  /\ lock # Nobody
  /\ Goto(o, "ledger")
  /\ UNCHANGED <<file, origin, lock, version, seen, outcome, written>>

BusyTimeout(o) ==
  /\ pc[o] = "lock"
  /\ lock # Nobody
  /\ End(o, "busy")

\* Not the code: the ledger is not read again under the lock.
NeverApplied(o) == FALSE

\* The second migration_is_applied: another opener was faster.
AlreadyApplied(o) == version[o] \in file.ledger

\* Not the code: the early return forgets the ROLLBACK.
SkipMigrationLocked(o) ==
  /\ pc[o] = "migrate"
  /\ AlreadyApplied(o)
  /\ NextMigration(o)
  /\ UNCHANGED <<file, origin, lock, seen, outcome, written>>

SkipMigration(o) ==
  /\ pc[o] = "migrate"
  /\ AlreadyApplied(o)
  /\ lock' = Nobody
  /\ NextMigration(o)
  /\ UNCHANGED <<file, origin, seen, outcome, written>>

Migrate(o) ==
  /\ pc[o] = "migrate"
  /\ ~AlreadyApplied(o)
  /\ ~BodyFails(file, version[o])
  /\ file' = Migrated(file, version[o])
  /\ lock' = Nobody
  /\ NextMigration(o)
  /\ UNCHANGED <<origin, seen, outcome, written>>

MigrationFails(o) ==
  /\ pc[o] = "migrate"
  /\ ~AlreadyApplied(o)
  /\ BodyFails(file, version[o])
  /\ End(o, "migration failed")

\* validate_current_schema reads the version, then the ledger and the columns
\* that version requires.
ReadFinalVersion(o) ==
  /\ pc[o] = "validate"
  /\ seen' = [seen EXCEPT ![o] = file.version]
  /\ Goto(o, "required")
  /\ UNCHANGED <<file, origin, lock, version, outcome, written>>

IsValid(v) ==
  /\ v \in Packaged
  /\ v \in file.ledger
  /\ Required[v] \subseteq file.columns

Validate(o) ==
  /\ pc[o] = "required"
  /\ IsValid(seen[o])
  /\ Goto(o, "open")
  /\ outcome' = [outcome EXCEPT ![o] = "open"]
  /\ seen' = [seen EXCEPT ![o] = 0]
  /\ UNCHANGED <<file, origin, lock, version, written>>

RejectInvalid(o) ==
  /\ pc[o] = "required"
  /\ ~IsValid(seen[o])
  /\ End(o, "invalid")

Close(o) ==
  /\ pc[o] = "open"
  /\ End(o, "none")

\* A statement fails, or the process dies and SQLite rolls its journal back.
StatementFails(o) ==
  /\ pc[o] \notin {"closed", "open", "repair"}
  /\ End(o, "error")

Crash(o) ==
  /\ pc[o] # "closed"
  /\ End(o, "none")

\* ensure_score_summary_schema: a handle that reads scores finds the table
\* outdated, outside any transaction ...
FindScoresOutdated(o) ==
  /\ pc[o] = "open"
  /\ IsOutdated(file)
  /\ Goto(o, "repair")
  /\ UNCHANGED <<file, origin, lock, version, seen, outcome, written>>

\* ... and repairs it in one IMMEDIATE transaction ...
RepairScores(o) ==
  /\ pc[o] = "repair"
  /\ lock = Nobody
  /\ ~RepairFails(file)
  /\ file' = ScoresRepaired(file)
  /\ Goto(o, "open")
  /\ UNCHANGED <<origin, lock, version, seen, outcome, written>>

\* ... or its read fails: busy, or unable to repair.
RepairRefused(o) ==
  /\ pc[o] = "repair"
  /\ lock # Nobody \/ RepairFails(file)
  /\ Goto(o, "open")
  /\ UNCHANGED <<file, origin, lock, version, seen, outcome, written>>

\* What write_completed_corpus adds to these rows; write_score_summaries
\* repairs its table first, before the results of the run are there.
NewResult(run) ==
  [id |-> WrittenIds[[run_id |-> run, framework_id |-> "f", control_id |-> "c", rule_id |-> "k"]],
   run_id |-> run, control_id |-> "c", rule_id |-> "k", status |-> "PASS", evidence_id |-> run,
   framework_id |-> "f"]

RunWritten(f, run) ==
  [ScoresRepaired(f) EXCEPT
     !.runs = @ \cup {run},
     !.frameworks = @ \cup {"f"},
     !.controls = @ \cup {"c"},
     !.evidence = @ \cup {[id |-> run, run_id |-> run, digest |-> "d"]},
     !.results = @ \cup {NewResult(run)},
     !.scores = ScoresReplaced(@, {ScoreRow({NewResult(run)}, run, "f")}),
     !.links = @ \cup {[run_id |-> run, evidence_id |-> run, digest |-> "d"]},
     !.framework_links = @ \cup {<<run, "f">>},
     !.control_links = @ \cup {<<run, "f", "c">>}]

Write(o) ==
  /\ pc[o] = "open"
  /\ lock = Nobody
  /\ CurrentColumns \subseteq file.columns
  /\ ~RepairFails(file)
  /\ NewRun[o] \notin file.runs
  /\ file' = RunWritten(file, NewRun[o])
  /\ written' = TRUE
  /\ UNCHANGED <<origin, lock, pc, version, seen, outcome>>

OpenStep(o) ==
  \/ CheckLedger(o)
  \/ ReadVersion(o)
  \/ CheckApplicable(o)
  \/ TakeLock(o)
  \/ BusyTimeout(o)
  \/ SkipMigration(o)
  \/ Migrate(o)
  \/ MigrationFails(o)
  \/ ReadFinalVersion(o)
  \/ Validate(o)
  \/ RejectInvalid(o)
  \/ RepairScores(o)
  \/ RepairRefused(o)

Next ==
  \E o \in Opener :
    \/ RejectNewer(o)
    \/ StartMigrations(o)
    \/ OpenStep(o)
    \/ StatementFails(o)
    \/ Crash(o)
    \/ Close(o)
    \/ FindScoresOutdated(o)
    \/ Write(o)

Spec == Init /\ [][Next]_vars

\* An open, or a repair, that has begun keeps executing.
FairSpec == Spec /\ \A o \in Opener : WF_vars(OpenStep(o))

-----------------------------------------------------------------------------
(***************************************************************************)
(* Properties.                                                             *)
(***************************************************************************)

\* Every variable has its type, and the write lock is held exactly by the
\* opener inside a migration's transaction.
TypeOK ==
  /\ origin \in Origins
  /\ file \in File
  /\ lock \in Opener \cup {Nobody}
  /\ pc \in [Opener -> Steps]
  /\ version \in [Opener -> Packaged]
  /\ seen \in [Opener -> Nat]
  /\ outcome \in [Opener -> Outcomes]
  /\ written \in BOOLEAN
  /\ \A o \in Opener : pc[o] = "migrate" <=> lock = o

HasHandle(o) == pc[o] \in {"open", "repair"}

\* All of a file but its score table.
WithoutScores(f) ==
  [f EXCEPT !.scores = {}, !.scores_not_null = FALSE, !.columns = @ \ ScoreColumns]

\* What one undisturbed opener makes of one migration, and of all in order.
Attempted(f, v) ==
  IF v \in f.ledger \/ ~Applicable(f, v, f.version) \/ BodyFails(f, v)
    THEN f ELSE Migrated(f, v)

Stages(f) ==
  LET after[v \in {0} \cup Packaged] == IF v = 0 THEN f ELSE Attempted(after[v - 1], v)
  IN  after

Settled(f) == Stages(f)[8]

\* However many processes open a file at once, whichever statements fail and
\* wherever they crash between two migrations, a file that somebody has open
\* is what one undisturbed open would have made of it: nobody gets a handle to
\* a file half way, and no interleaving loses or repeats a backfill.  Only
\* the score table, which a handle may have repaired, is left out.
OpenedFileIsSettled ==
  ~written /\ (\E o \in Opener : HasHandle(o)) =>
    WithoutScores(file) = WithoutScores(Settled(origin))

\* A file that is new, or that some version of the agent wrote: the ledger
\* knows its version and no later one, it has the columns of that version and
\* the tables of the first, and the columns of migrations 3 and 5 came together.
IsSound(f) ==
  \/ f.columns = {} /\ f.ledger = {} /\ f.version = 0
  \/ /\ f.version \in f.ledger \cap Packaged
     /\ \A v \in f.ledger : v <= f.version
     /\ Required[f.version] \cup ResultId \cup GapId \cup RunId \cup ControlCols \subseteq f.columns
     /\ GapRun \subseteq f.columns => GapFilters \subseteq f.columns
     /\ ResultRun \subseteq f.columns => ResultSubject \cup Locator \subseteq f.columns

\* A file some version of the agent wrote opens: no opener is refused by the
\* validation, and none fails in a migration because another one was faster;
\* and its handle can write and export, since the file then has every column
\* that the statements of write_completed_corpus and export_run name.  Only a
\* file with a damaged or unrecorded schema may be rejected.
SoundFilesOpen ==
  IsSound(origin) => \A o \in Opener :
    /\ outcome[o] \in {"none", "open", "busy", "error"}
    /\ HasHandle(o) => CurrentColumns \subseteq file.columns

\* The migrations that link what older versions only implied miss nothing:
\* once a handle is open, every result that names a run and an evidence id has
\* its evidence link, every evidence row that named its run keeps that link,
\* every link carries the digest of its evidence, and every result whose id
\* decodes has its run, its framework and its control in the run's catalogue.
\* The run ids that migration 6 links are those that migration 5 recovers.
OpenedRunsAreComplete ==
  (\E o \in Opener : HasHandle(o)) =>
    /\ \A r \in file.results :
         /\ r.run_id # Blank /\ r.evidence_id # Blank =>
              \E l \in file.links : l.run_id = r.run_id /\ l.evidence_id = r.evidence_id
         /\ IsIdentity(r.id) =>
              /\ r.run_id # Blank
              /\ <<r.run_id, r.framework_id, r.control_id>> \in file.control_links
              /\ r.framework_id # Blank => <<r.run_id, r.framework_id>> \in file.framework_links
    /\ \A e \in origin.evidence :
         EvidenceOwner \subseteq origin.columns =>
           \E l \in file.links : l.run_id = e.run_id /\ l.evidence_id = e.id
    /\ \A l \in file.links : \A e \in file.evidence : e.id = l.evidence_id => l.digest = e.digest

\* What a version wrote into a result's id is what the migrations make of it,
\* whatever the names are spelled with (colons, digits that look like lengths,
\* characters of several bytes): a row whose id was written for a run, a
\* framework, a control and a rule is attributed to exactly these.  An id that
\* was cut short never names a run, a framework or a control it was not
\* written for, and an id cut within them leaves the row as it was.
RecoveredFieldsAreTrue ==
  (\E o \in Opener : HasHandle(o)) =>
    \A r \in file.results :
      /\ \A i \in Identities : IsPrefix(r.id, WrittenIds[i]) =>
           /\ r.run_id \in {Blank, i.run_id} /\ r.framework_id \in {Blank, i.framework_id}
           /\ r.control_id \in {Blank, i.control_id}
      /\ \A i \in Identities : r.id = WrittenIds[i] =>
           /\ r.run_id = i.run_id /\ r.framework_id = i.framework_id
           /\ r.control_id = i.control_id /\ r.rule_id = i.rule_id

\* What a result counts for: the row of its run and framework, and no other.
ScoresMatch(f) ==
  \A r \in f.results : r.run_id # Blank /\ r.framework_id # Blank =>
    {s \in f.scores : s.run_id = r.run_id /\ s.framework_id = r.framework_id}
      = {ScoreRow(f.results, r.run_id, r.framework_id)}

\* A repaired score table is complete: a file found with a score table of an
\* early shape, whose columns or values were missing, has once nobody finds it
\* outdated any more one row for every run and framework that a result names,
\* the ones that migrations 5 and 8 recovered from row ids included, with the
\* counts of exactly its results; racing repairs and writes lose no row and
\* count none twice.
RepairedScoresMatchResults ==
  (~ ScoreColumns \subseteq origin.columns \/ \E s \in origin.scores : IsLegacyScore(s))
    /\ ~IsOutdated(file) => ScoresMatch(file)

\* A file only grows: no migration and no retry drops a column, a ledger entry
\* or a row (but for score rows with a NULL), blanks a value or lowers the version, and a file that is newer
\* than the packaged migrations is not touched at all.
LegacyDataIsKept ==
  [][/\ file.version <= file'.version
     /\ file.ledger \subseteq file'.ledger
     /\ file.columns \subseteq file'.columns
     /\ \A t \in {"runs", "frameworks", "controls", "evidence", "gaps",
                  "framework_links", "control_links"} : file[t] \subseteq file'[t]
     /\ \A r \in file.results : \E s \in file'.results :
          /\ s.id = r.id
          /\ \A field \in DOMAIN r \ {"id"} : r[field] # Blank => s[field] = r[field]
     /\ \A l \in file.links : \E m \in file'.links :
          m.run_id = l.run_id /\ m.evidence_id = l.evidence_id
     /\ \A s \in file.scores : ~IsLegacyScore(s) => \E t \in file'.scores : t.id = s.id
     /\ (\A v \in Packaged : file.version > v) => file' = file]_vars

\* Once a handle has been open the file is never migrated again: reopening it,
\* after any run was written, changes nothing, so a backfill made for old data
\* (the single-run evidence links of migration 6) never applies to new runs.
\* Only a handle changes it, by the run it writes or by the score repair.
OpenedFileNeverMigrates ==
  [][(written \/ \E o \in Opener : HasHandle(o)) /\ file' # file =>
       \E o \in Opener :
         /\ HasHandle(o)
         /\ \/ NewRun[o] \in file'.runs \ file.runs
            \/ WithoutScores(file') = WithoutScores(file)]_vars

\* An attempt to open ends, with a handle or with an error, and so does a read
\* that has to repair the scores.
OpensReturn == \A o \in Opener : pc[o] \notin {"closed", "open"} ~> pc[o] \in {"closed", "open"}

=============================================================================
