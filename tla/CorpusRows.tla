----------------------------- MODULE CorpusRows -----------------------------
(***************************************************************************)
(* The value a scan hands to the local database (matrix.rs `Corpus`) and   *)
(* the rows local_db.rs derives from it.  Nothing here has state: the      *)
(* modules that write, read and specify the database share it.             *)
(*                                                                         *)
(* A table is a set of row records, as SQL sees it.  A primary key is an   *)
(* operator from rows to keys, and an INSERT names its conflict clause:    *)
(* `Upsert` is ON CONFLICT DO UPDATE (and INSERT OR REPLACE), `InsertNew`  *)
(* is ON CONFLICT DO NOTHING.  Names, versions, digests and time stamps    *)
(* are opaque strings; the code tells apart only equal, different and ''.  *)
(***************************************************************************)
EXTENDS Integers, Sequences, FiniteSets

Blank  == ""

\* A fact about strings that TLC evaluates and the provers do not know.
ASSUME BlankIsText == Blank \in STRING

Status == {"PASS", "FAIL", "WARNING", "SKIPPED", "ERROR"}

(***************************************************************************)
(* The corpus.  Lists keep the order of the builder calls and may repeat a *)
(* key, as the builder's Vec fields may.  A result without a framework     *)
(* (`framework_id: None`) carries Blank, the value it is stored under.     *)
(***************************************************************************)
FrameworkEntry == [framework_id : STRING, version : STRING]
ControlEntry   == [framework_id : STRING, control_id : STRING, reference : STRING]
ResultEntry    == [framework_id : STRING, control_id : STRING, rule_id : STRING,
                   status : Status, evidence_refs : Seq(STRING)]
EvidenceEntry  == [id : STRING, digest : STRING, locator : STRING,
                   classification : STRING]

Corpus == [run_id     : STRING, executed_at : STRING,
           frameworks : Seq(FrameworkEntry), controls : Seq(ControlEntry),
           results    : Seq(ResultEntry),    evidence : Seq(EvidenceEntry)]

EmptyCorpus == [run_id |-> Blank, executed_at |-> Blank, frameworks |-> <<>>,
                controls |-> <<>>, results |-> <<>>, evidence |-> <<>>]

Elements(s) == {s[i] : i \in DOMAIN s}

(***************************************************************************)
(* Rows.  Columns that no statement tells apart (titles, weights, reasons, *)
(* source URLs, evidence kinds) travel with the column that stands for     *)
(* them: `reference` in control links, `status` in results and gaps.       *)
(***************************************************************************)
RunRow           == [id : STRING, executed_at : STRING]
FrameworkRow     == [id : STRING, version : STRING]
FrameworkLinkRow == [run_id : STRING, framework_id : STRING, version : STRING]
ControlLinkRow   == [run_id : STRING, framework_id : STRING, control_id : STRING,
                     reference : STRING]
ResultRow        == [run_id : STRING, framework_id : STRING, control_id : STRING,
                     rule_id : STRING, status : Status, evidence_id : STRING]
GapRow           == [run_id : STRING, framework_id : STRING, control_id : STRING,
                     rule_id : STRING, status : Status]
ScoreRow         == [run_id : STRING, framework_id : STRING,
                     pass : Nat, fail : Nat, warning : Nat]
EvidenceRow      == EvidenceEntry
EvidenceLinkRow  == [run_id : STRING, evidence_id : STRING, digest : STRING,
                     locator : STRING, classification : STRING]

Database == [scan_runs           : SUBSET RunRow,
             frameworks          : SUBSET FrameworkRow,
             controls            : SUBSET STRING,
             run_framework_links : SUBSET FrameworkLinkRow,
             run_control_links   : SUBSET ControlLinkRow,
             control_results     : SUBSET ResultRow,
             compliance_gaps     : SUBSET GapRow,
             score_summaries     : SUBSET ScoreRow,
             evidence_metadata   : SUBSET EvidenceRow,
             run_evidence_links  : SUBSET EvidenceLinkRow]

IdKey(x)            == x.id
FrameworkKey(x)     == x.framework_id
ControlKey(x)       == <<x.framework_id, x.control_id>>
ResultKey(x)        == <<x.framework_id, x.control_id, x.rule_id>>
FrameworkLinkKey(x) == <<x.run_id, x.framework_id>>
ControlLinkKey(x)   == <<x.run_id, x.framework_id, x.control_id>>
OutcomeKey(x)       == <<x.run_id, x.framework_id, x.control_id, x.rule_id>>
EvidenceLinkKey(x)  == <<x.run_id, x.evidence_id>>

(***************************************************************************)
(* SQL statements over a table.                                            *)
(***************************************************************************)
ForRun(table, run)    == {x \in table : x.run_id = run}
NotForRun(table, run) == {x \in table : x.run_id # run}

Upsert(table, rows, Key(_)) ==
  {x \in table : \A r \in rows : Key(r) # Key(x)} \cup rows

InsertNew(table, rows, Key(_)) ==
  table \cup {r \in rows : \A x \in table : Key(x) # Key(r)}

(***************************************************************************)
(* What a loop of INSERTs over a list leaves: with DO UPDATE the last      *)
(* element of each key, with DO NOTHING the first.                         *)
(***************************************************************************)
LastOfEachKey(s, Key(_)) ==
  {s[i] : i \in {i \in DOMAIN s : \A j \in DOMAIN s : Key(s[j]) = Key(s[i]) => j <= i}}

FirstOfEachKey(s, Key(_)) ==
  {s[i] : i \in {i \in DOMAIN s : \A j \in DOMAIN s : Key(s[j]) = Key(s[i]) => i <= j}}

(***************************************************************************)
(* The rows a corpus becomes.                                              *)
(***************************************************************************)
FrameworkLinks(c) ==
  {[run_id |-> c.run_id, framework_id |-> f.framework_id, version |-> f.version]
     : f \in LastOfEachKey(c.frameworks, FrameworkKey)}

CatalogueEntries(c) ==
  {[id |-> f.framework_id, version |-> f.version]
     : f \in FirstOfEachKey(c.frameworks, FrameworkKey)}

ControlIds(c) == {k.control_id : k \in Elements(c.controls)}

ControlLinks(c) ==
  {[run_id |-> c.run_id, framework_id |-> k.framework_id,
    control_id |-> k.control_id, reference |-> k.reference]
     : k \in LastOfEachKey(c.controls, ControlKey)}

\* Only the first evidence reference of a result has a column.
FirstRef(r) == IF r.evidence_refs = <<>> THEN Blank ELSE r.evidence_refs[1]

ResultRows(c) ==
  {[run_id |-> c.run_id, framework_id |-> r.framework_id, control_id |-> r.control_id,
    rule_id |-> r.rule_id, status |-> r.status, evidence_id |-> FirstRef(r)]
     : r \in LastOfEachKey(c.results, ResultKey)}

IsGapStatus(status) == status \in {"FAIL", "WARNING"}
IsGap(r)            == r.framework_id # Blank /\ IsGapStatus(r.status)

\* The first gap of each key: results that are no gap insert nothing.
FirstGaps(s) ==
  {s[i] : i \in {i \in DOMAIN s :
     IsGap(s[i]) /\ \A j \in DOMAIN s : IsGap(s[j]) /\ ResultKey(s[j]) = ResultKey(s[i]) => i <= j}}

GapRows(c) ==
  {[run_id |-> c.run_id, framework_id |-> r.framework_id, control_id |-> r.control_id,
    rule_id |-> r.rule_id, status |-> r.status] : r \in FirstGaps(c.results)}

StatusCount(c, framework, status) ==
  Cardinality({i \in DOMAIN c.results : /\ c.results[i].framework_id = framework
                                        /\ c.results[i].status = status})

\* Every framework with a scoped result has a row, even one that counts nothing.
ScoreRows(c) ==
  {[run_id |-> c.run_id, framework_id |-> f, pass |-> StatusCount(c, f, "PASS"),
    fail |-> StatusCount(c, f, "FAIL"), warning |-> StatusCount(c, f, "WARNING")]
     : f \in {r.framework_id : r \in Elements(c.results)} \ {Blank}}

(***************************************************************************)
(* One evidence record: first the shared metadata row, then the run's own  *)
(* snapshot of it, which reads the metadata row just written.              *)
(***************************************************************************)
\* Not the code: a merge that takes the classification without looking at
\* the digest.
MergedEvidenceUnpaired(old, e) ==
  [id             |-> e.id,
   digest         |-> IF e.digest = Blank THEN old.digest ELSE e.digest,
   locator        |-> IF old.locator = Blank THEN e.locator ELSE old.locator,
   classification |-> e.classification]

MergedEvidence(old, e) ==
  [id             |-> e.id,
   digest         |-> IF e.digest = Blank THEN old.digest ELSE e.digest,
   locator        |-> IF old.locator = Blank THEN e.locator ELSE old.locator,
   classification |-> IF e.digest = Blank THEN old.classification ELSE e.classification]

WrittenEvidence(metadata, e) ==
  {x \in metadata : x.id # e.id} \cup
    IF \E x \in metadata : x.id = e.id
      THEN {MergedEvidence(x, e) : x \in {x \in metadata : x.id = e.id}}
      ELSE {e}

SnapshotRows(metadata, run, e) ==
  {[run_id |-> run, evidence_id |-> e.id,
    digest |-> IF e.digest = Blank THEN x.digest ELSE e.digest,
    locator |-> e.locator,
    classification |-> IF e.digest = Blank THEN x.classification ELSE e.classification]
     : x \in {x \in metadata : x.id = e.id}}

(***************************************************************************)
(* validate_completed_corpus and the check on run_id: every framework that *)
(* a control or a scoped result names has metadata, and every framework    *)
(* with metadata is named by one of them.                                  *)
(***************************************************************************)
ReferencedFrameworks(c) ==
  {k.framework_id : k \in Elements(c.controls)}
    \cup {r.framework_id : r \in {r \in Elements(c.results) : r.framework_id # Blank}}

DescribedFrameworks(c) == {f.framework_id : f \in Elements(c.frameworks)}

IsAccepted(c) ==
  /\ c.run_id # Blank
  /\ ReferencedFrameworks(c) = DescribedFrameworks(c)

=============================================================================
