------------------------ MODULE LocalDatabase_proofs ------------------------
(***************************************************************************)
(* Theorems about LocalDatabase, for any set of connections, any corpora   *)
(* and any legacy gaps: its variables have their types, the tables of a    *)
(* run hold the last corpus committed for it, a commit changes no run but  *)
(* its own and forgets no fact, and the database implements CorpusStore:   *)
(* the step that commits a call is Save of its corpus, every other step    *)
(* leaves the store as it is.                                              *)
(***************************************************************************)
EXTENDS LocalDatabase, FiniteSetTheorems, SequenceTheorems, TLAPS

\* A list of elements of S is indexed from 1 and has its elements in S.
LEMMA SeqElement ==
  ASSUME NEW S, NEW s \in Seq(S)
  PROVE  /\ DOMAIN s = 1 .. Len(s)
         /\ \A i \in DOMAIN s : s[i] \in S
OBVIOUS

\* The catalogue and link rows that write_run_catalog derives from a corpus are
\* rows of their tables.
LEMMA CatalogueRowsType ==
  ASSUME NEW c \in Corpus
  PROVE  /\ FrameworkLinks(c) \subseteq FrameworkLinkRow
         /\ CatalogueEntries(c) \subseteq FrameworkRow
         /\ ControlIds(c) \subseteq STRING
         /\ ControlLinks(c) \subseteq ControlLinkRow
<1>1. /\ c.run_id \in STRING
      /\ c.frameworks \in Seq(FrameworkEntry)
      /\ c.controls \in Seq(ControlEntry)
  BY DEF Corpus
<1>2. /\ \A i \in DOMAIN c.frameworks : c.frameworks[i] \in FrameworkEntry
      /\ \A i \in DOMAIN c.controls : c.controls[i] \in ControlEntry
  BY <1>1, SeqElement
<1>3. FrameworkLinks(c) \subseteq FrameworkLinkRow
  <2>1. LastOfEachKey(c.frameworks, FrameworkKey) \subseteq FrameworkEntry
    BY <1>2 DEF LastOfEachKey
  <2>. QED  BY <1>1, <2>1 DEF FrameworkLinks, FrameworkEntry, FrameworkLinkRow
<1>4. CatalogueEntries(c) \subseteq FrameworkRow
  <2>1. FirstOfEachKey(c.frameworks, FrameworkKey) \subseteq FrameworkEntry
    BY <1>2 DEF FirstOfEachKey
  <2>. QED  BY <2>1 DEF CatalogueEntries, FrameworkEntry, FrameworkRow
<1>5. ControlIds(c) \subseteq STRING
  BY <1>2 DEF ControlIds, Elements, ControlEntry
<1>6. ControlLinks(c) \subseteq ControlLinkRow
  <2>1. LastOfEachKey(c.controls, ControlKey) \subseteq ControlEntry
    BY <1>2 DEF LastOfEachKey
  <2>. QED  BY <1>1, <2>1 DEF ControlLinks, ControlEntry, ControlLinkRow
<1>. QED  BY <1>3, <1>4, <1>5, <1>6

\* The result, gap and score rows derived from a corpus are rows of their tables:
\* the first evidence reference is a text, a status count a number.
LEMMA OutcomeRowsType ==
  ASSUME NEW c \in Corpus
  PROVE  /\ ResultRows(c) \subseteq ResultRow
         /\ GapRows(c) \subseteq GapRow
         /\ ScoreRows(c) \subseteq ScoreRow
<1>1. /\ c.run_id \in STRING
      /\ c.results \in Seq(ResultEntry)
  BY DEF Corpus
<1>2. /\ DOMAIN c.results = 1 .. Len(c.results)
      /\ Len(c.results) \in Nat
      /\ \A i \in DOMAIN c.results : c.results[i] \in ResultEntry
  BY <1>1, SeqElement
<1>3. ASSUME NEW r \in ResultEntry
      PROVE  /\ r.framework_id \in STRING
             /\ r.control_id \in STRING
             /\ r.rule_id \in STRING
             /\ r.status \in Status
             /\ FirstRef(r) \in STRING
  <2>1. /\ r.framework_id \in STRING
        /\ r.control_id \in STRING
        /\ r.rule_id \in STRING
        /\ r.status \in Status
        /\ r.evidence_refs \in Seq(STRING)
    BY DEF ResultEntry
  <2>2. FirstRef(r) \in STRING
    <3>1. CASE r.evidence_refs = <<>>
      BY <3>1, BlankIsText DEF FirstRef
    <3>2. CASE r.evidence_refs # <<>>
      <4>1. 1 \in 1 .. Len(r.evidence_refs)
        BY <2>1, <3>2, EmptySeq
      <4>2. r.evidence_refs[1] \in STRING
        BY <2>1, <4>1, ElementOfSeq
      <4>. QED  BY <3>2, <4>2 DEF FirstRef
    <3>. QED  BY <3>1, <3>2
  <2>. QED  BY <2>1, <2>2
<1>4. ResultRows(c) \subseteq ResultRow
  <2>1. LastOfEachKey(c.results, ResultKey) \subseteq ResultEntry
    BY <1>2 DEF LastOfEachKey
  <2>. QED  BY <1>1, <1>3, <2>1 DEF ResultRows, ResultRow
<1>5. GapRows(c) \subseteq GapRow
  <2>1. FirstGaps(c.results) \subseteq ResultEntry
    BY <1>2 DEF FirstGaps
  <2>. QED  BY <1>1, <1>3, <2>1 DEF GapRows, GapRow
<1>6. ScoreRows(c) \subseteq ScoreRow
  <2>1. ASSUME NEW f, NEW s
        PROVE  StatusCount(c, f, s) \in Nat
    <3>1. IsFiniteSet(1 .. Len(c.results))
      BY <1>2, FS_Interval
    <3>2. {i \in DOMAIN c.results : /\ c.results[i].framework_id = f
                                    /\ c.results[i].status = s} \subseteq 1 .. Len(c.results)
      BY <1>2
    <3>. QED  BY <3>1, <3>2, FS_Subset, FS_CardinalityType DEF StatusCount
  <2>2. \A r \in Elements(c.results) : r.framework_id \in STRING
    BY <1>2, <1>3 DEF Elements
  <2>. QED  BY <1>1, <2>1, <2>2 DEF ScoreRows, ScoreRow
<1>. QED  BY <1>4, <1>5, <1>6

\* Each statement of the transaction but those of the evidence loop makes a
\* database of a database.
LEMMA WritesKeepType ==
  ASSUME NEW d \in Database, NEW c \in Corpus
  PROVE  /\ RunCatalogWritten(d, c) \in Database
         /\ RunOutcomesCleared(d, c) \in Database
         /\ ScoreSummariesWritten(d, c) \in Database
         /\ ControlResultsWritten(d, c) \in Database
         /\ GapRowsWritten(d, c) \in Database
         /\ EvidenceLinksCleared(d, c) \in Database
<1>1. RunCatalogWritten(d, c) \in Database
  <2>1. StampedRun(d.scan_runs, c) \subseteq RunRow
    BY DEF StampedRun, Database, Corpus, RunRow
  <2>2. Upsert(d.scan_runs, StampedRun(d.scan_runs, c), IdKey) \subseteq RunRow
    BY <2>1 DEF Upsert, Database
  <2>3. InsertNew(d.frameworks, CatalogueEntries(c), IdKey) \subseteq FrameworkRow
    BY CatalogueRowsType DEF InsertNew, Database
  <2>4. d.controls \cup ControlIds(c) \subseteq STRING
    BY CatalogueRowsType DEF Database
  <2>5. Upsert(NotForRun(d.run_framework_links, c.run_id), FrameworkLinks(c), FrameworkLinkKey)
          \subseteq FrameworkLinkRow
    BY CatalogueRowsType DEF Upsert, NotForRun, Database
  <2>6. Upsert(NotForRun(d.run_control_links, c.run_id), ControlLinks(c), ControlLinkKey)
          \subseteq ControlLinkRow
    BY CatalogueRowsType DEF Upsert, NotForRun, Database
  <2>. QED  BY <2>2, <2>3, <2>4, <2>5, <2>6 DEF RunCatalogWritten, Database
<1>2. RunOutcomesCleared(d, c) \in Database
  BY DEF RunOutcomesCleared, NotForRun, Database
<1>3. ScoreSummariesWritten(d, c) \in Database
  <2>1. Upsert(NotForRun(d.score_summaries, c.run_id), ScoreRows(c), FrameworkLinkKey)
          \subseteq ScoreRow
    BY OutcomeRowsType DEF Upsert, NotForRun, Database
  <2>. QED  BY <2>1 DEF ScoreSummariesWritten, Database
<1>4. ControlResultsWritten(d, c) \in Database
  <2>1. Upsert(d.control_results, ResultRows(c), OutcomeKey) \subseteq ResultRow
    BY OutcomeRowsType DEF Upsert, Database
  <2>. QED  BY <2>1 DEF ControlResultsWritten, Database
<1>5. GapRowsWritten(d, c) \in Database
  <2>1. InsertNew({g \in d.compliance_gaps : ~SupersededGap(g, c)}, GapRows(c), OutcomeKey)
          \subseteq GapRow
    BY OutcomeRowsType DEF InsertNew, Database
  <2>. QED  BY <2>1 DEF GapRowsWritten, Database
<1>6. EvidenceLinksCleared(d, c) \in Database
  BY DEF EvidenceLinksCleared, NotForRun, Database
<1>. QED  BY <1>1, <1>2, <1>3, <1>4, <1>5, <1>6

\* One turn of the evidence loop makes a database of a database.
LEMMA EvidenceWriteKeepsType ==
  ASSUME NEW d \in Database, NEW c \in Corpus, NEW e \in EvidenceEntry
  PROVE  EvidenceRowWritten(d, c, e) \in Database
<1>. DEFINE metadata == WrittenEvidence(d.evidence_metadata, e)
<1>1. metadata \subseteq EvidenceRow
  <2>1. \A x \in EvidenceRow : MergedEvidence(x, e) \in EvidenceRow
    BY DEF MergedEvidence, EvidenceRow, EvidenceEntry
  <2>. QED  BY <2>1 DEF WrittenEvidence, EvidenceRow, Database
<1>2. SnapshotRows(metadata, c.run_id, e) \subseteq EvidenceLinkRow
  BY <1>1 DEF SnapshotRows, EvidenceRow, EvidenceEntry, EvidenceLinkRow, Corpus
<1>3. Upsert(d.run_evidence_links, SnapshotRows(metadata, c.run_id, e), EvidenceLinkKey)
        \subseteq EvidenceLinkRow
  BY <1>2 DEF Upsert, Database
<1>. QED  BY <1>1, <1>3 DEF EvidenceRowWritten, Database

(***************************************************************************)
(* Type correctness.                                                       *)
(***************************************************************************)
\* A connection inside a call carries a corpus of the caller's.
CallsCarryCorpora ==
  \A w \in Connection : pc[w] # "idle" => corpus[w] \in Corpora /\ IsAccepted(corpus[w])

\* Every variable keeps its type, and a call under way carries an accepted corpus
\* of its caller.  The second fact is what makes the first inductive: the rows a
\* statement writes are typed because the corpus is.
THEOREM CallsTyped == Spec => [](TypeOK /\ CallsCarryCorpora)
<1>. DEFINE Inv == TypeOK /\ CallsCarryCorpora
<1>1. Init => Inv
  <2>. SUFFICES ASSUME Init PROVE Inv
    OBVIOUS
  <2>1. db \in Database
    BY LegacyAssumption DEF Init, EmptyDatabase, Database
  <2>. QED  BY <2>1 DEF Init, TypeOK, CallsCarryCorpora, Steps, Outcomes
<1>2. Inv /\ [Next]_vars => Inv'
  <2>. SUFFICES ASSUME Inv, [Next]_vars PROVE Inv'
    OBVIOUS
  <2>. USE DEF TypeOK, CallsCarryCorpora
  <2>1. ASSUME NEW w \in Connection, pc[w] # "idle"
        PROVE  corpus[w] \in Corpus
    BY <2>1, CorporaAssumption
  <2>2. CASE UNCHANGED vars
    BY <2>2 DEF vars
  <2>3. ASSUME NEW w \in Connection, Refuse(w) PROVE Inv'
    BY <2>3 DEF Refuse, Outcomes
  <2>4. ASSUME NEW w \in Connection, Begin(w) PROVE Inv'
    BY <2>4 DEF Begin, Outcomes, Steps
  <2>5. ASSUME NEW w \in Connection, WriteRunCatalog(w) PROVE Inv'
    <3>1. RunCatalogWritten(db, corpus[w]) \in Database
      BY <2>1, <2>5, WritesKeepType DEF WriteRunCatalog
    <3>. QED  BY <2>5, <3>1 DEF WriteRunCatalog, Steps, WritingSteps
  <2>6. ASSUME NEW w \in Connection, NEW from \in Steps \ {"idle"}, NEW to \in Steps \ {"idle"},
               NEW content \in Database, Advance(w, from, content, to), row' \in Nat \ {0}
        PROVE  Inv'
    BY <2>6 DEF Advance
  <2>7. {"outcomes", "scores", "results", "gaps", "links", "evidence"} \subseteq Steps \ {"idle"}
    BY DEF Steps, WritingSteps
  <2>8. ASSUME NEW w \in Connection, ClearRunOutcomes(w) PROVE Inv'
    <3>1. RunOutcomesCleared(draft, corpus[w]) \in Database
      BY <2>1, <2>8, WritesKeepType DEF ClearRunOutcomes, Advance
    <3>. QED  BY <2>6, <2>7, <2>8, <3>1 DEF ClearRunOutcomes
  <2>9. ASSUME NEW w \in Connection, WriteScoreSummaries(w) PROVE Inv'
    <3>1. ScoreSummariesWritten(draft, corpus[w]) \in Database
      BY <2>1, <2>9, WritesKeepType DEF WriteScoreSummaries, Advance
    <3>. QED  BY <2>6, <2>7, <2>9, <3>1 DEF WriteScoreSummaries
  <2>10. ASSUME NEW w \in Connection, WriteControlResults(w) PROVE Inv'
    <3>1. ControlResultsWritten(draft, corpus[w]) \in Database
      BY <2>1, <2>10, WritesKeepType DEF WriteControlResults, Advance
    <3>. QED  BY <2>6, <2>7, <2>10, <3>1 DEF WriteControlResults
  <2>11. ASSUME NEW w \in Connection, WriteGapRows(w) PROVE Inv'
    <3>1. GapRowsWritten(draft, corpus[w]) \in Database
      BY <2>1, <2>11, WritesKeepType DEF WriteGapRows, Advance
    <3>. QED  BY <2>6, <2>7, <2>11, <3>1 DEF WriteGapRows
  <2>12. ASSUME NEW w \in Connection, ClearEvidenceLinks(w) PROVE Inv'
    <3>1. EvidenceLinksCleared(draft, corpus[w]) \in Database
      BY <2>1, <2>12, WritesKeepType DEF ClearEvidenceLinks, Advance
    <3>. QED  BY <2>6, <2>7, <2>12, <3>1 DEF ClearEvidenceLinks
  <2>13. ASSUME NEW w \in Connection, WriteEvidenceRow(w) PROVE Inv'
    <3>1. corpus[w] \in Corpus
      BY <2>1, <2>13 DEF WriteEvidenceRow, Advance
    <3>2. corpus[w].evidence[row] \in EvidenceEntry
      BY <2>13, <3>1, SeqElement DEF WriteEvidenceRow, Corpus
    <3>3. EvidenceRowWritten(draft, corpus[w], corpus[w].evidence[row]) \in Database
      BY <3>1, <3>2, EvidenceWriteKeepsType
    <3>4. row' \in Nat \ {0}
      BY <2>13 DEF WriteEvidenceRow
    <3>. QED  BY <2>6, <2>7, <2>13, <3>3, <3>4 DEF WriteEvidenceRow
  <2>14. ASSUME NEW w \in Connection, Commit(w) PROVE Inv'
    BY <2>14 DEF Commit, Steps, Outcomes
  <2>15. ASSUME NEW w \in Connection, NEW result \in Outcomes, GiveUp(w, result) PROVE Inv'
    BY <2>15 DEF GiveUp, Steps
  <2>16. ASSUME NEW w \in Connection, BusyTimeout(w) \/ StatementFails(w) \/ Crash(w) PROVE Inv'
    BY <2>15, <2>16 DEF BusyTimeout, StatementFails, Crash, Outcomes
  <2>. QED
    BY <2>2, <2>3, <2>4, <2>5, <2>8, <2>9, <2>10, <2>11, <2>12, <2>13, <2>14, <2>16
       DEF Next, WriteStep
<1>. QED  BY <1>1, <1>2, PTL DEF Spec

\* Every variable keeps its type (TypeOK).
THEOREM TypeCorrect == Spec => []TypeOK
BY CallsTyped, PTL

(***************************************************************************)
(* What the statements of one call leave in the tables.                    *)
(***************************************************************************)

\* Every row derived from a corpus carries the run id of the corpus.
LEMMA RowsNameTheirRun ==
  ASSUME NEW c
  PROVE  \A x \in FrameworkLinks(c) \cup ControlLinks(c) \cup ResultRows(c)
                   \cup GapRows(c) \cup ScoreRows(c) : x.run_id = c.run_id
BY DEF FrameworkLinks, ControlLinks, ResultRows, GapRows, ScoreRows

\* Deleting the rows of a run and upserting new ones leaves the new ones and
\* touches no other run, because each key begins with the run.
LEMMA ReplacedRows ==
  ASSUME NEW table, NEW rows, NEW run, \A x \in rows : x.run_id = run
  PROVE  LET links    == Upsert(NotForRun(table, run), rows, FrameworkLinkKey)
             controls == Upsert(NotForRun(table, run), rows, ControlLinkKey)
         IN  /\ ForRun(links, run) = rows
             /\ ForRun(controls, run) = rows
             /\ \A other : other # run => /\ ForRun(links, other) = ForRun(table, other)
                                         /\ ForRun(controls, other) = ForRun(table, other)
BY DEF Upsert, ForRun, NotForRun, FrameworkLinkKey, ControlLinkKey

\* The same for rows added to a table that has none of that run.
LEMMA UpsertedRows ==
  ASSUME NEW table, NEW rows, NEW run, \A x \in rows : x.run_id = run,
         ForRun(table, run) = {}
  PROVE  /\ ForRun(Upsert(table, rows, OutcomeKey), run) = rows
         /\ \A other : other # run =>
              ForRun(Upsert(table, rows, OutcomeKey), other) = ForRun(table, other)
BY DEF Upsert, ForRun, OutcomeKey

\* Every row that belongs to a run is the same in both contents.
RunOf(runs, id) == {x \in runs : x.id = id}

RunRowsKept(d, n, run) ==
  /\ RunOf(n.scan_runs, run) = RunOf(d.scan_runs, run)
  /\ ForRun(n.run_evidence_links, run) = ForRun(d.run_evidence_links, run)
  /\ ForRun(n.run_framework_links, run) = ForRun(d.run_framework_links, run)
  /\ ForRun(n.run_control_links, run) = ForRun(d.run_control_links, run)
  /\ ForRun(n.control_results, run) = ForRun(d.control_results, run)
  /\ ForRun(n.compliance_gaps, run) = ForRun(d.compliance_gaps, run)
  /\ ForRun(n.score_summaries, run) = ForRun(d.score_summaries, run)

OtherRunsKept(d, n, c) ==
  \A run : run # c.run_id /\ run # Blank => RunRowsKept(d, n, run)

\* What a transaction about to execute `step` has made of its run so far.
WrittenUpTo(d, c, step) ==
  /\ ForRun(d.run_framework_links, c.run_id) = FrameworkLinks(c)
  /\ ForRun(d.run_control_links, c.run_id) = ControlLinks(c)
  /\ step \in {"results", "gaps", "links", "evidence"} =>
       ForRun(d.score_summaries, c.run_id) = ScoreRows(c)
  /\ step \in {"scores", "results"} => ForRun(d.control_results, c.run_id) = {}
  /\ step \in {"gaps", "links", "evidence"} =>
       ForRun(d.control_results, c.run_id) = ResultRows(c)
  /\ step \in {"scores", "results", "gaps"} => ForRun(d.compliance_gaps, c.run_id) = {}
  /\ step \in {"links", "evidence"} => ForRun(d.compliance_gaps, c.run_id) = GapRows(c)

\* write_run_catalog leaves every other run alone and its own run with the
\* framework and control links of the corpus.
LEMMA CatalogEffect ==
  ASSUME NEW d \in Database, NEW c
  PROVE  LET n == RunCatalogWritten(d, c)
         IN  OtherRunsKept(d, n, c) /\ WrittenUpTo(n, c, "outcomes")
<1>. DEFINE n == RunCatalogWritten(d, c)
<1>1. /\ n.run_framework_links =
           Upsert(NotForRun(d.run_framework_links, c.run_id), FrameworkLinks(c), FrameworkLinkKey)
      /\ n.run_control_links =
           Upsert(NotForRun(d.run_control_links, c.run_id), ControlLinks(c), ControlLinkKey)
      /\ n.control_results = d.control_results
      /\ n.compliance_gaps = d.compliance_gaps
      /\ n.score_summaries = d.score_summaries
      /\ n.run_evidence_links = d.run_evidence_links
      /\ n.scan_runs = Upsert(d.scan_runs, StampedRun(d.scan_runs, c), IdKey)
  BY DEF RunCatalogWritten, Database
<1>2. /\ ForRun(n.run_framework_links, c.run_id) = FrameworkLinks(c)
      /\ \A other : other # c.run_id =>
           ForRun(n.run_framework_links, other) = ForRun(d.run_framework_links, other)
  BY <1>1, RowsNameTheirRun, ReplacedRows
<1>3. /\ ForRun(n.run_control_links, c.run_id) = ControlLinks(c)
      /\ \A other : other # c.run_id =>
           ForRun(n.run_control_links, other) = ForRun(d.run_control_links, other)
  BY <1>1, RowsNameTheirRun, ReplacedRows
<1>4. \A other : other # c.run_id => RunOf(n.scan_runs, other) = RunOf(d.scan_runs, other)
  <2>1. \A x \in StampedRun(d.scan_runs, c) : x.id = c.run_id
    BY DEF StampedRun
  <2>. HIDE DEF n
  <2>. QED  BY <1>1, <2>1 DEF RunOf, Upsert, IdKey
<1>. QED  BY <1>1, <1>2, <1>3, <1>4 DEF OtherRunsKept, RunRowsKept, WrittenUpTo

\* clear_run_outcomes empties the results and gaps of its own run only.
LEMMA ClearOutcomesEffect ==
  ASSUME NEW d \in Database, NEW c, WrittenUpTo(d, c, "outcomes")
  PROVE  LET n == RunOutcomesCleared(d, c)
         IN  /\ OtherRunsKept(d, n, c)
             /\ WrittenUpTo(n, c, "scores")
             /\ n.scan_runs = d.scan_runs
<1>. DEFINE n == RunOutcomesCleared(d, c)
<1>1. /\ n.run_framework_links = d.run_framework_links
      /\ n.run_control_links = d.run_control_links
      /\ n.control_results = NotForRun(d.control_results, c.run_id)
      /\ n.compliance_gaps = NotForRun(d.compliance_gaps, c.run_id)
      /\ n.score_summaries = d.score_summaries
      /\ n.run_evidence_links = d.run_evidence_links
      /\ n.scan_runs = d.scan_runs
  BY DEF RunOutcomesCleared, Database
<1>2. ASSUME NEW table
      PROVE  /\ ForRun(NotForRun(table, c.run_id), c.run_id) = {}
             /\ \A other : other # c.run_id =>
                  ForRun(NotForRun(table, c.run_id), other) = ForRun(table, other)
  BY DEF ForRun, NotForRun
<1>. QED  BY <1>1, <1>2 DEF OtherRunsKept, RunRowsKept, WrittenUpTo

\* write_score_summaries leaves the summaries of the corpus and touches no other
\* run.
LEMMA ScoresEffect ==
  ASSUME NEW d \in Database, NEW c, WrittenUpTo(d, c, "scores")
  PROVE  LET n == ScoreSummariesWritten(d, c)
         IN  /\ OtherRunsKept(d, n, c)
             /\ WrittenUpTo(n, c, "results")
             /\ n.scan_runs = d.scan_runs
<1>. DEFINE n == ScoreSummariesWritten(d, c)
<1>1. /\ n.run_framework_links = d.run_framework_links
      /\ n.run_control_links = d.run_control_links
      /\ n.control_results = d.control_results
      /\ n.compliance_gaps = d.compliance_gaps
      /\ n.score_summaries =
           Upsert(NotForRun(d.score_summaries, c.run_id), ScoreRows(c), FrameworkLinkKey)
      /\ n.run_evidence_links = d.run_evidence_links
      /\ n.scan_runs = d.scan_runs
  BY DEF ScoreSummariesWritten, Database
<1>2. /\ ForRun(n.score_summaries, c.run_id) = ScoreRows(c)
      /\ \A other : other # c.run_id =>
           ForRun(n.score_summaries, other) = ForRun(d.score_summaries, other)
  BY <1>1, RowsNameTheirRun, ReplacedRows
<1>. QED  BY <1>1, <1>2 DEF OtherRunsKept, RunRowsKept, WrittenUpTo

\* The result loop leaves the rows of the corpus and touches no other run.
LEMMA ResultsEffect ==
  ASSUME NEW d \in Database, NEW c, WrittenUpTo(d, c, "results")
  PROVE  LET n == ControlResultsWritten(d, c)
         IN  /\ OtherRunsKept(d, n, c)
             /\ WrittenUpTo(n, c, "gaps")
             /\ n.scan_runs = d.scan_runs
<1>. DEFINE n == ControlResultsWritten(d, c)
<1>1. /\ n.run_framework_links = d.run_framework_links
      /\ n.run_control_links = d.run_control_links
      /\ n.control_results = Upsert(d.control_results, ResultRows(c), OutcomeKey)
      /\ n.compliance_gaps = d.compliance_gaps
      /\ n.score_summaries = d.score_summaries
      /\ n.run_evidence_links = d.run_evidence_links
      /\ n.scan_runs = d.scan_runs
  BY DEF ControlResultsWritten, Database
<1>2. ForRun(d.control_results, c.run_id) = {}
  BY DEF WrittenUpTo
<1>3. /\ ForRun(n.control_results, c.run_id) = ResultRows(c)
      /\ \A other : other # c.run_id =>
           ForRun(n.control_results, other) = ForRun(d.control_results, other)
  <2>1. \A x \in ResultRows(c) : x.run_id = c.run_id
    BY RowsNameTheirRun
  <2>. HIDE DEF n
  <2>. QED  BY <1>1, <1>2, <2>1, UpsertedRows
<1>. QED  BY <1>1, <1>3 DEF OtherRunsKept, RunRowsKept, WrittenUpTo

\* write_gap_rows leaves the gaps of the corpus and touches no other run: the
\* legacy rows it deletes belong to none.
LEMMA GapsEffect ==
  ASSUME NEW d \in Database, NEW c, c.run_id # Blank, WrittenUpTo(d, c, "gaps")
  PROVE  LET n == GapRowsWritten(d, c)
         IN  /\ OtherRunsKept(d, n, c)
             /\ WrittenUpTo(n, c, "links")
             /\ n.scan_runs = d.scan_runs
<1>. DEFINE n    == GapRowsWritten(d, c)
            kept == {g \in d.compliance_gaps : ~SupersededGap(g, c)}
<1>1. /\ n.run_framework_links = d.run_framework_links
      /\ n.run_control_links = d.run_control_links
      /\ n.control_results = d.control_results
      /\ n.compliance_gaps = InsertNew(kept, GapRows(c), OutcomeKey)
      /\ n.score_summaries = d.score_summaries
      /\ n.run_evidence_links = d.run_evidence_links
      /\ n.scan_runs = d.scan_runs
  BY DEF GapRowsWritten, Database
<1>2. ASSUME NEW run, run # Blank
      PROVE  ForRun(kept, run) = ForRun(d.compliance_gaps, run)
  BY <1>2 DEF ForRun, SupersededGap
<1>3. ForRun(kept, c.run_id) = {}
  BY <1>2 DEF WrittenUpTo
<1>4. /\ ForRun(n.compliance_gaps, c.run_id) = GapRows(c)
      /\ \A other : other # c.run_id =>
           ForRun(n.compliance_gaps, other) = ForRun(kept, other)
  <2>1. \A x \in GapRows(c) : x.run_id = c.run_id
    BY RowsNameTheirRun
  <2>2. /\ ForRun(InsertNew(kept, GapRows(c), OutcomeKey), c.run_id) = GapRows(c)
        /\ \A other : other # c.run_id =>
             ForRun(InsertNew(kept, GapRows(c), OutcomeKey), other) = ForRun(kept, other)
    <3>. HIDE DEF kept
    <3>. QED  BY <1>3, <2>1 DEF InsertNew, ForRun, OutcomeKey
  <2>. HIDE DEF n, kept
  <2>. QED  BY <1>1, <2>2
<1>. QED  BY <1>1, <1>2, <1>4 DEF OtherRunsKept, RunRowsKept, WrittenUpTo

\* The evidence statements touch one table that belongs to runs.
LEMMA EvidenceEffect ==
  ASSUME NEW d \in Database, NEW c, NEW e,
         NEW n \in {EvidenceLinksCleared(d, c), EvidenceRowWritten(d, c, e)}
  PROVE  /\ OtherRunsKept(d, n, c)
         /\ WrittenUpTo(d, c, "links") => WrittenUpTo(n, c, "evidence")
         /\ WrittenUpTo(d, c, "evidence") => WrittenUpTo(n, c, "evidence")
         /\ n.scan_runs = d.scan_runs
<1>1. /\ n.run_framework_links = d.run_framework_links
      /\ n.run_control_links = d.run_control_links
      /\ n.control_results = d.control_results
      /\ n.compliance_gaps = d.compliance_gaps
      /\ n.score_summaries = d.score_summaries
      /\ n.scan_runs = d.scan_runs
  <2>1. CASE n = EvidenceLinksCleared(d, c)
    BY <2>1 DEF EvidenceLinksCleared, Database
  <2>2. CASE n = EvidenceRowWritten(d, c, e)
    BY <2>2 DEF EvidenceRowWritten, Database
  <2>. QED  BY <2>1, <2>2
<1>2. \A other : other # c.run_id =>
        ForRun(n.run_evidence_links, other) = ForRun(d.run_evidence_links, other)
  <2>1. CASE n = EvidenceLinksCleared(d, c)
    <3>1. n.run_evidence_links = NotForRun(d.run_evidence_links, c.run_id)
      BY <2>1 DEF EvidenceLinksCleared, Database
    <3>. QED  BY <3>1 DEF ForRun, NotForRun
  <2>2. CASE n = EvidenceRowWritten(d, c, e)
    <3>1. PICK metadata :
            n.run_evidence_links =
              Upsert(d.run_evidence_links, SnapshotRows(metadata, c.run_id, e), EvidenceLinkKey)
      BY <2>2 DEF EvidenceRowWritten, Database
    <3>2. \A x \in SnapshotRows(metadata, c.run_id, e) : x.run_id = c.run_id
      BY DEF SnapshotRows
    <3>. QED  BY <3>1, <3>2 DEF Upsert, ForRun, EvidenceLinkKey
  <2>. QED  BY <2>1, <2>2
<1>. QED  BY <1>1, <1>2 DEF OtherRunsKept, RunRowsKept, WrittenUpTo

\* A statement that keeps every other run's rows keeps them stored.
LEMMA OtherRunStaysStored ==
  ASSUME NEW d, NEW n, NEW c, NEW x,
         x.run_id # c.run_id, x.run_id # Blank, OtherRunsKept(d, n, c), IsStored(d, x)
  PROVE  IsStored(n, x)
BY DEF OtherRunsKept, RunRowsKept, IsStored

(***************************************************************************)
(* The inductive invariant: besides the property, the single writer holds  *)
(* the lock, `latest` has one accepted corpus per run, and the draft has   *)
(* every other run as stored and its own run as far as it has got.         *)
(***************************************************************************)
WriterHoldsLock == \A w \in Connection : pc[w] \in WritingSteps => lock = w

OneLatestPerRun ==
  \A c \in latest : IsAccepted(c) /\ \A x \in latest : x.run_id = c.run_id => x = c

DraftIsUnderWay ==
  \A w \in Connection : pc[w] \in WritingSteps =>
    /\ \A c \in latest : c.run_id # corpus[w].run_id => IsStored(draft, c)
    /\ WrittenUpTo(draft, corpus[w], pc[w])

StoreInv == WriterHoldsLock /\ OneLatestPerRun /\ DraftIsUnderWay /\ LatestCorpusIsStored

\* Between the first INSERT and COMMIT a transaction executes one statement
\* after another, each touching its own run only.
Statement(w) ==
  \/ ClearRunOutcomes(w)
  \/ WriteScoreSummaries(w)
  \/ WriteControlResults(w)
  \/ WriteGapRows(w)
  \/ ClearEvidenceLinks(w)
  \/ WriteEvidenceRow(w)

\* Each statement between the first INSERT and COMMIT moves the transaction one
\* step on, keeps every other run and the list of runs, and adds what it should to
\* its own run.
LEMMA StatementAdvances ==
  ASSUME TypeOK, CallsCarryCorpora, DraftIsUnderWay, NEW w \in Connection, Statement(w)
  PROVE  \E from \in WritingSteps, to \in WritingSteps, n \in {draft'} :
           /\ Advance(w, from, n, to)
           /\ OtherRunsKept(draft, n, corpus[w])
           /\ WrittenUpTo(n, corpus[w], to)
           /\ n.scan_runs = draft.scan_runs
<1>. USE DEF Advance
<1>1. /\ draft \in Database
      /\ pc[w] \in WritingSteps
      /\ WrittenUpTo(draft, corpus[w], pc[w])
      /\ corpus[w].run_id # Blank
  BY DEF TypeOK, CallsCarryCorpora, DraftIsUnderWay, WritingSteps, IsAccepted, Statement,
         ClearRunOutcomes, WriteScoreSummaries, WriteControlResults, WriteGapRows,
         ClearEvidenceLinks, WriteEvidenceRow
<1>2. CASE ClearRunOutcomes(w)
  BY <1>1, <1>2, ClearOutcomesEffect DEF ClearRunOutcomes, WritingSteps
<1>3. CASE WriteScoreSummaries(w)
  BY <1>1, <1>3, ScoresEffect DEF WriteScoreSummaries, WritingSteps
<1>4. CASE WriteControlResults(w)
  BY <1>1, <1>4, ResultsEffect DEF WriteControlResults, WritingSteps
<1>5. CASE WriteGapRows(w)
  BY <1>1, <1>5, GapsEffect DEF WriteGapRows, WritingSteps
<1>6. CASE ClearEvidenceLinks(w)
  BY <1>1, <1>6, EvidenceEffect DEF ClearEvidenceLinks, WritingSteps
<1>7. CASE WriteEvidenceRow(w)
  BY <1>1, <1>7, EvidenceEffect DEF WriteEvidenceRow, WritingSteps
<1>. QED  BY <1>2, <1>3, <1>4, <1>5, <1>6, <1>7 DEF Statement

\* A statement inside the transaction.
LEMMA AdvanceKeepsStore ==
  ASSUME TypeOK, CallsCarryCorpora, StoreInv,
         NEW w \in Connection, NEW from \in WritingSteps, NEW to \in WritingSteps, NEW n,
         Advance(w, from, n, to),
         OtherRunsKept(draft, n, corpus[w]), WrittenUpTo(n, corpus[w], to)
  PROVE  StoreInv'
<1>. USE DEF StoreInv, Advance
<1>1. \A v \in Connection : pc'[v] = IF v = w THEN to ELSE pc[v]
  BY DEF TypeOK
<1>2. lock = w /\ \A v \in Connection : v # w => pc[v] \notin WritingSteps
  BY DEF WriterHoldsLock
<1>3. WriterHoldsLock' /\ OneLatestPerRun' /\ LatestCorpusIsStored'
  BY <1>1, <1>2 DEF WriterHoldsLock, OneLatestPerRun, LatestCorpusIsStored
<1>4. DraftIsUnderWay'
  <2>1. ASSUME NEW c \in latest, c.run_id # corpus[w].run_id
        PROVE  IsStored(n, c)
    <3>1. c.run_id # Blank
      BY DEF OneLatestPerRun, IsAccepted
    <3>2. IsStored(draft, c)
      BY <2>1 DEF DraftIsUnderWay
    <3>. QED  BY <2>1, <3>1, <3>2, OtherRunStaysStored
  <2>. QED  BY <1>1, <1>2, <2>1 DEF DraftIsUnderWay
<1>. QED  BY <1>3, <1>4

\* A call that ends without a commit.
LEMMA GiveUpKeepsStore ==
  ASSUME TypeOK, StoreInv, NEW w \in Connection, NEW result, GiveUp(w, result)
  PROVE  StoreInv'
<1>. USE DEF StoreInv, GiveUp
<1>1. \A v \in Connection : /\ pc'[v] = IF v = w THEN "idle" ELSE pc[v]
                            /\ v # w => corpus'[v] = corpus[v]
  BY DEF TypeOK
<1>2. "idle" \notin WritingSteps
  BY DEF WritingSteps
<1>3. ASSUME NEW v \in Connection, pc'[v] \in WritingSteps
      PROVE  v # w /\ pc[v] \in WritingSteps /\ lock = v /\ lock' = lock /\ draft' = draft
  BY <1>1, <1>2, <1>3 DEF WriterHoldsLock
<1>4. WriterHoldsLock'
  BY <1>3 DEF WriterHoldsLock
<1>5. OneLatestPerRun' /\ LatestCorpusIsStored'
  BY DEF OneLatestPerRun, LatestCorpusIsStored
<1>6. DraftIsUnderWay'
  BY <1>1, <1>3 DEF DraftIsUnderWay
<1>. QED  BY <1>4, <1>5, <1>6

\* The first statement takes the lock and starts from the committed content.
LEMMA FirstInsertKeepsStore ==
  ASSUME TypeOK, StoreInv, NEW w \in Connection, WriteRunCatalog(w),
         NobodyAssumption
  PROVE  StoreInv'
<1>. USE DEF StoreInv, WriteRunCatalog
<1>1. \A v \in Connection : pc'[v] = IF v = w THEN "outcomes" ELSE pc[v]
  BY DEF TypeOK
<1>2. \A v \in Connection : pc[v] \notin WritingSteps
  BY NobodyAssumption DEF WriterHoldsLock
<1>3. WriterHoldsLock' /\ OneLatestPerRun' /\ LatestCorpusIsStored'
  BY <1>1, <1>2 DEF WriterHoldsLock, OneLatestPerRun, LatestCorpusIsStored
<1>4. /\ OtherRunsKept(db, draft', corpus[w])
      /\ WrittenUpTo(draft', corpus[w], "outcomes")
  BY CatalogEffect DEF TypeOK
<1>5. ASSUME NEW c \in latest, c.run_id # corpus[w].run_id
      PROVE  IsStored(draft', c)
  BY <1>4, <1>5, OtherRunStaysStored DEF OneLatestPerRun, IsAccepted, LatestCorpusIsStored
<1>6. DraftIsUnderWay'
  BY <1>1, <1>2, <1>4, <1>5 DEF DraftIsUnderWay
<1>. QED  BY <1>3, <1>6

\* The commit publishes a draft that is complete.
LEMMA CommitKeepsStore ==
  ASSUME TypeOK, CallsCarryCorpora, StoreInv, NEW w \in Connection, Commit(w)
  PROVE  StoreInv'
<1>. USE DEF StoreInv, Commit
<1>1. \A v \in Connection : pc'[v] = IF v = w THEN "idle" ELSE pc[v]
  BY DEF TypeOK
<1>2. \A v \in Connection : pc'[v] \notin WritingSteps
  BY <1>1 DEF WriterHoldsLock, WritingSteps
<1>3. WriterHoldsLock' /\ DraftIsUnderWay'
  BY <1>2 DEF WriterHoldsLock, DraftIsUnderWay
<1>4. OneLatestPerRun'
  BY DEF OneLatestPerRun, CallsCarryCorpora
<1>5. IsStored(draft, corpus[w])
  BY DEF DraftIsUnderWay, WritingSteps, WrittenUpTo, IsStored
<1>6. LatestCorpusIsStored'
  <2>1. \A c \in latest : c.run_id # corpus[w].run_id => IsStored(draft, c)
    BY DEF DraftIsUnderWay, WritingSteps
  <2>. QED  BY <1>5, <2>1 DEF LatestCorpusIsStored
<1>. QED  BY <1>3, <1>4, <1>6

\* The inductive invariant holds: at any moment the committed tables hold the last
\* corpus of each run, and the draft of the transaction under way differs from
\* that in the run it writes only.
THEOREM StoreInvariant == Spec => []StoreInv
<1>1. Init => StoreInv
  BY DEF Init, StoreInv, WriterHoldsLock, OneLatestPerRun, DraftIsUnderWay,
         LatestCorpusIsStored, WritingSteps
<1>2. TypeOK /\ CallsCarryCorpora /\ StoreInv /\ [Next]_vars => StoreInv'
  <2>. SUFFICES ASSUME TypeOK, CallsCarryCorpora, StoreInv, [Next]_vars PROVE StoreInv'
    OBVIOUS
  <2>1. CASE UNCHANGED vars
    BY <2>1 DEF vars, StoreInv, WriterHoldsLock, OneLatestPerRun, DraftIsUnderWay,
                LatestCorpusIsStored
  <2>2. ASSUME NEW w \in Connection, Refuse(w) PROVE StoreInv'
    BY <2>2 DEF Refuse, StoreInv, WriterHoldsLock, OneLatestPerRun, DraftIsUnderWay,
                LatestCorpusIsStored
  <2>3. ASSUME NEW w \in Connection, Begin(w) PROVE StoreInv'
    <3>1. \A v \in Connection : /\ pc'[v] = IF v = w THEN "catalog" ELSE pc[v]
                                /\ v # w => corpus'[v] = corpus[v]
      BY <2>3 DEF Begin, TypeOK
    <3>2. "catalog" \notin WritingSteps
      BY DEF WritingSteps
    <3>. QED
      BY <2>3, <3>1, <3>2 DEF Begin, StoreInv, WriterHoldsLock, OneLatestPerRun,
                              DraftIsUnderWay, LatestCorpusIsStored
  <2>4. ASSUME NEW w \in Connection, WriteRunCatalog(w) PROVE StoreInv'
    BY <2>4, FirstInsertKeepsStore, NobodyAssumption
  <2>5. ASSUME NEW w \in Connection, Statement(w) PROVE StoreInv'
    BY <2>5, StatementAdvances, AdvanceKeepsStore DEF StoreInv
  <2>6. ASSUME NEW w \in Connection, Commit(w) PROVE StoreInv'
    BY <2>6, CommitKeepsStore
  <2>7. ASSUME NEW w \in Connection, BusyTimeout(w) \/ StatementFails(w) \/ Crash(w)
        PROVE  StoreInv'
    BY <2>7, GiveUpKeepsStore DEF BusyTimeout, StatementFails, Crash
  <2>. QED
    BY <2>1, <2>2, <2>3, <2>4, <2>5, <2>6, <2>7 DEF Next, WriteStep, Statement
<1>. QED  BY <1>1, <1>2, CallsTyped, PTL DEF Spec

\* The tables of a run hold exactly the last corpus committed for it, after any
\* sequence of writes, rewrites, failures and crashes (LatestCorpusIsStored).
THEOREM LatestStored == Spec => []LatestCorpusIsStored
<1>1. StoreInv => LatestCorpusIsStored
  BY DEF StoreInv
<1>. QED  BY <1>1, StoreInvariant, PTL

(***************************************************************************)
(* Isolation: a commit changes no run but its own.  The draft differs from *)
(* the committed content in the writer's own rows only, and no run has an  *)
(* empty id (the rows that belong to no run are told apart by it).         *)
(***************************************************************************)
RunsHaveNames(d) == \A x \in d.scan_runs : x.id # Blank

IsolationInv ==
  /\ RunsHaveNames(db)
  /\ \A w \in Connection : pc[w] \in WritingSteps =>
       /\ lock = w
       /\ RunsHaveNames(draft)
       /\ OtherRunsKept(db, draft, corpus[w])

\* Keeping the other runs composes.
LEMMA KeptTwice ==
  ASSUME NEW d, NEW n, NEW m, NEW c, OtherRunsKept(d, n, c), OtherRunsKept(n, m, c)
  PROVE  OtherRunsKept(d, m, c)
BY DEF OtherRunsKept, RunRowsKept

\* A statement inside the transaction keeps the draft isolated.
LEMMA AdvanceKeepsIsolation ==
  ASSUME TypeOK, IsolationInv,
         NEW w \in Connection, NEW from \in WritingSteps, NEW to \in WritingSteps, NEW n,
         Advance(w, from, n, to), OtherRunsKept(draft, n, corpus[w]),
         n.scan_runs = draft.scan_runs
  PROVE  IsolationInv'
<1>1. \A v \in Connection : pc'[v] = IF v = w THEN to ELSE pc[v]
  BY DEF TypeOK, Advance
<1>2. lock = w /\ \A v \in Connection : v # w => pc[v] \notin WritingSteps
  BY DEF IsolationInv, Advance
<1>3. OtherRunsKept(db, draft, corpus[w])
  BY DEF IsolationInv, Advance
<1>4. OtherRunsKept(db, n, corpus[w])
  BY <1>3, KeptTwice
<1>. QED  BY <1>1, <1>2, <1>4 DEF IsolationInv, RunsHaveNames, Advance

\* A call that ends without a commit keeps every draft isolated.
LEMMA GiveUpKeepsIsolation ==
  ASSUME TypeOK, IsolationInv, NEW w \in Connection, NEW result, GiveUp(w, result)
  PROVE  IsolationInv'
<1>1. \A v \in Connection : /\ pc'[v] = IF v = w THEN "idle" ELSE pc[v]
                            /\ v # w => corpus'[v] = corpus[v]
  BY DEF TypeOK, GiveUp
<1>2. ASSUME NEW v \in Connection, pc'[v] \in WritingSteps
      PROVE  v # w /\ pc[v] \in WritingSteps /\ lock = v /\ lock' = lock /\ draft' = draft
  BY <1>1, <1>2 DEF IsolationInv, WritingSteps, GiveUp
<1>. QED  BY <1>1, <1>2 DEF IsolationInv, GiveUp

\* A transaction starts from the committed content, changed in its own run only.
LEMMA FirstInsertKeepsIsolation ==
  ASSUME TypeOK, CallsCarryCorpora, IsolationInv, NEW w \in Connection, WriteRunCatalog(w),
         NobodyAssumption
  PROVE  IsolationInv'
<1>. USE DEF WriteRunCatalog
<1>1. \A v \in Connection : pc'[v] = IF v = w THEN "outcomes" ELSE pc[v]
  BY DEF TypeOK
<1>2. \A v \in Connection : pc[v] \notin WritingSteps
  BY NobodyAssumption DEF IsolationInv
<1>3. OtherRunsKept(db, draft', corpus[w])
  BY CatalogEffect DEF TypeOK
<1>4. RunsHaveNames(draft')
  <2>1. draft'.scan_runs = Upsert(db.scan_runs, StampedRun(db.scan_runs, corpus[w]), IdKey)
    BY DEF RunCatalogWritten, TypeOK, Database
  <2>2. corpus[w].run_id # Blank
    BY DEF CallsCarryCorpora, IsAccepted
  <2>3. \A x \in StampedRun(db.scan_runs, corpus[w]) : x.id = corpus[w].run_id
    BY DEF StampedRun
  <2>4. RunsHaveNames(db)
    BY DEF IsolationInv
  <2>. QED  BY <2>1, <2>2, <2>3, <2>4 DEF RunsHaveNames, Upsert
<1>. QED  BY <1>1, <1>2, <1>3, <1>4 DEF IsolationInv

\* After a commit no transaction is under way and every run has a name.
LEMMA CommitKeepsIsolation ==
  ASSUME TypeOK, IsolationInv, NEW w \in Connection, Commit(w)
  PROVE  IsolationInv'
<1>1. \A v \in Connection : pc'[v] \notin WritingSteps
  BY DEF TypeOK, IsolationInv, WritingSteps, Commit
<1>2. RunsHaveNames(db')
  BY DEF IsolationInv, WritingSteps, Commit
<1>. QED  BY <1>1, <1>2 DEF IsolationInv

\* The draft of a transaction differs from the committed content in the rows of
\* its own run only, and no run has an empty id.
THEOREM IsolationInvariant == Spec => []IsolationInv
<1>1. Init => IsolationInv
  BY DEF Init, EmptyDatabase, IsolationInv, RunsHaveNames, WritingSteps
<1>2. TypeOK /\ CallsCarryCorpora /\ StoreInv /\ IsolationInv /\ [Next]_vars => IsolationInv'
  <2>. SUFFICES ASSUME TypeOK, CallsCarryCorpora, StoreInv, IsolationInv, [Next]_vars
                PROVE  IsolationInv'
    OBVIOUS
  <2>1. CASE UNCHANGED vars
    BY <2>1 DEF vars, IsolationInv
  <2>2. ASSUME NEW w \in Connection, Refuse(w) PROVE IsolationInv'
    BY <2>2 DEF Refuse, IsolationInv
  <2>3. ASSUME NEW w \in Connection, Begin(w) PROVE IsolationInv'
    <3>1. \A v \in Connection : /\ pc'[v] = IF v = w THEN "catalog" ELSE pc[v]
                                /\ v # w => corpus'[v] = corpus[v]
      BY <2>3 DEF Begin, TypeOK
    <3>. QED  BY <2>3, <3>1 DEF Begin, IsolationInv, WritingSteps
  <2>4. ASSUME NEW w \in Connection, WriteRunCatalog(w) PROVE IsolationInv'
    BY <2>4, FirstInsertKeepsIsolation, NobodyAssumption
  <2>5. ASSUME NEW w \in Connection, Statement(w) PROVE IsolationInv'
    BY <2>5, StatementAdvances, AdvanceKeepsIsolation DEF StoreInv
  <2>6. ASSUME NEW w \in Connection, Commit(w) PROVE IsolationInv'
    BY <2>6, CommitKeepsIsolation
  <2>7. ASSUME NEW w \in Connection, BusyTimeout(w) \/ StatementFails(w) \/ Crash(w)
        PROVE  IsolationInv'
    BY <2>7, GiveUpKeepsIsolation DEF BusyTimeout, StatementFails, Crash
  <2>. QED
    BY <2>1, <2>2, <2>3, <2>4, <2>5, <2>6, <2>7 DEF Next, WriteStep, Statement
<1>. QED  BY <1>1, <1>2, CallsTyped, StoreInvariant, PTL DEF Spec

\* A committed row of a run changes only when a writer of that same run commits
\* (OnlyItsOwnWriteChangesARun).
THEOREM Isolation == Spec => OnlyItsOwnWriteChangesARun
<1>. DEFINE Kept == \A x \in db.scan_runs \cup db'.scan_runs :
                      \/ \E w \in Connection : Committing(w) /\ corpus[w].run_id = x.id
                      \/ RunRowsKept(db, db', x.id)
<1>1. TypeOK /\ IsolationInv /\ IsolationInv' /\ [Next]_vars => Kept
  <2>. SUFFICES ASSUME TypeOK, IsolationInv, IsolationInv', [Next]_vars PROVE Kept
    OBVIOUS
  <2>1. CASE db' = db
    BY <2>1 DEF RunRowsKept
  <2>2. ASSUME NEW w \in Connection, Commit(w) PROVE Kept
    <3>1. Committing(w)
      BY <2>2 DEF Commit, Committing, TypeOK
    <3>2. OtherRunsKept(db, db', corpus[w])
      BY <2>2 DEF Commit, IsolationInv, WritingSteps
    <3>3. \A x \in db.scan_runs \cup db'.scan_runs : x.id # Blank
      BY DEF IsolationInv, RunsHaveNames
    <3>. QED  BY <3>1, <3>2, <3>3 DEF OtherRunsKept
  <2>3. db' = db \/ \E w \in Connection : Commit(w)
    BY DEF Next, WriteStep, vars, Refuse, Begin, WriteRunCatalog, ClearRunOutcomes,
           WriteScoreSummaries, WriteControlResults, WriteGapRows, ClearEvidenceLinks,
           WriteEvidenceRow, Advance, BusyTimeout, StatementFails, Crash, GiveUp
  <2>. QED  BY <2>1, <2>2, <2>3
<1>2. Kept => OwnWritesOnly
  BY DEF OwnWritesOnly, RunRowsKept, RunOf, SameRows
<1>. QED
  BY <1>1, <1>2, CallsTyped, IsolationInvariant, PTL DEF Spec, OnlyItsOwnWriteChangesARun

-----------------------------------------------------------------------------
(***************************************************************************)
(* What LocalDatabase knows is not forgotten: runs and their time stamps,  *)
(* the framework catalogue, digests and locators, and legacy gaps, which   *)
(* disappear only when a run records the gap.                              *)
(***************************************************************************)
RunsKept(d, n) ==
  \A x \in d.scan_runs :
    \E y \in n.scan_runs : y.id = x.id /\ (x.executed_at # Blank => y.executed_at # Blank)

FrameworksKept(d, n) == d.frameworks \subseteq n.frameworks

EvidenceKept(d, n) ==
  \A x \in d.evidence_metadata :
    \E y \in n.evidence_metadata : /\ y.id = x.id
                                   /\ (x.digest # Blank => y.digest # Blank)
                                   /\ (x.locator # Blank => y.locator = x.locator)

LegacyKept(d, n) ==
  \A g \in d.compliance_gaps : g.run_id = Blank => g \in n.compliance_gaps

LegacyRecorded(d, n) ==
  \A g \in d.compliance_gaps \ n.compliance_gaps :
    g.run_id = Blank => \E h \in n.compliance_gaps : h.run_id # Blank /\ ResultKey(h) = ResultKey(g)

OneVersionPerFramework(d) == \A f, g \in d.frameworks : f.id = g.id => f = g

\* A transaction about to execute `phase` has kept all that was committed, and
\* touches the legacy gaps only when it writes its own.
Keeps(d, n, phase) ==
  /\ RunsKept(d, n) /\ FrameworksKept(d, n) /\ EvidenceKept(d, n)
  /\ phase \notin {"links", "evidence"} => LegacyKept(d, n)
  /\ phase \in {"links", "evidence"} => LegacyRecorded(d, n)

FactsInv ==
  /\ OneVersionPerFramework(db) /\ OneVersionPerFramework(draft)
  /\ \A w \in Connection : pc[w] \in WritingSteps => lock = w /\ Keeps(db, draft, pc[w])

\* A table that is not touched keeps its facts.
LEMMA SameTables ==
  ASSUME NEW d, NEW n, NEW m
  PROVE  /\ m.scan_runs = n.scan_runs /\ RunsKept(d, n) => RunsKept(d, m)
         /\ m.frameworks = n.frameworks /\ FrameworksKept(d, n) => FrameworksKept(d, m)
         /\ m.frameworks = n.frameworks /\ OneVersionPerFramework(n) => OneVersionPerFramework(m)
         /\ m.evidence_metadata = n.evidence_metadata /\ EvidenceKept(d, n) => EvidenceKept(d, m)
         /\ m.compliance_gaps = n.compliance_gaps /\ LegacyKept(d, n) => LegacyKept(d, m)
         /\ m.compliance_gaps = n.compliance_gaps /\ LegacyRecorded(d, n) => LegacyRecorded(d, m)
BY DEF RunsKept, FrameworksKept, OneVersionPerFramework, EvidenceKept, LegacyKept, LegacyRecorded

\* write_run_catalog keeps every run, its time stamp and the version of every
\* framework that was there.
LEMMA CatalogKeepsFacts ==
  ASSUME NEW d \in Database, NEW c \in Corpus, OneVersionPerFramework(d)
  PROVE  LET n == RunCatalogWritten(d, c)
         IN  /\ RunsKept(d, n) /\ FrameworksKept(d, n) /\ EvidenceKept(d, n) /\ LegacyKept(d, n)
             /\ OneVersionPerFramework(n)
<1>. DEFINE n == RunCatalogWritten(d, c)
<1>1. /\ n.scan_runs = Upsert(d.scan_runs, StampedRun(d.scan_runs, c), IdKey)
      /\ n.frameworks = InsertNew(d.frameworks, CatalogueEntries(c), IdKey)
      /\ n.evidence_metadata = d.evidence_metadata
      /\ n.compliance_gaps = d.compliance_gaps
  BY DEF RunCatalogWritten, Database
<1>. HIDE DEF n
<1>2. RunsKept(d, n)
  <2>. SUFFICES ASSUME NEW x \in d.scan_runs
                PROVE  \E y \in n.scan_runs :
                         y.id = x.id /\ (x.executed_at # Blank => y.executed_at # Blank)
    BY DEF RunsKept
  <2>1. CASE x.id # c.run_id
    <3>1. \A r \in StampedRun(d.scan_runs, c) : r.id = c.run_id
      BY DEF StampedRun
    <3>. QED  BY <1>1, <2>1, <3>1 DEF Upsert, IdKey
  <2>2. CASE x.id = c.run_id
    <3>1. \E y \in StampedRun(d.scan_runs, c) :
            y.id = x.id /\ (x.executed_at # Blank => y.executed_at # Blank)
      BY <2>2 DEF StampedRun
    <3>. QED  BY <1>1, <3>1 DEF Upsert
  <2>. QED  BY <2>1, <2>2
<1>3. FrameworksKept(d, n)
  BY <1>1 DEF FrameworksKept, InsertNew
<1>4. OneVersionPerFramework(n)
  <2>1. \A f, g \in CatalogueEntries(c) : f.id = g.id => f = g
    <3>1. DOMAIN c.frameworks = 1 .. Len(c.frameworks) /\ Len(c.frameworks) \in Nat
      BY DEF Corpus
    <3>2. \A f, g \in FirstOfEachKey(c.frameworks, FrameworkKey) :
            f.framework_id = g.framework_id => f = g
      BY <3>1 DEF FirstOfEachKey, FrameworkKey
    <3>. QED  BY <3>2 DEF CatalogueEntries
  <2>. QED  BY <1>1, <2>1 DEF OneVersionPerFramework, InsertNew, IdKey
<1>5. EvidenceKept(d, n) /\ LegacyKept(d, n)
  BY <1>1 DEF EvidenceKept, LegacyKept
<1>. QED  BY <1>2, <1>3, <1>4, <1>5 DEF n

\* clear_run_outcomes leaves the gaps that belong to no run.
LEMMA ClearingKeepsLegacy ==
  ASSUME NEW d \in Database, NEW n \in Database, NEW c, c.run_id # Blank, LegacyKept(d, n)
  PROVE  LegacyKept(d, RunOutcomesCleared(n, c))
BY DEF LegacyKept, RunOutcomesCleared, NotForRun, Database

\* write_gap_rows takes a legacy gap away only where its run has that gap.
LEMMA GapsRecordLegacy ==
  ASSUME NEW d \in Database, NEW n \in Database, NEW c, c.run_id # Blank, LegacyKept(d, n)
  PROVE  LegacyRecorded(d, GapRowsWritten(n, c))
<1>. DEFINE kept == {g \in n.compliance_gaps : ~SupersededGap(g, c)}
            m    == GapRowsWritten(n, c)
<1>1. m.compliance_gaps = InsertNew(kept, GapRows(c), OutcomeKey)
  BY DEF GapRowsWritten, Database
<1>2. ASSUME NEW g \in d.compliance_gaps, g.run_id = Blank, g \notin m.compliance_gaps
      PROVE  \E h \in m.compliance_gaps : h.run_id # Blank /\ ResultKey(h) = ResultKey(g)
  <2>1. g \in n.compliance_gaps
    BY <1>2 DEF LegacyKept
  <2>2. g \notin kept
    BY <1>1, <1>2 DEF InsertNew
  <2>3. PICK r \in GapRows(c) : ResultKey(r) = ResultKey(g)
    BY <2>1, <2>2 DEF SupersededGap
  <2>4. r.run_id = c.run_id
    BY RowsNameTheirRun
  <2>. HIDE DEF m, kept
  <2>5. CASE r \in m.compliance_gaps
    BY <2>3, <2>4, <2>5
  <2>6. CASE r \notin m.compliance_gaps
    <3>1. PICK h \in kept : OutcomeKey(h) = OutcomeKey(r)
      BY <1>1, <2>6 DEF InsertNew
    <3>2. h \in m.compliance_gaps
      BY <1>1 DEF InsertNew
    <3>3. h.run_id = c.run_id /\ ResultKey(h) = ResultKey(r)
      BY <2>4, <3>1 DEF OutcomeKey, ResultKey
    <3>. QED  BY <2>3, <3>2, <3>3
  <2>. QED  BY <2>5, <2>6
<1>. QED  BY <1>2 DEF LegacyRecorded

\* The upsert of an evidence record forgets no digest and no locator.
LEMMA EvidenceRowKeepsFacts ==
  ASSUME NEW d \in Database, NEW n \in Database, NEW c, NEW e, EvidenceKept(d, n)
  PROVE  EvidenceKept(d, EvidenceRowWritten(n, c, e))
<1>. DEFINE metadata == WrittenEvidence(n.evidence_metadata, e)
<1>1. EvidenceRowWritten(n, c, e).evidence_metadata = metadata
  BY DEF EvidenceRowWritten, Database
<1>2. ASSUME NEW x \in n.evidence_metadata
      PROVE  \E y \in metadata : /\ y.id = x.id
                                 /\ (x.digest # Blank => y.digest # Blank)
                                 /\ (x.locator # Blank => y.locator = x.locator)
  <2>1. CASE x.id # e.id
    BY <2>1 DEF WrittenEvidence
  <2>2. CASE x.id = e.id
    <3>1. MergedEvidence(x, e) \in metadata
      BY <2>2 DEF WrittenEvidence
    <3>2. /\ MergedEvidence(x, e).id = x.id
          /\ x.digest # Blank => MergedEvidence(x, e).digest # Blank
          /\ x.locator # Blank => MergedEvidence(x, e).locator = x.locator
      BY <2>2 DEF MergedEvidence
    <3>. QED  BY <3>1, <3>2
  <2>. QED  BY <2>1, <2>2
<1>. HIDE DEF metadata
<1>3. ASSUME NEW x \in d.evidence_metadata
      PROVE  \E y \in metadata : /\ y.id = x.id
                                 /\ (x.digest # Blank => y.digest # Blank)
                                 /\ (x.locator # Blank => y.locator = x.locator)
  <2>1. PICK z \in n.evidence_metadata : /\ z.id = x.id
                                         /\ (x.digest # Blank => z.digest # Blank)
                                         /\ (x.locator # Blank => z.locator = x.locator)
    BY DEF EvidenceKept
  <2>. QED  BY <1>2, <2>1
<1>. QED  BY <1>1, <1>3 DEF EvidenceKept

\* The tables that each statement leaves alone.
LEMMA UntouchedTables ==
  ASSUME NEW n \in Database, NEW c, NEW e
  PROVE  /\ \A m \in {RunOutcomesCleared(n, c), ScoreSummariesWritten(n, c),
                      ControlResultsWritten(n, c), GapRowsWritten(n, c),
                      EvidenceLinksCleared(n, c), EvidenceRowWritten(n, c, e)} :
              /\ m.scan_runs = n.scan_runs
              /\ m.frameworks = n.frameworks
              /\ m.controls = n.controls
         /\ \A m \in {RunOutcomesCleared(n, c), ScoreSummariesWritten(n, c),
                      ControlResultsWritten(n, c), GapRowsWritten(n, c),
                      EvidenceLinksCleared(n, c)} :
              m.evidence_metadata = n.evidence_metadata
         /\ \A m \in {ScoreSummariesWritten(n, c), ControlResultsWritten(n, c),
                      EvidenceLinksCleared(n, c), EvidenceRowWritten(n, c, e)} :
              m.compliance_gaps = n.compliance_gaps
<1>1. /\ RunOutcomesCleared(n, c).scan_runs = n.scan_runs
      /\ RunOutcomesCleared(n, c).frameworks = n.frameworks
      /\ RunOutcomesCleared(n, c).controls = n.controls
      /\ RunOutcomesCleared(n, c).evidence_metadata = n.evidence_metadata
  BY DEF RunOutcomesCleared, Database
<1>2. /\ ScoreSummariesWritten(n, c).scan_runs = n.scan_runs
      /\ ScoreSummariesWritten(n, c).frameworks = n.frameworks
      /\ ScoreSummariesWritten(n, c).controls = n.controls
      /\ ScoreSummariesWritten(n, c).evidence_metadata = n.evidence_metadata
      /\ ScoreSummariesWritten(n, c).compliance_gaps = n.compliance_gaps
  BY DEF ScoreSummariesWritten, Database
<1>3. /\ ControlResultsWritten(n, c).scan_runs = n.scan_runs
      /\ ControlResultsWritten(n, c).frameworks = n.frameworks
      /\ ControlResultsWritten(n, c).controls = n.controls
      /\ ControlResultsWritten(n, c).evidence_metadata = n.evidence_metadata
      /\ ControlResultsWritten(n, c).compliance_gaps = n.compliance_gaps
  BY DEF ControlResultsWritten, Database
<1>4. /\ GapRowsWritten(n, c).scan_runs = n.scan_runs
      /\ GapRowsWritten(n, c).frameworks = n.frameworks
      /\ GapRowsWritten(n, c).controls = n.controls
      /\ GapRowsWritten(n, c).evidence_metadata = n.evidence_metadata
  BY DEF GapRowsWritten, Database
<1>5. /\ EvidenceLinksCleared(n, c).scan_runs = n.scan_runs
      /\ EvidenceLinksCleared(n, c).frameworks = n.frameworks
      /\ EvidenceLinksCleared(n, c).controls = n.controls
      /\ EvidenceLinksCleared(n, c).evidence_metadata = n.evidence_metadata
      /\ EvidenceLinksCleared(n, c).compliance_gaps = n.compliance_gaps
  BY DEF EvidenceLinksCleared, Database
<1>6. /\ EvidenceRowWritten(n, c, e).scan_runs = n.scan_runs
      /\ EvidenceRowWritten(n, c, e).frameworks = n.frameworks
      /\ EvidenceRowWritten(n, c, e).controls = n.controls
      /\ EvidenceRowWritten(n, c, e).compliance_gaps = n.compliance_gaps
  BY DEF EvidenceRowWritten, Database
<1>. QED  BY <1>1, <1>2, <1>3, <1>4, <1>5, <1>6

\* A statement of a transaction keeps what was committed.
LEMMA StatementKeepsFacts ==
  ASSUME TypeOK, CallsCarryCorpora, FactsInv, NEW w \in Connection, Statement(w)
  PROVE  Keeps(db, draft', pc'[w]) /\ OneVersionPerFramework(draft')
<1>. DEFINE c == corpus[w]
            e == corpus[w].evidence[row]
<1>1. db \in Database /\ draft \in Database /\ OneVersionPerFramework(draft)
  BY DEF TypeOK, FactsInv
<1>2. pc[w] \in WritingSteps /\ c.run_id # Blank
  BY DEF CallsCarryCorpora, IsAccepted, Statement, ClearRunOutcomes, WriteScoreSummaries,
         WriteControlResults, WriteGapRows, ClearEvidenceLinks, WriteEvidenceRow, Advance,
         WritingSteps
<1>3. Keeps(db, draft, pc[w])
  BY <1>2 DEF FactsInv
<1>4. pc' = [pc EXCEPT ![w] = pc'[w]]
  BY DEF TypeOK, Statement, ClearRunOutcomes, WriteScoreSummaries, WriteControlResults,
         WriteGapRows, ClearEvidenceLinks, WriteEvidenceRow, Advance
<1>. HIDE DEF c, e
<1>5. CASE ClearRunOutcomes(w)
  <2>1. pc[w] = "outcomes" /\ pc'[w] = "scores" /\ draft' = RunOutcomesCleared(draft, c)
    BY <1>5 DEF ClearRunOutcomes, Advance, TypeOK, c
  <2>2. /\ draft'.scan_runs = draft.scan_runs /\ draft'.frameworks = draft.frameworks
        /\ draft'.evidence_metadata = draft.evidence_metadata
    BY <1>1, <2>1, UntouchedTables
  <2>3. /\ RunsKept(db, draft) /\ FrameworksKept(db, draft) /\ EvidenceKept(db, draft)
        /\ LegacyKept(db, draft)
    BY <1>3, <2>1 DEF Keeps
  <2>4. /\ RunsKept(db, draft') /\ FrameworksKept(db, draft') /\ EvidenceKept(db, draft')
        /\ OneVersionPerFramework(draft')
    BY <1>1, <2>2, <2>3, SameTables
  <2>5. LegacyKept(db, draft')
    BY <1>1, <1>2, <2>1, <2>3, ClearingKeepsLegacy
  <2>. QED  BY <2>1, <2>4, <2>5 DEF Keeps
<1>6. CASE WriteScoreSummaries(w)
  <2>1. pc[w] = "scores" /\ pc'[w] = "results" /\ draft' = ScoreSummariesWritten(draft, c)
    BY <1>6 DEF WriteScoreSummaries, Advance, TypeOK, c
  <2>. QED  BY <1>1, <1>3, <2>1, UntouchedTables, SameTables DEF Keeps
<1>7. CASE WriteControlResults(w)
  <2>1. pc[w] = "results" /\ pc'[w] = "gaps" /\ draft' = ControlResultsWritten(draft, c)
    BY <1>7 DEF WriteControlResults, Advance, TypeOK, c
  <2>. QED  BY <1>1, <1>3, <2>1, UntouchedTables, SameTables DEF Keeps
<1>8. CASE WriteGapRows(w)
  <2>1. pc[w] = "gaps" /\ pc'[w] = "links" /\ draft' = GapRowsWritten(draft, c)
    BY <1>8 DEF WriteGapRows, Advance, TypeOK, c
  <2>2. /\ draft'.scan_runs = draft.scan_runs /\ draft'.frameworks = draft.frameworks
        /\ draft'.evidence_metadata = draft.evidence_metadata
    BY <1>1, <2>1, UntouchedTables
  <2>3. /\ RunsKept(db, draft) /\ FrameworksKept(db, draft) /\ EvidenceKept(db, draft)
        /\ LegacyKept(db, draft)
    BY <1>3, <2>1 DEF Keeps
  <2>4. /\ RunsKept(db, draft') /\ FrameworksKept(db, draft') /\ EvidenceKept(db, draft')
        /\ OneVersionPerFramework(draft')
    BY <1>1, <2>2, <2>3, SameTables
  <2>5. LegacyRecorded(db, draft')
    BY <1>1, <1>2, <2>1, <2>3, GapsRecordLegacy
  <2>. QED  BY <2>1, <2>4, <2>5 DEF Keeps
<1>9. CASE ClearEvidenceLinks(w)
  <2>1. pc[w] = "links" /\ pc'[w] = "evidence" /\ draft' = EvidenceLinksCleared(draft, c)
    BY <1>9 DEF ClearEvidenceLinks, Advance, TypeOK, c
  <2>. QED  BY <1>1, <1>3, <2>1, UntouchedTables, SameTables DEF Keeps
<1>10. CASE WriteEvidenceRow(w)
  <2>1. pc[w] = "evidence" /\ pc'[w] = "evidence" /\ draft' = EvidenceRowWritten(draft, c, e)
    BY <1>10 DEF WriteEvidenceRow, Advance, TypeOK, c, e
  <2>. QED  BY <1>1, <1>3, <2>1, EvidenceRowKeepsFacts, UntouchedTables, SameTables DEF Keeps
<1>. QED  BY <1>5, <1>6, <1>7, <1>8, <1>9, <1>10 DEF Statement

\* What is known when a call starts is known when it commits.
THEOREM FactsInvariant == Spec => []FactsInv
<1>1. Init => FactsInv
  BY DEF Init, EmptyDatabase, FactsInv, OneVersionPerFramework, WritingSteps
<1>2. TypeOK /\ CallsCarryCorpora /\ FactsInv /\ [Next]_vars => FactsInv'
  <2>. SUFFICES ASSUME TypeOK, CallsCarryCorpora, FactsInv, [Next]_vars PROVE FactsInv'
    OBVIOUS
  <2>1. CASE UNCHANGED vars
    BY <2>1 DEF vars, FactsInv
  <2>2. ASSUME NEW w \in Connection, Refuse(w) PROVE FactsInv'
    BY <2>2 DEF Refuse, FactsInv
  <2>3. ASSUME NEW w \in Connection, Begin(w) PROVE FactsInv'
    <3>1. \A v \in Connection : pc'[v] = IF v = w THEN "catalog" ELSE pc[v]
      BY <2>3 DEF Begin, TypeOK
    <3>. QED  BY <2>3, <3>1 DEF Begin, FactsInv, WritingSteps
  <2>4. ASSUME NEW w \in Connection, WriteRunCatalog(w) PROVE FactsInv'
    <3>1. \A v \in Connection : /\ pc[v] \notin WritingSteps
                                /\ pc'[v] = IF v = w THEN "outcomes" ELSE pc[v]
      BY <2>4, NobodyAssumption DEF WriteRunCatalog, TypeOK, FactsInv
    <3>2. corpus[w] \in Corpus
      BY <2>4, CorporaAssumption DEF WriteRunCatalog, CallsCarryCorpora
    <3>3. Keeps(db, draft', "outcomes") /\ OneVersionPerFramework(draft')
      BY <2>4, <3>2, CatalogKeepsFacts DEF WriteRunCatalog, FactsInv, TypeOK, Keeps
    <3>. QED  BY <2>4, <3>1, <3>3 DEF WriteRunCatalog, FactsInv
  <2>5. ASSUME NEW w \in Connection, Statement(w) PROVE FactsInv'
    <3>1. /\ db' = db /\ lock' = lock /\ pc[w] \in WritingSteps
          /\ \A v \in Connection : v # w => pc'[v] = pc[v]
      BY <2>5 DEF TypeOK, Statement, ClearRunOutcomes, WriteScoreSummaries, WriteControlResults,
         WriteGapRows, ClearEvidenceLinks, WriteEvidenceRow, Advance, WritingSteps
    <3>2. lock = w /\ \A v \in Connection : v # w => pc[v] \notin WritingSteps
      BY <3>1 DEF FactsInv
    <3>. QED  BY <2>5, <3>1, <3>2, StatementKeepsFacts DEF FactsInv
  <2>6. ASSUME NEW w \in Connection, Commit(w) PROVE FactsInv'
    <3>1. \A v \in Connection : pc'[v] \notin WritingSteps
      BY <2>6 DEF Commit, TypeOK, FactsInv, WritingSteps
    <3>. QED  BY <2>6, <3>1 DEF Commit, FactsInv
  <2>7. ASSUME NEW w \in Connection, NEW result, GiveUp(w, result) PROVE FactsInv'
    <3>1. \A v \in Connection : pc'[v] = IF v = w THEN "idle" ELSE pc[v]
      BY <2>7 DEF GiveUp, TypeOK
    <3>2. ASSUME NEW v \in Connection, pc'[v] \in WritingSteps
          PROVE  v # w /\ pc[v] \in WritingSteps /\ lock' = v /\ draft' = draft
      BY <2>7, <3>1, <3>2 DEF GiveUp, FactsInv, WritingSteps
    <3>. QED  BY <2>7, <3>1, <3>2 DEF GiveUp, FactsInv
  <2>. QED
    BY <2>1, <2>2, <2>3, <2>4, <2>5, <2>6, <2>7
       DEF Next, WriteStep, Statement, BusyTimeout, StatementFails, Crash
<1>. QED  BY <1>1, <1>2, CallsTyped, PTL DEF Spec

\* Runs, time stamps, catalogue versions, digests and locators stay once known,
\* and a legacy gap goes only when a run records it (KnownFactsAreKept).
THEOREM FactsKept == Spec => KnownFactsAreKept
<1>1. ASSUME /\ RunsKept(db, db') /\ FrameworksKept(db, db') /\ EvidenceKept(db, db')
             /\ LegacyRecorded(db, db') /\ OneVersionPerFramework(db')
      PROVE  FactsAreKept
  BY <1>1 DEF FactsAreKept, RunsKept, FrameworksKept, EvidenceKept, LegacyRecorded,
              OneVersionPerFramework
<1>2. FactsInv /\ [Next]_vars => FactsAreKept
  <2>. SUFFICES ASSUME FactsInv, [Next]_vars PROVE FactsAreKept
    OBVIOUS
  <2>1. CASE db' = db
    <3>1. /\ RunsKept(db, db') /\ FrameworksKept(db, db') /\ EvidenceKept(db, db')
          /\ LegacyRecorded(db, db') /\ OneVersionPerFramework(db')
      BY <2>1 DEF FactsInv, RunsKept, FrameworksKept, EvidenceKept, LegacyRecorded,
                  OneVersionPerFramework
    <3>. QED  BY <1>1, <3>1
  <2>2. ASSUME NEW w \in Connection, Commit(w) PROVE FactsAreKept
    <3>1. db' = draft /\ pc[w] = "evidence"
      BY <2>2 DEF Commit
    <3>2. /\ RunsKept(db, db') /\ FrameworksKept(db, db') /\ EvidenceKept(db, db')
          /\ LegacyRecorded(db, db') /\ OneVersionPerFramework(db')
      BY <3>1 DEF FactsInv, Keeps, WritingSteps
    <3>. QED  BY <1>1, <3>2
  <2>3. db' = db \/ \E w \in Connection : Commit(w)
    BY DEF Next, WriteStep, vars, Refuse, Begin, WriteRunCatalog, ClearRunOutcomes,
           WriteScoreSummaries, WriteControlResults, WriteGapRows, ClearEvidenceLinks,
           WriteEvidenceRow, Advance, BusyTimeout, StatementFails, Crash, GiveUp
  <2>. QED  BY <2>1, <2>2, <2>3
<1>. QED  BY <1>2, FactsInvariant, PTL DEF Spec, KnownFactsAreKept

-----------------------------------------------------------------------------
(***************************************************************************)
(* The content while a transaction is under way.                           *)
(***************************************************************************)
OneRowPerId(table) == \A x, y \in table : x.id = y.id => x = y

RowsOfId(table, id) == {x \in table : x.id = id}

(***************************************************************************)
(* CorpusStore's definitions for the records before the n-th.              *)
(***************************************************************************)
Seen(c, n, id) == {i \in DOMAIN c.evidence : i < n /\ c.evidence[i].id = id}

DigestFrom(m, c, n, id) ==
  LET dated == {i \in Seen(c, n, id) : c.evidence[i].digest # Blank}
  IN  IF dated # {} THEN {c.evidence[i] : i \in {i \in dated : \A j \in dated : j <= i}}
      ELSE IF RowsOfId(m, id) # {} THEN RowsOfId(m, id)
      ELSE {c.evidence[i] : i \in {i \in Seen(c, n, id) : \A j \in Seen(c, n, id) : i <= j}}

LocatorsFrom(m, c, n, id) ==
  LET old   == {x.locator : x \in RowsOfId(m, id)} \ {Blank}
      given == {i \in Seen(c, n, id) : c.evidence[i].locator # Blank}
  IN  IF old # {} THEN old
      ELSE IF given = {} THEN {Blank}
      ELSE {c.evidence[i].locator : i \in {i \in given : \A j \in given : i <= j}}

EvidenceOf(id, s, l) ==
  [id |-> id, digest |-> s.digest, locator |-> l, classification |-> s.classification]

LearnedRows(m, c, n, id) ==
  {EvidenceOf(id, s, l) : s \in DigestFrom(m, c, n, id), l \in LocatorsFrom(m, c, n, id)}

LastBefore(c, n) ==
  {c.evidence[i] : i \in {i \in DOMAIN c.evidence :
     i < n /\ \A j \in DOMAIN c.evidence : j < n /\ c.evidence[j].id = c.evidence[i].id => j <= i}}

\* The metadata `now` that `m` becomes with the records before the n-th.
LearnedUpTo(m, now, c, n) ==
  /\ OneRowPerId(now)
  /\ \A id : RowsOfId(now, id) = LearnedRows(m, c, n, id)
  /\ \A id : RowsOfId(m, id) # {} \/ Seen(c, n, id) # {} => RowsOfId(now, id) # {}

\* The snapshot of the run after those records.
LinkedUpTo(d, c, n) ==
  ForRun(d.run_evidence_links, c.run_id) =
    UNION {SnapshotRows(d.evidence_metadata, c.run_id, e) : e \in LastBefore(c, n)}

(***************************************************************************)
(* The metadata, one record after the other.                               *)
(***************************************************************************)

\* An id that no record has named yet is what it was.
LEMMA UnseenRows ==
  ASSUME NEW m \in SUBSET EvidenceRow, OneRowPerId(m), NEW c, NEW n, NEW id, Seen(c, n, id) = {}
  PROVE  LearnedRows(m, c, n, id) = RowsOfId(m, id)
<1>1. DigestFrom(m, c, n, id) = RowsOfId(m, id)
  BY DEF DigestFrom
<1>2. LocatorsFrom(m, c, n, id) =
        IF {x.locator : x \in RowsOfId(m, id)} \ {Blank} # {}
          THEN {x.locator : x \in RowsOfId(m, id)} \ {Blank} ELSE {Blank}
  BY DEF LocatorsFrom
<1>3. CASE RowsOfId(m, id) = {}
  BY <1>1, <1>3 DEF LearnedRows
<1>4. CASE RowsOfId(m, id) # {}
  <2>1. PICK k \in m : RowsOfId(m, id) = {k} /\ k.id = id /\ k \in EvidenceRow
    BY <1>4 DEF RowsOfId, OneRowPerId
  <2>2. LocatorsFrom(m, c, n, id) = {k.locator}
    BY <1>2, <2>1
  <2>3. EvidenceOf(id, k, k.locator) = k
    BY <2>1 DEF EvidenceOf, EvidenceRow, EvidenceEntry
  <2>4. LearnedRows(m, c, n, id) = {EvidenceOf(id, k, k.locator)}
    BY <1>1, <2>1, <2>2 DEF LearnedRows
  <2>. QED  BY <2>1, <2>3, <2>4
<1>. QED  BY <1>3, <1>4

\* The next record is seen under its own id only.
LEMMA SeenNext ==
  ASSUME NEW c \in Corpus, NEW n \in DOMAIN c.evidence
  PROVE  /\ Seen(c, n + 1, c.evidence[n].id) = Seen(c, n, c.evidence[n].id) \cup {n}
         /\ \A id : id # c.evidence[n].id => Seen(c, n + 1, id) = Seen(c, n, id)
         /\ \A id : \A i \in Seen(c, n, id) : i \in Nat /\ i < n
         /\ n \in Nat
<1>1. DOMAIN c.evidence = 1 .. Len(c.evidence) /\ Len(c.evidence) \in Nat
  BY DEF Corpus
<1>2. n \in Nat /\ \A i \in DOMAIN c.evidence : i \in Nat
  BY <1>1
<1>3. \A i \in DOMAIN c.evidence : i < n + 1 <=> i < n \/ i = n
  BY <1>2
<1>. QED  BY <1>2, <1>3 DEF Seen

\* A digest takes over; without one the source stays, if there is any.
LEMMA DigestFromNext ==
  ASSUME NEW m, NEW c \in Corpus, NEW n \in DOMAIN c.evidence
  PROVE  LET e   == c.evidence[n]
             old == DigestFrom(m, c, n, e.id)
             now == DigestFrom(m, c, n + 1, e.id)
         IN  /\ e.digest # Blank => now = {e}
             /\ e.digest = Blank /\ old # {} => now = old
             /\ Seen(c, n, e.id) = {} /\ RowsOfId(m, e.id) = {} => now = {e} /\ old = {}
<1>. DEFINE e     == c.evidence[n]
            seen  == Seen(c, n, e.id)
            next  == Seen(c, n + 1, e.id)
            Dated(s) == {i \in s : c.evidence[i].digest # Blank}
            Last(s)  == {c.evidence[i] : i \in {i \in s : \A j \in s : j <= i}}
            First(s) == {c.evidence[i] : i \in {i \in s : \A j \in s : i <= j}}
            From(s)  == IF Dated(s) # {} THEN Last(Dated(s))
                        ELSE IF RowsOfId(m, e.id) # {} THEN RowsOfId(m, e.id) ELSE First(s)
<1>1. /\ next = seen \cup {n} /\ n \in Nat
      /\ \A i \in seen : i \in Nat /\ i < n
  BY SeenNext
<1>2. DigestFrom(m, c, n, e.id) = From(seen) /\ DigestFrom(m, c, n + 1, e.id) = From(next)
  BY DEF DigestFrom
<1>. HIDE DEF seen, next, e
<1>3. e = c.evidence[n]
  BY DEF e
<1>4. ASSUME e.digest # Blank
      PROVE  From(next) = {e}
  <2>1. n \in Dated(next) /\ \A i \in Dated(next) : i \in Nat /\ i <= n
    BY <1>1, <1>3, <1>4
  <2>2. {i \in Dated(next) : \A j \in Dated(next) : j <= i} = {n}
    BY <1>1, <2>1
  <2>. QED  BY <1>3, <2>1, <2>2
<1>5. ASSUME e.digest = Blank, From(seen) # {}
      PROVE  From(next) = From(seen)
  <2>1. Dated(next) = Dated(seen)
    BY <1>1, <1>3, <1>5
  <2>2. CASE Dated(seen) = {} /\ RowsOfId(m, e.id) = {}
    <3>1. seen # {}
      BY <1>5, <2>2
    <3>2. {i \in next : \A j \in next : i <= j} = {i \in seen : \A j \in seen : i <= j}
      BY <1>1, <3>1
    <3>. QED  BY <2>1, <2>2, <3>2
  <2>. QED  BY <2>1, <2>2
<1>6. ASSUME seen = {}, RowsOfId(m, e.id) = {}
      PROVE  From(next) = {e} /\ From(seen) = {}
  <2>1. next = {n}
    BY <1>1, <1>6
  <2>2. First(next) = {e} /\ Last({n}) = {e}
    BY <1>1, <1>3, <2>1
  <2>3. Dated(next) = {} \/ Dated(next) = {n}
    BY <2>1
  <2>. QED  BY <1>6, <2>2, <2>3
<1>. QED  BY <1>2, <1>4, <1>5, <1>6 DEF e, seen, next

\* The first locator stays; without one the next record's is taken.
LEMMA LocatorsFromNext ==
  ASSUME NEW m, NEW c \in Corpus, NEW n \in DOMAIN c.evidence
  PROVE  LET e   == c.evidence[n]
             old == LocatorsFrom(m, c, n, e.id)
             now == LocatorsFrom(m, c, n + 1, e.id)
         IN  \/ Blank \notin old /\ now = old
             \/ old = {Blank} /\ now = {e.locator}
<1>. DEFINE e    == c.evidence[n]
            seen == Seen(c, n, e.id)
            next == Seen(c, n + 1, e.id)
            known    == {x.locator : x \in RowsOfId(m, e.id)} \ {Blank}
            Given(s) == {i \in s : c.evidence[i].locator # Blank}
            First(s) == {c.evidence[i].locator : i \in {i \in s : \A j \in s : i <= j}}
            From(s)  == IF known # {} THEN known
                        ELSE IF Given(s) = {} THEN {Blank} ELSE First(Given(s))
<1>1. /\ next = seen \cup {n} /\ n \in Nat
      /\ \A i \in seen : i \in Nat /\ i < n
  BY SeenNext
<1>2. LocatorsFrom(m, c, n, e.id) = From(seen) /\ LocatorsFrom(m, c, n + 1, e.id) = From(next)
  BY DEF LocatorsFrom
<1>. HIDE DEF seen, next, e, known
<1>3. e = c.evidence[n]
  BY DEF e
<1>4. CASE known # {}
  <2>1. Blank \notin known
    BY DEF known
  <2>. QED  BY <1>2, <1>4, <2>1 DEF e
<1>5. CASE known = {} /\ Given(seen) # {}
  <2>1. {i \in Given(next) : \A j \in Given(next) : i <= j} =
          {i \in Given(seen) : \A j \in Given(seen) : i <= j}
    BY <1>1, <1>5
  <2>2. Given(next) # {}
    BY <1>1, <1>5
  <2>3. From(seen) = First(Given(seen)) /\ From(next) = First(Given(seen))
    BY <1>5, <2>1, <2>2
  <2>4. Blank \notin First(Given(seen))
    OBVIOUS
  <2>. QED  BY <1>2, <2>3, <2>4 DEF e
<1>6. CASE known = {} /\ Given(seen) = {}
  <2>1. Given(next) = {n} \cap Given(next)
    BY <1>1, <1>6
  <2>2. From(seen) = {Blank}
    BY <1>6
  <2>3. From(next) = {e.locator}
    <3>1. CASE e.locator = Blank
      BY <1>1, <1>3, <1>6, <3>1
    <3>2. CASE e.locator # Blank
      <4>1. Given(next) = {n}
        BY <1>1, <1>3, <2>1, <3>2
      <4>. QED  BY <1>1, <1>3, <1>6, <4>1
    <3>. QED  BY <3>1, <3>2
  <2>. QED  BY <1>2, <2>2, <2>3 DEF e
<1>. QED  BY <1>4, <1>5, <1>6

\* The rows of one id after a record.
LEMMA WrittenRows ==
  ASSUME NEW now, NEW e
  PROVE  /\ \A id : id # e.id => RowsOfId(WrittenEvidence(now, e), id) = RowsOfId(now, id)
         /\ RowsOfId(WrittenEvidence(now, e), e.id) =
              IF RowsOfId(now, e.id) = {} THEN {e}
              ELSE {MergedEvidence(x, e) : x \in RowsOfId(now, e.id)}
<1>1. \A x : MergedEvidence(x, e).id = e.id
  BY DEF MergedEvidence
<1>2. CASE \E x \in now : x.id = e.id
  BY <1>1, <1>2 DEF WrittenEvidence, RowsOfId
<1>3. CASE ~\E x \in now : x.id = e.id
  BY <1>3 DEF WrittenEvidence, RowsOfId
<1>. QED  BY <1>2, <1>3

\* Merging the n-th record into what the records before it taught is what the
\* records up to it teach.
LEMMA RecordTeaches ==
  ASSUME NEW m, NEW now, NEW c \in Corpus, NEW n \in DOMAIN c.evidence, LearnedUpTo(m, now, c, n)
  PROVE  LearnedUpTo(m, WrittenEvidence(now, c.evidence[n]), c, n + 1)
<1>. DEFINE e    == c.evidence[n]
            next == WrittenEvidence(now, e)
<1>1. /\ \A id : id # e.id => RowsOfId(next, id) = RowsOfId(now, id)
      /\ RowsOfId(next, e.id) = IF RowsOfId(now, e.id) = {} THEN {e}
                                ELSE {MergedEvidence(x, e) : x \in RowsOfId(now, e.id)}
  BY WrittenRows
<1>2. /\ Seen(c, n + 1, e.id) = Seen(c, n, e.id) \cup {n}
      /\ \A id : id # e.id => Seen(c, n + 1, id) = Seen(c, n, id)
  BY SeenNext
<1>3. \A id : id # e.id => LearnedRows(m, c, n + 1, id) = LearnedRows(m, c, n, id)
  <2>1. ASSUME NEW id, id # e.id
        PROVE  /\ DigestFrom(m, c, n + 1, id) = DigestFrom(m, c, n, id)
               /\ LocatorsFrom(m, c, n + 1, id) = LocatorsFrom(m, c, n, id)
    <3>1. Seen(c, n + 1, id) = Seen(c, n, id)
      BY <1>2, <2>1
    <3>2. DigestFrom(m, c, n + 1, id) = DigestFrom(m, c, n, id)
      BY <3>1, Zenon DEF DigestFrom
    <3>3. LocatorsFrom(m, c, n + 1, id) = LocatorsFrom(m, c, n, id)
      BY <3>1, Zenon DEF LocatorsFrom
    <3>. QED  BY <3>2, <3>3
  <2>. QED  BY <2>1 DEF LearnedRows
<1>4. /\ \A id : RowsOfId(now, id) = LearnedRows(m, c, n, id)
      /\ \A id : RowsOfId(m, id) # {} \/ Seen(c, n, id) # {} => RowsOfId(now, id) # {}
      /\ \A x, y \in now : x.id = y.id => x = y
  BY DEF LearnedUpTo, OneRowPerId
<1>5. e \in EvidenceEntry
  BY SeqElement DEF Corpus
<1>. DEFINE DS == DigestFrom(m, c, n, e.id)
            DN == DigestFrom(m, c, n + 1, e.id)
            LS == LocatorsFrom(m, c, n, e.id)
            LN == LocatorsFrom(m, c, n + 1, e.id)
<1>6. /\ e.digest # Blank => DN = {e}
      /\ e.digest = Blank /\ DS # {} => DN = DS
      /\ Seen(c, n, e.id) = {} /\ RowsOfId(m, e.id) = {} => DN = {e} /\ DS = {}
  BY DigestFromNext
<1>7. (Blank \notin LS /\ LN = LS) \/ (LS = {Blank} /\ LN = {e.locator})
  BY LocatorsFromNext
<1>8. /\ RowsOfId(now, e.id) = {EvidenceOf(e.id, s, l) : s \in DS, l \in LS}
      /\ LearnedRows(m, c, n + 1, e.id) = {EvidenceOf(e.id, s, l) : s \in DN, l \in LN}
  BY <1>4 DEF LearnedRows
<1>9. RowsOfId(next, e.id) = LearnedRows(m, c, n + 1, e.id)
  <2>. HIDE DEF DS, DN, LS, LN, e, next
  <2>1. CASE RowsOfId(now, e.id) = {}
    <3>1. Seen(c, n, e.id) = {} /\ RowsOfId(m, e.id) = {}
      BY <1>4, <2>1
    <3>2. LS = {Blank}
      BY <3>1 DEF LS, LocatorsFrom
    <3>3. LN = {e.locator}
      BY <1>7, <3>2
    <3>4. EvidenceOf(e.id, e, e.locator) = e
      BY <1>5 DEF EvidenceOf, EvidenceEntry
    <3>. QED  BY <1>1, <1>6, <1>8, <2>1, <3>1, <3>3, <3>4
  <2>2. CASE RowsOfId(now, e.id) # {}
    <3>1. DS # {} /\ LS # {}
      BY <1>8, <2>2
    <3>2. \A s, l : MergedEvidence(EvidenceOf(e.id, s, l), e) =
                      EvidenceOf(e.id, IF e.digest = Blank THEN s ELSE e,
                                 IF l = Blank THEN e.locator ELSE l)
      BY DEF MergedEvidence, EvidenceOf
    <3>3. RowsOfId(next, e.id) =
            {EvidenceOf(e.id, IF e.digest = Blank THEN s ELSE e,
                        IF l = Blank THEN e.locator ELSE l) : s \in DS, l \in LS}
      <4>1. RowsOfId(next, e.id) = {MergedEvidence(x, e) : x \in RowsOfId(now, e.id)}
        BY <1>1, <2>2
      <4>2. {MergedEvidence(x, e) : x \in RowsOfId(now, e.id)} =
              {MergedEvidence(EvidenceOf(e.id, s, l), e) : s \in DS, l \in LS}
        BY <1>8
      <4>. QED  BY <3>2, <4>1, <4>2
    <3>4. DN = {IF e.digest = Blank THEN s ELSE e : s \in DS}
      BY <1>6, <3>1
    <3>5. LN = {IF l = Blank THEN e.locator ELSE l : l \in LS}
      BY <1>7
    <3>. QED  BY <1>8, <3>3, <3>4, <3>5
  <2>. QED  BY <2>1, <2>2
<1>10. \A id : RowsOfId(next, id) = LearnedRows(m, c, n + 1, id)
  BY <1>1, <1>3, <1>4, <1>9
<1>11. OneRowPerId(next)
  <2>1. \A x, y \in RowsOfId(now, e.id) : x = y
    BY <1>4 DEF RowsOfId
  <2>2. \A id : \A x, y \in RowsOfId(next, id) : x = y
    <3>1. \A x, y \in RowsOfId(next, e.id) : x = y
      BY <1>1, <2>1
    <3>2. \A id : \A x, y \in RowsOfId(now, id) : x = y
      BY <1>4 DEF RowsOfId
    <3>. QED  BY <1>1, <3>1, <3>2
  <2>. HIDE DEF next
  <2>. QED  BY <2>2 DEF OneRowPerId, RowsOfId
<1>12. \A id : RowsOfId(m, id) # {} \/ Seen(c, n + 1, id) # {} => RowsOfId(next, id) # {}
  BY <1>1, <1>2, <1>4
<1>. QED  BY <1>10, <1>11, <1>12 DEF LearnedUpTo

\* The snapshot follows: a record replaces the link of its id by one that is
\* completed from the metadata just written.
LEMMA RecordIsLinked ==
  ASSUME NEW d \in Database, NEW c \in Corpus, NEW n \in DOMAIN c.evidence, LinkedUpTo(d, c, n)
  PROVE  LinkedUpTo(EvidenceRowWritten(d, c, c.evidence[n]), c, n + 1)
<1>. DEFINE e    == c.evidence[n]
            now  == WrittenEvidence(d.evidence_metadata, e)
            run  == c.run_id
            new  == SnapshotRows(now, run, e)
            t    == EvidenceRowWritten(d, c, e)
<1>1. /\ t.evidence_metadata = now
      /\ t.run_evidence_links = Upsert(d.run_evidence_links, new, EvidenceLinkKey)
  BY DEF EvidenceRowWritten, Database
<1>2. /\ \A id : id # e.id => RowsOfId(now, id) = RowsOfId(d.evidence_metadata, id)
      /\ RowsOfId(now, e.id) # {}
  <2>1. /\ \A id : id # e.id => RowsOfId(now, id) = RowsOfId(d.evidence_metadata, id)
        /\ RowsOfId(now, e.id) = IF RowsOfId(d.evidence_metadata, e.id) = {} THEN {e}
             ELSE {MergedEvidence(x, e) : x \in RowsOfId(d.evidence_metadata, e.id)}
    BY WrittenRows
  <2>. QED  BY <2>1
<1>3. /\ \A m, f : \A x \in SnapshotRows(m, run, f) : x.run_id = run /\ x.evidence_id = f.id
      /\ \A f : f.id # e.id => SnapshotRows(now, run, f) = SnapshotRows(d.evidence_metadata, run, f)
      /\ new # {}
  <2>. DEFINE Link(f, x) == [run_id |-> run, evidence_id |-> f.id,
                digest |-> IF f.digest = Blank THEN x.digest ELSE f.digest,
                locator |-> f.locator,
                classification |-> IF f.digest = Blank THEN x.classification
                                   ELSE f.classification]
  <2>1. \A m, f : SnapshotRows(m, run, f) = {Link(f, x) : x \in RowsOfId(m, f.id)}
    BY Zenon DEF SnapshotRows, RowsOfId
  <2>2. \A f, x : Link(f, x).run_id = run /\ Link(f, x).evidence_id = f.id
    OBVIOUS
  <2>3. new = {Link(e, x) : x \in RowsOfId(now, e.id)}
    BY <2>1
  <2>. HIDE DEF Link, e, now, run, new, t
  <2>4. \A m, f : \A x \in SnapshotRows(m, run, f) : x.run_id = run /\ x.evidence_id = f.id
    BY <2>1, <2>2
  <2>5. new # {}
    BY <1>2, <2>3
  <2>6. \A f : f.id # e.id => SnapshotRows(now, run, f) = SnapshotRows(d.evidence_metadata, run, f)
    BY <1>2, <2>1
  <2>. QED  BY <2>4, <2>5, <2>6
<1>4. LastBefore(c, n + 1) = {f \in LastBefore(c, n) : f.id # e.id} \cup {e}
  <2>1. DOMAIN c.evidence = 1 .. Len(c.evidence) /\ Len(c.evidence) \in Nat
    BY DEF Corpus
  <2>2. n \in Nat /\ \A i \in DOMAIN c.evidence : i \in Nat /\ (i < n + 1 <=> i < n \/ i = n)
    BY <2>1
  <2>3. ASSUME NEW f \in LastBefore(c, n + 1)
        PROVE  f = e \/ (f \in LastBefore(c, n) /\ f.id # e.id)
    <3>1. PICK i \in DOMAIN c.evidence :
            /\ f = c.evidence[i] /\ i < n + 1
            /\ \A j \in DOMAIN c.evidence : j < n + 1 /\ c.evidence[j].id = c.evidence[i].id => j <= i
      BY DEF LastBefore
    <3>2. CASE i = n
      BY <3>1, <3>2
    <3>3. CASE i < n
      <4>1. c.evidence[n].id # c.evidence[i].id
        BY <2>2, <3>1, <3>3
      <4>2. f \in LastBefore(c, n)
        BY <2>2, <3>1, <3>3 DEF LastBefore
      <4>. QED  BY <3>1, <4>1, <4>2
    <3>. QED  BY <2>2, <3>1, <3>2, <3>3
  <2>4. e \in LastBefore(c, n + 1)
    BY <2>2 DEF LastBefore
  <2>5. ASSUME NEW f \in LastBefore(c, n), f.id # e.id
        PROVE  f \in LastBefore(c, n + 1)
    <3>1. PICK i \in DOMAIN c.evidence :
            /\ f = c.evidence[i] /\ i < n
            /\ \A j \in DOMAIN c.evidence : j < n /\ c.evidence[j].id = c.evidence[i].id => j <= i
      BY DEF LastBefore
    <3>2. \A j \in DOMAIN c.evidence : j < n + 1 /\ c.evidence[j].id = c.evidence[i].id => j <= i
      BY <2>2, <2>5, <3>1
    <3>. QED  BY <2>2, <3>1, <3>2 DEF LastBefore
  <2>. QED  BY <2>3, <2>4, <2>5
<1>. HIDE DEF e, now, run, new, t
<1>5. ForRun(t.run_evidence_links, run) =
        {x \in ForRun(d.run_evidence_links, run) : x.evidence_id # e.id} \cup new
  <2>1. \A x \in ForRun(d.run_evidence_links, run) :
          (\A r \in new : EvidenceLinkKey(r) # EvidenceLinkKey(x)) <=> x.evidence_id # e.id
    BY <1>3 DEF ForRun, EvidenceLinkKey, new
  <2>. QED  BY <1>1, <1>3, <2>1 DEF Upsert, ForRun, new
<1>6. ForRun(d.run_evidence_links, run) =
        UNION {SnapshotRows(d.evidence_metadata, run, f) : f \in LastBefore(c, n)}
  BY DEF LinkedUpTo, run
<1>7. {x \in ForRun(d.run_evidence_links, run) : x.evidence_id # e.id} =
        UNION {SnapshotRows(now, run, f) : f \in {f \in LastBefore(c, n) : f.id # e.id}}
  BY <1>3, <1>6
<1>8. ForRun(t.run_evidence_links, run) =
        UNION {SnapshotRows(now, run, f) : f \in LastBefore(c, n + 1)}
  BY <1>4, <1>5, <1>7 DEF new
<1>. QED  BY <1>1, <1>8 DEF LinkedUpTo, run, t, e

(***************************************************************************)
(* The invariant: a draft is what Save would make of the committed         *)
(* content, as far as the transaction has got.                             *)
(***************************************************************************)
CatalogueTaught(d, n, c) ==
  /\ n.scan_runs = Upsert(d.scan_runs, StampedRun(d.scan_runs, c), IdKey)
  /\ n.frameworks = InsertNew(d.frameworks, CatalogueEntries(c), IdKey)
  /\ n.controls = d.controls \cup ControlIds(c)

LegacyGapsOf(d) == ForRun(d.compliance_gaps, Blank)

LegacyLeft(d, c) == {g \in LegacyGapsOf(d) : ~SupersededGap(g, c)}

TaughtUpTo(d, n, c, step, r) ==
  /\ CatalogueTaught(d, n, c)
  /\ step \notin {"links", "evidence"} => LegacyGapsOf(n) = LegacyGapsOf(d)
  /\ step \in {"links", "evidence"} => LegacyGapsOf(n) = LegacyLeft(d, c)
  /\ step # "evidence" => n.evidence_metadata = d.evidence_metadata
  /\ step = "evidence" => /\ r \in 1 .. Len(c.evidence) + 1
                          /\ LearnedUpTo(d.evidence_metadata, n.evidence_metadata, c, r)
                          /\ LinkedUpTo(n, c, r)

RefinementInv ==
  /\ OneRowPerId(db.scan_runs) /\ OneRowPerId(db.evidence_metadata)
  /\ \A w \in Connection : pc[w] \in WritingSteps =>
       lock = w /\ TaughtUpTo(db, draft, corpus[w], pc[w], row)

\* A transaction starts with the first three tables of Save.
LEMMA CatalogTeaches ==
  ASSUME NEW d \in Database, NEW c, NEW r
  PROVE  TaughtUpTo(d, RunCatalogWritten(d, c), c, "outcomes", r)
<1>. DEFINE n == RunCatalogWritten(d, c)
<1>1. /\ n.scan_runs = Upsert(d.scan_runs, StampedRun(d.scan_runs, c), IdKey)
      /\ n.frameworks = InsertNew(d.frameworks, CatalogueEntries(c), IdKey)
      /\ n.controls = d.controls \cup ControlIds(c)
      /\ n.compliance_gaps = d.compliance_gaps
      /\ n.evidence_metadata = d.evidence_metadata
  BY DEF RunCatalogWritten, Database
<1>. QED  BY <1>1 DEF TaughtUpTo, CatalogueTaught, LegacyGapsOf

\* Clearing the run keeps the legacy gaps; its own gaps supersede some.
LEMMA LegacyEffect ==
  ASSUME NEW d, NEW n \in Database, NEW c, c.run_id # Blank, LegacyGapsOf(n) = LegacyGapsOf(d)
  PROVE  /\ LegacyGapsOf(RunOutcomesCleared(n, c)) = LegacyGapsOf(d)
         /\ LegacyGapsOf(GapRowsWritten(n, c)) = LegacyLeft(d, c)
<1>1. RunOutcomesCleared(n, c).compliance_gaps = NotForRun(n.compliance_gaps, c.run_id)
  BY DEF RunOutcomesCleared, Database
<1>2. GapRowsWritten(n, c).compliance_gaps =
        InsertNew({g \in n.compliance_gaps : ~SupersededGap(g, c)}, GapRows(c), OutcomeKey)
  BY DEF GapRowsWritten, Database
<1>3. \A g \in GapRows(c) : g.run_id # Blank
  BY RowsNameTheirRun
<1>4. LegacyGapsOf(RunOutcomesCleared(n, c)) = LegacyGapsOf(n)
  BY <1>1 DEF LegacyGapsOf, ForRun, NotForRun
<1>5. LegacyGapsOf(GapRowsWritten(n, c)) = LegacyLeft(n, c)
  BY <1>2, <1>3 DEF LegacyGapsOf, LegacyLeft, ForRun, InsertNew
<1>. QED  BY <1>4, <1>5 DEF LegacyLeft

\* Before the first record nothing is learned and the snapshot is empty.
LEMMA NothingLearnedYet ==
  ASSUME NEW d \in Database, NEW n \in Database, NEW c \in Corpus,
         OneRowPerId(d.evidence_metadata), n.evidence_metadata = d.evidence_metadata
  PROVE  LET t == EvidenceLinksCleared(n, c)
         IN  /\ LearnedUpTo(d.evidence_metadata, t.evidence_metadata, c, 1)
             /\ LinkedUpTo(t, c, 1)
<1>. DEFINE t == EvidenceLinksCleared(n, c)
<1>1. /\ t.evidence_metadata = d.evidence_metadata
      /\ t.run_evidence_links = NotForRun(n.run_evidence_links, c.run_id)
  BY DEF EvidenceLinksCleared, Database
<1>2. \A i \in DOMAIN c.evidence : ~(i < 1)
  <2>1. DOMAIN c.evidence = 1 .. Len(c.evidence) /\ Len(c.evidence) \in Nat
    BY DEF Corpus
  <2>. QED  BY <2>1
<1>3. /\ \A id : Seen(c, 1, id) = {}
      /\ LastBefore(c, 1) = {}
  BY <1>2 DEF Seen, LastBefore
<1>4. d.evidence_metadata \in SUBSET EvidenceRow
  BY DEF Database
<1>5. \A id : LearnedRows(d.evidence_metadata, c, 1, id) = RowsOfId(d.evidence_metadata, id)
  BY <1>3, <1>4, UnseenRows
<1>6. LearnedUpTo(d.evidence_metadata, d.evidence_metadata, c, 1)
  BY <1>3, <1>5 DEF LearnedUpTo
<1>7. ForRun(t.run_evidence_links, c.run_id) = {}
  BY <1>1 DEF ForRun, NotForRun
<1>. QED  BY <1>1, <1>3, <1>6, <1>7 DEF LinkedUpTo

\* A statement brings the draft one step nearer to Save.
LEMMA StatementTeaches ==
  ASSUME TypeOK, CallsCarryCorpora, RefinementInv, NEW w \in Connection, Statement(w)
  PROVE  TaughtUpTo(db, draft', corpus[w], pc'[w], row')
<1>. DEFINE c == corpus[w]
            e == corpus[w].evidence[row]
<1>1. /\ db \in Database /\ draft \in Database
      /\ OneRowPerId(db.evidence_metadata)
  BY DEF TypeOK, RefinementInv
<1>2. pc[w] \in WritingSteps /\ c \in Corpus /\ c.run_id # Blank
  BY CorporaAssumption
     DEF CallsCarryCorpora, IsAccepted, Statement, ClearRunOutcomes, WriteScoreSummaries,
         WriteControlResults, WriteGapRows, ClearEvidenceLinks, WriteEvidenceRow, Advance,
         WritingSteps
<1>3. TaughtUpTo(db, draft, c, pc[w], row)
  BY <1>2 DEF RefinementInv
<1>. HIDE DEF c, e
<1>4. ASSUME draft'.scan_runs = draft.scan_runs, draft'.frameworks = draft.frameworks,
             draft'.controls = draft.controls
      PROVE  CatalogueTaught(db, draft', c)
  BY <1>3, <1>4 DEF TaughtUpTo, CatalogueTaught
<1>5. CASE ClearRunOutcomes(w)
  <2>1. pc[w] = "outcomes" /\ pc'[w] = "scores" /\ draft' = RunOutcomesCleared(draft, c)
    BY <1>5 DEF ClearRunOutcomes, Advance, TypeOK, c
  <2>2. /\ CatalogueTaught(db, draft', c)
        /\ draft'.evidence_metadata = draft.evidence_metadata
    BY <1>1, <1>4, <2>1, UntouchedTables
  <2>3. LegacyGapsOf(draft') = LegacyGapsOf(db)
    BY <1>1, <1>2, <1>3, <2>1, LegacyEffect DEF TaughtUpTo
  <2>. QED  BY <1>3, <2>1, <2>2, <2>3 DEF TaughtUpTo, c
<1>6. CASE WriteScoreSummaries(w)
  <2>1. pc[w] = "scores" /\ pc'[w] = "results" /\ draft' = ScoreSummariesWritten(draft, c)
    BY <1>6 DEF WriteScoreSummaries, Advance, TypeOK, c
  <2>2. /\ CatalogueTaught(db, draft', c)
        /\ draft'.evidence_metadata = draft.evidence_metadata
        /\ draft'.compliance_gaps = draft.compliance_gaps
    BY <1>1, <1>4, <2>1, UntouchedTables
  <2>. QED  BY <1>3, <2>1, <2>2 DEF TaughtUpTo, LegacyGapsOf, c
<1>7. CASE WriteControlResults(w)
  <2>1. pc[w] = "results" /\ pc'[w] = "gaps" /\ draft' = ControlResultsWritten(draft, c)
    BY <1>7 DEF WriteControlResults, Advance, TypeOK, c
  <2>2. /\ CatalogueTaught(db, draft', c)
        /\ draft'.evidence_metadata = draft.evidence_metadata
        /\ draft'.compliance_gaps = draft.compliance_gaps
    BY <1>1, <1>4, <2>1, UntouchedTables
  <2>. QED  BY <1>3, <2>1, <2>2 DEF TaughtUpTo, LegacyGapsOf, c
<1>8. CASE WriteGapRows(w)
  <2>1. pc[w] = "gaps" /\ pc'[w] = "links" /\ draft' = GapRowsWritten(draft, c)
    BY <1>8 DEF WriteGapRows, Advance, TypeOK, c
  <2>2. /\ CatalogueTaught(db, draft', c)
        /\ draft'.evidence_metadata = draft.evidence_metadata
    BY <1>1, <1>4, <2>1, UntouchedTables
  <2>3. LegacyGapsOf(draft') = LegacyLeft(db, c)
    BY <1>1, <1>2, <1>3, <2>1, LegacyEffect DEF TaughtUpTo
  <2>. QED  BY <1>3, <2>1, <2>2, <2>3 DEF TaughtUpTo, c
<1>9. CASE ClearEvidenceLinks(w)
  <2>1. /\ pc[w] = "links" /\ pc'[w] = "evidence" /\ row' = 1
        /\ draft' = EvidenceLinksCleared(draft, c)
    BY <1>9 DEF ClearEvidenceLinks, Advance, TypeOK, c
  <2>2. /\ CatalogueTaught(db, draft', c)
        /\ draft'.compliance_gaps = draft.compliance_gaps
    BY <1>1, <1>4, <2>1, UntouchedTables
  <2>3. /\ draft.evidence_metadata = db.evidence_metadata
        /\ LegacyGapsOf(draft) = LegacyLeft(db, c)
    BY <1>3, <2>1 DEF TaughtUpTo
  <2>4. /\ LearnedUpTo(db.evidence_metadata, draft'.evidence_metadata, c, 1)
        /\ LinkedUpTo(draft', c, 1)
    BY <1>1, <1>2, <2>1, <2>3, NothingLearnedYet
  <2>5. 1 \in 1 .. Len(c.evidence) + 1
    <3>1. Len(c.evidence) \in Nat
      BY <1>2 DEF Corpus
    <3>. QED  BY <3>1
  <2>. QED  BY <2>1, <2>2, <2>3, <2>4, <2>5 DEF TaughtUpTo, LegacyGapsOf, c
<1>10. CASE WriteEvidenceRow(w)
  <2>1. /\ pc[w] = "evidence" /\ pc'[w] = "evidence" /\ row' = row + 1
        /\ row \in DOMAIN c.evidence /\ e = c.evidence[row]
        /\ draft' = EvidenceRowWritten(draft, c, e)
    BY <1>10 DEF WriteEvidenceRow, Advance, TypeOK, c, e
  <2>2. /\ CatalogueTaught(db, draft', c)
        /\ draft'.compliance_gaps = draft.compliance_gaps
    BY <1>1, <1>4, <2>1, UntouchedTables
  <2>3. /\ LearnedUpTo(db.evidence_metadata, draft.evidence_metadata, c, row)
        /\ LinkedUpTo(draft, c, row)
        /\ LegacyGapsOf(draft) = LegacyLeft(db, c)
    BY <1>3, <2>1 DEF TaughtUpTo
  <2>4. draft'.evidence_metadata = WrittenEvidence(draft.evidence_metadata, e)
    BY <1>1, <2>1 DEF EvidenceRowWritten, Database
  <2>5. LearnedUpTo(db.evidence_metadata, draft'.evidence_metadata, c, row + 1)
    BY <1>2, <2>1, <2>3, <2>4, RecordTeaches
  <2>6. LinkedUpTo(draft', c, row + 1)
    BY <1>1, <1>2, <2>1, <2>3, RecordIsLinked
  <2>7. row + 1 \in 1 .. Len(c.evidence) + 1
    <3>1. DOMAIN c.evidence = 1 .. Len(c.evidence) /\ Len(c.evidence) \in Nat
      BY <1>2 DEF Corpus
    <3>. QED  BY <2>1, <3>1
  <2>. QED  BY <2>1, <2>2, <2>3, <2>5, <2>6, <2>7 DEF TaughtUpTo, LegacyGapsOf, c
<1>. QED  BY <1>5, <1>6, <1>7, <1>8, <1>9, <1>10 DEF Statement, c

\* The runs of a draft have one row each, if those of the file have.
LEMMA OneRowPerRun ==
  ASSUME NEW d, NEW n, NEW c, CatalogueTaught(d, n, c), OneRowPerId(d.scan_runs)
  PROVE  OneRowPerId(n.scan_runs)
<1>1. \A x, y \in StampedRun(d.scan_runs, c) : x.id = c.run_id /\ x = y
  BY DEF StampedRun, OneRowPerId
<1>. QED  BY <1>1 DEF CatalogueTaught, OneRowPerId, Upsert, IdKey

\* The draft of a transaction is what Save makes of the committed content, as
\* far as the transaction has got.
THEOREM RefinementInvariant == Spec => []RefinementInv
<1>1. Init => RefinementInv
  BY DEF Init, EmptyDatabase, RefinementInv, OneRowPerId, WritingSteps
<1>2. TypeOK /\ CallsCarryCorpora /\ RefinementInv /\ [Next]_vars => RefinementInv'
  <2>. SUFFICES ASSUME TypeOK, CallsCarryCorpora, RefinementInv, [Next]_vars
                PROVE  RefinementInv'
    OBVIOUS
  <2>1. CASE UNCHANGED vars
    BY <2>1 DEF vars, RefinementInv
  <2>2. ASSUME NEW w \in Connection, Refuse(w) PROVE RefinementInv'
    BY <2>2 DEF Refuse, RefinementInv
  <2>3. ASSUME NEW w \in Connection, Begin(w) PROVE RefinementInv'
    <3>1. \A v \in Connection : /\ pc'[v] = IF v = w THEN "catalog" ELSE pc[v]
                                /\ v # w => corpus'[v] = corpus[v]
      BY <2>3 DEF Begin, TypeOK
    <3>. QED  BY <2>3, <3>1 DEF Begin, RefinementInv, WritingSteps
  <2>4. ASSUME NEW w \in Connection, WriteRunCatalog(w) PROVE RefinementInv'
    <3>1. \A v \in Connection : /\ pc[v] \notin WritingSteps
                                /\ pc'[v] = IF v = w THEN "outcomes" ELSE pc[v]
      BY <2>4, NobodyAssumption DEF WriteRunCatalog, TypeOK, RefinementInv
    <3>2. TaughtUpTo(db, draft', corpus[w], "outcomes", row')
      BY <2>4, CatalogTeaches DEF WriteRunCatalog, TypeOK
    <3>. QED  BY <2>4, <3>1, <3>2 DEF WriteRunCatalog, RefinementInv
  <2>5. ASSUME NEW w \in Connection, Statement(w) PROVE RefinementInv'
    <3>1. /\ db' = db /\ lock' = lock /\ corpus' = corpus /\ pc[w] \in WritingSteps
          /\ \A v \in Connection : v # w => pc'[v] = pc[v]
      BY <2>5 DEF TypeOK, Statement, ClearRunOutcomes, WriteScoreSummaries, WriteControlResults,
         WriteGapRows, ClearEvidenceLinks, WriteEvidenceRow, Advance, WritingSteps
    <3>2. lock = w /\ \A v \in Connection : v # w => pc[v] \notin WritingSteps
      BY <3>1 DEF RefinementInv
    <3>. QED  BY <2>5, <3>1, <3>2, StatementTeaches DEF RefinementInv
  <2>6. ASSUME NEW w \in Connection, Commit(w) PROVE RefinementInv'
    <3>1. \A v \in Connection : pc'[v] \notin WritingSteps
      BY <2>6 DEF Commit, TypeOK, RefinementInv, WritingSteps
    <3>2. db' = draft /\ TaughtUpTo(db, draft, corpus[w], "evidence", row)
      BY <2>6 DEF Commit, RefinementInv, WritingSteps
    <3>3. OneRowPerId(db'.scan_runs)
      BY <3>2, OneRowPerRun DEF TaughtUpTo, RefinementInv
    <3>4. OneRowPerId(db'.evidence_metadata)
      BY <3>2 DEF TaughtUpTo, LearnedUpTo
    <3>. QED  BY <3>1, <3>3, <3>4 DEF RefinementInv
  <2>7. ASSUME NEW w \in Connection, NEW result, GiveUp(w, result) PROVE RefinementInv'
    <3>1. \A v \in Connection : /\ pc'[v] = IF v = w THEN "idle" ELSE pc[v]
                                /\ v # w => corpus'[v] = corpus[v]
      BY <2>7 DEF GiveUp, TypeOK
    <3>2. ASSUME NEW v \in Connection, pc'[v] \in WritingSteps
          PROVE  /\ v # w /\ pc[v] \in WritingSteps /\ lock' = v /\ draft' = draft
                 /\ row' = row /\ corpus'[v] = corpus[v] /\ pc'[v] = pc[v]
      BY <2>7, <3>1, <3>2 DEF GiveUp, RefinementInv, WritingSteps
    <3>. QED  BY <2>7, <3>2 DEF GiveUp, RefinementInv
  <2>. QED
    BY <2>1, <2>2, <2>3, <2>4, <2>5, <2>6, <2>7
       DEF Next, WriteStep, Statement, BusyTimeout, StatementFails, Crash
<1>. QED  BY <1>1, <1>2, CallsTyped, PTL DEF Spec

(***************************************************************************)
(* The refinement.                                                         *)
(***************************************************************************)

\* CorpusStore derives the same rows from a corpus.
LEMMA StoreRows ==
  ASSUME NEW c
  PROVE  /\ Store!FrameworkLinks(c) = FrameworkLinks(c)
         /\ Store!CatalogueEntries(c) = CatalogueEntries(c)
         /\ Store!ControlIds(c) = ControlIds(c)
         /\ Store!ControlLinks(c) = ControlLinks(c)
         /\ Store!ResultRows(c) = ResultRows(c)
         /\ Store!GapRows(c) = GapRows(c)
         /\ Store!ScoreRows(c) = ScoreRows(c)
         /\ Store!IsAccepted(c) <=> IsAccepted(c)
         /\ \A known, e : Store!SnapshotRows(known, c.run_id, e) = SnapshotRows(known, c.run_id, e)
         /\ Store!LastOfEachKey(c.evidence, Store!IdKey) = LastOfEachKey(c.evidence, IdKey)
         /\ \A table : Store!InsertNew(table, CatalogueEntries(c), Store!IdKey)
                         = InsertNew(table, CatalogueEntries(c), IdKey)
         /\ \A x : Store!ResultKey(x) = ResultKey(x)
         /\ Store!Blank = Blank
<1>. USE DEF Store!Blank, Blank, Store!Elements, Elements, Store!IdKey, IdKey,
             Store!LastOfEachKey, LastOfEachKey, Store!FirstOfEachKey, FirstOfEachKey
<1>1. Store!FrameworkLinks(c) = FrameworkLinks(c)
  BY DEF Store!FrameworkLinks, FrameworkLinks, Store!FrameworkKey, FrameworkKey
<1>2. Store!CatalogueEntries(c) = CatalogueEntries(c)
  BY DEF Store!CatalogueEntries, CatalogueEntries, Store!FrameworkKey, FrameworkKey
<1>3. Store!ControlIds(c) = ControlIds(c)
  BY DEF Store!ControlIds, ControlIds
<1>4. Store!ControlLinks(c) = ControlLinks(c)
  BY DEF Store!ControlLinks, ControlLinks, Store!ControlKey, ControlKey
<1>5. Store!ResultRows(c) = ResultRows(c)
  BY DEF Store!ResultRows, ResultRows, Store!ResultKey, ResultKey, Store!FirstRef, FirstRef
<1>6. Store!GapRows(c) = GapRows(c)
  BY DEF Store!GapRows, GapRows, Store!FirstGaps, FirstGaps, Store!IsGap, IsGap,
         Store!IsGapStatus, IsGapStatus, Store!ResultKey, ResultKey
<1>7. Store!ScoreRows(c) = ScoreRows(c)
  <2>1. \A S : Store!Cardinality(S) = Cardinality(S)
    BY Zenon DEF Store!Cardinality, Cardinality
  <2>2. \A f, s : Store!StatusCount(c, f, s) = StatusCount(c, f, s)
    BY <2>1 DEF Store!StatusCount, StatusCount
  <2>. QED  BY <2>2 DEF Store!ScoreRows, ScoreRows
<1>8. Store!IsAccepted(c) <=> IsAccepted(c)
  BY DEF Store!IsAccepted, IsAccepted, Store!ReferencedFrameworks, ReferencedFrameworks,
         Store!DescribedFrameworks, DescribedFrameworks
<1>9. \A known, e : Store!SnapshotRows(known, c.run_id, e) = SnapshotRows(known, c.run_id, e)
  BY DEF Store!SnapshotRows, SnapshotRows
<1>10. Store!LastOfEachKey(c.evidence, Store!IdKey) = LastOfEachKey(c.evidence, IdKey)
  OBVIOUS
<1>11. \A table : Store!InsertNew(table, CatalogueEntries(c), Store!IdKey)
                    = InsertNew(table, CatalogueEntries(c), IdKey)
  BY DEF Store!InsertNew, InsertNew
<1>12. \A x : Store!ResultKey(x) = ResultKey(x)
  BY DEF Store!ResultKey, ResultKey
<1>. QED
  BY <1>1, <1>2, <1>3, <1>4, <1>5, <1>6, <1>7, <1>8, <1>9, <1>10, <1>11, <1>12

\* What the loop over all records taught is what CorpusStore says of the corpus.
LEMMA LearnedAll ==
  ASSUME NEW now, NEW c \in Corpus,
         db \in Database, OneRowPerId(db.evidence_metadata),
         LearnedUpTo(db.evidence_metadata, now, c, Len(c.evidence) + 1)
  PROVE  now = Store!Learned(c)
<1>. DEFINE m == db.evidence_metadata
            n == Len(c.evidence) + 1
            ids == {e.id : e \in Elements(c.evidence)}
<1>1. \A i \in DOMAIN c.evidence : i < n
  <2>1. DOMAIN c.evidence = 1 .. Len(c.evidence) /\ Len(c.evidence) \in Nat
    BY DEF Corpus
  <2>. QED  BY <2>1
<1>2. \A id : /\ Seen(c, n, id) = Store!Sightings(c, id)
              /\ RowsOfId(m, id) = Store!Known(id)
              /\ id \in ids <=> Seen(c, n, id) # {}
  BY <1>1 DEF Seen, RowsOfId, Store!Sightings, Store!Known, Elements
<1>3. ASSUME NEW id
      PROVE  /\ DigestFrom(m, c, n, id) = Store!DigestSource(c, id)
             /\ LocatorsFrom(m, c, n, id) = Store!Locators(c, id)
  <2>1. Seen(c, n, id) = Store!Sightings(c, id) /\ RowsOfId(m, id) = Store!Known(id)
    BY <1>2
  <2>. HIDE DEF m, n
  <2>2. DigestFrom(m, c, n, id) = Store!DigestSource(c, id)
    BY <2>1, StoreRows DEF DigestFrom, Store!DigestSource
  <2>3. LocatorsFrom(m, c, n, id) = Store!Locators(c, id)
    BY <2>1, StoreRows DEF LocatorsFrom, Store!Locators
  <2>. QED  BY <2>2, <2>3
<1>4. Store!Learned(c) = {x \in m : x.id \notin ids} \cup UNION {LearnedRows(m, c, n, id) : id \in ids}
  <2>1. Store!Elements(c.evidence) = Elements(c.evidence)
    BY DEF Store!Elements, Elements
  <2>2. ASSUME NEW id
        PROVE  LearnedRows(m, c, n, id) =
                 {[id |-> id, digest |-> s.digest, locator |-> l,
                   classification |-> s.classification]
                    : s \in Store!DigestSource(c, id), l \in Store!Locators(c, id)}
    BY <1>3 DEF LearnedRows, EvidenceOf
  <2>. QED  BY <2>1, <2>2 DEF Store!Learned
<1>5. \A id : \A x \in LearnedRows(m, c, n, id) : x.id = id
  BY DEF LearnedRows, EvidenceOf
<1>6. /\ \A id : RowsOfId(now, id) = LearnedRows(m, c, n, id)
      /\ \A id : id \notin ids => LearnedRows(m, c, n, id) = RowsOfId(m, id)
  BY <1>2, UnseenRows DEF LearnedUpTo, Database
<1>. HIDE DEF m, n, ids
<1>7. \A x : x \in now <=> x \in LearnedRows(m, c, n, x.id)
  BY <1>6 DEF RowsOfId
<1>8. \A x : x \in Store!Learned(c) <=> x \in LearnedRows(m, c, n, x.id)
  BY <1>4, <1>5, <1>6 DEF RowsOfId
<1>. QED  BY <1>7, <1>8

\* The time stamp a commit leaves in the run's row is the one Save gives it.
LEMMA StampedTimeStamp ==
  ASSUME NEW c, OneRowPerId(db.scan_runs), NEW x \in StampedRun(db.scan_runs, c)
  PROVE  x.id = c.run_id /\ x.executed_at = Store!TimeStamp(c)
<1>. DEFINE saved == {RunRecord(y) : y \in db.scan_runs}
            old   == {y \in db.scan_runs : y.id = c.run_id}
<1>1. \A y : RunRecord(y).run_id = y.id /\ RunRecord(y).executed_at = y.executed_at
  BY DEF RunRecord
<1>2. Store!TimeStamp(c) =
        IF c.executed_at = Blank /\ \E v \in saved : v.run_id = c.run_id
          THEN (CHOOSE v \in saved : v.run_id = c.run_id).executed_at ELSE c.executed_at
  BY StoreRows DEF Store!TimeStamp
<1>3. (\E v \in saved : v.run_id = c.run_id) <=> old # {}
  BY <1>1
<1>4. CASE c.executed_at = Blank /\ old # {}
  <2>1. x \in old
    BY <1>4 DEF StampedRun
  <2>2. \A v \in saved : v.run_id = c.run_id => v = RunRecord(x)
    BY <1>1, <2>1 DEF OneRowPerId
  <2>3. (CHOOSE v \in saved : v.run_id = c.run_id) = RunRecord(x)
    <3>1. \E v \in saved : v.run_id = c.run_id
      BY <1>3, <1>4
    <3>. HIDE DEF saved
    <3>. QED  BY <2>2, <3>1
  <2>. QED  BY <1>1, <1>2, <1>3, <1>4, <2>1, <2>3
<1>5. CASE ~(c.executed_at = Blank /\ old # {})
  BY <1>2, <1>3, <1>5 DEF StampedRun
<1>. QED  BY <1>4, <1>5

\* A call writes the row of its run and no other.
LEMMA StampsItsRun ==
  ASSUME NEW runs, NEW c
  PROVE  /\ \A x \in StampedRun(runs, c) : x.id = c.run_id
         /\ StampedRun(runs, c) # {}
<1>1. \A x \in StampedRun(runs, c) : x.id = c.run_id
  BY DEF StampedRun
<1>2. CASE c.executed_at = Blank /\ {x \in runs : x.id = c.run_id} # {}
  BY <1>1, <1>2 DEF StampedRun
<1>3. CASE ~(c.executed_at = Blank /\ {x \in runs : x.id = c.run_id} # {})
  BY <1>1, <1>3 DEF StampedRun
<1>. QED  BY <1>1, <1>2, <1>3

\* The step that commits a call saves its corpus.
LEMMA CommitSaves ==
  ASSUME TypeOK, CallsCarryCorpora, StoreInv, IsolationInv, RefinementInv,
         NEW w \in Connection, Commit(w)
  PROVE  corpus[w] \in Corpora /\ Store!Save(corpus[w])
<1>. DEFINE c == corpus[w]
<1>1. /\ c \in Corpora /\ c \in Corpus /\ IsAccepted(c)
  BY CorporaAssumption DEF Commit, CallsCarryCorpora
<1>2. /\ db' = draft /\ pc[w] = "evidence" /\ row \notin DOMAIN c.evidence
      /\ WrittenUpTo(draft, c, "evidence")
      /\ RunsHaveNames(db) /\ OtherRunsKept(db, draft, c)
      /\ OneRowPerId(db.scan_runs) /\ OneRowPerId(db.evidence_metadata)
      /\ TaughtUpTo(db, draft, c, "evidence", row)
      /\ db \in Database
  BY DEF Commit, StoreInv, DraftIsUnderWay, IsolationInv, RefinementInv, WritingSteps, TypeOK
<1>. HIDE DEF c
<1>3. DOMAIN c.evidence = 1 .. Len(c.evidence) /\ Len(c.evidence) \in Nat
  BY <1>1 DEF Corpus
<1>4. row = Len(c.evidence) + 1
  BY <1>2, <1>3 DEF TaughtUpTo
<1>5. /\ CatalogueTaught(db, draft, c)
      /\ LegacyGapsOf(draft) = LegacyLeft(db, c)
      /\ LearnedUpTo(db.evidence_metadata, draft.evidence_metadata, c, Len(c.evidence) + 1)
      /\ LinkedUpTo(draft, c, Len(c.evidence) + 1)
  BY <1>2, <1>4 DEF TaughtUpTo
<1>6. db'.evidence_metadata = Store!Learned(c)
  BY <1>1, <1>2, <1>5, LearnedAll
<1>7. ForRun(db'.run_evidence_links, c.run_id) = Store!Snapshot(c, db'.evidence_metadata)
  <2>1. LastBefore(c, Len(c.evidence) + 1) = LastOfEachKey(c.evidence, IdKey)
    <3>1. \A i \in DOMAIN c.evidence : i < Len(c.evidence) + 1
      BY <1>3
    <3>. QED  BY <3>1 DEF LastBefore, LastOfEachKey, IdKey
  <2>2. Store!Snapshot(c, db'.evidence_metadata) =
          UNION {SnapshotRows(db'.evidence_metadata, c.run_id, e)
                   : e \in LastOfEachKey(c.evidence, IdKey)}
    BY StoreRows DEF Store!Snapshot
  <2>. QED  BY <1>2, <1>5, <2>1, <2>2 DEF LinkedUpTo
<1>. DEFINE runs   == {RunRecord(x) : x \in db.scan_runs}
            record == [run_id      |-> c.run_id,
                       executed_at |-> Store!TimeStamp(c),
                       frameworks  |-> FrameworkLinks(c),
                       controls    |-> ControlLinks(c),
                       results     |-> ResultRows(c),
                       gaps        |-> GapRows(c),
                       scores      |-> ScoreRows(c),
                       evidence    |-> Store!Snapshot(c, db'.evidence_metadata)]
<1>8. {RunRecord(x) : x \in db.scan_runs}' = {v \in runs : v.run_id # c.run_id} \cup {record}
  <2>1. db'.scan_runs = {x \in db.scan_runs : x.id # c.run_id} \cup StampedRun(db.scan_runs, c)
    <3>1. /\ \A x \in StampedRun(db.scan_runs, c) : x.id = c.run_id
          /\ StampedRun(db.scan_runs, c) # {}
      BY StampsItsRun
    <3>2. db'.scan_runs = Upsert(db.scan_runs, StampedRun(db.scan_runs, c), IdKey)
      BY <1>2, <1>5 DEF CatalogueTaught
    <3>. QED  BY <3>1, <3>2 DEF Upsert, IdKey
  <2>2. ASSUME NEW x \in db.scan_runs, x.id # c.run_id
        PROVE  RunRecord(x)' = RunRecord(x)
    <3>1. RunRowsKept(db, db', x.id)
      BY <1>2, <2>2 DEF OtherRunsKept, RunsHaveNames
    <3>. QED  BY <3>1 DEF RunRowsKept, RunRecord
  <2>3. ASSUME NEW x \in StampedRun(db.scan_runs, c)
        PROVE  RunRecord(x)' = record
    <3>1. x.id = c.run_id /\ x.executed_at = Store!TimeStamp(c)
      BY <1>2, StampedTimeStamp
    <3>2. /\ ForRun(db'.run_framework_links, c.run_id) = FrameworkLinks(c)
          /\ ForRun(db'.run_control_links, c.run_id) = ControlLinks(c)
          /\ ForRun(db'.control_results, c.run_id) = ResultRows(c)
          /\ ForRun(db'.compliance_gaps, c.run_id) = GapRows(c)
          /\ ForRun(db'.score_summaries, c.run_id) = ScoreRows(c)
      BY <1>2 DEF WrittenUpTo
    <3>. QED  BY <1>7, <3>1, <3>2 DEF RunRecord
  <2>4. \A x : RunRecord(x).run_id = x.id
    BY DEF RunRecord
  <2>5. StampedRun(db.scan_runs, c) # {}
    BY StampsItsRun
  <2>6. {v \in runs : v.run_id # c.run_id} = {RunRecord(x) : x \in {x \in db.scan_runs : x.id # c.run_id}}
    BY <2>4
  <2>7. {RunRecord(x) : x \in db.scan_runs}' =
          {RunRecord(x) : x \in {x \in db.scan_runs : x.id # c.run_id}} \cup {record}
    <3>. DEFINE others == {x \in db.scan_runs : x.id # c.run_id}
    <3>1. {RunRecord(x) : x \in db.scan_runs}' = {RunRecord(x)' : x \in db'.scan_runs}
      OBVIOUS
    <3>2. /\ \A x \in others : RunRecord(x)' = RunRecord(x)
          /\ \A x \in StampedRun(db.scan_runs, c) : RunRecord(x)' = record
      BY <2>2, <2>3
    <3>3. db'.scan_runs = others \cup StampedRun(db.scan_runs, c)
      BY <2>1
    <3>. HIDE DEF record, others
    <3>4. {RunRecord(x)' : x \in db'.scan_runs} = {RunRecord(x) : x \in others} \cup {record}
      BY <2>5, <3>2, <3>3
    <3>. QED  BY <3>1, <3>4 DEF others
  <2>. QED  BY <2>6, <2>7
<1>9. [frameworks |-> db.frameworks, controls |-> db.controls]' =
        [frameworks |-> InsertNew(db.frameworks, CatalogueEntries(c), IdKey),
         controls   |-> db.controls \cup ControlIds(c)]
  BY <1>2, <1>5 DEF CatalogueTaught
<1>10. ForRun(db.compliance_gaps, Blank)' =
         {g \in ForRun(db.compliance_gaps, Blank) : \A r \in GapRows(c) : ResultKey(r) # ResultKey(g)}
  BY <1>2, <1>5 DEF LegacyGapsOf, LegacyLeft, SupersededGap, ForRun
<1>11. Store!Save(c)
  <2>. HIDE DEF record, runs
  <2>1. Store!IsAccepted(c)
    BY <1>1, StoreRows
  <2>2. {RunRecord(x) : x \in db.scan_runs}' =
          {v \in {RunRecord(x) : x \in db.scan_runs} : v.run_id # c.run_id} \cup
            {[run_id      |-> c.run_id,
              executed_at |-> Store!TimeStamp(c),
              frameworks  |-> Store!FrameworkLinks(c),
              controls    |-> Store!ControlLinks(c),
              results     |-> Store!ResultRows(c),
              gaps        |-> Store!GapRows(c),
              scores      |-> Store!ScoreRows(c),
              evidence    |-> Store!Snapshot(c, db'.evidence_metadata)]}
    BY <1>8, StoreRows DEF record, runs
  <2>3. [frameworks |-> db.frameworks, controls |-> db.controls]' =
          [frameworks |-> Store!InsertNew(db.frameworks, Store!CatalogueEntries(c), Store!IdKey),
           controls   |-> db.controls \cup Store!ControlIds(c)]
    BY <1>9, StoreRows
  <2>4. ForRun(db.compliance_gaps, Blank)' =
          {g \in ForRun(db.compliance_gaps, Blank) :
             \A r \in Store!GapRows(c) : Store!ResultKey(r) # Store!ResultKey(g)}
    BY <1>10, StoreRows
  <2>. QED  BY <1>6, <2>1, <2>2, <2>3, <2>4 DEF Store!Save
<1>. QED  BY <1>1, <1>11 DEF c

\* Whatever the interleaving, the timeouts, the failed statements and the
\* crashes, the committed content is a store in which a call saves its whole
\* corpus in one step or does nothing (ImplementsCorpusStore).
THEOREM Refinement == Spec => ImplementsCorpusStore
<1>1. Init => Store!Init
  BY DEF Init, EmptyDatabase, Store!Init, ForRun
<1>2. TypeOK /\ CallsCarryCorpora /\ StoreInv /\ IsolationInv /\ RefinementInv /\ [Next]_vars
        => [Store!Next]_(Store!vars)
  <2>. SUFFICES ASSUME TypeOK, CallsCarryCorpora, StoreInv, IsolationInv, RefinementInv,
                       [Next]_vars
                PROVE  [Store!Next]_(Store!vars)
    OBVIOUS
  <2>1. CASE db' = db
    BY <2>1 DEF Store!vars, RunRecord
  <2>2. ASSUME NEW w \in Connection, Commit(w) PROVE Store!Next
    BY <2>2, CommitSaves DEF Store!Next
  <2>3. db' = db \/ \E w \in Connection : Commit(w)
    BY DEF Next, WriteStep, vars, Refuse, Begin, WriteRunCatalog, ClearRunOutcomes,
           WriteScoreSummaries, WriteControlResults, WriteGapRows, ClearEvidenceLinks,
           WriteEvidenceRow, Advance, BusyTimeout, StatementFails, Crash, GiveUp
  <2>. QED  BY <2>1, <2>2, <2>3
<1>. QED
  BY <1>1, <1>2, CallsTyped, StoreInvariant, IsolationInvariant, RefinementInvariant, PTL
     DEF Spec, Store!Spec, ImplementsCorpusStore

=============================================================================
