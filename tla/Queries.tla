------------------------------- MODULE Queries -------------------------------
(***************************************************************************)
(* The read queries of local_db.rs: each is one SELECT over the committed  *)
(* content, beside the writers of LocalDatabase.                           *)
(*                                                                         *)
(* A query returns a list ordered by what it selects.  A list without      *)
(* repeated entries is its set of entries; one that leaves the framework   *)
(* out may repeat entries and is a function from each to how often it      *)
(* occurs.  A severity travels with the status of its row.                 *)
(***************************************************************************)
EXTENDS LocalDatabase, FiniteSetsExt

\* How often each value of a column occurs in a set of rows.
Listed(rows, Column(_)) ==
  [v \in {Column(x) : x \in rows} |-> Cardinality({x \in rows : Column(x) = v})]

Occurrences(list, v) == IF v \in DOMAIN list THEN list[v] ELSE 0

-----------------------------------------------------------------------------
(***************************************************************************)
(* The records of one run.                                                 *)
(***************************************************************************)
QueryRuns == {x.id : x \in db.scan_runs}

QueryRun(run) == {x.id : x \in {x \in db.scan_runs : x.id = run}}

CompletedRunExecutedAt(run) == {x.executed_at : x \in {x \in db.scan_runs : x.id = run}}

FrameworkRecordsForRun(run) == {x.framework_id : x \in ForRun(db.run_framework_links, run)}

\* A control of two frameworks is listed twice.
ControlRecordsForRun(run) ==
  Listed(ForRun(db.run_control_links, run), LAMBDA x : x.control_id)

ControlResultRecordsForRun(run) == {ResultKey(x) : x \in ForRun(db.control_results, run)}

ComplianceGapRecordsForRun(run) == {ResultKey(x) : x \in ForRun(db.compliance_gaps, run)}

\* A join: a link whose metadata is missing would not be listed.
EvidenceMetadataRecordsForRun(run) ==
  {x.id : x \in {x \in db.evidence_metadata :
     \E l \in ForRun(db.run_evidence_links, run) : l.evidence_id = x.id}}

ScoreSummariesForRun(run) ==
  {[framework |-> x.framework_id, pass |-> x.pass, fail |-> x.fail, warning |-> x.warning]
     : x \in ForRun(db.score_summaries, run)}

-----------------------------------------------------------------------------
(***************************************************************************)
(* The filtered queries.                                                   *)
(***************************************************************************)
QueryGaps(run, status) ==
  Listed({x \in ForRun(db.compliance_gaps, run) : x.status = status},
         LAMBDA x : <<x.control_id, x.rule_id, x.status>>)

ResultColumns(x) == <<x.control_id, x.rule_id, x.run_id, x.status>>

\* Not the code: the filter on the run is forgotten.
QueryResultsOfAnyRun(run, control, status) ==
  Listed({x \in db.control_results : x.control_id = control /\ x.status = status}, ResultColumns)

QueryResults(run, control, status) ==
  Listed({x \in ForRun(db.control_results, run) : x.control_id = control /\ x.status = status},
         ResultColumns)

\* Without a run id nothing is selected, not even the rows that have none.
QueryResultsForRun(run) ==
  IF run = Blank THEN Listed({}, ResultColumns)
                 ELSE Listed(ForRun(db.control_results, run), ResultColumns)

QueryEvidence(lookup, value) ==
  CASE lookup = "id"      -> {x \in db.evidence_metadata : x.id = value}
    [] lookup = "digest"  -> {x \in db.evidence_metadata : x.digest = value}
    [] lookup = "control" ->
         {x \in db.evidence_metadata :
            \E r \in db.control_results : r.evidence_id = x.id /\ r.control_id = value}
    [] OTHER -> {}

-----------------------------------------------------------------------------
(***************************************************************************)
(* Properties.                                                             *)
(***************************************************************************)
CorpusRuns == {c.run_id : c \in Corpora} \ {Blank}

\* No query answers anything for a run.
IsUnknown(run) ==
  /\ QueryRun(run) = {} /\ CompletedRunExecutedAt(run) = {}
  /\ FrameworkRecordsForRun(run) = {} /\ DOMAIN ControlRecordsForRun(run) = {}
  /\ ControlResultRecordsForRun(run) = {} /\ ComplianceGapRecordsForRun(run) = {}
  /\ EvidenceMetadataRecordsForRun(run) = {} /\ ScoreSummariesForRun(run) = {}
  /\ DOMAIN QueryResultsForRun(run) = {}
  /\ \A s \in Status : DOMAIN QueryGaps(run, s) = {}

Controls(c) == {r.control_id : r \in Elements(c.results)}

\* How many results of a run a list gives a control, a rule and a status.
InAll(run, control, rule, status) ==
  Occurrences(QueryResultsForRun(run), <<control, rule, run, status>>)

\* The two ways to the results of a run give the same, entry by entry.
ResultQueriesAgree(c) ==
  /\ \A k \in Controls(c), s \in Status :
       LET found == QueryResults(c.run_id, k, s)
       IN  /\ \A v \in DOMAIN found : v[3] = c.run_id
           /\ \A r \in Elements(c.results) :
                Occurrences(found, <<k, r.rule_id, c.run_id, s>>) =
                  InAll(c.run_id, k, r.rule_id, s)
  /\ \A v \in DOMAIN QueryResultsForRun(c.run_id) : v[1] \in Controls(c)

\* The gaps that are listed are results of that status, no more of them than
\* there are, and as many as the score summaries of the frameworks add up to.
GapQueriesAgree(c) ==
  LET run            == c.run_id
      Total(list)    == MapThenSumSet(LAMBDA v : list[v], DOMAIN list)
      Summed(Count(_)) == MapThenSumSet(Count, ScoreSummariesForRun(run))
  IN  /\ ComplianceGapRecordsForRun(run) \subseteq ControlResultRecordsForRun(run)
      /\ \A s \in Status : \A g \in DOMAIN QueryGaps(run, s) :
           QueryGaps(run, s)[g] <= InAll(run, g[1], g[2], g[3])
      /\ Total(QueryGaps(run, "FAIL"))    = Summed(LAMBDA x : x.fail)
      /\ Total(QueryGaps(run, "WARNING")) = Summed(LAMBDA x : x.warning)

\* Whatever was written, rewritten or rolled back before: readers are listed
\* exactly the runs that have a committed corpus, and nothing of any other; and
\* of a listed run the queries, which read different tables through different
\* joins and filters, tell the same results, gaps and counts, list the
\* frameworks, controls and evidence of its last corpus, and find the evidence
\* its results cite by control and by id.
QueriesTellTheStoredRuns ==
  /\ QueryRuns = {c.run_id : c \in latest}
  /\ \A run \in CorpusRuns \ QueryRuns : IsUnknown(run)
  /\ \A c \in latest :
       /\ QueryRun(c.run_id) = {c.run_id}
       /\ ResultQueriesAgree(c) /\ GapQueriesAgree(c)
       /\ FrameworkRecordsForRun(c.run_id) = DescribedFrameworks(c)
       /\ DOMAIN ControlRecordsForRun(c.run_id) = ControlIds(c)
       /\ EvidenceMetadataRecordsForRun(c.run_id) = {e.id : e \in Elements(c.evidence)}
       /\ \A r \in Elements(c.results), e \in Elements(c.evidence) :
            FirstRef(r) = e.id =>
              /\ Cardinality(QueryEvidence("id", e.id)) = 1
              /\ QueryEvidence("id", e.id) \subseteq QueryEvidence("control", r.control_id)
              /\ \A x \in QueryEvidence("id", e.id) : x \in QueryEvidence("digest", x.digest)

=============================================================================
