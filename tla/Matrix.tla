------------------------------- MODULE Matrix -------------------------------
(***************************************************************************)
(* The compliance matrix (matrix.rs `export`): six worksheets as functions *)
(* of a corpus.  A worksheet is the sequence of its data rows and the note *)
(* it shows when it has none; headers, filters, empty columns and XML are  *)
(* left out.  The columns of CorpusRows stand for those that travel with   *)
(* them: `version` for a source URL, `reference` for title, severity and   *)
(* weight of a control.                                                    *)
(***************************************************************************)
EXTENDS CorpusRows, SequencesExt

CONSTANT Rank    \* the byte order of the ids in use: id -> position

\* Different ids have different places, and the empty one is the first.
ASSUME RankOrders ==
  /\ Blank \in DOMAIN Rank
  /\ \A a \in DOMAIN Rank : Rank[a] \in Nat
  /\ \A a, b \in DOMAIN Rank : Rank[a] = Rank[b] => a = b
  /\ \A a \in DOMAIN Rank : Rank[Blank] <= Rank[a]

\* The order of tuples of ids.
Precedes(a, b) ==
  \E i \in DOMAIN a : /\ Rank[a[i]] < Rank[b[i]]
                      /\ \A j \in 1..(i - 1) : a[j] = b[j]

\* The elements of a set in an order: n - 1 others come before the n-th.
Ordered(S, Before(_, _)) ==
  LET placed == {<<Cardinality({y \in S : Before(y, x)}) + 1, x>> : x \in S}
  IN  [n \in 1..Cardinality(S) |-> (CHOOSE p \in placed : p[1] = n)[2]]

\* sort_by is stable: equal keys keep the order of the input.
StableSort(s, Key(_)) ==
  LET Before(i, j) == \/ Precedes(Key(s[i]), Key(s[j]))
                      \/ Key(s[i]) = Key(s[j]) /\ i < j
      order == Ordered(DOMAIN s, Before)
  IN  [n \in DOMAIN s |-> s[order[n]]]

\* The elements of a set in the order of their keys, which are distinct.
InOrderOf(S, Key(_)) == Ordered(S, LAMBDA x, y : Precedes(Key(x), Key(y)))

MapSeq(s, F(_)) == [n \in DOMAIN s |-> F(s[n])]

\* The entries of a list that pass, in its order.
Kept(s, Passes(_)) == MapSeq(Ordered({i \in DOMAIN s : Passes(s[i])}, <), LAMBDA i : s[i])

Sheet(rows, note) == [rows |-> rows, note |-> IF rows = <<>> THEN note ELSE Blank]

NoNote == Blank

-----------------------------------------------------------------------------
(***************************************************************************)
(* What a row says of a result, a control or an evidence record.           *)
(***************************************************************************)

\* The two columns results are ordered by; the framework is not one of them.
ReportingKey(r) == <<r.control_id, r.rule_id>>

ResultsInReportingOrder(results) == StableSort(results, ReportingKey)

ApplicabilityFor(status) == IF status = "SKIPPED" THEN "not applicable" ELSE "applicable"

Protected == {"Secret", "Sensitive"}

RedactionStatus(classification) == IF classification \in Protected THEN "redacted" ELSE "none"

\* The first entry of a list that has the wanted key, or nothing.
FirstWhere(s, Wanted(_)) ==
  LET at == {i \in DOMAIN s : Wanted(s[i])}
  IN  IF at = {} THEN <<>> ELSE <<s[CHOOSE i \in at : \A j \in at : i <= j]>>

GapReference(controls, r) ==
  LET found == FirstWhere(controls, LAMBDA k : ControlKey(k) = ControlKey(r))
  IN  IF found = <<>> THEN Blank ELSE found[1].reference

FrameworkSource(frameworks, id) ==
  LET found == FirstWhere(frameworks, LAMBDA f : f.framework_id = id)
  IN  IF found = <<>> THEN Blank ELSE found[1].version

-----------------------------------------------------------------------------
(***************************************************************************)
(* The worksheets.                                                         *)
(***************************************************************************)

ControlsSheet(c) ==
  Sheet(MapSeq(c.controls,
               LAMBDA k : [framework |-> k.framework_id, control |-> k.control_id,
                           reference |-> k.reference, applicability |-> "applicable"]),
        NoNote)

ResultsSheet(c) ==
  Sheet(MapSeq(ResultsInReportingOrder(c.results),
               LAMBDA r : [framework |-> r.framework_id, control |-> r.control_id,
                           rule |-> r.rule_id, status |-> r.status,
                           evidence |-> r.evidence_refs,
                           applicability |-> ApplicabilityFor(r.status)]),
        NoNote)

GapsSheet(c) ==
  Sheet(MapSeq(Kept(ResultsInReportingOrder(c.results), IsGap),
               LAMBDA r : [framework |-> r.framework_id, control |-> r.control_id,
                           rule |-> r.rule_id, status |-> r.status,
                           reference |-> GapReference(c.controls, r),
                           source |-> FrameworkSource(c.frameworks, r.framework_id),
                           evidence |-> r.evidence_refs]),
        "no potential gaps")

IntegrityShown(digest) == IF digest = Blank THEN "integrity metadata not available" ELSE digest

EvidenceSheet(c) ==
  Sheet(MapSeq(c.evidence,
               LAMBDA e : [id |-> e.id, location |-> e.locator,
                           integrity |-> IntegrityShown(e.digest),
                           redaction |-> RedactionStatus(e.classification)]),
        "no evidence records")

FrameworksSheet(c) == Sheet(c.frameworks, NoNote)

(***************************************************************************)
(* The catalogue the SDK is asked to score, from the scoped results: each  *)
(* framework and each control once, in order of first use, and the pairs.  *)
(* The score itself is the SDK's.                                          *)
(***************************************************************************)
FirstUses(s) ==
  MapSeq(Kept([i \in DOMAIN s |-> i], LAMBDA i : \A j \in 1..(i - 1) : s[j] # s[i]),
         LAMBDA i : s[i])

ScoringCatalog(c) ==
  LET scoped == Kept(c.results, LAMBDA r : r.framework_id # Blank)
  IN  [frameworks |-> FirstUses(MapSeq(scoped, FrameworkKey)),
       controls   |-> FirstUses(MapSeq(scoped, LAMBDA r : r.control_id)),
       mappings   |-> FirstUses(MapSeq(scoped, LAMBDA r : <<r.control_id, r.framework_id>>))]

\* environment_score: what the SDK computes the scores from.  A control result
\* names its control and its rule; the framework stays behind.
ScoringInput(c) ==
  [catalog |-> ScoringCatalog(c),
   results |-> MapSeq(c.results, LAMBDA r : [control |-> r.control_id, rule |-> r.rule_id,
                                             status |-> r.status])]

SummarySheet(c) ==
  [scored |-> ScoringInput(c),
   note   |-> IF ScoringCatalog(c).frameworks # <<>> THEN Blank
              ELSE IF c.results = <<>> THEN "no controls evaluated" ELSE "no scores"]

Workbook(c) ==
  [created    |-> c.executed_at, title |-> c.run_id,
   controls   |-> ControlsSheet(c),   results    |-> ResultsSheet(c),
   gaps       |-> GapsSheet(c),       evidence   |-> EvidenceSheet(c),
   frameworks |-> FrameworksSheet(c), summary    |-> SummarySheet(c)]

=============================================================================
