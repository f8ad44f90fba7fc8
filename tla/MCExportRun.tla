----------------------------- MODULE MCExportRun -----------------------------
(***************************************************************************)
(* One writer, one exporter, a run with two corpora and a run that shares  *)
(* its framework and evidence id.                                          *)
(***************************************************************************)
EXTENDS ExportRun

MCRewrite1 ==
  [run_id |-> "r1", executed_at |-> Blank,
   frameworks |-> <<[framework_id |-> "f", version |-> "v2"]>>,
   controls   |-> <<>>,
   results    |-> <<[framework_id |-> "f", control_id |-> "ctl", rule_id |-> "k1",
                     status |-> "PASS", evidence_refs |-> <<>>]>>,
   evidence   |-> <<[id |-> "e2", digest |-> Blank, locator |-> "here",
                     classification |-> "Unclassified"]>>]

MCFirst1 ==
  [MCRewrite1 EXCEPT
     !.executed_at = "t1",
     !.frameworks = <<[framework_id |-> "f", version |-> "v1"]>>,
     !.controls   = <<[framework_id |-> "f", control_id |-> "ctl", reference |-> "art7"]>>,
     !.results[1].status = "FAIL",
     !.results[1].evidence_refs = <<"e">>,
     !.evidence   = <<[id |-> "e", digest |-> "d1", locator |-> "here",
                       classification |-> "Secret"]>>]

MCFirst2 ==
  [MCFirst1 EXCEPT !.run_id = "r2", !.results[1].status = "WARNING",
                   !.frameworks[1].version = "v2",
                   !.evidence[1].digest = "d2"]

MCCorpora == {MCFirst1, MCRewrite1, MCFirst2}

MCNoLegacyGaps == {}

\* The store as the scan left it, without the evidence, or with other content
\* under its id.
MCStoreIndexes ==
  {{[id |-> "e", hash |-> "d1"]}, {}, {[id |-> "e", hash |-> "d2"]}}

=============================================================================
