----------------------------- MODULE MCArtifacts -----------------------------
(***************************************************************************)
(* Two frameworks that share a control and its rule, a bare result, a      *)
(* result with two references; evidence with and without a digest and with *)
(* every classification; a run of an earlier version with and without a    *)
(* time stamp, whose evidence has no label.                                *)
(***************************************************************************)
EXTENDS Artifacts

Framework(f)   == [framework_id |-> f, version |-> "v"]
Control(f, r)  == [framework_id |-> f, control_id |-> "k", reference |-> r]
Result(f, k, rule, status, refs) ==
  [framework_id |-> f, control_id |-> k, rule_id |-> rule, status |-> status,
   evidence_refs |-> refs]
Evidence(id, digest, class) ==
  [id |-> id, digest |-> digest, locator |-> "here", classification |-> class]

MCRank == (Blank :> 0) @@ ("e" :> 1) @@ ("f" :> 2) @@ ("g" :> 3) @@ ("k" :> 4) @@ ("r" :> 5)
            @@ ("s" :> 6) @@ ("x" :> 7)

MCFrameworkEntries == {Framework("f"), Framework("g")}

MCControlEntries == {Control("f", "art7"), Control("g", "A.8")}

MCResultEntries ==
  {Result("f", "k", "r", "FAIL", <<"e">>), Result("g", "k", "r", "PASS", <<"e">>),
   Result("g", "k", "r", "WARNING", <<>>), Result("f", "k", "s", "PASS", <<"e", "x">>),
   Result(Blank, Blank, Blank, "FAIL", <<>>)}

MCEvidenceEntries ==
  {Evidence("e", "d", "Secret"), Evidence("e", Blank, "Unclassified"),
   Evidence("x", "d", "Unclassified"), Evidence("x", Blank, "Sensitive")}

Earlier(stamp) ==
  [run_id |-> "old", executed_at |-> stamp,
   frameworks |-> {}, controls |-> {}, gaps |-> {}, scores |-> {},
   results  |-> {[run_id |-> "old", framework_id |-> Blank, control_id |-> "k", rule_id |-> "r",
                  status |-> "FAIL", evidence_id |-> "e"]},
   evidence |-> {[run_id |-> "old", evidence_id |-> "e", digest |-> "d", locator |-> "here",
                  classification |-> Blank]}]

MCEarlierRuns == {Earlier("then"), Earlier(Blank)}

MCEarlierEvidence ==
  {[id |-> "e", digest |-> "d", locator |-> "here", classification |-> Blank]}

=============================================================================
