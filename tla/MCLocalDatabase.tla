--------------------------- MODULE MCLocalDatabase ---------------------------
(***************************************************************************)
(* A small instance of LocalDatabase: two runs that share a framework and  *)
(* the evidence, each with two corpora, so that rewrites, first-wins and   *)
(* last-wins columns, blank time stamps and blank digests all occur, and   *)
(* two corpora that the write refuses.                                     *)
(***************************************************************************)
EXTENDS Queries

Framework(f, v)      == [framework_id |-> f, version |-> v]
Control(f, k, ref)   == [framework_id |-> f, control_id |-> k, reference |-> ref]
Result(f, rule, status, refs) ==
  [framework_id |-> f, control_id |-> "ctl", rule_id |-> rule, status |-> status,
   evidence_refs |-> refs]
Evidence(id, digest, locator, class) ==
  [id |-> id, digest |-> digest, locator |-> locator, classification |-> class]

\* The first scan of r1: a gap, a pass, and an evidence record with a digest.
First1 ==
  [run_id |-> "r1", executed_at |-> "t1",
   frameworks |-> <<Framework("f", "v1")>>,
   controls   |-> <<Control("f", "ctl", "art7")>>,
   results    |-> <<Result("f", "k1", "FAIL", <<"e", "x">>), Result("f", "k2", "PASS", <<>>)>>,
   evidence   |-> <<Evidence("e", "d1", "", "Secret")>>]

\* A rewrite of r1 from a source that knows neither time stamp nor digest; the
\* failed rule passes, and a result without a framework warns.
Rewrite1 ==
  [run_id |-> "r1", executed_at |-> Blank,
   frameworks |-> <<Framework("f", "v2")>>,
   controls   |-> <<>>,
   results    |-> <<Result(Blank, "k2", "WARNING", <<>>), Result("f", "k1", "PASS", <<"e">>)>>,
   evidence   |-> <<Evidence("e", Blank, "here", "Unclassified")>>]

\* r2 meets the same framework and evidence with other values, and one
\* evidence id more.
First2 ==
  [run_id |-> "r2", executed_at |-> "t2",
   frameworks |-> <<Framework("f", "v2")>>,
   controls   |-> <<Control("f", "ctl", "art7"), Control("f", "ctl", "art8")>>,
   results    |-> <<Result("f", "k1", "WARNING", <<"e">>), Result("f", "k2", "SKIPPED", <<>>)>>,
   evidence   |-> <<Evidence("e", "d2", "there", "Unclassified")>>]

\* A rewrite of r2 that meets e without a digest, and e2 three times, with and
\* without one.
Rewrite2 ==
  [run_id |-> "r2", executed_at |-> "t2", frameworks |-> <<>>, controls |-> <<>>,
   results    |-> <<Result(Blank, "k1", "FAIL", <<>>)>>,
   evidence   |-> <<Evidence("e", Blank, "there", "Unclassified"),
                    Evidence("e2", Blank, "", "Unclassified"),
                    Evidence("e2", "d3", "there", "Sensitive"),
                    Evidence("e2", Blank, "here", "Unclassified")>>]

NoRunId     == [EmptyCorpus EXCEPT !.executed_at = "t1"]
NoFramework == [Rewrite1 EXCEPT !.frameworks = <<>>]

MCCorpora == {First1, Rewrite1, First2, Rewrite2, NoRunId, NoFramework}

\* The same rule of the same control reported twice in one corpus.
Twice ==
  [First1 EXCEPT !.results = <<Result("f", "k1", "FAIL", <<"e">>),
                               Result("f", "k1", "PASS", <<"e">>)>>]

MCCorporaWithTwice == {First1, Twice, First2}

MCNoLegacyGaps == {}

MCLegacyGaps ==
  {[run_id |-> Blank, framework_id |-> "f", control_id |-> "ctl", rule_id |-> k,
    status |-> "FAIL"] : k \in {"k1"}}

=============================================================================
