---------------------------- MODULE MCMigrations ----------------------------
(***************************************************************************)
(* Two processes open one of nine files: none yet, the shapes that         *)
(* versions 1, 4, 5 and 7 left behind with rows the backfills act on, and  *)
(* files that open refuses.  The texts of their ids hold colons, look like  *)
(* lengths, have more than nine bytes or a character of two.               *)
(***************************************************************************)
EXTENDS Migrations, TLC

NoFile ==
  [version |-> 0, ledger |-> {}, columns |-> {}, runs |-> {}, frameworks |-> {},
   controls |-> {}, evidence |-> {}, results |-> {}, gaps |-> {}, links |-> {},
   framework_links |-> {}, control_links |-> {}, scores |-> {}, scores_not_null |-> FALSE]

\* "u" stands for a character of two bytes.
MCWidth == [c \in {"a", "b", "+", ":"} \cup ToSet(Digit) |-> 1] @@ ("u" :> 2)

MCSpelling ==
  (Blank :> <<>>) @@ ("r1" :> [n \in 1..11 |-> "a"]) @@ ("r2" :> <<"a", ":">>) @@ ("new" :> <<"a">>)
    @@ ("f" :> <<":", "a">>) @@ ("g" :> <<"u", "b">>) @@ ("c" :> <<"1", ":", "a">>)
    @@ ("k" :> <<"1", ":", "a", ":", "b">>) @@ ("l" :> <<"+", "1">>)

MCIdentities ==
  [run_id : {"r1", "r2", "new"}, framework_id : {Blank, "f", "g"}, control_id : {"c"},
   rule_id : {"k", "l"}]

Id(run, f, rule) ==
  RowIdOf([run_id |-> run, framework_id |-> f, control_id |-> "c", rule_id |-> rule])

ResultOf(id, run, control, rule, status, e) ==
  [id |-> id, run_id |-> run, control_id |-> control, rule_id |-> rule,
   status |-> status, evidence_id |-> e, framework_id |-> Blank]

Bare(id) == ResultOf(id, Blank, Blank, Blank, Blank, Blank)

Gap(id, run, status) ==
  [id |-> id, run_id |-> run, control_id |-> "c", rule_id |-> "k", status |-> status]

\* A score row of a table whose columns were added later, and a complete one.
LegacyScore == [id |-> <<"legacy">>, run_id |-> Blank, framework_id |-> Blank, counts |-> <<>>]
Score(run, f, counts) ==
  [id |-> <<run, f>>, run_id |-> run, framework_id |-> f, counts |-> counts]

V1Columns ==
  ScoreId \cup EvidenceBase \cup EvidenceOwner \cup ResultId \cup GapId \cup RunId \cup FrameworkCols
    \cup ControlCols

\* Version 1: evidence names its run, results and gaps are bare ids: whole ones,
\* one of a result without a control, and ids cut at every place.
Version1 ==
  [NoFile EXCEPT
     !.version = 1, !.ledger = {1}, !.columns = V1Columns,
     !.runs = {"r1", "r2"}, !.frameworks = {"f"}, !.controls = {"c"},
     !.scores = {LegacyScore},
     !.evidence = {[id |-> "e", run_id |-> "r1", digest |-> "d1"]},
     !.results = {Bare(Id("r1", "f", "k")), Bare(Id("r1", "g", "l")), Bare(Id("r2", Blank, "k"))}
                   \cup {Bare(ControlResultRowId(Spelling["r1"], <<>>, <<>>, <<>>))}
                   \cup {Bare(cut) : cut \in Prefixes(Id("r2", "g", "k"))}]

\* Version 4: two runs, results without run or status, gaps that know both,
\* and a score table that was never filled.
Version4 ==
  [NoFile EXCEPT
     !.version = 4, !.ledger = 1 .. 4,
     !.columns = ScoreId \cup EvidenceBase \cup Locator \cup ResultId \cup ResultSubject \cup GapId
                   \cup GapFilters \cup RunId \cup FrameworkCols \cup ControlCols,
     !.runs = {"r1", "r2"}, !.frameworks = {"f", "g"}, !.controls = {"c"},
     !.evidence = {[id |-> "e", run_id |-> Blank, digest |-> "d1"],
                   [id |-> "unused", run_id |-> Blank, digest |-> "d2"]},
     !.results = {ResultOf(Id("r1", "f", "k"), Blank, "c", "k", Blank, "e"),
                  ResultOf(Id("r2", "g", "k"), Blank, "c", "k", Blank, Blank)},
     !.gaps = {Gap(1, "r1", "FAIL"), Gap(2, "r1", "WARNING")}]

\* Version 5: one run and no evidence links yet; the score columns were added
\* but one row not completed, one is.
Version5 ==
  [Version4 EXCEPT
     !.version = 5, !.ledger = 1 .. 5, !.columns = @ \cup ResultRun \cup ScoreColumns,
     !.scores = {Score("r1", "f", <<>>), Score("gone", "f", <<0, 1, 0>>)},
     !.runs = {"r1"},
     !.results = {ResultOf(Id("r1", "f", "k"), "r1", "c", "k", "FAIL", "e")}]

\* Version 7: links without a snapshot, no catalogue per run.
Version7 ==
  [Version5 EXCEPT
     !.version = 7, !.ledger = 1 .. 7, !.columns = @ \cup Links \cup Class,
     !.scores = {Score("r1", "f", <<0, 1, 0>>)}, !.scores_not_null = TRUE,
     !.links = {[run_id |-> "r1", evidence_id |-> "e", digest |-> Blank]}]

\* Version 3 with a column missing, a version the ledger does not record, a
\* version number lost, a file of a later agent.
Damaged      == [Version4 EXCEPT !.version = 3, !.ledger = 1 .. 3,
                                 !.columns = (@ \ (Locator \cup GapFilters)) \cup GapRun]
Unrecorded   == [Version1 EXCEPT !.version = 2,
                                 !.columns = RunId \cup EvidenceBase \cup FrameworkCols]
Unversioned  == [NoFile EXCEPT !.ledger = {1}, !.columns = CurrentColumns \cup ScoreId \cup ScoreColumns,
                                 !.scores_not_null = TRUE]
Newer        == [Version7 EXCEPT !.version = 9, !.ledger = 1 .. 9]

MCOrigins == {NoFile, Version1, Version4, Version5, Version7, Damaged, Unrecorded,
              Unversioned, Newer}

MCNewRun == [o \in Opener |-> "new"]

=============================================================================
