----------------------------- MODULE Evaluations -----------------------------
(***************************************************************************)
(* What a scanner answers for one rule, and the result the engine makes of *)
(* it.  The vocabulary is the SDK's (external); the scanners only choose   *)
(* among satisfied, finding, not applicable and an execution failure, and  *)
(* say which evidence they cite.                                           *)
(***************************************************************************)
EXTENDS Integers, Sequences, FiniteSets

Satisfied(refs) == [kind |-> "satisfied", refs |-> refs]
Finding(refs)   == [kind |-> "finding", refs |-> refs]
NotApplicable   == [kind |-> "not applicable", refs |-> {}]
Failure         == [kind |-> "failure", refs |-> {}]

Kinds == {"satisfied", "finding", "not applicable", "failure"}

\* The rule's result policy decides what a finding counts as.
StatusOf(evaluation, policy) ==
  CASE evaluation.kind = "satisfied"      -> "PASS"
    [] evaluation.kind = "finding"        -> policy
    [] evaluation.kind = "not applicable" -> "SKIPPED"
    [] evaluation.kind = "failure"        -> "ERROR"

\* Evidence ids: a fixed name, or a prefix and the account or key it is about.
Id(name)              == <<name, "">>
NamedId(prefix, name) == <<prefix, name>>

Elements(s) == {s[i] : i \in DOMAIN s}

\* The first element of a list that satisfies a test, or a default.
FirstWhere(s, Test(_), default) ==
  LET found == {i \in DOMAIN s : Test(s[i])}
  IN  IF found = {} THEN default ELSE s[CHOOSE i \in found : \A j \in found : i <= j]

=============================================================================
