---------------------------- MODULE SystemScanner ----------------------------
(***************************************************************************)
(* The system scanner (src/src/scanners/system.rs): what it keeps of the   *)
(* host, the evidence it records and its answer to each of its rules.      *)
(* Evaluation is a pure function of the snapshot and the policy.           *)
(***************************************************************************)
EXTENDS Evaluations

OsEolRule            == "host.os.eol"
OsUndeterminedRule   == "host.os.support-undetermined"
PackageInventoryRule == "host.packages.inventory"
ServicesRule         == "host.services.no-superfluous"
SystemRules == {OsEolRule, OsUndeterminedRule, PackageInventoryRule, ServicesRule}

OsReleaseId        == Id("host.os-release")
PackageInventoryId == Id("host.package-inventory")

NoVersion == "no VERSION_ID"
NoManager == "none"

\* os-release is unreadable, or has a distro id (Blank without an ID line) and
\* a version (NoVersion without a VERSION_ID line).
Unreadable == [readable |-> FALSE, id |-> "", version |-> NoVersion]

(***************************************************************************)
(* The package manager.  With both present the distro decides, else the    *)
(* first one found.                                                        *)
(***************************************************************************)
SelectFrom(managers, osId) ==
  CASE managers = <<>>                                  -> NoManager
    [] Len(managers) = 1                                -> managers[1]
    [] Len(managers) > 1 /\ osId \in {"ubuntu", "debian"} -> "dpkg"
    [] Len(managers) > 1 /\ osId \in {"rhel", "fedora"}   -> "rpm"
    [] OTHER                                            -> managers[1]

SelectManager(s) == SelectFrom(s.managers, s.os.id)

SystemEvidence(s) ==
  (IF s.os.readable THEN {OsReleaseId} ELSE {})
    \cup IF SelectManager(s) # NoManager THEN {PackageInventoryId} ELSE {}

(***************************************************************************)
(* Rules.  The support table is a list of [os, version, status]; the first *)
(* entry for a release counts.  A service name is a base name with or      *)
(* without the unit suffix, which comparisons ignore.                      *)
(***************************************************************************)
SupportStatus(policy, os) ==
  FirstWhere(policy.support,
             LAMBDA e : e.os = os.id /\ e.version = os.version,
             [os |-> os.id, version |-> os.version, status |-> "unknown"]).status

OsVersionKnown(s) == s.os.readable /\ s.os.id # "" /\ s.os.version # NoVersion

EvaluateOsEol(s, policy) ==
  LET status == SupportStatus(policy, s.os)
  IN  CASE ~OsVersionKnown(s)                              -> Failure
        [] OsVersionKnown(s) /\ status = "end of support" -> Finding({OsReleaseId})
        [] OsVersionKnown(s) /\ status = "supported"      -> Satisfied({OsReleaseId})
        [] OsVersionKnown(s) /\ status = "unknown"        -> NotApplicable

EvaluateOsUndetermined(s, policy) ==
  CASE ~OsVersionKnown(s) -> Failure
    [] OsVersionKnown(s) /\ SupportStatus(policy, s.os) = "unknown" -> Finding({OsReleaseId})
    [] OsVersionKnown(s) /\ SupportStatus(policy, s.os) # "unknown" -> Satisfied({})

\* Only the manager is asked for: a listing that failed (inventory FALSE) is
\* recorded as an empty one and the rule passes all the same.
EvaluatePackages(s) ==
  IF SelectManager(s) = NoManager THEN Failure ELSE Satisfied({PackageInventoryId})

Interdicts(policy, name) == \E n \in policy.interdicted : n.base = name.base

EvaluateServices(s, policy) ==
  CASE ~s.services.present -> NotApplicable
    [] s.services.present /\ \E v \in s.services.running :
                               v.active /\ Interdicts(policy, v.name) -> Finding({})
    [] OTHER -> Satisfied({})

EvaluateSystem(s, policy, rule) ==
  CASE rule = OsEolRule            -> EvaluateOsEol(s, policy)
    [] rule = OsUndeterminedRule   -> EvaluateOsUndetermined(s, policy)
    [] rule = PackageInventoryRule -> EvaluatePackages(s)
    [] rule = ServicesRule         -> EvaluateServices(s, policy)
    [] OTHER                       -> Failure

=============================================================================
