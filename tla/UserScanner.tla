----------------------------- MODULE UserScanner -----------------------------
(***************************************************************************)
(* The user scanner (src/src/scanners/user.rs): accounts from passwd,      *)
(* their shadow entries when shadow was readable, and privilege grants.    *)
(***************************************************************************)
EXTENDS Evaluations

InventoryRule          == "host.account.inventory"
SingleRootRule         == "host.account.single-root"
NoEmptyPasswordRule    == "host.account.no-empty-password"
DormantAccountRule     == "host.account.dormant"
PrivilegedExpectedRule == "host.account.privileged-expected"
UserRules == {InventoryRule, SingleRootRule, NoEmptyPasswordRule, DormantAccountRule,
              PrivilegedExpectedRule}

AccountId(name)    == NamedId("host.account", name)
ShadowId(name)     == NamedId("host.shadow", name)
PrivilegedId(name) == NamedId("host.privileged", name)

\* A last login is a number of days ago, Never or Undetermined.
Never        == -1
Undetermined == -2

NoEntry == [present |-> FALSE, password |-> "none", last_login |-> Undetermined, expired |-> FALSE]

(***************************************************************************)
(* Parsing.  A passwd line is [name, uid, shell]; a shadow file is         *)
(* unreadable or a list of [name, field], the first line of a name counts. *)
(* The host path never knows last logins, expiry dates or group grants.    *)
(***************************************************************************)
PasswordState(field) ==
  CASE field = ""                -> "empty"
    [] field \in {"!", "*", "!!"} -> "locked"
    [] OTHER                     -> "hashed"

NoLine == [name |-> "", field |-> "absent"]

ParseAccount(line, shadow) ==
  LET entry == FirstWhere(shadow.lines, LAMBDA x : x.name = line.name, NoLine)
  IN  [name |-> line.name, uid |-> line.uid, shell |-> line.shell,
       shadow |-> IF ~shadow.readable \/ entry = NoLine
                    THEN NoEntry
                    ELSE [present |-> TRUE, password |-> PasswordState(entry.field),
                          last_login |-> Undetermined, expired |-> FALSE]]

ParsedSnapshot(passwd, shadow) ==
  [accounts        |-> [i \in DOMAIN passwd |-> ParseAccount(passwd[i], shadow)],
   shadow_readable |-> shadow.readable,
   grants          |-> <<>>]

(***************************************************************************)
(* Derived facts.                                                          *)
(***************************************************************************)
Accounts(s)             == {s.accounts[i] : i \in DOMAIN s.accounts}
HasLoginShell(account)  == account.shell # "nologin"

LockState(s, account) ==
  CASE ~s.shadow_readable                                            -> "undetermined"
    [] s.shadow_readable /\ account.shadow.password = "locked"       -> "locked"
    [] s.shadow_readable /\ account.shadow.password # "locked"       -> "unlocked"

\* A low uid takes precedence in the reason.
Classify(account) ==
  CASE account.uid < 1000                               -> "low uid"
    [] account.uid >= 1000 /\ ~HasLoginShell(account)   -> "non-login shell"
    [] account.uid >= 1000 /\ HasLoginShell(account)    -> "human"

\* account_inventory: is_active_human needs a lock state that is known.
ActiveHumans(s) ==
  {a.name : a \in {a \in Accounts(s) : Classify(a) = "human" /\ LockState(s, a) = "unlocked"}}

Privileged(s) ==
  {a.name : a \in {a \in Accounts(s) : a.uid = 0}}
    \cup {s.grants[i].name : i \in DOMAIN s.grants}

UserEvidence(s) ==
  {AccountId(a.name) : a \in Accounts(s)}
    \cup {ShadowId(a.name) : a \in {a \in Accounts(s) : a.shadow.present}}
    \cup {PrivilegedId(n) : n \in Privileged(s)}

RefsTo(accounts) == {AccountId(a.name) : a \in accounts}

FindingIfAny(accounts) == IF accounts = {} THEN Satisfied({}) ELSE Finding(RefsTo(accounts))

(***************************************************************************)
(* Rules.                                                                  *)
(***************************************************************************)
EvaluateSingleRoot(s) ==
  LET roots == {i \in DOMAIN s.accounts : s.accounts[i].uid = 0}
  IN  IF Cardinality(roots) <= 1 THEN Satisfied({})
      ELSE Finding({AccountId(s.accounts[i].name) : i \in roots})

EvaluateNoEmptyPassword(s) ==
  IF ~s.shadow_readable THEN Failure
  ELSE FindingIfAny({a \in Accounts(s) : HasLoginShell(a) /\ a.shadow.password = "empty"})

IsDormant(entry, policy) ==
  \/ entry.last_login > policy.inactivity_threshold_days
  \/ entry.last_login = Never
  \/ entry.expired

EvaluateDormant(s, policy) ==
  FindingIfAny({a \in Accounts(s) : /\ HasLoginShell(a) /\ LockState(s, a) = "unlocked"
                                   /\ a.shadow.present /\ IsDormant(a.shadow, policy)})

EvaluatePrivileged(s, policy) ==
  LET refs == {PrivilegedId(n) : n \in Privileged(s)}
  IN  IF Privileged(s) \subseteq policy.expected_privileged THEN Satisfied(refs) ELSE Finding(refs)

EvaluateUser(s, policy, rule) ==
  CASE rule = InventoryRule          -> Satisfied(RefsTo(Accounts(s)))
    [] rule = SingleRootRule         -> EvaluateSingleRoot(s)
    [] rule = NoEmptyPasswordRule    -> EvaluateNoEmptyPassword(s)
    [] rule = DormantAccountRule     -> EvaluateDormant(s, policy)
    [] rule = PrivilegedExpectedRule -> EvaluatePrivileged(s, policy)
    [] OTHER                         -> Failure

=============================================================================
