----------------------------- MODULE SshScanner -----------------------------
(***************************************************************************)
(* The SSH scanner (src/src/scanners/ssh.rs).  A directive line is         *)
(* [name, value]; a crypto value is [modifier, algorithms].                *)
(***************************************************************************)
EXTENDS Evaluations

PermitRootLoginRule  == "host.ssh.permit-root-login"
RootLoginKeyOnlyRule == "host.ssh.root-login-key-only"
PasswordAuthRule     == "host.ssh.password-auth"
WeakCryptoRule       == "host.ssh.weak-crypto"
ProtocolV1Rule       == "host.ssh.protocol-v1"
SshRules == {PermitRootLoginRule, RootLoginKeyOnlyRule, PasswordAuthRule, WeakCryptoRule,
             ProtocolV1Rule}

EffectiveConfigId == Id("host.ssh.effective-config")
ConfigFileId      == Id("host.ssh.config-file")

CryptoDirectives == {"ciphers", "macs", "kexalgorithms"}

NoDirectives == <<>>

SshSnapshot(source, lines, unresolved) ==
  [source |-> source, lines |-> lines, unresolved_include |-> unresolved]

(***************************************************************************)
(* parse_directives inserts line after line into a map: the last line of a *)
(* name counts.                                                            *)
(***************************************************************************)
Configured(s, name) == \E i \in DOMAIN s.lines : s.lines[i].name = name

Directive(s, name) ==
  LET at == {i \in DOMAIN s.lines : s.lines[i].name = name}
  IN  s.lines[CHOOSE i \in at : \A j \in at : j <= i].value

(***************************************************************************)
(* read_config_with_drop_ins: the base file, then the readable *.conf      *)
(* files of the drop-in directory if the base includes it.  An include of  *)
(* anything else, or a file that cannot be read, is unresolved.  Includes  *)
(* inside the drop-ins (dropIns.includes) are not looked for.              *)
(***************************************************************************)
Merged(base, dropIns) ==
  IF "drop-ins" \in base.includes /\ dropIns.readable
    THEN base.lines \o dropIns.lines ELSE base.lines

\* Not the code: a drop-in directory that cannot be listed holds nothing.
UnresolvedUnlessListed(base, dropIns) ==
  \/ "elsewhere" \in base.includes
  \/ "drop-ins" \in base.includes /\ dropIns.readable /\ dropIns.unreadableFile

Unresolved(base, dropIns) ==
  \/ "elsewhere" \in base.includes
  \/ "drop-ins" \in base.includes /\ (~dropIns.readable \/ dropIns.unreadableFile)

SshEvidence(s) ==
  CASE s.source = "effective dump"               -> {EffectiveConfigId}
    [] s.source = "parsed fallback"              -> {ConfigFileId}
    [] s.source \in {"unassessable", "absent"}   -> {}

\* A directive that a rule needs and that is not there fails the rule, with or
\* without an unresolved include.
RequiringDirective(s, name, isFinding) ==
  IF ~Configured(s, name) THEN Failure
  ELSE IF isFinding THEN Finding(SshEvidence(s)) ELSE Satisfied(SshEvidence(s))

EvaluatePermitRootLogin(s) ==
  RequiringDirective(s, "permitrootlogin", Directive(s, "permitrootlogin") = "yes")

\* Not the code: the historical alias of prohibit-password is forgotten.
EvaluateKeyOnlyByName(s) ==
  RequiringDirective(s, "permitrootlogin",
    Directive(s, "permitrootlogin") \in {"prohibit-password", "forced-commands-only"})

EvaluateKeyOnly(s) ==
  RequiringDirective(s, "permitrootlogin",
    Directive(s, "permitrootlogin") \in
      {"prohibit-password", "without-password", "forced-commands-only"})

EvaluatePasswordAuth(s) ==
  RequiringDirective(s, "passwordauthentication", Directive(s, "passwordauthentication") = "yes")

\* A rule that passes without its directive cannot pass beside an include that
\* was not read.
UnlessHidden(s, isFinding) ==
  CASE isFinding                           -> Finding(SshEvidence(s))
    [] ~isFinding /\ s.unresolved_include  -> Failure
    [] ~isFinding /\ ~s.unresolved_include -> Satisfied(SshEvidence(s))

\* A list that starts with '-' only removes algorithms.
EnablesWeak(s, policy, name) ==
  /\ Configured(s, name)
  /\ Directive(s, name).modifier # "-"
  /\ Directive(s, name).algorithms \cap policy.weak[name] # {}

EvaluateWeakCrypto(s, policy) ==
  UnlessHidden(s, \E name \in CryptoDirectives : EnablesWeak(s, policy, name))

EvaluateProtocolV1(s) ==
  UnlessHidden(s, Configured(s, "protocol") /\ "1" \in Directive(s, "protocol"))

EvaluateConfigured(s, policy, rule) ==
  CASE rule = PermitRootLoginRule  -> EvaluatePermitRootLogin(s)
    [] rule = RootLoginKeyOnlyRule -> EvaluateKeyOnly(s)
    [] rule = PasswordAuthRule     -> EvaluatePasswordAuth(s)
    [] rule = WeakCryptoRule       -> EvaluateWeakCrypto(s, policy)
    [] rule = ProtocolV1Rule       -> EvaluateProtocolV1(s)
    [] OTHER                       -> Failure

\* The source is looked at before the rule is.
EvaluateSsh(s, policy, rule) ==
  IF s.source = "absent" THEN NotApplicable
  ELSE IF s.source = "unassessable" THEN Failure
  ELSE EvaluateConfigured(s, policy, rule)

=============================================================================
