------------------------------ MODULE Scanners ------------------------------
(***************************************************************************)
(* One scanner at work: it acquires its snapshot probe by probe from a     *)
(* host that other processes change meanwhile (SystemSnapshot::acquire,    *)
(* UserSnapshot::acquire, DockerSnapshot::acquire, SshSnapshot::acquire),  *)
(* or is handed a snapshot by its builder, and then answers its rules      *)
(* without looking at the host again.                                      *)
(*                                                                         *)
(* The host is external: a record of what each probe of the scanner would  *)
(* see.  `found` is what the probes made so far have seen.                 *)
(***************************************************************************)
EXTENDS SystemScanner, UserScanner, DockerScanner, SshScanner

CONSTANTS
  Hosts,      \* scanner -> the host states it may run on
  Fixtures,   \* scanner -> the snapshots its builder may hand over
  Policies,   \* scanner -> its policy
  MaxChanges  \* bound: how often the host changes during one acquisition

ASSUME MaxChangesAssumption == MaxChanges \in Nat

\* A support table lists releases that are in or out of support; a release it
\* does not list is unknown.
ASSUME SupportAssumption ==
  Policies["system"].support \in
    Seq([os : STRING, version : STRING, status : {"supported", "end of support"}])

\* The SSH configuration is text, so its directives come in lists.
ASSUME DirectivesAssumption ==
  \A h \in Hosts["ssh"] : \A lines \in {h.dump.lines, h.base.lines, h.dropIns.lines} :
    lines \in Seq(Elements(lines))

\* The Docker builder reads the configuration from daemon.json if there is one.
ASSUME FixturesAssumption ==
  \A s \in Fixtures["docker"] : s.origin = "daemon.json" => s.daemon_json = "present"

VARIABLES
  scanner,    \* the scanner that runs
  host,       \* the host as it is now
  probe,      \* the next probe, or where the scanner is after the last one
  found,      \* what the probes have seen
  snapshot,   \* the snapshot, once there is one
  results,    \* rule -> evaluation, once evaluated
  witnessed   \* history: the states the host was in during the acquisition

vars == <<scanner, host, probe, found, snapshot, results, witnessed>>

Names      == {"system", "user", "docker", "ssh"}
FirstProbe == [system |-> "hostname", user |-> "passwd", docker |-> "docker info",
               ssh |-> "sshd -T"]
Probes     == {"hostname", "os-release", "packages", "services", "passwd", "shadow",
               "docker info", "daemon.json", "docker present", "sshd -T", "sshd_config",
               "drop-ins", "sshd present"}
Nothing    == [nothing |-> TRUE]
NoResults  == <<>>

RulesOf == [system |-> SystemRules, user |-> UserRules, docker |-> DockerRules,
            ssh |-> SshRules]

\* A rule the catalog sends to a scanner that does not know it.
ForeignRule == "other.rule"

Init ==
  /\ scanner \in Names
  /\ host \in Hosts[scanner]
  /\ probe = FirstProbe[scanner]
  /\ found = <<>>
  /\ snapshot = Nothing
  /\ results = NoResults
  /\ witnessed = {host}

-----------------------------------------------------------------------------
(***************************************************************************)
(* Acquisition.                                                            *)
(***************************************************************************)

HostChanges ==
  /\ probe \in Probes \ {FirstProbe[scanner]}
  /\ Cardinality(witnessed) <= MaxChanges
  /\ host' \in Hosts[scanner] \ {host}
  /\ witnessed' = witnessed \cup {host'}
  /\ UNCHANGED <<scanner, probe, found, snapshot, results>>

\* A probe sees the host as it is and the next one follows.
Read(seen, next) ==
  /\ found' = [p \in DOMAIN found \cup {probe} |-> IF p = probe THEN seen ELSE found[p]]
  /\ probe' = next
  /\ UNCHANGED <<scanner, host, snapshot, results, witnessed>>

\* The last probe completes the snapshot.
Complete(acquired) ==
  /\ snapshot' = acquired
  /\ probe' = "acquired"
  /\ UNCHANGED <<scanner, host, found, results, witnessed>>

\* A host name or account base that cannot be read ends the acquisition.
Abort ==
  /\ \/ probe = "hostname" /\ host.hostname = "unreadable"
     \/ probe = "passwd" /\ ~host.passwd.readable
  /\ probe' = "aborted"
  /\ UNCHANGED <<scanner, host, found, snapshot, results, witnessed>>

ReadHostname ==
  probe = "hostname" /\ host.hostname # "unreadable" /\ Read(host.hostname, "os-release")

ReadOsRelease == probe = "os-release" /\ Read(host.os, "packages")

\* The selected manager lists the packages; a listing that fails is none, and
\* the manager is there all the same.
ProbePackages ==
  /\ probe = "packages"
  /\ Read([managers  |-> host.managers,
           inventory |-> SelectFrom(host.managers, found["os-release"].id) \in host.inventories],
          "services")

\* Without systemd there is no service manager; a listing that fails is empty.
ProbeServices ==
  /\ probe = "services"
  /\ Complete([os |-> found["os-release"], managers |-> found["packages"].managers,
               inventory |-> found["packages"].inventory,
               services |-> [present |-> host.systemd,
                             running |-> IF host.systemd /\ host.listed THEN host.running ELSE {}]])

ReadPasswd ==
  probe = "passwd" /\ host.passwd.readable /\ Read(host.passwd.lines, "shadow")

ReadShadow == probe = "shadow" /\ Complete(ParsedSnapshot(found["passwd"], host.shadow))

\* A daemon that answers is asked nothing more, its daemon.json is read next.
ProbeDaemon ==
  /\ probe = "docker info"
  /\ \/ host.info = "ok" /\ Read(host.version, "daemon.json")
     \/ host.info = "down" /\ Read(NoServerVersion, "docker present")
     \/ host.info = "denied" /\ Complete(Unassessed("unreachable"))

ReadDaemonJson ==
  /\ probe = "daemon.json"
  /\ Complete(BuiltSnapshot("reachable", found["docker info"], host.json, host.config,
                            EmptyConfig, TRUE))

ProbeDocker ==
  /\ probe = "docker present"
  /\ Complete(Unassessed(IF host.present THEN "unreachable" ELSE "absent"))

RunSshd ==
  /\ probe = "sshd -T"
  /\ IF host.dump.ok THEN Complete(SshSnapshot("effective dump", host.dump.lines, FALSE))
                     ELSE Read(FALSE, "sshd_config")

ReadSshdConfig ==
  /\ probe = "sshd_config"
  /\ Read(host.base, IF host.base.readable THEN "drop-ins" ELSE "sshd present")

ReadDropIns ==
  /\ probe = "drop-ins"
  /\ LET base == found["sshd_config"]
     IN  Complete(SshSnapshot("parsed fallback", Merged(base, host.dropIns),
                              Unresolved(base, host.dropIns)))

ProbeSshd ==
  /\ probe = "sshd present"
  /\ Complete(SshSnapshot(IF host.present THEN "unassessable" ELSE "absent", NoDirectives, FALSE))

\* A caller hands the scanner a snapshot of its own making.
Inject ==
  /\ probe = FirstProbe[scanner]
  /\ snapshot' \in Fixtures[scanner]
  /\ probe' = "injected"
  /\ UNCHANGED <<scanner, host, found, results, witnessed>>

-----------------------------------------------------------------------------
(***************************************************************************)
(* Evaluation.                                                             *)
(***************************************************************************)
Evaluation(rule) ==
  CASE scanner = "system" -> EvaluateSystem(snapshot, Policies["system"], rule)
    [] scanner = "user"   -> EvaluateUser(snapshot, Policies["user"], rule)
    [] scanner = "docker" -> EvaluateDocker(snapshot, Policies["docker"], rule)
    [] scanner = "ssh"    -> EvaluateSsh(snapshot, Policies["ssh"], rule)

EvidenceLog ==
  CASE scanner = "system" -> SystemEvidence(snapshot)
    [] scanner = "user"   -> UserEvidence(snapshot)
    [] scanner = "docker" -> DockerEvidence(snapshot)
    [] scanner = "ssh"    -> SshEvidence(snapshot)

Evaluate ==
  /\ probe \in {"acquired", "injected"}
  /\ results = NoResults
  /\ results' = [rule \in RulesOf[scanner] \cup {ForeignRule} |-> Evaluation(rule)]
  /\ UNCHANGED <<scanner, host, probe, found, snapshot, witnessed>>

\* The next scan starts from whatever the host has become.
Restart ==
  /\ results # NoResults \/ probe = "aborted"
  /\ probe' = FirstProbe[scanner]
  /\ found' = <<>>
  /\ snapshot' = Nothing
  /\ results' = NoResults
  /\ witnessed' = {host}
  /\ UNCHANGED <<scanner, host>>

Next ==
  \/ HostChanges
  \/ Abort
  \/ ReadHostname \/ ReadOsRelease \/ ProbePackages \/ ProbeServices
  \/ ReadPasswd \/ ReadShadow
  \/ ProbeDaemon \/ ReadDaemonJson \/ ProbeDocker
  \/ RunSshd \/ ReadSshdConfig \/ ReadDropIns \/ ProbeSshd
  \/ Inject
  \/ Evaluate
  \/ Restart

Spec == Init /\ [][Next]_vars

-----------------------------------------------------------------------------
(***************************************************************************)
(* Properties.                                                             *)
(***************************************************************************)
Evaluated == results # NoResults

\* A verdict can be traced: every evidence id an evaluation cites is in the
\* scanner's log, whatever mixture of sources the acquisition ended with, so a
\* persisted result never names evidence that was not collected.
CitedEvidenceIsLogged ==
  Evaluated => \A rule \in DOMAIN results : results[rule].refs \subseteq EvidenceLog

(***************************************************************************)
(* What a rule may pass on, told from the host and not from the snapshot.  *)
(*                                                                         *)
(* The code passes four rules on less, which is why no more is asked here: *)
(*   - the inventory rule when the manager is there and its listing failed *)
(*     (system.rs:538), the services rule likewise (system.rs:700);        *)
(*   - the dormant-account rule without shadow                             *)
(*     (ShadowRulesErrorWithoutShadow below);                              *)
(*   - the crypto and protocol rules when a drop-in includes another file, *)
(*     which nothing looks for: ssh.rs:616 searches the base file, and     *)
(*     ReadInFull is silent about dropIns.includes.                        *)
(* The path from the host reads no last login, no expiry and no grant of   *)
(* privileges by design, so the rules about them see none.                 *)
(***************************************************************************)
SetsTo(lines, name, Ok(_)) == \E i \in DOMAIN lines : lines[i].name = name /\ Ok(lines[i].value)

Says(h, name, Ok(_)) ==
  \/ h.dump.ok /\ SetsTo(h.dump.lines, name, Ok)
  \/ h.base.readable /\ SetsTo(h.base.lines, name, Ok)
  \/ h.dropIns.readable /\ SetsTo(h.dropIns.lines, name, Ok)

ReadInFull(dropIns) == dropIns.readable /\ ~dropIns.unreadableFile

\* sshd told its configuration, or the base file could be read, includes no file
\* but the drop-ins, and these were readable to the last, if in a later state.
FullyRead(h) ==
  \/ h.dump.ok
  \/ /\ h.base.readable /\ "elsewhere" \notin h.base.includes
     /\ "drop-ins" \in h.base.includes => \E g \in witnessed : ReadInFull(g.dropIns)

KeyOnlyLogins == {"prohibit-password", "without-password", "forced-commands-only"}

Grounds(rule, h) ==
  CASE rule \in {OsEolRule, OsUndeterminedRule} ->
         h.os.readable /\ \E e \in Elements(Policies["system"].support) :
                            e.os = h.os.id /\ e.version = h.os.version
    [] rule = PackageInventoryRule   -> h.managers # <<>>
    [] rule = ServicesRule           -> h.systemd
    [] rule \in {InventoryRule, SingleRootRule, PrivilegedExpectedRule, DormantAccountRule} ->
         h.passwd.readable
    [] rule = NoEmptyPasswordRule    -> h.shadow.readable
    [] rule \in {VersionEolRule, VersionObsoleteRule} -> h.info = "ok" /\ h.version # NoServerVersion
    [] rule \in {InsecureRegistriesRule, TcpSocketTlsRule, DaemonHardeningRule} ->
         h.json = "present"
    [] rule = PermitRootLoginRule    -> Says(h, "permitrootlogin", LAMBDA v : v # "yes")
    [] rule = RootLoginKeyOnlyRule   -> Says(h, "permitrootlogin", LAMBDA v : v \notin KeyOnlyLogins)
    [] rule = PasswordAuthRule       -> Says(h, "passwordauthentication", LAMBDA v : v # "yes")
    [] rule \in {WeakCryptoRule, ProtocolV1Rule} -> FullyRead(h)

\* No false pass: after any interleaving of probes and host changes, a rule
\* passes only if the host, in some state it was in during the acquisition, let
\* the scanner read what the rule is about, and never by default: an absent
\* daemon, an unreadable file, a missing directive, an include of the base file
\* or a drop-in that was not read answers ERROR or SKIPPED.  What the code passes
\* on less is listed above.
PassesAreGrounded ==
  Evaluated /\ probe = "acquired" =>
    \A rule \in RulesOf[scanner] :
      results[rule].kind = "satisfied" => \E h \in witnessed : Grounds(rule, h)

\* The pairs of rules that share one question.
SplitPairs ==
  {<<OsEolRule, OsUndeterminedRule>>, <<PermitRootLoginRule, RootLoginKeyOnlyRule>>,
   <<VersionEolRule, VersionObsoleteRule>>}

IsFinding(rule) == results[rule].kind = "finding"

\* The first entry of the support table for a release calls it supported.
IsSupported(os) ==
  LET table      == Policies["system"].support
      Matches(i) == table[i].os = os.id /\ table[i].version = os.version
  IN  \E i \in DOMAIN table : /\ Matches(i) /\ table[i].status = "supported"
                              /\ \A j \in DOMAIN table : Matches(j) => i <= j

\* A release that is known is reported by one of its rules unless it is
\* supported: end of support and not in the table are findings.
ReleaseIsReported ==
  scanner = "system" /\ snapshot.os.readable /\ snapshot.os.id # "" /\ snapshot.os.version # NoVersion =>
    (IsFinding(OsEolRule) \/ IsFinding(OsUndeterminedRule) <=> ~IsSupported(snapshot.os))

\* A version that is known is reported by one of its rules if it lies before
\* the supported or before the recommended one.
VersionIsReported ==
  scanner = "docker" /\ snapshot.daemon = "reachable" /\ snapshot.version # NoServerVersion =>
    (IsFinding(VersionEolRule) \/ IsFinding(VersionObsoleteRule) <=>
       \/ VersionBefore(snapshot.version, Policies["docker"].min_supported)
       \/ VersionBefore(snapshot.version, Policies["docker"].min_recommended))

\* Each value that lets root in is reported by one of the two rules; "no" and
\* values that sshd does not know are reported by neither.
RootLoginIsReported ==
  scanner = "ssh" /\ snapshot.source \in {"effective dump", "parsed fallback"}
    /\ Configured(snapshot, "permitrootlogin") =>
      (IsFinding(PermitRootLoginRule) \/ IsFinding(RootLoginKeyOnlyRule) <=>
         Directive(snapshot, "permitrootlogin") \in {"yes"} \cup KeyOnlyLogins)

\* A question split into two rules is answered once: an unsupported release, a
\* root login, an old daemon is never both findings, the two rules fail together,
\* and when the value is known and not clean exactly one of them says so.
SplitRulesAgree ==
  Evaluated =>
    /\ \A pair \in {p \in SplitPairs : p[1] \in DOMAIN results} :
         /\ ~(IsFinding(pair[1]) /\ IsFinding(pair[2]))
         /\ results[pair[1]].kind = "failure" <=> results[pair[2]].kind = "failure"
    /\ ReleaseIsReported /\ VersionIsReported /\ RootLoginIsReported

\* The builder's documentation: with an unreadable shadow the rules that depend
\* on shadow error.
ShadowRulesErrorWithoutShadow ==
  Evaluated /\ scanner = "user" /\ ~snapshot.shadow_readable =>
    \A rule \in {NoEmptyPasswordRule, DormantAccountRule} : results[rule].kind = "failure"

=============================================================================
