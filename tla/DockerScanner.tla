---------------------------- MODULE DockerScanner ----------------------------
(***************************************************************************)
(* The Docker scanner (src/src/scanners/docker.rs).  The text of           *)
(* daemon.json is missing, malformed or a configuration: the JSON reader   *)
(* is modelled by that distinction.                                        *)
(***************************************************************************)
EXTENDS Evaluations

VersionEolRule         == "container.docker.daemon-version-eol"
VersionObsoleteRule    == "container.docker.daemon-version-obsolete"
InsecureRegistriesRule == "container.docker.insecure-registries"
TcpSocketTlsRule       == "container.docker.tcp-socket-tls"
DaemonHardeningRule    == "container.docker.daemon-hardening"
DockerRules == {VersionEolRule, VersionObsoleteRule, InsecureRegistriesRule, TcpSocketTlsRule,
                DaemonHardeningRule}

EffectiveInfoId == Id("container.docker.effective-info")
DaemonJsonId    == Id("container.docker.daemon-json")
LogOptId(key)   == NamedId("container.docker.log-opt", key)

NoServerVersion == <<>>

\* A configuration: insecure registries, socket bindings by scheme, mutual
\* TLS, the options at their hardened value, the log-opts keys that name a
\* credential.
NoConfig == [known |-> FALSE, registries |-> {}, hosts |-> {}, tlsverify |-> FALSE,
             hardened |-> {}, secret_log_opts |-> {}]

EmptyConfig == [NoConfig EXCEPT !.known = TRUE]

(***************************************************************************)
(* DockerSnapshotBuilder::build.  `json` is the state of daemon.json;      *)
(* without a parsed one the effective flags count, unless they are marked  *)
(* unconfirmable.                                                          *)
(***************************************************************************)
BuiltSnapshot(daemon, server, json, parsed, info, unconfirmable) ==
  [daemon |-> daemon, version |-> server, daemon_json |-> json,
   origin |-> IF json = "present" THEN "daemon.json" ELSE "docker info",
   config |-> CASE json = "present"                    -> parsed
                [] json # "present" /\ unconfirmable  -> NoConfig
                [] json # "present" /\ ~unconfirmable -> info]

\* A daemon that did not answer leaves nothing but that fact.
Unassessed(daemon) ==
  BuiltSnapshot(daemon, NoServerVersion, "absent", NoConfig, EmptyConfig, FALSE)

DockerEvidence(s) ==
  IF s.daemon # "reachable" THEN {}
  ELSE {EffectiveInfoId} \cup
         IF s.daemon_json # "present" THEN {}
         ELSE {DaemonJsonId} \cup {LogOptId(k) : k \in s.config.secret_log_opts}

\* Not the code: every configuration is said to come from daemon.json.
ConfigRefToFile(s) == {DaemonJsonId}

ConfigRef(s) == IF s.origin = "daemon.json" THEN {DaemonJsonId} ELSE {EffectiveInfoId}

\* Versions are <<major, minor, patch>>, compared in that order.
VersionBefore(a, b) ==
  \/ a[1] < b[1]
  \/ a[1] = b[1] /\ a[2] < b[2]
  \/ a[1] = b[1] /\ a[2] = b[2] /\ a[3] < b[3]

VersionRule(s, isFinding) ==
  IF s.version = NoServerVersion THEN Failure
  ELSE IF isFinding THEN Finding({EffectiveInfoId}) ELSE Satisfied({EffectiveInfoId})

EvaluateVersionEol(s, policy) ==
  VersionRule(s, VersionBefore(s.version, policy.min_supported))

EvaluateVersionObsolete(s, policy) ==
  VersionRule(s, /\ ~VersionBefore(s.version, policy.min_supported)
                 /\ VersionBefore(s.version, policy.min_recommended))

ConfigRule(s, isFinding) ==
  IF ~s.config.known THEN Failure
  ELSE IF isFinding THEN Finding(ConfigRef(s)) ELSE Satisfied(ConfigRef(s))

EvaluateInsecureRegistries(s) == ConfigRule(s, s.config.registries # {})
EvaluateSocket(s)             == ConfigRule(s, "tcp" \in s.config.hosts /\ ~s.config.tlsverify)
EvaluateHardening(s, policy)  == ConfigRule(s, ~ policy.hardening \subseteq s.config.hardened)

EvaluateReachable(s, policy, rule) ==
  CASE rule = VersionEolRule         -> EvaluateVersionEol(s, policy)
    [] rule = VersionObsoleteRule    -> EvaluateVersionObsolete(s, policy)
    [] rule = InsecureRegistriesRule -> EvaluateInsecureRegistries(s)
    [] rule = TcpSocketTlsRule       -> EvaluateSocket(s)
    [] rule = DaemonHardeningRule    -> EvaluateHardening(s, policy)
    [] OTHER                         -> Failure

\* The daemon is looked at before the rule is: without one nothing applies.
EvaluateDocker(s, policy, rule) ==
  IF s.daemon = "reachable" THEN EvaluateReachable(s, policy, rule) ELSE NotApplicable

=============================================================================
