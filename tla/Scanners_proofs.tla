--------------------------- MODULE Scanners_proofs ---------------------------
(***************************************************************************)
(* The verdicts of Scanners, for any hosts, builder snapshots and policies *)
(* and any number of changes during an acquisition.                        *)
(***************************************************************************)
EXTENDS Scanners, FiniteSetTheorems, SequenceTheorems, WellFoundedInduction, TLAPS

\* Any non-empty set of natural numbers has a least element.
LEMMA LeastElement ==
  ASSUME NEW S, S \subseteq Nat, S # {}
  PROVE  \E n \in S : \A m \in S : n <= m
<1>1. IsWellFoundedOn({ss \in Nat \X Nat : ss[1] < ss[2]}, Nat)
  BY NatLessThanWellFounded, Zenon DEF OpToRel
<1>2. PICK n \in S : \A m \in S : <<m, n>> \notin {ss \in Nat \X Nat : ss[1] < ss[2]}
  BY <1>1, WFMin
<1>3. \A m \in S : ~(m < n)
  BY <1>2
<1>. QED  BY <1>3

\* Of some places in a list one is the last.
LEMMA LastPlace ==
  ASSUME NEW n \in Nat, NEW S, S \subseteq 1 .. n, S # {}
  PROVE  \E i \in S : \A j \in S : j <= i
<1>. DEFINE distances == {n - i : i \in S}
<1>1. distances \subseteq Nat /\ distances # {}
  <2>1. PICK i \in S : TRUE
    OBVIOUS
  <2>2. n - i \in distances
    OBVIOUS
  <2>. QED  BY <2>2
<1>2. PICK d \in distances : \A e \in distances : d <= e
  <2>. HIDE DEF distances
  <2>. QED  BY <1>1, LeastElement
<1>3. PICK i \in S : d = n - i
  OBVIOUS
<1>4. ASSUME NEW j \in S
      PROVE  j <= i
  <2>1. d <= n - j
    BY <1>2
  <2>. QED  BY <1>3, <2>1
<1>. QED  BY <1>4

-----------------------------------------------------------------------------
(***************************************************************************)
(* The invariant.  Whatever the scanner keeps of a probe it made was so in *)
(* a state of the host during the acquisition; different probes may have   *)
(* met different states.                                                   *)
(***************************************************************************)
OsSeen       == "os-release" \in DOMAIN found /\ \E h \in witnessed : found["os-release"] = h.os
ManagersSeen == /\ "packages" \in DOMAIN found
                /\ \E h \in witnessed : found["packages"].managers = h.managers
PasswdSeen   == \E h \in witnessed : h.passwd.readable
VersionSeen  == /\ "docker info" \in DOMAIN found
                /\ \E h \in witnessed : h.info = "ok" /\ found["docker info"] = h.version
BaseSeen     == /\ "sshd_config" \in DOMAIN found
                /\ \E h \in witnessed : h.base.readable /\ found["sshd_config"] = h.base

ProbesInv ==
  /\ host \in witnessed /\ witnessed \subseteq Hosts[scanner]
  /\ probe \in {"hostname", "os-release", "packages", "services"} => scanner = "system"
  /\ probe \in {"passwd", "shadow"} => scanner = "user"
  /\ probe \in {"docker info", "daemon.json", "docker present"} => scanner = "docker"
  /\ probe \in {"sshd -T", "sshd_config", "drop-ins", "sshd present"} => scanner = "ssh"
  /\ probe \in {"packages", "services"} => OsSeen
  /\ probe = "services" => ManagersSeen
  /\ probe = "shadow" => PasswdSeen
  /\ probe = "daemon.json" => VersionSeen
  /\ probe = "drop-ins" => BaseSeen

SystemRead(s) ==
  /\ \E h \in witnessed : s.os = h.os
  /\ \E h \in witnessed : s.managers = h.managers
  /\ \E h \in witnessed : s.services.present = h.systemd

UserRead(s) ==
  /\ \E h \in witnessed : h.passwd.readable
  /\ \E h \in witnessed : s.shadow_readable = h.shadow.readable

DockerRead(s) ==
  s.daemon = "reachable" =>
    /\ \E h \in witnessed : h.info = "ok" /\ s.version = h.version
    /\ s.config.known => \E h \in witnessed : h.json = "present"

\* The lists of directives the scanner may read on a host.
Readable(h) ==
  {lines \in {h.dump.lines, h.base.lines, h.dropIns.lines} :
     \/ h.dump.ok /\ lines = h.dump.lines
     \/ h.base.readable /\ lines = h.base.lines
     \/ h.dropIns.readable /\ lines = h.dropIns.lines}

SshRead(s) ==
  s.source \notin {"absent", "unassessable"} =>
    /\ s.lines \in Seq(Elements(s.lines))
    /\ \A line \in Elements(s.lines) :
         \E h \in witnessed : \E lines \in Readable(h) : line \in Elements(lines)
    /\ ~s.unresolved_include => \E h \in witnessed : FullyRead(h)

SnapshotInv ==
  /\ probe = "acquired" =>
       /\ scanner = "system" => SystemRead(snapshot)
       /\ scanner = "user"   => UserRead(snapshot)
       /\ scanner = "docker" => DockerRead(snapshot)
       /\ scanner = "ssh"    => SshRead(snapshot)
  /\ probe \in {"acquired", "injected"} /\ scanner = "docker" =>
       (snapshot.origin = "daemon.json" => snapshot.daemon_json = "present")

ResultsInv ==
  results # NoResults =>
    /\ probe \in {"acquired", "injected"}
    /\ results = [rule \in RulesOf[scanner] \cup {ForeignRule} |-> Evaluation(rule)]

Inv == scanner \in Names /\ ProbesInv /\ SnapshotInv /\ ResultsInv

-----------------------------------------------------------------------------
(***************************************************************************)
(* The steps.                                                              *)
(***************************************************************************)
\* A probe adds what it saw and keeps the rest.
LEMMA NotedAtOnce ==
  ASSUME NEW seen, NEW next, Read(seen, next)
  PROVE  /\ probe \in DOMAIN found' /\ found'[probe] = seen
         /\ \A p \in DOMAIN found \ {probe} : p \in DOMAIN found' /\ found'[p] = found[p]
BY DEF Read

\* A change of the host takes back nothing that was witnessed.
LEMMA ChangesAreWitnessed ==
  ASSUME HostChanges
  PROVE  /\ host' \in witnessed' /\ witnessed \subseteq witnessed'
         /\ witnessed \subseteq Hosts[scanner] => witnessed' \subseteq Hosts[scanner]
BY DEF HostChanges

\* Each scanner starts with a probe of its own.
LEMMA FirstProbes ==
  ASSUME scanner \in Names
  PROVE  \/ scanner = "system" /\ FirstProbe[scanner] = "hostname"
         \/ scanner = "user" /\ FirstProbe[scanner] = "passwd"
         \/ scanner = "docker" /\ FirstProbe[scanner] = "docker info"
         \/ scanner = "ssh" /\ FirstProbe[scanner] = "sshd -T"
<1>1. /\ FirstProbe["system"] = "hostname" /\ FirstProbe["user"] = "passwd"
      /\ FirstProbe["docker"] = "docker info" /\ FirstProbe["ssh"] = "sshd -T"
  BY DEF FirstProbe
<1>. QED  BY <1>1 DEF Names

\* Every probe belongs to the scanner that runs and keeps what the host showed it
\* at that moment; later changes of the host do not take it back.
LEMMA ProbesStep ==
  ASSUME scanner \in Names, ProbesInv, [Next]_vars
  PROVE  scanner' \in Names /\ ProbesInv'
<1>. USE DEF ProbesInv
<1>1. CASE HostChanges
  <2>1. /\ host' \in witnessed' /\ witnessed \subseteq witnessed'
        /\ witnessed' \subseteq Hosts[scanner]
    BY <1>1, ChangesAreWitnessed
  <2>2. UNCHANGED <<scanner, probe, found, snapshot, results>>
    BY <1>1 DEF HostChanges
  <2>. QED  BY <2>1, <2>2 DEF OsSeen, ManagersSeen, PasswdSeen, VersionSeen, BaseSeen
<1>2. CASE ReadHostname \/ ReadOsRelease \/ ReadPasswd \/ ReadSshdConfig
  <2>1. PICK seen, next : Read(seen, next) /\ probe \in DOMAIN found' /\ found'[probe] = seen
    BY <1>2, NotedAtOnce DEF ReadHostname, ReadOsRelease, ReadPasswd, ReadSshdConfig
  <2>2. UNCHANGED <<scanner, host, snapshot, results, witnessed>> /\ probe' = next
    BY <2>1 DEF Read
  <2>3. CASE ReadHostname \/ ReadPasswd
    BY <2>2, <2>3 DEF ReadHostname, ReadPasswd, Read, PasswdSeen
  <2>4. CASE ReadOsRelease
    <3>1. found'["os-release"] = host.os /\ "os-release" \in DOMAIN found'
      BY <2>4 DEF ReadOsRelease, Read
    <3>. QED  BY <2>2, <2>4, <3>1 DEF ReadOsRelease, Read, OsSeen
  <2>5. CASE ReadSshdConfig
    <3>1. found'["sshd_config"] = host.base /\ "sshd_config" \in DOMAIN found'
      BY <2>5 DEF ReadSshdConfig, Read
    <3>. QED  BY <2>2, <2>5, <3>1 DEF ReadSshdConfig, Read, BaseSeen
  <2>. QED  BY <1>2, <2>3, <2>4, <2>5
<1>7. CASE ProbePackages
  <2>1. /\ found'["packages"].managers = host.managers /\ "packages" \in DOMAIN found'
        /\ found'["os-release"] = found["os-release"] /\ "os-release" \in DOMAIN found'
    BY <1>7 DEF ProbePackages, Read, OsSeen
  <2>. QED  BY <1>7, <2>1 DEF ProbePackages, Read, OsSeen, ManagersSeen
<1>8. CASE ProbeDaemon
  <2>1. CASE host.info = "ok" /\ Read(host.version, "daemon.json")
    <3>1. found'["docker info"] = host.version /\ "docker info" \in DOMAIN found'
      BY <1>8, <2>1 DEF ProbeDaemon, Read
    <3>. QED  BY <1>8, <2>1, <3>1 DEF ProbeDaemon, Read, VersionSeen
  <2>2. CASE Read(NoServerVersion, "docker present")
    BY <1>8, <2>2 DEF ProbeDaemon, Read
  <2>3. CASE Complete(Unassessed("unreachable"))
    BY <1>8, <2>3 DEF ProbeDaemon, Complete
  <2>. QED  BY <1>8, <2>1, <2>2, <2>3 DEF ProbeDaemon
<1>9. CASE RunSshd
  <2>1. CASE host.dump.ok
    <3>1. probe = "sshd -T" /\ Complete(SshSnapshot("effective dump", host.dump.lines, FALSE))
      BY <1>9, <2>1, Zenon DEF RunSshd
    <3>. QED  BY <3>1 DEF Complete
  <2>2. CASE ~host.dump.ok
    <3>1. probe = "sshd -T" /\ Read(FALSE, "sshd_config")
      BY <1>9, <2>2, Zenon DEF RunSshd
    <3>. QED  BY <3>1 DEF Read
  <2>. QED  BY <2>1, <2>2
<1>3. CASE ProbeServices \/ ReadShadow \/ ReadDaemonJson \/ ProbeDocker \/ ReadDropIns \/ ProbeSshd
  BY <1>3 DEF ProbeServices, ReadShadow, ReadDaemonJson, ProbeDocker, ReadDropIns, ProbeSshd, Complete
<1>4. CASE Abort \/ Inject
  BY <1>4 DEF Abort, Inject
<1>5. CASE Evaluate \/ UNCHANGED vars
  BY <1>5 DEF Evaluate, vars, OsSeen, ManagersSeen, PasswdSeen, VersionSeen, BaseSeen
<1>6. CASE Restart
  <2>1. \/ scanner = "system" /\ FirstProbe[scanner] = "hostname"
        \/ scanner = "user" /\ FirstProbe[scanner] = "passwd"
        \/ scanner = "docker" /\ FirstProbe[scanner] = "docker info"
        \/ scanner = "ssh" /\ FirstProbe[scanner] = "sshd -T"
    BY FirstProbes
  <2>2. /\ scanner' = scanner /\ host' = host /\ witnessed' = {host}
        /\ probe' = FirstProbe[scanner]
    BY <1>6 DEF Restart
  <2>3. probe' \notin {"packages", "services", "shadow", "daemon.json", "drop-ins"}
    BY <2>1, <2>2
  <2>4. host' \in witnessed' /\ witnessed' \subseteq Hosts[scanner'] /\ scanner' \in Names
    BY <2>2
  <2>5. /\ probe' \in {"hostname", "os-release", "packages", "services"} => scanner' = "system"
        /\ probe' \in {"passwd", "shadow"} => scanner' = "user"
        /\ probe' \in {"docker info", "daemon.json", "docker present"} => scanner' = "docker"
        /\ probe' \in {"sshd -T", "sshd_config", "drop-ins", "sshd present"} => scanner' = "ssh"
    BY <2>1, <2>2
  <2>. QED  BY <2>3, <2>4, <2>5
<1>. QED  BY <1>1, <1>2, <1>3, <1>4, <1>5, <1>6, <1>7, <1>8, <1>9 DEF Next

\* A list of elements of two lists is a list.
LEMMA ConcatElements ==
  ASSUME NEW s, s \in Seq(Elements(s)), NEW t, t \in Seq(Elements(t))
  PROVE  s \o t \in Seq(Elements(s \o t)) /\ Elements(s \o t) \subseteq Elements(s) \cup Elements(t)
<1>. DEFINE U == Elements(s) \cup Elements(t)
<1>1. s \in Seq(U) /\ t \in Seq(U)
  BY SeqMonotonic
<1>. HIDE DEF U
<1>2. /\ s \o t \in Seq(U)
      /\ Len(s \o t) = Len(s) + Len(t)
      /\ \A i \in 1 .. Len(s) + Len(t) :
           (s \o t)[i] = IF i <= Len(s) THEN s[i] ELSE t[i - Len(s)]
  BY <1>1, ConcatProperties
<1>3. PICK c : c = s \o t
  OBVIOUS
<1>4. Elements(c) \subseteq U
  BY <1>2, <1>3, ElementOfSeq, LenProperties DEF Elements
<1>5. c \in Seq(Elements(c))
  <2>1. Len(c) \in Nat /\ c \in [1 .. Len(c) -> U] /\ DOMAIN c = 1 .. Len(c)
    BY <1>2, <1>3, LenProperties
  <2>2. c \in [1 .. Len(c) -> Elements(c)]
    BY <2>1 DEF Elements
  <2>. QED  BY <2>1, <2>2, SeqDef
<1>. QED  BY <1>3, <1>4, <1>5 DEF U

-----------------------------------------------------------------------------
\* The snapshot of the system scanner is what three probes saw.
LEMMA SystemIsRead ==
  ASSUME ProbesInv, ProbeServices
  PROVE  scanner' = "system" /\ probe' = "acquired" /\ SystemRead(snapshot)'
BY DEF ProbesInv, ProbeServices, Complete, OsSeen, ManagersSeen, SystemRead

\* The user snapshot was parsed from a passwd and a shadow the host had.
LEMMA UserIsRead ==
  ASSUME ProbesInv, ReadShadow
  PROVE  scanner' = "user" /\ probe' = "acquired" /\ UserRead(snapshot)'
BY DEF ProbesInv, ReadShadow, Complete, PasswdSeen, ParsedSnapshot, UserRead

\* A daemon that answered showed its version; its configuration is known only if
\* daemon.json was there, and is cited as what it is.
LEMMA DockerIsRead ==
  ASSUME ProbesInv, ReadDaemonJson
  PROVE  /\ scanner' = "docker" /\ probe' = "acquired" /\ DockerRead(snapshot)'
         /\ snapshot'.origin = "daemon.json" => snapshot'.daemon_json = "present"
<1>1. /\ scanner' = "docker" /\ probe' = "acquired" /\ witnessed' = witnessed
      /\ snapshot' = BuiltSnapshot("reachable", found["docker info"], host.json, host.config,
                                   EmptyConfig, TRUE)
  BY DEF ProbesInv, ReadDaemonJson, Complete
<1>2. /\ snapshot'.version = found["docker info"]
      /\ snapshot'.origin = "daemon.json" => snapshot'.daemon_json = "present"
  BY <1>1 DEF BuiltSnapshot
<1>3. snapshot'.config.known => host.json = "present"
  BY <1>1 DEF BuiltSnapshot, NoConfig
<1>4. host \in witnessed /\ \E h \in witnessed : h.info = "ok" /\ found["docker info"] = h.version
  BY DEF ProbesInv, ReadDaemonJson, VersionSeen
<1>. QED  BY <1>1, <1>2, <1>3, <1>4 DEF DockerRead

\* A daemon that did not answer leaves a snapshot nothing is read from.
LEMMA DockerIsUnassessed ==
  ASSUME ProbesInv, ProbeDocker \/ ProbeDaemon, probe' = "acquired"
  PROVE  /\ scanner' = "docker" /\ DockerRead(snapshot)'
         /\ snapshot'.origin = "daemon.json" => snapshot'.daemon_json = "present"
<1>1. PICK daemon \in {"unreachable", "absent"} : Complete(Unassessed(daemon))
  BY DEF ProbeDocker, ProbeDaemon, Read
<1>2. snapshot'.daemon = daemon /\ snapshot'.origin = "docker info"
  BY <1>1 DEF Complete, Unassessed, BuiltSnapshot
<1>3. scanner' = "docker"
  BY <1>1 DEF ProbesInv, ProbeDocker, ProbeDaemon, Complete
<1>. QED  BY <1>2, <1>3 DEF DockerRead

\* The lists of an SSH host that the scanner reads.
LEMMA ListsOfAHost ==
  ASSUME NEW h \in Hosts["ssh"]
  PROVE  /\ h.dump.lines \in Seq(Elements(h.dump.lines))
         /\ h.base.lines \in Seq(Elements(h.base.lines))
         /\ h.dropIns.lines \in Seq(Elements(h.dropIns.lines))
BY DirectivesAssumption

\* A dump of sshd is read as a whole.
LEMMA SshDumpIsRead ==
  ASSUME ProbesInv, RunSshd, probe' = "acquired"
  PROVE  scanner' = "ssh" /\ SshRead(snapshot)'
<1>1. probe = "sshd -T" /\ scanner = "ssh" /\ host \in witnessed /\ host \in Hosts["ssh"]
  BY DEF ProbesInv, RunSshd
<1>2. host.dump.ok
  BY Zenon DEF RunSshd, Read
<1>3. Complete(SshSnapshot("effective dump", host.dump.lines, FALSE))
  BY <1>2, Zenon DEF RunSshd
<1>4. /\ scanner' = "ssh" /\ witnessed' = witnessed
      /\ snapshot'.lines = host.dump.lines /\ snapshot'.unresolved_include = FALSE
  BY <1>1, <1>3 DEF Complete, SshSnapshot
<1>5. host.dump.lines \in Seq(Elements(host.dump.lines))
  BY <1>1, ListsOfAHost
<1>6. host.dump.lines \in Readable(host) /\ FullyRead(host)
  BY <1>2 DEF Readable, FullyRead
<1>7. \E h \in witnessed' : FullyRead(h)'
  BY <1>1, <1>4, <1>6 DEF FullyRead
<1>8. \A line \in Elements(snapshot'.lines) :
        \E h \in witnessed' : \E lines \in Readable(h) : line \in Elements(lines)
  BY <1>1, <1>4, <1>6
<1>. QED  BY <1>4, <1>5, <1>7, <1>8 DEF SshRead

\* The fallback merges the base file with drop-ins that may be of a later state
\* of the host; every line comes from a list that could be read, and unless an
\* include is unresolved the base included nothing but drop-ins that were
\* readable to the last when they were listed.
LEMMA SshFallbackIsRead ==
  ASSUME ProbesInv, ReadDropIns
  PROVE  scanner' = "ssh" /\ SshRead(snapshot)'
<1>1. probe = "drop-ins" /\ scanner = "ssh" /\ host \in witnessed /\ host \in Hosts["ssh"] /\ BaseSeen
  BY DEF ProbesInv, ReadDropIns
<1>2. PICK h \in witnessed : h.base.readable /\ found["sshd_config"] = h.base
  BY <1>1 DEF BaseSeen
<1>3. h \in Hosts["ssh"]
  BY <1>1 DEF ProbesInv
<1>. DEFINE added == "drop-ins" \in h.base.includes /\ host.dropIns.readable
<1>4. PICK lines : lines = Merged(h.base, host.dropIns)
  OBVIOUS
<1>5. /\ scanner' = "ssh" /\ witnessed' = witnessed
      /\ snapshot'.lines = lines /\ snapshot'.unresolved_include = Unresolved(h.base, host.dropIns)
  BY <1>1, <1>2, <1>4 DEF ReadDropIns, Complete, SshSnapshot
<1>6. h.base.lines \in Readable(h)
  BY <1>2 DEF Readable
<1>7. /\ lines \in Seq(Elements(lines))
      /\ \A line \in Elements(lines) :
           \E g \in witnessed : \E list \in Readable(g) : line \in Elements(list)
  <2>1. CASE added
    <3>1. lines = h.base.lines \o host.dropIns.lines
      BY <1>4, <2>1 DEF Merged
    <3>2. host.dropIns.lines \in Readable(host)
      BY <2>1 DEF Readable
    <3>3. /\ lines \in Seq(Elements(lines))
          /\ Elements(lines) \subseteq Elements(h.base.lines) \cup Elements(host.dropIns.lines)
      BY <1>1, <1>3, <3>1, ListsOfAHost, ConcatElements
    <3>. QED  BY <1>1, <1>6, <3>2, <3>3
  <2>2. CASE ~added
    <3>1. lines = h.base.lines
      BY <1>4, <2>2 DEF Merged
    <3>. QED  BY <1>3, <1>6, <3>1, ListsOfAHost
  <2>. QED  BY <2>1, <2>2
<1>8. ~Unresolved(h.base, host.dropIns) => FullyRead(h)
  BY <1>1, <1>2 DEF Unresolved, FullyRead, ReadInFull
<1>9. FullyRead(h) => FullyRead(h)'
  BY <1>5 DEF FullyRead
<1>. QED  BY <1>5, <1>7, <1>8, <1>9 DEF SshRead

\* No step leaves a snapshot that was not read, or built, as SnapshotInv says.
LEMMA SnapshotStep ==
  ASSUME scanner \in Names, ProbesInv, SnapshotInv, [Next]_vars
  PROVE  SnapshotInv'
<1>1. CASE ProbeServices
  BY <1>1, SystemIsRead DEF SnapshotInv
<1>2. CASE ReadShadow
  BY <1>2, UserIsRead DEF SnapshotInv
<1>3. CASE ReadDaemonJson
  BY <1>3, DockerIsRead DEF SnapshotInv
<1>4. CASE ProbeDocker \/ ProbeDaemon
  <2>1. probe' # "injected"
    BY <1>4 DEF ProbeDocker, ProbeDaemon, Read, Complete
  <2>. QED  BY <1>4, <2>1, DockerIsUnassessed DEF SnapshotInv
<1>5. CASE RunSshd
  <2>1. probe' # "injected" /\ scanner' = "ssh"
    BY <1>5, Zenon DEF RunSshd, Read, Complete, ProbesInv
  <2>. QED  BY <1>5, <2>1, SshDumpIsRead DEF SnapshotInv
<1>6. CASE ReadDropIns
  BY <1>6, SshFallbackIsRead DEF SnapshotInv
<1>7. CASE ProbeSshd
  <2>1. /\ scanner' = "ssh" /\ probe' = "acquired"
        /\ snapshot' = SshSnapshot(IF host.present THEN "unassessable" ELSE "absent", NoDirectives, FALSE)
    BY <1>7 DEF ProbesInv, ProbeSshd, Complete
  <2>2. snapshot'.source \in {"absent", "unassessable"}
    BY <2>1 DEF SshSnapshot
  <2>. QED  BY <2>1, <2>2 DEF SnapshotInv, SshRead
<1>8. CASE Inject
  BY <1>8, FixturesAssumption DEF Inject, SnapshotInv
<1>9. CASE HostChanges
  <2>1. probe' \notin {"acquired", "injected"}
    BY <1>9 DEF HostChanges, Probes
  <2>. QED  BY <2>1 DEF SnapshotInv
<1>10. CASE \/ ReadHostname \/ ReadOsRelease \/ ProbePackages \/ ReadPasswd \/ ReadSshdConfig
            \/ Abort \/ Restart
  <2>1. CASE Restart
    BY <2>1, FirstProbes DEF Restart, SnapshotInv
  <2>2. CASE ~Restart
    <3>1. probe' \notin {"acquired", "injected"}
      BY <1>10, <2>2 DEF ReadHostname, ReadOsRelease, ProbePackages, ReadPasswd, ReadSshdConfig, Read,
                         Abort
    <3>. QED  BY <3>1 DEF SnapshotInv
  <2>. QED  BY <2>1, <2>2
<1>11. CASE Evaluate \/ UNCHANGED vars
  BY <1>11 DEF Evaluate, vars, SnapshotInv, SystemRead, UserRead, DockerRead, SshRead, FullyRead
<1>. QED  BY <1>1, <1>2, <1>3, <1>4, <1>5, <1>6, <1>7, <1>8, <1>9, <1>10, <1>11 DEF Next

\* Results stay those of the snapshot they were evaluated from.
LEMMA ResultsStep ==
  ASSUME scanner \in Names, ResultsInv, [Next]_vars
  PROVE  ResultsInv'
<1>1. CASE Evaluate
  BY <1>1 DEF Evaluate, ResultsInv, Evaluation
<1>2. CASE Restart
  BY <1>2 DEF Restart, ResultsInv
<1>3. CASE UNCHANGED vars
  BY <1>3 DEF vars, ResultsInv, Evaluation
<1>4. CASE HostChanges \/ Abort \/ Inject
  <2>1. results' = results /\ probe \notin {"acquired", "injected"}
    BY <1>4, FirstProbes DEF HostChanges, Abort, Inject, Probes
  <2>. QED  BY <2>1 DEF ResultsInv
<1>5. CASE ReadHostname \/ ReadOsRelease \/ ProbePackages \/ ReadPasswd \/ ReadSshdConfig
  <2>1. results' = results /\ probe \notin {"acquired", "injected"}
    BY <1>5 DEF ReadHostname, ReadOsRelease, ProbePackages, ReadPasswd, ReadSshdConfig, Read
  <2>. QED  BY <2>1 DEF ResultsInv
<1>6. CASE ProbeServices \/ ReadShadow \/ ReadDaemonJson \/ ProbeDocker \/ ReadDropIns \/ ProbeSshd
  <2>1. results' = results /\ probe \notin {"acquired", "injected"}
    BY <1>6 DEF ProbeServices, ReadShadow, ReadDaemonJson, ProbeDocker, ReadDropIns, ProbeSshd, Complete
  <2>. QED  BY <2>1 DEF ResultsInv
<1>7. CASE ProbeDaemon \/ RunSshd
  <2>1. results' = results
    BY <1>7, Zenon DEF ProbeDaemon, RunSshd, Read, Complete
  <2>2. probe \notin {"acquired", "injected"}
    BY <1>7 DEF ProbeDaemon, RunSshd
  <2>. QED  BY <2>1, <2>2 DEF ResultsInv
<1>. QED  BY <1>1, <1>2, <1>3, <1>4, <1>5, <1>6, <1>7 DEF Next

\* Whatever the host does, the scanner keeps what it was at some time.
THEOREM Invariant == Spec => []Inv
<1>1. Init => Inv
  <2>. SUFFICES ASSUME Init PROVE Inv
    OBVIOUS
  <2>1. probe \in {"hostname", "passwd", "docker info", "sshd -T"} /\ results = NoResults
    BY FirstProbes DEF Init
  <2>2. ProbesInv
    BY <2>1, FirstProbes DEF Init, ProbesInv
  <2>. QED  BY <2>1, <2>2 DEF Init, Inv, SnapshotInv, ResultsInv
<1>2. Inv /\ [Next]_vars => Inv'
  BY ProbesStep, SnapshotStep, ResultsStep DEF Inv
<1>. QED  BY <1>1, <1>2, PTL DEF Spec

-----------------------------------------------------------------------------
(***************************************************************************)
(* The evidence that verdicts cite.                                        *)
(***************************************************************************)

\* A release has the status of the first entry of the table that names it, is
\* unknown only if none does, and supported only if that entry says so.
LEMMA SupportIsLookedUp ==
  ASSUME NEW os
  PROVE  LET status == SupportStatus(Policies["system"], os)
         IN  /\ status \in {"supported", "end of support", "unknown"}
             /\ status # "unknown" =>
                  \E e \in Elements(Policies["system"].support) :
                     e.os = os.id /\ e.version = os.version
             /\ status = "supported" <=> IsSupported(os)
<1>. DEFINE table == Policies["system"].support
            named == {i \in DOMAIN table : table[i].os = os.id /\ table[i].version = os.version}
<1>1. /\ DOMAIN table \subseteq Nat
      /\ \A i \in DOMAIN table : table[i].status \in {"supported", "end of support"}
  <2>. DEFINE Releases == [os : STRING, version : STRING, status : {"supported", "end of support"}]
  <2>1. table \in Seq(Releases)
    BY SupportAssumption
  <2>2. DOMAIN table = 1 .. Len(table) /\ Len(table) \in Nat /\ \A i \in 1 .. Len(table) : table[i] \in Releases
    <3>. HIDE DEF Releases, table
    <3>. QED  BY <2>1, LenProperties, ElementOfSeq
  <2>3. \A e \in Releases : e.status \in {"supported", "end of support"}
    OBVIOUS
  <2>. HIDE DEF table, Releases
  <2>4. DOMAIN table \subseteq Nat
    BY <2>2
  <2>5. ASSUME NEW i \in DOMAIN table
        PROVE  table[i].status \in {"supported", "end of support"}
    <3>1. table[i] \in Releases
      BY <2>2, Zenon
    <3>. QED  BY <2>3, <3>1, Zenon
  <2>. QED  BY <2>4, <2>5
<1>2. CASE named = {}
  <2>1. SupportStatus(Policies["system"], os) = "unknown"
    BY <1>2 DEF SupportStatus, FirstWhere
  <2>2. ~IsSupported(os)
    BY <1>2 DEF IsSupported
  <2>. QED  BY <2>1, <2>2
<1>3. CASE named # {}
  <2>1. PICK i : i = CHOOSE k \in named : \A j \in named : k <= j
    OBVIOUS
  <2>2. i \in named /\ \A j \in named : i <= j
    <3>1. \E k \in named : \A j \in named : k <= j
      BY <1>1, <1>3, LeastElement
    <3>. QED  BY <2>1, <3>1
  <2>3. SupportStatus(Policies["system"], os) = table[i].status
    BY <1>3, <2>1 DEF SupportStatus, FirstWhere
  <2>4. table[i].status = "supported" <=> IsSupported(os)
    <3>1. ASSUME NEW k \in named, \A j \in named : k <= j
          PROVE  k = i
      <4>1. k \in Nat /\ i \in Nat
        BY <1>1, <2>2
      <4>2. k <= i /\ i <= k
        BY <2>2, <3>1
      <4>. QED  BY <4>1, <4>2
    <3>. QED  BY <2>2, <3>1 DEF IsSupported
  <2>. QED  BY <1>1, <2>2, <2>3, <2>4 DEF Elements
<1>. QED  BY <1>2, <1>3

\* The rules of the system scanner cite os-release only if it was read, and the
\* inventory only if there was a package manager.
LEMMA SystemCites ==
  ASSUME NEW s, NEW rule
  PROVE  EvaluateSystem(s, Policies["system"], rule).refs \subseteq SystemEvidence(s)
<1>1. EvaluateOsEol(s, Policies["system"]).refs \subseteq SystemEvidence(s)
  BY SupportIsLookedUp DEF EvaluateOsEol, OsVersionKnown, SystemEvidence, Satisfied, Finding,
                           NotApplicable, Failure
<1>2. EvaluateOsUndetermined(s, Policies["system"]).refs \subseteq SystemEvidence(s)
  BY DEF EvaluateOsUndetermined, OsVersionKnown, SystemEvidence, Satisfied, Finding, Failure
<1>3. EvaluatePackages(s).refs \subseteq SystemEvidence(s)
  BY DEF EvaluatePackages, SystemEvidence, Satisfied, Failure
<1>4. EvaluateServices(s, Policies["system"]).refs \subseteq SystemEvidence(s)
  BY DEF EvaluateServices, Satisfied, Finding, NotApplicable
<1>5. Failure.refs \subseteq SystemEvidence(s)
  BY DEF Failure
<1>. QED  BY <1>1, <1>2, <1>3, <1>4, <1>5
          DEF EvaluateSystem, OsEolRule, OsUndeterminedRule, PackageInventoryRule, ServicesRule

\* The rules of the user scanner cite accounts and grants of the snapshot.
LEMMA UserCites ==
  ASSUME NEW s, NEW policy, NEW rule
  PROVE  EvaluateUser(s, policy, rule).refs \subseteq UserEvidence(s)
<1>1. \A accounts \in SUBSET Accounts(s) : RefsTo(accounts) \subseteq UserEvidence(s)
  BY DEF RefsTo, UserEvidence
<1>2. \A accounts \in SUBSET Accounts(s) : FindingIfAny(accounts).refs \subseteq UserEvidence(s)
  BY <1>1 DEF FindingIfAny, Satisfied, Finding
<1>3. EvaluateSingleRoot(s).refs \subseteq UserEvidence(s)
  BY DEF EvaluateSingleRoot, Accounts, UserEvidence, Satisfied, Finding
<1>4. EvaluateNoEmptyPassword(s).refs \subseteq UserEvidence(s)
  BY <1>2 DEF EvaluateNoEmptyPassword, Failure
<1>5. EvaluateDormant(s, policy).refs \subseteq UserEvidence(s)
  BY <1>2 DEF EvaluateDormant
<1>6. EvaluatePrivileged(s, policy).refs \subseteq UserEvidence(s)
  BY DEF EvaluatePrivileged, UserEvidence, Satisfied, Finding
<1>7. Satisfied(RefsTo(Accounts(s))).refs \subseteq UserEvidence(s) /\ Failure.refs \subseteq UserEvidence(s)
  BY <1>1 DEF Satisfied, Failure
<1>. QED  BY <1>3, <1>4, <1>5, <1>6, <1>7
          DEF EvaluateUser, InventoryRule, SingleRootRule, NoEmptyPasswordRule, DormantAccountRule,
              PrivilegedExpectedRule

\* The rules of the Docker scanner cite what docker info said, and daemon.json only
\* if it was parsed.
LEMMA DockerCites ==
  ASSUME NEW s, s.origin = "daemon.json" => s.daemon_json = "present", NEW policy, NEW rule
  PROVE  EvaluateDocker(s, policy, rule).refs \subseteq DockerEvidence(s)
<1>1. CASE s.daemon # "reachable"
  BY <1>1 DEF EvaluateDocker, NotApplicable
<1>2. CASE s.daemon = "reachable"
  <2>1. EffectiveInfoId \in DockerEvidence(s) /\ ConfigRef(s) \subseteq DockerEvidence(s)
    BY <1>2 DEF DockerEvidence, ConfigRef
  <2>2. \A isFinding : VersionRule(s, isFinding).refs \subseteq DockerEvidence(s)
    BY <2>1 DEF VersionRule, Failure, Finding, Satisfied
  <2>3. \A isFinding : ConfigRule(s, isFinding).refs \subseteq DockerEvidence(s)
    BY <2>1 DEF ConfigRule, Failure, Finding, Satisfied
  <2>4. /\ EvaluateVersionEol(s, policy).refs \subseteq DockerEvidence(s)
        /\ EvaluateVersionObsolete(s, policy).refs \subseteq DockerEvidence(s)
    BY <2>2 DEF EvaluateVersionEol, EvaluateVersionObsolete
  <2>5. /\ EvaluateInsecureRegistries(s).refs \subseteq DockerEvidence(s)
        /\ EvaluateSocket(s).refs \subseteq DockerEvidence(s)
        /\ EvaluateHardening(s, policy).refs \subseteq DockerEvidence(s)
    BY <2>3 DEF EvaluateInsecureRegistries, EvaluateSocket, EvaluateHardening
  <2>6. Failure.refs \subseteq DockerEvidence(s)
    BY DEF Failure
  <2>7. EvaluateReachable(s, policy, rule).refs \subseteq DockerEvidence(s)
    BY <2>4, <2>5, <2>6
       DEF EvaluateReachable, VersionEolRule, VersionObsoleteRule, InsecureRegistriesRule,
           TcpSocketTlsRule, DaemonHardeningRule
  <2>. QED  BY <1>2, <2>7 DEF EvaluateDocker
<1>. QED  BY <1>1, <1>2

\* The rules of the SSH scanner cite the source the configuration came from.
LEMMA SshCites ==
  ASSUME NEW s, NEW policy, NEW rule
  PROVE  EvaluateSsh(s, policy, rule).refs \subseteq SshEvidence(s)
<1>1. \A name, isFinding : RequiringDirective(s, name, isFinding).refs \subseteq SshEvidence(s)
  BY DEF RequiringDirective, Failure, Finding, Satisfied
<1>2. \A isFinding \in BOOLEAN : UnlessHidden(s, isFinding).refs \subseteq SshEvidence(s)
  BY DEF UnlessHidden, Failure, Finding, Satisfied
<1>3. /\ EvaluatePermitRootLogin(s).refs \subseteq SshEvidence(s)
      /\ EvaluateKeyOnly(s).refs \subseteq SshEvidence(s)
      /\ EvaluatePasswordAuth(s).refs \subseteq SshEvidence(s)
  BY <1>1 DEF EvaluatePermitRootLogin, EvaluateKeyOnly, EvaluatePasswordAuth
<1>4. EvaluateWeakCrypto(s, policy).refs \subseteq SshEvidence(s)
  BY <1>2 DEF EvaluateWeakCrypto
<1>5. EvaluateProtocolV1(s).refs \subseteq SshEvidence(s)
  BY <1>2 DEF EvaluateProtocolV1
<1>6. Failure.refs \subseteq SshEvidence(s) /\ NotApplicable.refs \subseteq SshEvidence(s)
  BY DEF Failure, NotApplicable
<1>7. EvaluateConfigured(s, policy, rule).refs \subseteq SshEvidence(s)
  BY <1>3, <1>4, <1>5, <1>6
     DEF EvaluateConfigured, PermitRootLoginRule, RootLoginKeyOnlyRule, PasswordAuthRule,
         WeakCryptoRule, ProtocolV1Rule
<1>. QED  BY <1>6, <1>7 DEF EvaluateSsh

\* Every verdict of every scanner can be traced to evidence that was collected.
THEOREM CitationsAreLogged == Spec => []CitedEvidenceIsLogged
<1>1. Inv => CitedEvidenceIsLogged
  <2>. SUFFICES ASSUME Inv, Evaluated, NEW rule \in DOMAIN results
                PROVE  results[rule].refs \subseteq EvidenceLog
    BY DEF CitedEvidenceIsLogged
  <2>1. results[rule] = Evaluation(rule) /\ scanner \in Names
    BY DEF Inv, ResultsInv, Evaluated
  <2>2. scanner = "docker" => (snapshot.origin = "daemon.json" => snapshot.daemon_json = "present")
    BY DEF Inv, ResultsInv, SnapshotInv, Evaluated
  <2>3. CASE scanner = "system"
    BY <2>1, <2>3, SystemCites DEF Evaluation, EvidenceLog
  <2>4. CASE scanner = "user"
    BY <2>1, <2>4, UserCites DEF Evaluation, EvidenceLog
  <2>5. CASE scanner = "docker"
    BY <2>1, <2>2, <2>5, DockerCites DEF Evaluation, EvidenceLog
  <2>6. CASE scanner = "ssh"
    BY <2>1, <2>6, SshCites DEF Evaluation, EvidenceLog
  <2>. QED  BY <2>1, <2>3, <2>4, <2>5, <2>6 DEF Names
<1>. QED  BY <1>1, Invariant, PTL

-----------------------------------------------------------------------------
(***************************************************************************)
(* Questions split into two rules.                                         *)
(***************************************************************************)
\* What each rule of the system scanner asks.
LEMMA SystemAnswers ==
  ASSUME NEW s, NEW policy
  PROVE  /\ EvaluateSystem(s, policy, OsEolRule) = EvaluateOsEol(s, policy)
         /\ EvaluateSystem(s, policy, OsUndeterminedRule) = EvaluateOsUndetermined(s, policy)
         /\ EvaluateSystem(s, policy, PackageInventoryRule) = EvaluatePackages(s)
         /\ EvaluateSystem(s, policy, ServicesRule) = EvaluateServices(s, policy)
<1>1. /\ OsEolRule # OsUndeterminedRule /\ OsEolRule # PackageInventoryRule
      /\ OsEolRule # ServicesRule /\ OsUndeterminedRule # PackageInventoryRule
      /\ OsUndeterminedRule # ServicesRule /\ PackageInventoryRule # ServicesRule
  BY DEF OsEolRule, OsUndeterminedRule, PackageInventoryRule, ServicesRule
<1>2. EvaluateSystem(s, policy, OsEolRule) = EvaluateOsEol(s, policy)
  BY <1>1 DEF EvaluateSystem
<1>3. EvaluateSystem(s, policy, OsUndeterminedRule) = EvaluateOsUndetermined(s, policy)
  BY <1>1 DEF EvaluateSystem
<1>4. EvaluateSystem(s, policy, PackageInventoryRule) = EvaluatePackages(s)
  BY <1>1 DEF EvaluateSystem
<1>5. EvaluateSystem(s, policy, ServicesRule) = EvaluateServices(s, policy)
  BY <1>1 DEF EvaluateSystem
<1>. QED  BY <1>2, <1>3, <1>4, <1>5

\* What each rule of the user scanner asks.
LEMMA UserAnswers ==
  ASSUME NEW s, NEW policy
  PROVE  /\ EvaluateUser(s, policy, InventoryRule) = Satisfied(RefsTo(Accounts(s)))
         /\ EvaluateUser(s, policy, SingleRootRule) = EvaluateSingleRoot(s)
         /\ EvaluateUser(s, policy, NoEmptyPasswordRule) = EvaluateNoEmptyPassword(s)
         /\ EvaluateUser(s, policy, DormantAccountRule) = EvaluateDormant(s, policy)
         /\ EvaluateUser(s, policy, PrivilegedExpectedRule) = EvaluatePrivileged(s, policy)
<1>1. /\ InventoryRule # SingleRootRule /\ InventoryRule # NoEmptyPasswordRule
      /\ InventoryRule # DormantAccountRule /\ InventoryRule # PrivilegedExpectedRule
      /\ SingleRootRule # NoEmptyPasswordRule /\ SingleRootRule # DormantAccountRule
      /\ SingleRootRule # PrivilegedExpectedRule /\ NoEmptyPasswordRule # DormantAccountRule
      /\ NoEmptyPasswordRule # PrivilegedExpectedRule /\ DormantAccountRule # PrivilegedExpectedRule
  BY DEF InventoryRule, SingleRootRule, NoEmptyPasswordRule, DormantAccountRule, PrivilegedExpectedRule
<1>2. EvaluateUser(s, policy, InventoryRule) = Satisfied(RefsTo(Accounts(s)))
  BY <1>1 DEF EvaluateUser
<1>3. EvaluateUser(s, policy, SingleRootRule) = EvaluateSingleRoot(s)
  BY <1>1 DEF EvaluateUser
<1>4. EvaluateUser(s, policy, NoEmptyPasswordRule) = EvaluateNoEmptyPassword(s)
  BY <1>1 DEF EvaluateUser
<1>5. EvaluateUser(s, policy, DormantAccountRule) = EvaluateDormant(s, policy)
  BY <1>1 DEF EvaluateUser
<1>6. EvaluateUser(s, policy, PrivilegedExpectedRule) = EvaluatePrivileged(s, policy)
  BY <1>1 DEF EvaluateUser
<1>. QED  BY <1>2, <1>3, <1>4, <1>5, <1>6

\* What each rule of the Docker scanner asks of a daemon that answered.
LEMMA DockerAnswers ==
  ASSUME NEW s, NEW policy
  PROVE  /\ EvaluateReachable(s, policy, VersionEolRule) = EvaluateVersionEol(s, policy)
         /\ EvaluateReachable(s, policy, VersionObsoleteRule) = EvaluateVersionObsolete(s, policy)
         /\ EvaluateReachable(s, policy, InsecureRegistriesRule) = EvaluateInsecureRegistries(s)
         /\ EvaluateReachable(s, policy, TcpSocketTlsRule) = EvaluateSocket(s)
         /\ EvaluateReachable(s, policy, DaemonHardeningRule) = EvaluateHardening(s, policy)
<1>1. /\ VersionEolRule # VersionObsoleteRule /\ VersionEolRule # InsecureRegistriesRule
      /\ VersionEolRule # TcpSocketTlsRule /\ VersionEolRule # DaemonHardeningRule
      /\ VersionObsoleteRule # InsecureRegistriesRule /\ VersionObsoleteRule # TcpSocketTlsRule
      /\ VersionObsoleteRule # DaemonHardeningRule /\ InsecureRegistriesRule # TcpSocketTlsRule
      /\ InsecureRegistriesRule # DaemonHardeningRule /\ TcpSocketTlsRule # DaemonHardeningRule
  BY DEF VersionEolRule, VersionObsoleteRule, InsecureRegistriesRule, TcpSocketTlsRule, DaemonHardeningRule
<1>2. EvaluateReachable(s, policy, VersionEolRule) = EvaluateVersionEol(s, policy)
  BY <1>1 DEF EvaluateReachable
<1>3. EvaluateReachable(s, policy, VersionObsoleteRule) = EvaluateVersionObsolete(s, policy)
  BY <1>1 DEF EvaluateReachable
<1>4. EvaluateReachable(s, policy, InsecureRegistriesRule) = EvaluateInsecureRegistries(s)
  BY <1>1 DEF EvaluateReachable
<1>5. EvaluateReachable(s, policy, TcpSocketTlsRule) = EvaluateSocket(s)
  BY <1>1 DEF EvaluateReachable
<1>6. EvaluateReachable(s, policy, DaemonHardeningRule) = EvaluateHardening(s, policy)
  BY <1>1 DEF EvaluateReachable
<1>. QED  BY <1>2, <1>3, <1>4, <1>5, <1>6

\* What each rule of the SSH scanner asks of a configuration.
LEMMA SshAnswers ==
  ASSUME NEW s, NEW policy
  PROVE  /\ EvaluateConfigured(s, policy, PermitRootLoginRule) = EvaluatePermitRootLogin(s)
         /\ EvaluateConfigured(s, policy, RootLoginKeyOnlyRule) = EvaluateKeyOnly(s)
         /\ EvaluateConfigured(s, policy, PasswordAuthRule) = EvaluatePasswordAuth(s)
         /\ EvaluateConfigured(s, policy, WeakCryptoRule) = EvaluateWeakCrypto(s, policy)
         /\ EvaluateConfigured(s, policy, ProtocolV1Rule) = EvaluateProtocolV1(s)
<1>1. /\ PermitRootLoginRule # RootLoginKeyOnlyRule /\ PermitRootLoginRule # PasswordAuthRule
      /\ PermitRootLoginRule # WeakCryptoRule /\ PermitRootLoginRule # ProtocolV1Rule
      /\ RootLoginKeyOnlyRule # PasswordAuthRule /\ RootLoginKeyOnlyRule # WeakCryptoRule
      /\ RootLoginKeyOnlyRule # ProtocolV1Rule /\ PasswordAuthRule # WeakCryptoRule
      /\ PasswordAuthRule # ProtocolV1Rule /\ WeakCryptoRule # ProtocolV1Rule
  BY DEF PermitRootLoginRule, RootLoginKeyOnlyRule, PasswordAuthRule, WeakCryptoRule, ProtocolV1Rule
<1>2. EvaluateConfigured(s, policy, PermitRootLoginRule) = EvaluatePermitRootLogin(s)
  BY <1>1 DEF EvaluateConfigured
<1>3. EvaluateConfigured(s, policy, RootLoginKeyOnlyRule) = EvaluateKeyOnly(s)
  BY <1>1 DEF EvaluateConfigured
<1>4. EvaluateConfigured(s, policy, PasswordAuthRule) = EvaluatePasswordAuth(s)
  BY <1>1 DEF EvaluateConfigured
<1>5. EvaluateConfigured(s, policy, WeakCryptoRule) = EvaluateWeakCrypto(s, policy)
  BY <1>1 DEF EvaluateConfigured
<1>6. EvaluateConfigured(s, policy, ProtocolV1Rule) = EvaluateProtocolV1(s)
  BY <1>1 DEF EvaluateConfigured
<1>. QED  BY <1>2, <1>3, <1>4, <1>5, <1>6

\* The four answers are told apart by their kind.
LEMMA KindOf ==
  ASSUME NEW refs
  PROVE  /\ Satisfied(refs).kind = "satisfied" /\ Finding(refs).kind = "finding"
         /\ NotApplicable.kind = "not applicable" /\ Failure.kind = "failure"
BY DEF Satisfied, Finding, NotApplicable, Failure

\* A release out of support and one nobody knows are never reported together, and
\* a known release is reported unless it is supported.
LEMMA OsRulesAgree ==
  ASSUME NEW s
  PROVE  LET policy == Policies["system"]
             eol == EvaluateSystem(s, policy, OsEolRule).kind
             undetermined == EvaluateSystem(s, policy, OsUndeterminedRule).kind
         IN  /\ ~(eol = "finding" /\ undetermined = "finding")
             /\ eol = "failure" <=> undetermined = "failure"
             /\ OsVersionKnown(s) =>
                  (eol = "finding" \/ undetermined = "finding" <=> ~IsSupported(s.os))
<1>1. /\ EvaluateSystem(s, Policies["system"], OsEolRule) = EvaluateOsEol(s, Policies["system"])
      /\ EvaluateSystem(s, Policies["system"], OsUndeterminedRule)
           = EvaluateOsUndetermined(s, Policies["system"])
  BY SystemAnswers
<1>2. PICK status : status = SupportStatus(Policies["system"], s.os)
  OBVIOUS
<1>3. /\ status \in {"supported", "end of support", "unknown"}
      /\ status = "supported" <=> IsSupported(s.os)
  BY <1>2, SupportIsLookedUp
<1>4. CASE ~OsVersionKnown(s)
  BY <1>1, <1>4, KindOf DEF EvaluateOsEol, EvaluateOsUndetermined
<1>5. CASE OsVersionKnown(s)
  BY <1>1, <1>2, <1>3, <1>5, KindOf DEF EvaluateOsEol, EvaluateOsUndetermined
<1>. QED  BY <1>4, <1>5

\* A version below the recommended one, or unsupported, is reported by exactly one
\* of the two version rules.
LEMMA VersionRulesAgree ==
  ASSUME NEW s, NEW policy
  PROVE  LET eol == EvaluateDocker(s, policy, VersionEolRule).kind
             obsolete == EvaluateDocker(s, policy, VersionObsoleteRule).kind
         IN  /\ ~(eol = "finding" /\ obsolete = "finding")
             /\ eol = "failure" <=> obsolete = "failure"
             /\ s.daemon = "reachable" /\ s.version # NoServerVersion =>
                  (eol = "finding" \/ obsolete = "finding" <=>
                     \/ VersionBefore(s.version, policy.min_supported)
                     \/ VersionBefore(s.version, policy.min_recommended))
<1>1. CASE s.daemon # "reachable"
  BY <1>1, KindOf DEF EvaluateDocker
<1>2. CASE s.daemon = "reachable"
  <2>1. /\ EvaluateDocker(s, policy, VersionEolRule) = EvaluateVersionEol(s, policy)
        /\ EvaluateDocker(s, policy, VersionObsoleteRule) = EvaluateVersionObsolete(s, policy)
    BY <1>2, DockerAnswers DEF EvaluateDocker
  <2>. QED  BY <2>1, KindOf DEF EvaluateVersionEol, EvaluateVersionObsolete, VersionRule
<1>. QED  BY <1>1, <1>2

\* A root login is never reported both as open and as restricted to keys, and a
\* value that allows it is reported as one of them.
LEMMA RootLoginRulesAgree ==
  ASSUME NEW s, NEW policy
  PROVE  LET permitted == EvaluateSsh(s, policy, PermitRootLoginRule).kind
             keyOnly == EvaluateSsh(s, policy, RootLoginKeyOnlyRule).kind
         IN  /\ ~(permitted = "finding" /\ keyOnly = "finding")
             /\ permitted = "failure" <=> keyOnly = "failure"
             /\ s.source \notin {"absent", "unassessable"} /\ Configured(s, "permitrootlogin") =>
                  (permitted = "finding" \/ keyOnly = "finding" <=>
                     Directive(s, "permitrootlogin") \in {"yes"} \cup KeyOnlyLogins)
<1>1. CASE s.source \in {"absent", "unassessable"}
  BY <1>1, KindOf DEF EvaluateSsh
<1>2. CASE s.source \notin {"absent", "unassessable"}
  <2>1. /\ EvaluateSsh(s, policy, PermitRootLoginRule) = EvaluatePermitRootLogin(s)
        /\ EvaluateSsh(s, policy, RootLoginKeyOnlyRule) = EvaluateKeyOnly(s)
    BY <1>2, SshAnswers DEF EvaluateSsh
  <2>. QED  BY <2>1, KindOf
            DEF EvaluatePermitRootLogin, EvaluateKeyOnly, RequiringDirective, KeyOnlyLogins
<1>. QED  BY <1>1, <1>2

\* The rules of each scanner.
LEMMA ScannersRules ==
  /\ RulesOf["system"] = SystemRules /\ RulesOf["user"] = UserRules
  /\ RulesOf["docker"] = DockerRules /\ RulesOf["ssh"] = SshRules
BY DEF RulesOf

\* A rule that one scanner knows is not among the rules of another.
LEMMA RulesAreOwned ==
  ASSUME scanner \in Names
  PROVE  /\ OsEolRule \in RulesOf[scanner] \cup {ForeignRule} => scanner = "system"
         /\ VersionEolRule \in RulesOf[scanner] \cup {ForeignRule} => scanner = "docker"
         /\ PermitRootLoginRule \in RulesOf[scanner] \cup {ForeignRule} => scanner = "ssh"
         /\ scanner = "system" => {OsEolRule, OsUndeterminedRule} \subseteq RulesOf[scanner]
         /\ scanner = "docker" => {VersionEolRule, VersionObsoleteRule} \subseteq RulesOf[scanner]
         /\ scanner = "ssh" => {PermitRootLoginRule, RootLoginKeyOnlyRule} \subseteq RulesOf[scanner]
BY ScannersRules
   DEF Names, ForeignRule, SystemRules, UserRules, DockerRules, SshRules, OsEolRule,
       OsUndeterminedRule, PackageInventoryRule, ServicesRule, InventoryRule, SingleRootRule,
       NoEmptyPasswordRule, DormantAccountRule, PrivilegedExpectedRule, VersionEolRule,
       VersionObsoleteRule, InsecureRegistriesRule, TcpSocketTlsRule, DaemonHardeningRule,
       PermitRootLoginRule, RootLoginKeyOnlyRule, PasswordAuthRule, WeakCryptoRule, ProtocolV1Rule

\* Two rules about one question never answer it twice, nor let it fall between
\* them: whatever is known and not clean is reported by one of them.
THEOREM SplitRulesDoAgree == Spec => []SplitRulesAgree
<1>1. Inv => SplitRulesAgree
  <2>. SUFFICES ASSUME Inv, Evaluated PROVE SplitRulesAgree
    BY DEF SplitRulesAgree
  <2>1. /\ scanner \in Names /\ DOMAIN results = RulesOf[scanner] \cup {ForeignRule}
        /\ \A rule \in DOMAIN results : results[rule] = Evaluation(rule)
    BY DEF Inv, ResultsInv, Evaluated
  <2>. DEFINE Agree(pair) ==
         /\ ~(IsFinding(pair[1]) /\ IsFinding(pair[2]))
         /\ results[pair[1]].kind = "failure" <=> results[pair[2]].kind = "failure"
  <2>2. ASSUME scanner = "system"
        PROVE  Agree(<<OsEolRule, OsUndeterminedRule>>) /\ ReleaseIsReported
    <3>1. /\ results[OsEolRule] = EvaluateSystem(snapshot, Policies["system"], OsEolRule)
          /\ results[OsUndeterminedRule] = EvaluateSystem(snapshot, Policies["system"], OsUndeterminedRule)
      BY <2>1, <2>2, RulesAreOwned DEF Evaluation
    <3>. QED  BY <3>1, OsRulesAgree DEF IsFinding, ReleaseIsReported, OsVersionKnown
  <2>3. ASSUME scanner = "docker"
        PROVE  Agree(<<VersionEolRule, VersionObsoleteRule>>) /\ VersionIsReported
    <3>1. /\ results[VersionEolRule] = EvaluateDocker(snapshot, Policies["docker"], VersionEolRule)
          /\ results[VersionObsoleteRule] = EvaluateDocker(snapshot, Policies["docker"], VersionObsoleteRule)
      BY <2>1, <2>3, RulesAreOwned DEF Evaluation
    <3>. QED  BY <3>1, VersionRulesAgree DEF IsFinding, VersionIsReported
  <2>4. ASSUME scanner = "ssh"
        PROVE  Agree(<<PermitRootLoginRule, RootLoginKeyOnlyRule>>) /\ RootLoginIsReported
    <3>1. /\ results[PermitRootLoginRule] = EvaluateSsh(snapshot, Policies["ssh"], PermitRootLoginRule)
          /\ results[RootLoginKeyOnlyRule] = EvaluateSsh(snapshot, Policies["ssh"], RootLoginKeyOnlyRule)
      BY <2>1, <2>4, RulesAreOwned DEF Evaluation
    <3>. QED  BY <3>1, RootLoginRulesAgree DEF IsFinding, RootLoginIsReported
  <2>5. \A pair \in {p \in SplitPairs : p[1] \in DOMAIN results} : Agree(pair)
    <3>1. /\ OsEolRule \in DOMAIN results => scanner = "system"
          /\ VersionEolRule \in DOMAIN results => scanner = "docker"
          /\ PermitRootLoginRule \in DOMAIN results => scanner = "ssh"
      BY <2>1, RulesAreOwned
    <3>. HIDE DEF Agree
    <3>. QED  BY <2>2, <2>3, <2>4, <3>1 DEF SplitPairs
  <2>6. ReleaseIsReported /\ VersionIsReported /\ RootLoginIsReported
    BY <2>2, <2>3, <2>4 DEF ReleaseIsReported, VersionIsReported, RootLoginIsReported
  <2>. QED  BY <2>5, <2>6 DEF SplitRulesAgree
<1>. QED  BY <1>1, Invariant, PTL

-----------------------------------------------------------------------------
(***************************************************************************)
(* The grounds of a pass.                                                  *)
(***************************************************************************)
USE DEF OsEolRule, OsUndeterminedRule, PackageInventoryRule, ServicesRule, InventoryRule,
        SingleRootRule, NoEmptyPasswordRule, DormantAccountRule, PrivilegedExpectedRule,
        VersionEolRule, VersionObsoleteRule, InsecureRegistriesRule, TcpSocketTlsRule,
        DaemonHardeningRule, PermitRootLoginRule, RootLoginKeyOnlyRule, PasswordAuthRule,
        WeakCryptoRule, ProtocolV1Rule

\* What the rules of the system scanner may pass on.
LEMMA SystemGrounds ==
  ASSUME NEW h
  PROVE  /\ \A rule \in {OsEolRule, OsUndeterminedRule} :
              Grounds(rule, h) = (h.os.readable /\ \E e \in Elements(Policies["system"].support) :
                                                      e.os = h.os.id /\ e.version = h.os.version)
         /\ Grounds(PackageInventoryRule, h) = (h.managers # <<>>)
         /\ Grounds(ServicesRule, h) = h.systemd
<1>1. ASSUME NEW rule \in {OsEolRule, OsUndeterminedRule}
      PROVE  Grounds(rule, h) = (h.os.readable /\ \E e \in Elements(Policies["system"].support) :
                                                      e.os = h.os.id /\ e.version = h.os.version)
  BY <1>1 DEF Grounds, Says, SetsTo
<1>2. Grounds(PackageInventoryRule, h) = (h.managers # <<>>)
  BY DEF Grounds, Says, SetsTo
<1>3. Grounds(ServicesRule, h) = h.systemd
  BY DEF Grounds, Says, SetsTo
<1>. QED  BY <1>1, <1>2, <1>3

\* What the rules of the user scanner may pass on.
LEMMA UserGrounds ==
  ASSUME NEW h
  PROVE  /\ \A rule \in {InventoryRule, SingleRootRule, PrivilegedExpectedRule, DormantAccountRule} :
              Grounds(rule, h) = h.passwd.readable
         /\ Grounds(NoEmptyPasswordRule, h) = h.shadow.readable
<1>1. ASSUME NEW rule \in {InventoryRule, SingleRootRule, PrivilegedExpectedRule, DormantAccountRule}
      PROVE  Grounds(rule, h) = h.passwd.readable
  BY <1>1 DEF Grounds, Says, SetsTo
<1>2. Grounds(NoEmptyPasswordRule, h) = h.shadow.readable
  BY DEF Grounds, Says, SetsTo
<1>. QED  BY <1>1, <1>2

\* What the rules of the Docker scanner may pass on.
LEMMA DockerGrounds ==
  ASSUME NEW h
  PROVE  /\ \A rule \in {VersionEolRule, VersionObsoleteRule} :
              Grounds(rule, h) = (h.info = "ok" /\ h.version # NoServerVersion)
         /\ \A rule \in {InsecureRegistriesRule, TcpSocketTlsRule, DaemonHardeningRule} :
              Grounds(rule, h) = (h.json = "present")
<1>1. ASSUME NEW rule \in {VersionEolRule, VersionObsoleteRule}
      PROVE  Grounds(rule, h) = (h.info = "ok" /\ h.version # NoServerVersion)
  BY <1>1 DEF Grounds, Says, SetsTo
<1>2. ASSUME NEW rule \in {InsecureRegistriesRule, TcpSocketTlsRule, DaemonHardeningRule}
      PROVE  Grounds(rule, h) = (h.json = "present")
  BY <1>2 DEF Grounds, Says, SetsTo
<1>. QED  BY <1>1, <1>2

\* What some list of a host says about a directive.
Said(h, name, value) ==
  \E lines \in Readable(h) : \E line \in Elements(lines) : line.name = name /\ line.value = value

\* What the rules of the SSH scanner may pass on.
LEMMA SshGrounds ==
  ASSUME NEW h, NEW value
  PROVE  /\ Said(h, "permitrootlogin", value) /\ value # "yes" => Grounds(PermitRootLoginRule, h)
         /\ Said(h, "permitrootlogin", value) /\ value \notin KeyOnlyLogins =>
              Grounds(RootLoginKeyOnlyRule, h)
         /\ Said(h, "passwordauthentication", value) /\ value # "yes" => Grounds(PasswordAuthRule, h)
         /\ \A rule \in {WeakCryptoRule, ProtocolV1Rule} : FullyRead(h) => Grounds(rule, h)
<1>1. ASSUME NEW name, Said(h, name, value)
      PROVE  \/ h.dump.ok /\ \E i \in DOMAIN h.dump.lines :
                               h.dump.lines[i].name = name /\ h.dump.lines[i].value = value
             \/ h.base.readable /\ \E i \in DOMAIN h.base.lines :
                               h.base.lines[i].name = name /\ h.base.lines[i].value = value
             \/ h.dropIns.readable /\ \E i \in DOMAIN h.dropIns.lines :
                               h.dropIns.lines[i].name = name /\ h.dropIns.lines[i].value = value
  BY <1>1 DEF Said, Readable, Elements
<1>2. ASSUME Said(h, "permitrootlogin", value), value # "yes"
      PROVE  Grounds(PermitRootLoginRule, h)
  <2>1. Says(h, "permitrootlogin", LAMBDA v : v # "yes")
    BY <1>1, <1>2 DEF Says, SetsTo
  <2>. QED  BY <2>1 DEF Grounds, Says, SetsTo
<1>3. ASSUME Said(h, "permitrootlogin", value), value \notin KeyOnlyLogins
      PROVE  Grounds(RootLoginKeyOnlyRule, h)
  <2>1. Says(h, "permitrootlogin", LAMBDA v : v \notin KeyOnlyLogins)
    BY <1>1, <1>3 DEF Says, SetsTo
  <2>. QED  BY <2>1 DEF Grounds, Says, SetsTo
<1>4. ASSUME Said(h, "passwordauthentication", value), value # "yes"
      PROVE  Grounds(PasswordAuthRule, h)
  <2>1. Says(h, "passwordauthentication", LAMBDA v : v # "yes")
    BY <1>1, <1>4 DEF Says, SetsTo
  <2>. QED  BY <2>1 DEF Grounds, Says, SetsTo
<1>5. ASSUME NEW rule \in {WeakCryptoRule, ProtocolV1Rule}, FullyRead(h)
      PROVE  Grounds(rule, h)
  BY <1>5 DEF Grounds, Says, SetsTo
<1>. QED  BY <1>2, <1>3, <1>4, <1>5

HIDE DEF OsEolRule, OsUndeterminedRule, PackageInventoryRule, ServicesRule, InventoryRule,
         SingleRootRule, NoEmptyPasswordRule, DormantAccountRule, PrivilegedExpectedRule,
         VersionEolRule, VersionObsoleteRule, InsecureRegistriesRule, TcpSocketTlsRule,
         DaemonHardeningRule, PermitRootLoginRule, RootLoginKeyOnlyRule, PasswordAuthRule,
         WeakCryptoRule, ProtocolV1Rule

\* The system scanner passes no rule without grounds.
LEMMA SystemPasses ==
  ASSUME NEW rule \in SystemRules, SystemRead(snapshot),
         EvaluateSystem(snapshot, Policies["system"], rule).kind = "satisfied"
  PROVE  \E h \in witnessed : Grounds(rule, h)
<1>. DEFINE policy == Policies["system"]
<1>1. PICK h \in witnessed : snapshot.os = h.os
  BY DEF SystemRead
<1>2. PICK status : status = SupportStatus(policy, snapshot.os)
  OBVIOUS
<1>3. /\ status \in {"supported", "end of support", "unknown"}
      /\ status # "unknown" =>
           \E e \in Elements(policy.support) : e.os = h.os.id /\ e.version = h.os.version
  BY <1>1, <1>2, SupportIsLookedUp
<1>4. ASSUME OsVersionKnown(snapshot), status # "unknown",
             NEW asked \in {OsEolRule, OsUndeterminedRule}
      PROVE  Grounds(asked, h)
  <2>1. h.os.readable
    BY <1>1, <1>4 DEF OsVersionKnown
  <2>2. Grounds(asked, h) = (h.os.readable /\ \E e \in Elements(policy.support) :
                                               e.os = h.os.id /\ e.version = h.os.version)
    BY <1>4, SystemGrounds
  <2>. QED  BY <1>3, <1>4, <2>1, <2>2
<1>5. CASE rule = OsEolRule
  <2>1. EvaluateOsEol(snapshot, policy).kind = "satisfied"
    BY <1>5, SystemAnswers
  <2>2. OsVersionKnown(snapshot) /\ status # "unknown"
    BY <1>2, <1>3, <2>1, KindOf DEF EvaluateOsEol
  <2>. QED  BY <1>4, <1>5, <2>2
<1>6. CASE rule = OsUndeterminedRule
  <2>1. EvaluateOsUndetermined(snapshot, policy).kind = "satisfied"
    BY <1>6, SystemAnswers
  <2>2. OsVersionKnown(snapshot) /\ status # "unknown"
    BY <1>2, <1>3, <2>1, KindOf DEF EvaluateOsUndetermined
  <2>. QED  BY <1>4, <1>6, <2>2
<1>7. CASE rule = PackageInventoryRule
  <2>1. EvaluatePackages(snapshot).kind = "satisfied"
    BY <1>7, SystemAnswers
  <2>2. SelectManager(snapshot) # NoManager
    BY <2>1, KindOf DEF EvaluatePackages
  <2>3. snapshot.managers # <<>>
    BY <2>2 DEF SelectManager, SelectFrom
  <2>. QED  BY <1>7, <2>3, SystemGrounds DEF SystemRead
<1>8. CASE rule = ServicesRule
  <2>1. EvaluateServices(snapshot, policy).kind = "satisfied"
    BY <1>8, SystemAnswers
  <2>2. snapshot.services.present
    BY <2>1, KindOf DEF EvaluateServices
  <2>. QED  BY <1>8, <2>2, SystemGrounds DEF SystemRead
<1>. QED  BY <1>5, <1>6, <1>7, <1>8 DEF SystemRules

\* The user scanner passes no rule without grounds.
LEMMA UserPasses ==
  ASSUME NEW rule \in UserRules, UserRead(snapshot),
         EvaluateUser(snapshot, Policies["user"], rule).kind = "satisfied"
  PROVE  \E h \in witnessed : Grounds(rule, h)
<1>1. CASE rule = NoEmptyPasswordRule
  <2>1. EvaluateNoEmptyPassword(snapshot).kind = "satisfied"
    BY <1>1, UserAnswers
  <2>2. snapshot.shadow_readable
    BY <2>1, KindOf DEF EvaluateNoEmptyPassword
  <2>. QED  BY <1>1, <2>2, UserGrounds DEF UserRead
<1>2. CASE rule # NoEmptyPasswordRule
  <2>1. rule \in {InventoryRule, SingleRootRule, PrivilegedExpectedRule, DormantAccountRule}
    BY <1>2 DEF UserRules
  <2>. QED  BY <2>1, UserGrounds DEF UserRead
<1>. QED  BY <1>1, <1>2

\* The Docker scanner passes no rule without grounds.
LEMMA DockerPasses ==
  ASSUME NEW rule \in DockerRules, DockerRead(snapshot),
         EvaluateDocker(snapshot, Policies["docker"], rule).kind = "satisfied"
  PROVE  \E h \in witnessed : Grounds(rule, h)
<1>. DEFINE policy == Policies["docker"]
<1>1. snapshot.daemon = "reachable"
  BY KindOf DEF EvaluateDocker
<1>2. EvaluateReachable(snapshot, policy, rule).kind = "satisfied"
  BY <1>1 DEF EvaluateDocker
<1>3. CASE rule \in {VersionEolRule, VersionObsoleteRule}
  <2>1. PICK isFinding : VersionRule(snapshot, isFinding).kind = "satisfied"
    <3>1. CASE rule = VersionEolRule
      BY <1>2, <3>1, DockerAnswers DEF EvaluateVersionEol
    <3>2. CASE rule = VersionObsoleteRule
      BY <1>2, <3>2, DockerAnswers DEF EvaluateVersionObsolete
    <3>. QED  BY <1>3, <3>1, <3>2
  <2>2. snapshot.version # NoServerVersion
    BY <2>1, KindOf DEF VersionRule
  <2>. QED  BY <1>1, <1>3, <2>2, DockerGrounds DEF DockerRead
<1>4. CASE rule \in {InsecureRegistriesRule, TcpSocketTlsRule, DaemonHardeningRule}
  <2>1. PICK isFinding : ConfigRule(snapshot, isFinding).kind = "satisfied"
    <3>1. CASE rule = InsecureRegistriesRule
      BY <1>2, <3>1, DockerAnswers DEF EvaluateInsecureRegistries
    <3>2. CASE rule = TcpSocketTlsRule
      BY <1>2, <3>2, DockerAnswers DEF EvaluateSocket
    <3>3. CASE rule = DaemonHardeningRule
      BY <1>2, <3>3, DockerAnswers DEF EvaluateHardening
    <3>. QED  BY <1>4, <3>1, <3>2, <3>3
  <2>2. snapshot.config.known
    BY <2>1, KindOf DEF ConfigRule
  <2>. QED  BY <1>1, <1>4, <2>2, DockerGrounds DEF DockerRead
<1>. QED  BY <1>3, <1>4 DEF DockerRules

\* The directive that counts was said by a list the scanner read.
LEMMA DirectiveIsSaid ==
  ASSUME SshRead(snapshot), snapshot.source \notin {"absent", "unassessable"},
         NEW name, Configured(snapshot, name)
  PROVE  \E h \in witnessed : Said(h, name, Directive(snapshot, name))
<1>. DEFINE at == {i \in DOMAIN snapshot.lines : snapshot.lines[i].name = name}
<1>1. DOMAIN snapshot.lines = 1 .. Len(snapshot.lines) /\ Len(snapshot.lines) \in Nat
  BY LenProperties DEF SshRead
<1>2. at \subseteq 1 .. Len(snapshot.lines) /\ at # {}
  BY <1>1 DEF Configured
<1>3. PICK i : i = CHOOSE k \in at : \A j \in at : j <= k
  OBVIOUS
<1>4. i \in at
  <2>. HIDE DEF at
  <2>1. \E k \in at : \A j \in at : j <= k
    BY <1>1, <1>2, LastPlace
  <2>. QED  BY <1>3, <2>1
<1>5. Directive(snapshot, name) = snapshot.lines[i].value
  BY <1>3 DEF Directive
<1>6. snapshot.lines[i] \in Elements(snapshot.lines) /\ snapshot.lines[i].name = name
  BY <1>4 DEF Elements
<1>. QED  BY <1>5, <1>6 DEF SshRead, Said

\* The SSH scanner passes no rule without grounds.
LEMMA SshPasses ==
  ASSUME NEW rule \in SshRules, SshRead(snapshot),
         EvaluateSsh(snapshot, Policies["ssh"], rule).kind = "satisfied"
  PROVE  \E h \in witnessed : Grounds(rule, h)
<1>. DEFINE policy == Policies["ssh"]
            root == Directive(snapshot, "permitrootlogin")
            password == Directive(snapshot, "passwordauthentication")
<1>1. snapshot.source \notin {"absent", "unassessable"}
  BY KindOf DEF EvaluateSsh
<1>2. EvaluateConfigured(snapshot, policy, rule).kind = "satisfied"
  BY <1>1 DEF EvaluateSsh
<1>3. CASE rule = PermitRootLoginRule
  <2>1. EvaluatePermitRootLogin(snapshot).kind = "satisfied"
    BY <1>2, <1>3, SshAnswers
  <2>2. Configured(snapshot, "permitrootlogin") /\ root # "yes"
    BY <2>1, KindOf DEF EvaluatePermitRootLogin, RequiringDirective
  <2>. QED  BY <1>1, <1>3, <2>2, DirectiveIsSaid, SshGrounds
<1>4. CASE rule = RootLoginKeyOnlyRule
  <2>1. EvaluateKeyOnly(snapshot).kind = "satisfied"
    BY <1>2, <1>4, SshAnswers
  <2>2. Configured(snapshot, "permitrootlogin") /\ root \notin KeyOnlyLogins
    BY <2>1, KindOf DEF EvaluateKeyOnly, RequiringDirective, KeyOnlyLogins
  <2>. QED  BY <1>1, <1>4, <2>2, DirectiveIsSaid, SshGrounds
<1>5. CASE rule = PasswordAuthRule
  <2>1. EvaluatePasswordAuth(snapshot).kind = "satisfied"
    BY <1>2, <1>5, SshAnswers
  <2>2. Configured(snapshot, "passwordauthentication") /\ password # "yes"
    BY <2>1, KindOf DEF EvaluatePasswordAuth, RequiringDirective
  <2>. QED  BY <1>1, <1>5, <2>2, DirectiveIsSaid, SshGrounds
<1>6. CASE rule \in {WeakCryptoRule, ProtocolV1Rule}
  <2>1. PICK isFinding \in BOOLEAN : UnlessHidden(snapshot, isFinding).kind = "satisfied"
    <3>1. CASE rule = WeakCryptoRule
      BY <1>2, <3>1, SshAnswers DEF EvaluateWeakCrypto
    <3>2. CASE rule = ProtocolV1Rule
      BY <1>2, <3>2, SshAnswers DEF EvaluateProtocolV1
    <3>. QED  BY <1>6, <3>1, <3>2
  <2>2. ~snapshot.unresolved_include
    BY <2>1, KindOf DEF UnlessHidden
  <2>3. PICK h \in witnessed : FullyRead(h)
    BY <1>1, <2>2 DEF SshRead
  <2>. QED  BY <1>6, <2>3, SshGrounds
<1>. QED  BY <1>3, <1>4, <1>5, <1>6 DEF SshRules

\* No verdict passes by default, whatever changes on the host between probes.
THEOREM PassesHaveGrounds == Spec => []PassesAreGrounded
<1>1. Inv => PassesAreGrounded
  <2>. SUFFICES ASSUME Inv, Evaluated, probe = "acquired", NEW rule \in RulesOf[scanner],
                       results[rule].kind = "satisfied"
                PROVE  \E h \in witnessed : Grounds(rule, h)
    BY DEF PassesAreGrounded
  <2>1. scanner \in Names /\ results[rule] = Evaluation(rule)
    BY DEF Inv, ResultsInv, Evaluated
  <2>2. CASE scanner = "system"
    BY <2>1, <2>2, ScannersRules, SystemPasses DEF Evaluation, Inv, SnapshotInv
  <2>3. CASE scanner = "user"
    BY <2>1, <2>3, ScannersRules, UserPasses DEF Evaluation, Inv, SnapshotInv
  <2>4. CASE scanner = "docker"
    BY <2>1, <2>4, ScannersRules, DockerPasses DEF Evaluation, Inv, SnapshotInv
  <2>5. CASE scanner = "ssh"
    BY <2>1, <2>5, ScannersRules, SshPasses DEF Evaluation, Inv, SnapshotInv
  <2>. QED  BY <2>1, <2>2, <2>3, <2>4, <2>5 DEF Names
<1>. QED  BY <1>1, Invariant, PTL

=============================================================================
