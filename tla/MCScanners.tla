----------------------------- MODULE MCScanners -----------------------------
(***************************************************************************)
(* Each scanner over the host states its code tells apart, one change      *)
(* during the acquisition, and builder snapshots for what the host path    *)
(* never fills in (last logins, grants, effective Docker flags).           *)
(***************************************************************************)
EXTENDS Scanners

Os(id, version) == [readable |-> TRUE, id |-> id, version |-> version]
Name(base, unit) == [base |-> base, unit |-> unit]
Telnet == [name |-> Name("telnet", TRUE), active |-> TRUE]
Cron   == [name |-> Name("cron", TRUE), active |-> TRUE]

SystemHosts ==
  {[hostname |-> n, os |-> o, managers |-> m, inventories |-> {"dpkg", "rpm"}, systemd |-> d,
    running |-> r, listed |-> TRUE] :
     n \in {"named", "unreadable"},
     o \in {Os("debian", "12"), Os("debian", "8"), Os("fedora", "99"), Os("", "12"),
            Os("debian", NoVersion), Unreadable},
     m \in {<<>>, <<"rpm">>, <<"dpkg", "rpm">>},
     d \in BOOLEAN, r \in {{}, {Telnet, Cron}}}

\* Only states in which one thing differs from a common one, to keep pairs few.
CommonSystem ==
  [hostname |-> "named", os |-> Os("debian", "12"), managers |-> <<"dpkg", "rpm">>,
   inventories |-> {"dpkg", "rpm"}, systemd |-> TRUE, running |-> {Cron}, listed |-> TRUE]

NearSystem ==
  {CommonSystem}
    \cup {[CommonSystem EXCEPT !.os = h.os] : h \in SystemHosts}
    \cup {[CommonSystem EXCEPT !.managers = h.managers] : h \in SystemHosts}
    \cup {[CommonSystem EXCEPT !.inventories = listing] : listing \in {{}, {"rpm"}}}
    \cup {[CommonSystem EXCEPT !.systemd = h.systemd, !.running = h.running] : h \in SystemHosts}
    \cup {[CommonSystem EXCEPT !.hostname = "unreadable"]}
    \cup {[CommonSystem EXCEPT !.running = {Telnet, Cron}, !.listed = FALSE]}

Line(name, uid, shell)  == [name |-> name, uid |-> uid, shell |-> shell]
Entry(name, field)      == [name |-> name, field |-> field]

UserHosts ==
  {[passwd |-> p, shadow |-> s] :
     p \in {[readable |-> FALSE, lines |-> <<>>],
            [readable |-> TRUE, lines |-> <<Line("root", 0, "bash"), Line("ann", 1000, "bash")>>],
            [readable |-> TRUE, lines |-> <<Line("root", 0, "bash"), Line("toor", 0, "bash"),
                                            Line("web", 1001, "nologin")>>]},
     s \in {[readable |-> FALSE, lines |-> <<>>],
            [readable |-> TRUE, lines |-> <<Entry("root", "*"), Entry("ann", "x"), Entry("ann", "")>>],
            [readable |-> TRUE, lines |-> <<Entry("ann", ""), Entry("web", "")>>]}}

Config(registries, hosts, tls, hardened) ==
  [known |-> TRUE, registries |-> registries, hosts |-> hosts, tlsverify |-> tls,
   hardened |-> hardened, secret_log_opts |-> {"token"}]

DockerHosts ==
  {[info |-> i, version |-> v, present |-> p, json |-> j, config |-> c] :
     i \in {"ok", "denied", "down"}, v \in {NoServerVersion, <<24, 0, 9>>, <<27, 1, 0>>},
     p \in BOOLEAN, j \in {"present", "malformed", "absent"},
     c \in {Config({}, {"unix"}, FALSE, {"live-restore"})}}

SshLine(name, value) == [name |-> name, value |-> value]
Crypto(name, modifier, algorithms) ==
  SshLine(name, [modifier |-> modifier, algorithms |-> algorithms])

\* A dump has every directive once and no modifiers.
Dump(login, algorithms) ==
  [ok |-> TRUE, lines |-> <<SshLine("permitrootlogin", login), SshLine("passwordauthentication", "no"),
                            Crypto("ciphers", "", algorithms)>>]
NoDump == [ok |-> FALSE, lines |-> <<>>]

Logins == {"no", "yes", "prohibit-password", "without-password", "forced-commands-only"}

\* Lines of files: directives may be missing or repeated.
Clean   == <<SshLine("permitrootlogin", "no"), SshLine("passwordauthentication", "no")>>
Unknown == <<SshLine("permitrootlogin", "maybe")>>
KeyOnly == <<SshLine("permitrootlogin", "yes"), SshLine("permitrootlogin", "prohibit-password"),
             Crypto("ciphers", "+", {"3des"})>>
Old     == <<SshLine("protocol", {"2", "1"}), SshLine("passwordauthentication", "yes"),
             Crypto("macs", "-", {"md5"})>>

Base(lines, includes) == [readable |-> TRUE, lines |-> lines, includes |-> includes]
NoBase                == [readable |-> FALSE, lines |-> <<>>, includes |-> {}]

DropIns(lines, includes, unreadable) ==
  [readable |-> TRUE, lines |-> lines, includes |-> includes, unreadableFile |-> unreadable]
NoDropIns == [readable |-> FALSE, lines |-> <<>>, includes |-> {}, unreadableFile |-> FALSE]

SshHosts ==
  {[dump |-> Dump(l, {}), base |-> NoBase, dropIns |-> NoDropIns, present |-> TRUE] : l \in Logins}
  \cup
  {[dump |-> d, base |-> NoBase, dropIns |-> NoDropIns, present |-> p] :
     d \in {NoDump, Dump("no", {"3des"})}, p \in BOOLEAN}
  \cup
  {[dump |-> NoDump, base |-> b, dropIns |-> d, present |-> TRUE] :
     b \in {Base(Clean, {"drop-ins"}), Base(Old, {"drop-ins", "elsewhere"}), Base(<<>>, {}),
            Base(Unknown, {})},
     d \in {NoDropIns, DropIns(KeyOnly, {}, FALSE), DropIns(Old, {}, TRUE),
            DropIns(<<>>, {"elsewhere"}, FALSE)}}

MCHosts == [system |-> NearSystem, user |-> UserHosts, docker |-> DockerHosts, ssh |-> SshHosts]

Account(name, uid, shell, password, last, expired) ==
  [name |-> name, uid |-> uid, shell |-> shell,
   shadow |-> [present |-> TRUE, password |-> password, last_login |-> last, expired |-> expired]]

UserFixtures ==
  {[accounts |-> <<Account("root", 0, "bash", "hashed", 0, FALSE),
                   Account("ann", 1000, "bash", password, last, expired)>>,
    shadow_readable |-> TRUE, grants |-> g] :
     password \in {"hashed", "locked"}, last \in {90, 91, Never}, expired \in BOOLEAN,
     g \in {<<>>, <<[name |-> "ann", source |-> "sudo group"],
                    [name |-> "ann", source |-> "wheel group"]>>}}

DockerFixtures ==
  {BuiltSnapshot("reachable", v, "absent", NoConfig, c, u) :
     v \in {<<23, 9, 9>>, <<24, 0, 0>>, <<26, 9, 0>>, <<27, 0, 0>>},
     c \in {Config({"r"}, {"unix", "tcp"}, FALSE, {}), Config({}, {"tcp"}, TRUE, {"live-restore"})},
     u \in BOOLEAN}

MCFixtures ==
  [system |-> {[os |-> Os("rhel", "8"), managers |-> <<"dpkg", "rpm">>, inventory |-> TRUE,
                services |-> [present |-> TRUE,
                              running |-> {[name |-> Name("telnet", FALSE), active |-> FALSE]}]]},
   user |-> UserFixtures, docker |-> DockerFixtures,
   ssh |-> {SshSnapshot("parsed fallback", Clean, TRUE)}]

Release(os, version, status) == [os |-> os, version |-> version, status |-> status]

MCPolicies ==
  [system |-> [support |-> <<Release("debian", "12", "supported"),
                             Release("debian", "8", "end of support"),
                             Release("debian", "12", "end of support")>>,
               interdicted |-> {Name("telnet", FALSE)}],
   user   |-> [inactivity_threshold_days |-> 90, expected_privileged |-> {"root"}],
   docker |-> [min_supported |-> <<24, 0, 0>>, min_recommended |-> <<27, 0, 0>>,
               hardening |-> {"live-restore"}],
   ssh    |-> [weak |-> [ciphers |-> {"3des"}, macs |-> {"md5"}, kexalgorithms |-> {}]]]

=============================================================================
