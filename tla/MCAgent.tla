------------------------------- MODULE MCAgent -------------------------------
(***************************************************************************)
(* Command lines, catalogs and machines for the scan command; report       *)
(* command lines that reach every branch of its parse_args, two paths, and *)
(* stores left by other programs: the consent corpus with passes, skips    *)
(* and errors, records without a digest next to sound ones, records of     *)
(* which a decoder reads too little or nothing.                            *)
(***************************************************************************)
EXTENDS Agent, TLC

Flag(flag, value)  == [flag |-> flag, inline |-> value, text |-> flag]
Bare(flag)         == [flag |-> flag, inline |-> NoValue, text |-> flag]
Word(text)         == [flag |-> text, inline |-> NoValue, text |-> text]
Dir                == Flag("--catalog", "good")

MCCommandLines ==
  {<<Dir, Flag("--framework", "f")>>,
   <<Bare("--catalog"), Word("good"), Bare("--framework"), Word("f"), Flag("--evidence-store", "s")>>,
   <<Dir, Flag("--control", "a,a"), Flag("--fail-on", "warning"), Flag("--evidence-store", "s")>>,
   <<Flag("--fail-on", "warning"), Dir, Flag("--control", "c"), Flag("--fail-on", "never")>>,
   <<Dir, Flag("--control", "c"), Flag("--fail-on", "never"), Flag("--fail-on", "fail")>>,
   <<Dir, Bare("--fail-on"), Word("never"), Flag("--control", "a"), Bare("--evidence-store"),
     Flag("--fail-on", "warning")>>,
   <<Dir, Flag("--control", "a,zzz")>>,
   <<Dir, Flag("--control", "a,")>>,
   <<Dir, Flag("--framework", "g")>>,
   <<Dir, Flag("--framework", "f"), Flag("--control", "c")>>,
   <<Dir>>,
   <<Flag("--framework", "f")>>,
   <<Flag("--catalog", "broken"), Flag("--framework", "f")>>,
   <<Flag("--catalog", "invalid"), Flag("--framework", "f")>>,
   <<Dir, Bare("--help"), Flag("--fail-on", "bad")>>,
   <<Flag("--fail-on", "bad"), Bare("--help")>>,
   <<Bare("--catalog"), Bare("--help")>>,
   <<Dir, Bare("--framework")>>,
   <<Word("surprise")>>}

Rule(control, id, policy) == [control |-> control, id |-> id, policy |-> policy]

Good ==
  [loads |-> TRUE, valid |-> TRUE, controls |-> {"a", "c"},
   mapped |-> [f |-> {"a", "c"}],
   rules |-> {Rule("a", "host.ssh.permit-root-login", "WARNING"),
              Rule("a", "host.os.eol", "FAIL"),
              Rule("c", "host.account.single-root", "FAIL"),
              Rule("c", "other.rule", "FAIL")}]

MCCatalogs ==
  [good    |-> Good,
   broken  |-> [Good EXCEPT !.loads = FALSE],
   invalid |-> [Good EXCEPT !.valid = FALSE]]

MCControlLists == ("a,a" :> <<"a", "a">>) @@ ("c" :> <<"c">>) @@ ("a" :> <<"a">>) @@ ("a,zzz" :> <<"a", "zzz">>)
                    @@ ("a," :> <<"a", "">>)

Answers(sshd, root, accounts) ==
  ("host.os.eol" :> NotApplicable)
    @@ ("host.ssh.permit-root-login" :> [kind |-> root, refs |-> {sshd}])
    @@ ("host.ssh.password-auth" :> Satisfied({sshd}))
    @@ ("host.account.single-root" :> accounts)
    @@ ("container.docker.daemon-version-eol" :> NotApplicable)

LogsNow  == [system |-> {"os-now"}, user |-> {"root-now"}, docker |-> {}, ssh |-> {"sshd-now"}]
LogsThen == [system |-> {}, user |-> {"root-then"}, docker |-> {}, ssh |-> {"sshd-then"}]

MCMachines ==
  {[unreadable |-> {}, evidence |-> LogsNow, evaluations |-> Answers("sshd-now", "satisfied", Satisfied({}))],
   [unreadable |-> {}, evidence |-> LogsThen,
    evaluations |-> Answers("sshd-then", "finding", Finding({"root-then"}))],
   [unreadable |-> {"user"}, evidence |-> LogsNow,
    evaluations |-> Answers("sshd-now", "satisfied", Satisfied({}))]}

-----------------------------------------------------------------------------
Run   == Flag("--run", "r1")
Stamp == Flag("--executed-at", "t")
At(p) == Flag("--evidence-store", p)
Score(s) == Flag("--framework-score", s)

MCReportLines ==
  {<<Run, At("s"), Stamp>>,
   <<Bare("--run"), Word("r1"), Bare("--evidence-store"), Word("s"), Bare("--executed-at"), Word("t"),
     Score("42.0%")>>,
   <<Run, At("nowhere"), Stamp>>,
   <<Run, At("s"), Stamp, Score("100.0%")>>,
   <<Run, At("s"), Stamp, Score("100.1%")>>,
   <<Run, At("s"), Stamp, Score("42%")>>,
   <<Flag("--run", "a/b"), At("s"), Stamp>>,
   <<At("s"), Stamp>>,
   <<Run, Stamp>>,
   <<Run, At("s"), Flag("--executed-at", "now")>>,
   <<Flag("--run", "a/b"), Run, At("s"), Stamp>>,
   <<Flag("--run", "a/b"), Bare("--help")>>,
   <<Bare("--run")>>,
   <<Word("surprise"), Bare("--help")>>}

MCPaths == [s |-> "directory", nowhere |-> "missing"]

MCScores ==
  ("42.0%" :> [shaped |-> TRUE, whole |-> 42, fraction |-> 0])
    @@ ("100.0%" :> [shaped |-> TRUE, whole |-> 100, fraction |-> 0])
    @@ ("100.1%" :> [shaped |-> TRUE, whole |-> 100, fraction |-> 1])
    @@ ("42%" :> [shaped |-> FALSE, whole |-> 42, fraction |-> 0])

Record(control, signal, class, damage) ==
  [control |-> control, signal |-> signal, classification |-> class, damage |-> damage]

None == "none"

Scanned == {"os-now", "root-now", "sshd-now", "root-then", "sshd-then"}

MCContent ==
  [id \in Scanned |-> Record(None, None, "Sensitive", None)]
    @@ ("tracker" :> Record("consent.tracker.prior-consent", "www.google-analytics.com", "Public", None))
    @@ ("banner"  :> Record("consent.tracker.prior-consent", "consent signal was inconclusive", None, None))
    @@ ("unlinked" :> Record(None, "consent signal was inconclusive", "Public", None))
    @@ ("passed"  :> Record("custom", "PASS", "Public", None))
    @@ ("silent"  :> Record("custom", None, "Public", None))
    @@ ("docker"  :> Record("container.base-image.supported", "no Docker daemon is present", "Public", None))
    @@ ("sshd"    :> Record("host.ssh.permit-root-login", "sshd configuration could not be read", "Public", None))
    @@ ("sshd2"   :> Record("host.ssh.permit-root-login", "sshd configuration could not be read", "Secret", None))
    @@ ("loose"   :> Record(None, "sshd configuration could not be read", "Public", None))
    @@ ("old"     :> Record("custom", "PASS", "Public", "no content hash"))
    @@ ("older"   :> Record("custom", None, "Public", "no content hash"))
    @@ ("kindless" :> Record("custom", "PASS", "Public", "value"))
    @@ ("cut"     :> Record("custom", "PASS", "Public", "syntax"))

MCOtherBatches ==
  {{"passed", "silent"}, {"banner", "docker", "unlinked"}, {"tracker", "docker", "sshd", "sshd2", "loose"},
   {"passed", "old", "older", "kindless"}, {"old", "cut"}}

MCRank ==
  LET ids == <<"", "container.base-image.supported", "consent.tracker.prior-consent", "custom",
               "host.ssh.permit-root-login", "banner", "cut", "docker", "kindless", "loose", "old",
               "older", "os-now", "passed", "root-now", "root-then", "silent", "sshd", "sshd-now",
               "sshd-then", "sshd2", "tracker", "unlinked">>
  IN  [id \in {ids[i] : i \in DOMAIN ids} |-> CHOOSE i \in DOMAIN ids : ids[i] = id]

=============================================================================
