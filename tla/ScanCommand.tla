----------------------------- MODULE ScanCommand -----------------------------
(***************************************************************************)
(* `sovri-agent scan` (src/src/scan.rs, src/src/main.rs): one invocation   *)
(* after another, each a straight line from its arguments to an exit code, *)
(* over an evidence store that outlives it.                                *)
(*                                                                         *)
(* External: the catalog loader and its validation, the engine (one result *)
(* per rule of each selected control) and the evidence store (records      *)
(* addressed by content; a failed write may have stored some of them).     *)
(* What the scanners find on the host is a member of Machines; Scanners    *)
(* models how they find it.                                                *)
(***************************************************************************)
EXTENDS Evaluations

CONSTANTS
  CommandLines,  \* the argument lists an operator may give
  Catalogs,      \* directory -> what the loader and the validation make of it
  ControlLists,  \* the value of --control -> its comma-separated entries
  Machines       \* what the scanners may find: evidence and evaluations

VARIABLES
  line,      \* the arguments of the invocation
  rest,      \* those not parsed yet
  config,    \* the parsed configuration
  pc,        \* where the invocation is
  machine,   \* the host during this invocation
  evidence,  \* the records collected so far
  acquired,  \* the scanners that have read the host
  selection, \* the controls to run
  results,   \* the results of the engine
  store,     \* the evidence store at the directory of --evidence-store
  output,    \* what was printed, and where
  exit       \* the exit code, or NoCode

vars == <<line, rest, config, pc, machine, evidence, acquired, selection, results, store,
          output, exit>>

NoValue == "no value"
NoCode  == -1
ExitClean         == 0
ExitPostureBreach == 2
ExitUsage         == 64

Scans == <<"system", "user", "docker", "ssh">>

\* host_registry: the rules that have an evaluator.
Registered == {"host.os.eol", "host.account.single-root", "container.docker.daemon-version-eol",
               "host.ssh.permit-root-login", "host.ssh.password-auth"}

Statuses == {"PASS", "FAIL", "WARNING", "SKIPPED", "ERROR"}

ValueFlags == {"--catalog", "--framework", "--control", "--fail-on", "--evidence-store"}

\* The scanners cite only what they have logged (CitedEvidenceIsLogged of
\* Scanners): the references of an evaluation are among the evidence of a host
\* on which every scanner could read.
ASSUME CitedIsCollected ==
  \A m \in Machines :
    m.unreadable = {} =>
      \A id \in Registered :
        m.evaluations[id].refs \subseteq UNION {m.evidence[s] : s \in Elements(Scans)}

\* An argument list is a sequence.
ASSUME LinesAssumption == \A l \in CommandLines : l \in Seq(Elements(l))

\* Whatever the evaluator of a registered rule answers is one of the four kinds.
ASSUME KindsAssumption ==
  \A m \in Machines : \A id \in Registered : m.evaluations[id].kind \in Kinds

\* The policy of a rule is one of the statuses.
ASSUME PoliciesAssumption ==
  \A directory \in DOMAIN Catalogs : \A r \in Catalogs[directory].rules : r.policy \in Statuses

\* What a machine may hide is the host of one of the four scanners.
ASSUME UnreadableAreScans == \A m \in Machines : m.unreadable \subseteq Elements(Scans)

EmptyConfig == [f \in ValueFlags |-> IF f = "--fail-on" THEN "fail" ELSE NoValue]

Init ==
  /\ line = <<>> /\ rest = <<>> /\ config = EmptyConfig
  /\ pc = "idle"
  /\ machine \in Machines
  /\ evidence = {} /\ acquired = {} /\ selection = {} /\ results = {}
  /\ store = {}
  /\ output = "nothing" /\ exit = NoCode

-----------------------------------------------------------------------------
(***************************************************************************)
(* The end of an invocation.                                               *)
(***************************************************************************)
Exit(code, printed) ==
  /\ pc' = "exited"
  /\ exit' = code
  /\ output' = printed

\* fail: the error goes to standard error, with the code of its kind.
Fail(code) == Exit(code, "error")

Goto(step) == pc' = step /\ UNCHANGED <<exit, output>>

Start ==
  /\ pc \in {"idle", "exited"}
  /\ line' \in CommandLines
  /\ rest' = line'
  /\ machine' \in Machines
  /\ config' = EmptyConfig
  /\ evidence' = {} /\ acquired' = {} /\ selection' = {} /\ results' = {}
  /\ pc' = "parse" /\ output' = "nothing" /\ exit' = NoCode
  /\ UNCHANGED store

-----------------------------------------------------------------------------
(***************************************************************************)
(* parse_args, one argument at a time.  An argument is a flag with or      *)
(* without an inline value, and a text in case it is taken as the value of *)
(* the flag before it.                                                     *)
(***************************************************************************)
Value == IF rest[1].inline # NoValue THEN rest[1].inline
         ELSE IF Len(rest) > 1 THEN rest[2].text ELSE NoValue

Taken == IF rest[1].inline # NoValue THEN 1 ELSE 2

\* Not the code: every threshold is accepted.
AnyFailOn(flag, value) == FALSE

BadFailOn(flag, value) == flag = "--fail-on" /\ value \notin {"fail", "warning", "never"}

IsHelp == rest[1].flag = "--help"

ParseHelp ==
  /\ pc = "parse" /\ rest # <<>>
  /\ IsHelp
  /\ Exit(ExitClean, "help")
  /\ UNCHANGED <<line, rest, config, machine, evidence, acquired, selection, results, store>>

ParseValue ==
  /\ pc = "parse" /\ rest # <<>>
  /\ rest[1].flag \in ValueFlags
  /\ Value # NoValue /\ ~BadFailOn(rest[1].flag, Value)
  /\ config' = [config EXCEPT ![rest[1].flag] = Value]
  /\ rest' = SubSeq(rest, Taken + 1, Len(rest))
  /\ UNCHANGED <<line, pc, machine, evidence, acquired, selection, results, store, output, exit>>

\* An unknown argument, a flag without its value, a threshold that is none.
ParseError ==
  /\ pc = "parse" /\ rest # <<>>
  /\ ~IsHelp
  /\ \/ rest[1].flag \notin ValueFlags
     \/ Value = NoValue
     \/ BadFailOn(rest[1].flag, Value)
  /\ Fail(ExitUsage)
  /\ UNCHANGED <<line, rest, config, machine, evidence, acquired, selection, results, store>>

EndOfArguments ==
  /\ pc = "parse" /\ rest = <<>>
  /\ IF config["--catalog"] = NoValue THEN Fail(ExitUsage) ELSE Goto("load")
  /\ UNCHANGED <<line, rest, config, machine, evidence, acquired, selection, results, store>>

-----------------------------------------------------------------------------
(***************************************************************************)
(* execute.                                                                *)
(***************************************************************************)
Catalog == Catalogs[config["--catalog"]]

\* A directory that is not there does not load.
IsKnownDirectory == config["--catalog"] \in DOMAIN Catalogs

LoadCatalog ==
  /\ pc = "load"
  /\ IF IsKnownDirectory /\ Catalog.loads /\ Catalog.valid THEN Goto("resolve") ELSE Fail(ExitUsage)
  /\ UNCHANGED <<line, rest, config, machine, evidence, acquired, selection, results, store>>

\* resolve_selection: exactly one of the two flags, and every entry known.
Selected ==
  IF config["--framework"] # NoValue
    THEN Catalog.mapped[config["--framework"]]
    ELSE Elements(ControlLists[config["--control"]])

Resolvable ==
  /\ (config["--framework"] = NoValue) # (config["--control"] = NoValue)
  /\ config["--framework"] # NoValue => config["--framework"] \in DOMAIN Catalog.mapped
  /\ config["--control"] # NoValue =>
       Elements(ControlLists[config["--control"]]) \subseteq Catalog.controls

ResolveSelection ==
  /\ pc = "resolve"
  /\ IF Resolvable THEN Goto("acquire") /\ selection' = Selected
                   ELSE Fail(ExitUsage) /\ UNCHANGED selection
  /\ UNCHANGED <<line, rest, config, machine, evidence, acquired, results, store>>

\* host_registry takes the scanners in their order; the system and the user
\* scanner may fail to read the host, and the scan with them.
NextScan == Scans[Cardinality(acquired) + 1]

\* Not the code: a host that cannot be read counts as a usage error.
AcquireScannerOrUsage ==
  /\ pc = "acquire"
  /\ acquired # Elements(Scans)
  /\ acquired' = acquired \cup {NextScan}
  /\ IF NextScan \in machine.unreadable
       THEN Fail(ExitUsage) /\ UNCHANGED evidence
       ELSE /\ evidence' = evidence \cup machine.evidence[NextScan]
            /\ UNCHANGED <<pc, exit, output>>
  /\ UNCHANGED <<line, rest, config, machine, selection, results, store>>

AcquireScanner ==
  /\ pc = "acquire"
  /\ acquired # Elements(Scans)
  /\ acquired' = acquired \cup {NextScan}
  /\ IF NextScan \in machine.unreadable
       THEN Fail(ExitPostureBreach) /\ UNCHANGED evidence
       ELSE /\ evidence' = evidence \cup machine.evidence[NextScan]
            /\ UNCHANGED <<pc, exit, output>>
  /\ UNCHANGED <<line, rest, config, machine, selection, results, store>>

\* Registry::evaluate: a rule nobody registered is an execution failure.
ResultOf(rule) ==
  LET evaluation == IF rule.id \in Registered THEN machine.evaluations[rule.id] ELSE Failure
  IN  [control |-> rule.control, rule |-> rule.id,
       status |-> StatusOf(evaluation, rule.policy), refs |-> evaluation.refs]

RunScan ==
  /\ pc = "acquire"
  /\ acquired = Elements(Scans)
  /\ results' = {ResultOf(r) : r \in {r \in Catalog.rules : r.control \in selection}}
  /\ Goto(IF config["--evidence-store"] = NoValue THEN "report" ELSE "persist")
  /\ UNCHANGED <<line, rest, config, machine, evidence, acquired, selection, store>>

PersistEvidence ==
  /\ pc = "persist"
  /\ store' = store \cup evidence
  /\ Goto("report")
  /\ UNCHANGED <<line, rest, config, machine, evidence, acquired, selection, results>>

\* Not the code: a store error is ignored and the report is printed.
PersistFailsSilently ==
  /\ pc = "persist"
  /\ \E written \in SUBSET evidence : store' = store \cup written
  /\ Goto("report")
  /\ UNCHANGED <<line, rest, config, machine, evidence, acquired, selection, results>>

\* The store cannot be opened, or a write fails after some records.
PersistFails ==
  /\ pc = "persist"
  /\ \E written \in SUBSET evidence : store' = store \cup written
  /\ Fail(ExitPostureBreach)
  /\ UNCHANGED <<line, rest, config, machine, evidence, acquired, selection, results>>

\* Not the code: an execution error is no breach.
BreachesOnFindings(status, failOn) ==
  /\ failOn # "never"
  /\ status = "FAIL" \/ (status = "WARNING" /\ failOn = "warning")

\* posture_exit_code
Breaches(status, failOn) ==
  /\ failOn # "never"
  /\ status \in {"FAIL", "ERROR"} \/ (status = "WARNING" /\ failOn = "warning")

Report ==
  /\ pc = "report"
  /\ Exit(IF \E r \in results : Breaches(r.status, config["--fail-on"])
            THEN ExitPostureBreach ELSE ExitClean, "report")
  /\ UNCHANGED <<line, rest, config, machine, evidence, acquired, selection, results, store>>

\* The process is killed; what the store has is kept.
Killed ==
  /\ pc \notin {"idle", "exited"}
  /\ pc' = "idle"
  /\ store' \in IF pc = "persist" THEN {store \cup w : w \in SUBSET evidence} ELSE {store}
  /\ UNCHANGED <<line, rest, config, machine, evidence, acquired, selection, results, output,
                 exit>>

\* One step of the running invocation.
Step ==
  \/ ParseHelp \/ ParseValue \/ ParseError \/ EndOfArguments
  \/ LoadCatalog \/ ResolveSelection
  \/ AcquireScanner \/ RunScan
  \/ PersistEvidence \/ PersistFails
  \/ Report
  \/ Killed

Next == Start \/ Step

Spec == Init /\ [][Next]_vars

-----------------------------------------------------------------------------
(***************************************************************************)
(* Properties.                                                             *)
(***************************************************************************)

\* Every variable has its type.
TypeOK ==
  /\ pc \in {"idle", "parse", "load", "resolve", "acquire", "persist", "report", "exited"}
  /\ machine \in Machines
  /\ acquired \subseteq Elements(Scans)
  /\ DOMAIN config = ValueFlags
  /\ config["--fail-on"] \in {"fail", "warning", "never"}
  /\ \A r \in results : r.status \in Statuses
  /\ output \in {"nothing", "help", "error", "report"}
  /\ exit \in {NoCode, ExitClean, ExitPostureBreach, ExitUsage}
  /\ pc = "exited" <=> exit # NoCode /\ pc # "idle"

\* An invocation that ends in a usage, catalog or selection error, or in the
\* help, has read nothing of the host and collected nothing: those paths do
\* not depend on the machine they run on.
UsageErrorsAreHostIndependent ==
  exit = ExitUsage \/ output = "help" => acquired = {} /\ evidence = {} /\ results = {}

\* The value of the flag at place i, and the places that it and its value take.
ValueAt(i) == IF line[i].inline # NoValue THEN line[i].inline ELSE line[i + 1].text
Width(i)   == IF line[i].inline # NoValue THEN 1 ELSE 2

\* The places where the line has a flag: the first, and whichever comes after a
\* flag and its value.  No other set of places is like this.
AreFlags(places) ==
  \A i \in DOMAIN line : i \in places <=> i = 1 \/ \E j \in places : i = j + Width(j)

\* The value of the last occurrence of a flag.
LastValue(flag, default) ==
  LET places == CHOOSE at \in SUBSET DOMAIN line : AreFlags(at)
      given  == {i \in places : line[i].flag = flag}
      last   == CHOOSE i \in given : \A j \in given : j <= i
  IN  IF given = {} THEN default ELSE ValueAt(last)

\* The exit code and what was printed tell the same story, whatever the order
\* and the repetition of the flags: a report stands for a completed scan and
\* its code follows from its statuses and the last --fail-on given; every
\* other code comes with an error and no report.
ExitCodeTellsTheOutcome ==
  pc = "exited" =>
    \/ output = "help" /\ exit = ExitClean
    \/ output = "error" /\ exit = ExitUsage
    \/ output = "error" /\ exit = ExitPostureBreach /\ acquired # {}
    \/ /\ output = "report"
       /\ {<<r.control, r.rule>> : r \in results} =
            {<<r.control, r.id>> : r \in {r \in Catalog.rules : r.control \in selection}}
       /\ LET level == LastValue("--fail-on", "fail")
              bad   == CASE level = "fail"    -> {"FAIL", "ERROR"}
                         [] level = "warning" -> {"FAIL", "ERROR", "WARNING"}
                         [] level = "never"   -> {}
          IN  exit = IF {r.status : r \in results} \cap bad = {} THEN 0 ELSE 2

\* A report that was to be backed by the evidence store is: every record the
\* scanners collected, and so every reference of every result, is in the store
\* when the report is printed, also after earlier scans failed or were killed
\* half way through a write.
ReportedEvidenceIsStored ==
  output = "report" /\ config["--evidence-store"] # NoValue =>
    /\ UNION {machine.evidence[s] : s \in Elements(Scans)} \subseteq store
    /\ \A r \in results : r.refs \subseteq store

=============================================================================
