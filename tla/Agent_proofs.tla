---------------------------- MODULE Agent_proofs ----------------------------
(***************************************************************************)
(* Theorems about the commands of Agent, for any argument lists, any       *)
(* catalogs, any machines and any records left by other programs: a usage  *)
(* error has read nothing of the host, an exit code tells the outcome, the *)
(* evidence behind a scan that was to be stored is in the store, and a     *)
(* report agrees with itself and with the store.                           *)
(***************************************************************************)
EXTENDS Agent, FiniteSetTheorems, SequenceTheorems, WellFoundedInduction, TLAPS

\* What the scanners in `read` have logged on the host.
LoggedBy(read) == UNION {machine.evidence[s] : s \in read}

\* The evidence collected so far is what the scanners that have read the host
\* logged there, and none before the arguments are known to be sound.
EvidenceFollowsScanners ==
  /\ pc \in {"parse", "load", "resolve"} => acquired = {} /\ evidence = {} /\ results = {}
  /\ pc \in {"acquire", "persist", "report"} =>
       evidence = LoggedBy(acquired) /\ acquired \cap machine.unreadable = {}

\* Once there are results every scanner has read the host, the results cite
\* what was collected, and what was to be stored is stored before the report.
ResultsFollowEvidence ==
  /\ pc \in {"persist", "report"} =>
       acquired = Elements(Scans) /\ \A r \in results : r.refs \subseteq evidence
  /\ pc = "report" /\ config["--evidence-store"] # NoValue => evidence \subseteq store

\* The inductive invariant.
ScanInv ==
  /\ machine \in Machines
  /\ pc \in {"idle", "parse", "load", "resolve", "acquire", "persist", "report", "exited"}
  /\ pc # "exited" => output = "nothing" /\ exit = NoCode
  /\ EvidenceFollowsScanners
  /\ ResultsFollowEvidence
  /\ UsageErrorsAreHostIndependent
  /\ ReportedEvidenceIsStored

\* The state of the scan command but for the store.
scanVars == <<line, rest, config, pc, machine, evidence, acquired, selection, results, output, exit>>

\* A step that changes nothing of a scan keeps the invariant, whatever it does
\* elsewhere.
LEMMA ScanUntouched ==
  ASSUME ScanInv, UNCHANGED scanVars, store' = store
  PROVE  ScanInv'
BY DEF ScanInv, scanVars, EvidenceFollowsScanners, ResultsFollowEvidence, LoggedBy,
       UsageErrorsAreHostIndependent, ReportedEvidenceIsStored

\* A step that leaves no exit code, no output and nothing collected establishes
\* it, whatever the store holds.
LEMMA ScanForgotten ==
  ASSUME machine' \in Machines, pc' \in {"idle", "parse"},
         output' = "nothing", exit' = NoCode,
         evidence' = {}, acquired' = {}, results' = {}
  PROVE  ScanInv'
BY DEF ScanInv, EvidenceFollowsScanners, ResultsFollowEvidence, LoggedBy,
       UsageErrorsAreHostIndependent, ReportedEvidenceIsStored, NoCode, ExitUsage

\* While the arguments are parsed, the catalog loaded and the selection
\* resolved nothing is collected, whether the invocation goes on or fails.
LEMMA BeforeTheHostIsRead ==
  ASSUME ScanInv,
         \/ ParseHelp \/ ParseValue \/ ParseError \/ EndOfArguments
         \/ LoadCatalog \/ ResolveSelection
  PROVE  ScanInv'
<1>1. /\ pc \in {"parse", "load", "resolve"}
      /\ pc' \in {"parse", "load", "resolve", "acquire", "exited"}
      /\ UNCHANGED <<machine, evidence, acquired, results, store>>
      /\ \/ pc' = "exited" /\ output' \in {"help", "error"}
         \/ pc' # "exited" /\ output' = output /\ exit' = exit
  BY DEF ParseHelp, ParseValue, ParseError, EndOfArguments, LoadCatalog, ResolveSelection,
         Exit, Fail, Goto
<1>2. evidence = {} /\ acquired = {} /\ results = {} /\ machine \in Machines
  BY <1>1 DEF ScanInv, EvidenceFollowsScanners
<1>3. pc' # "exited" => output' = "nothing" /\ exit' = NoCode
  BY <1>1 DEF ScanInv
<1>4. EvidenceFollowsScanners'
  BY <1>1, <1>2 DEF EvidenceFollowsScanners, LoggedBy
<1>5. ResultsFollowEvidence'
  BY <1>1 DEF ResultsFollowEvidence
<1>6. UsageErrorsAreHostIndependent' /\ ReportedEvidenceIsStored'
  BY <1>1, <1>2, <1>3 DEF UsageErrorsAreHostIndependent, ReportedEvidenceIsStored
<1>. QED  BY <1>1, <1>2, <1>3, <1>4, <1>5, <1>6 DEF ScanInv

\* A scanner adds what it logged, or the scan ends without a usage error.
LEMMA ScannerKeepsInvariant ==
  ASSUME ScanInv, AcquireScanner
  PROVE  ScanInv'
<1>1. /\ pc = "acquire" /\ acquired' = acquired \cup {NextScan}
      /\ UNCHANGED <<config, machine, results, store>>
      /\ evidence = LoggedBy(acquired) /\ acquired \cap machine.unreadable = {}
      /\ output = "nothing" /\ exit = NoCode /\ machine \in Machines
  BY DEF AcquireScanner, ScanInv, EvidenceFollowsScanners
<1>2. CASE NextScan \in machine.unreadable
  <2>1. pc' = "exited" /\ output' = "error" /\ exit' = ExitPostureBreach
    BY <1>2 DEF AcquireScanner, Fail, Exit
  <2>. QED  BY <1>1, <2>1 DEF ScanInv, EvidenceFollowsScanners, ResultsFollowEvidence,
                   UsageErrorsAreHostIndependent, ReportedEvidenceIsStored, ExitUsage,
                   ExitPostureBreach
<1>3. CASE NextScan \notin machine.unreadable
  <2>1. /\ UNCHANGED <<pc, exit, output>>
        /\ evidence' = evidence \cup machine.evidence[NextScan]
    BY <1>3 DEF AcquireScanner
  <2>2. evidence' = LoggedBy(acquired)'
    BY <1>1, <2>1 DEF LoggedBy
  <2>3. (acquired \cap machine.unreadable)' = {}
    BY <1>1, <1>3
  <2>. QED  BY <1>1, <2>1, <2>2, <2>3 DEF ScanInv, EvidenceFollowsScanners,
                   ResultsFollowEvidence, UsageErrorsAreHostIndependent,
                   ReportedEvidenceIsStored, NoCode, ExitUsage
<1>. QED  BY <1>2, <1>3

\* The references of a result are among the evidence of a host that could be
\* read: a registered rule cites what was collected, any other rule nothing.
LEMMA ResultsCiteCollected ==
  ASSUME machine \in Machines, machine.unreadable = {}, NEW rule
  PROVE  ResultOf(rule).refs \subseteq LoggedBy(Elements(Scans))
<1>1. CASE rule.id \in Registered
  BY <1>1, CitedIsCollected DEF ResultOf, LoggedBy
<1>2. CASE rule.id \notin Registered
  BY <1>2 DEF ResultOf, Failure
<1>. QED  BY <1>1, <1>2

\* The engine runs when every scanner has read the host.
LEMMA EngineKeepsInvariant ==
  ASSUME ScanInv, RunScan
  PROVE  ScanInv'
<1>1. /\ pc = "acquire" /\ acquired = Elements(Scans)
      /\ UNCHANGED <<config, machine, evidence, acquired, store, exit, output>>
      /\ evidence = LoggedBy(acquired) /\ acquired \cap machine.unreadable = {}
      /\ output = "nothing" /\ exit = NoCode /\ machine \in Machines
  BY DEF RunScan, Goto, ScanInv, EvidenceFollowsScanners
<1>2. /\ pc' \in {"persist", "report"}
      /\ pc' = "report" => config["--evidence-store"] = NoValue
  BY DEF RunScan, Goto
<1>3. machine.unreadable = {}
  BY <1>1, UnreadableAreScans
<1>4. \A r \in results' : r.refs \subseteq evidence
  <2>1. results' = {ResultOf(r) : r \in {r \in Catalog.rules : r.control \in selection}}
    BY DEF RunScan
  <2>. QED  BY <1>1, <1>3, <2>1, ResultsCiteCollected
<1>5. EvidenceFollowsScanners'
  BY <1>1, <1>2 DEF EvidenceFollowsScanners, LoggedBy
<1>6. ResultsFollowEvidence'
  BY <1>1, <1>2, <1>4 DEF ResultsFollowEvidence
<1>. QED  BY <1>1, <1>2, <1>5, <1>6 DEF ScanInv, UsageErrorsAreHostIndependent,
                   ReportedEvidenceIsStored, NoCode, ExitUsage

\* A write that fails ends the scan in an error that is no usage error.
LEMMA PersistingKeepsInvariant ==
  ASSUME ScanInv, PersistEvidence \/ PersistFails
  PROVE  ScanInv'
<1>1. /\ pc = "persist" /\ UNCHANGED <<config, machine, evidence, acquired, results>>
      /\ output = "nothing" /\ exit = NoCode /\ machine \in Machines
  BY DEF PersistEvidence, PersistFails, ScanInv
<1>2. CASE PersistEvidence
  <2>1. pc' = "report" /\ store' = store \cup evidence /\ UNCHANGED <<exit, output>>
    BY <1>2 DEF PersistEvidence, Goto
  <2>2. EvidenceFollowsScanners' /\ ResultsFollowEvidence'
    BY <1>1, <2>1 DEF ScanInv, EvidenceFollowsScanners, ResultsFollowEvidence, LoggedBy
  <2>. QED  BY <1>1, <2>1, <2>2 DEF ScanInv, UsageErrorsAreHostIndependent,
                   ReportedEvidenceIsStored, NoCode, ExitUsage
<1>3. CASE PersistFails
  <2>1. pc' = "exited" /\ output' = "error" /\ exit' = ExitPostureBreach
    BY <1>3 DEF PersistFails, Fail, Exit
  <2>. QED  BY <1>1, <2>1 DEF ScanInv, EvidenceFollowsScanners, ResultsFollowEvidence,
                   UsageErrorsAreHostIndependent, ReportedEvidenceIsStored, ExitUsage,
                   ExitPostureBreach
<1>. QED  BY <1>2, <1>3

\* The report is printed with everything it cites in the store.
LEMMA ReportKeepsInvariant ==
  ASSUME ScanInv, Report
  PROVE  ScanInv'
<1>1. /\ pc = "report" /\ pc' = "exited" /\ output' = "report"
      /\ exit' \in {ExitPostureBreach, ExitClean}
      /\ UNCHANGED <<config, machine, evidence, acquired, results, store>>
  BY DEF Report, Exit
<1>2. UsageErrorsAreHostIndependent'
  BY <1>1 DEF UsageErrorsAreHostIndependent, ExitUsage, ExitPostureBreach, ExitClean
<1>3. ReportedEvidenceIsStored'
  BY <1>1 DEF ScanInv, EvidenceFollowsScanners, ResultsFollowEvidence, LoggedBy,
              ReportedEvidenceIsStored
<1>. QED  BY <1>1, <1>2, <1>3 DEF ScanInv, EvidenceFollowsScanners, ResultsFollowEvidence

\* A killed scan has printed nothing; its partial writes only add to the store.
LEMMA KillKeepsInvariant ==
  ASSUME ScanInv, Killed
  PROVE  ScanInv'
<1>1. /\ pc' = "idle" /\ output' = "nothing" /\ exit' = NoCode /\ machine' \in Machines
  BY DEF Killed, ScanInv
<1>. QED  BY <1>1 DEF ScanInv, EvidenceFollowsScanners, ResultsFollowEvidence,
                   UsageErrorsAreHostIndependent, ReportedEvidenceIsStored, NoCode, ExitUsage

\* No step of a report touches the store.
LEMMA ReportOnlyReads ==
  ASSUME Reporting!Steps
  PROVE  store' = store
BY DEF Reporting!Steps, Reporting!ParseHelp, Reporting!ParseValue, Reporting!ParseError,
       Reporting!EndOfArguments, Reporting!OpenRefused, Reporting!ReadStore,
       Reporting!ReadLacking, Reporting!ReadFails, Reporting!WriteReport, Reporting!WriteFails

\* The inductive invariant behind both properties: an invocation collects
\* nothing before its selection is resolved, then exactly what the scanners it
\* has run logged, and prints its report only after a completed write.
THEOREM ScanInvariant == AgentSpec => []ScanInv
<1>1. AgentInit => ScanInv
  BY DEF AgentInit, Init, ScanInv, EvidenceFollowsScanners, ResultsFollowEvidence, LoggedBy,
         UsageErrorsAreHostIndependent, ReportedEvidenceIsStored, NoCode, ExitUsage
<1>2. ScanInv /\ [AgentNext]_allVars => ScanInv'
  <2>. SUFFICES ASSUME ScanInv, [AgentNext]_allVars PROVE ScanInv'
    OBVIOUS
  <2>1. CASE StartScan
    BY <2>1, ScanForgotten DEF StartScan, Start
  <2>2. CASE StartReport
    BY <2>2, ScanForgotten DEF StartReport, ForgetScan, ScanInv
  <2>3. CASE PrintAndExit
    BY <2>3, ScanForgotten DEF PrintAndExit, ForgetScan, ScanInv
  <2>4. CASE ScanStep
    <3>1. Step
      BY <2>4 DEF ScanStep
    <3>. QED  BY <3>1, BeforeTheHostIsRead, ScannerKeepsInvariant, EngineKeepsInvariant,
                 PersistingKeepsInvariant, ReportKeepsInvariant, KillKeepsInvariant DEF Step
  <2>5. CASE ReportStep
    <3>1. Reporting!Steps /\ UNCHANGED scanVars
      BY <2>5 DEF ReportStep, scanVars
    <3>. QED  BY <3>1, ReportOnlyReads, ScanUntouched
  <2>6. CASE OthersWrite
    BY <2>6, ScanForgotten DEF OthersWrite, ForgetScan, ScanInv
  <2>7. CASE UNCHANGED allVars
    BY <2>7, ScanUntouched DEF allVars, vars, scanVars
  <2>. QED  BY <2>1, <2>2, <2>3, <2>4, <2>5, <2>6, <2>7 DEF AgentNext
<1>. QED  BY <1>1, <1>2, PTL DEF AgentSpec

\* An invocation that ends in a usage error or in the help has read nothing of
\* the host (parse_args, load and resolve_selection come before host_registry).
THEOREM UsageErrorsReadNothing == AgentSpec => []UsageErrorsAreHostIndependent
<1>1. ScanInv => UsageErrorsAreHostIndependent
  BY DEF ScanInv
<1>. QED  BY <1>1, ScanInvariant, PTL

\* Whatever other commands and programs did to the store, a printed report that
\* was to be backed by it is (execute persists the evidence before main prints
\* the outcome).
THEOREM ReportedIsStored == AgentSpec => []ReportedEvidenceIsStored
<1>1. ScanInv => ReportedEvidenceIsStored
  BY DEF ScanInv
<1>. QED  BY <1>1, ScanInvariant, PTL

-----------------------------------------------------------------------------
(***************************************************************************)
(* The arguments: after any number of steps of parse_args the              *)
(* configuration holds, for every flag, the value of its last occurrence   *)
(* so far, and no occurrence that the text of a value only looks like.     *)
(***************************************************************************)

\* The places in P are those of the flags before place k, where the parser is.
ParsedUpTo(k, P) ==
  /\ rest = SubSeq(line, k, Len(line))
  /\ \A i \in P : i + Width(i) <= k
  /\ \A i \in 1..Len(line) :
       i <= k => (i \in P \/ i = k <=> i = 1 \/ \E j \in P : i = j + Width(j))
  /\ \A f \in ValueFlags :
       IF \A i \in P : line[i].flag # f
         THEN config[f] = EmptyConfig[f]
         ELSE \E i \in P : /\ line[i].flag = f /\ config[f] = ValueAt(i)
                           /\ \A j \in P : line[j].flag = f => j <= i

ConfigFollowsLine ==
  /\ line \in Seq(Elements(line))
  /\ DOMAIN config = ValueFlags
  /\ \E k \in 1 .. (Len(line) + 1), P \in SUBSET (1 .. Len(line)) : ParsedUpTo(k, P)

\* Only a value that is a threshold is taken as one.
ThresholdIsOne == config["--fail-on"] \in {"fail", "warning", "never"}

\* A new invocation has parsed nothing of its line.
LEMMA NothingParsed ==
  ASSUME line \in Seq(Elements(line)), rest = line, config = EmptyConfig
  PROVE  ConfigFollowsLine /\ ThresholdIsOne
<1>1. Len(line) \in Nat /\ rest = SubSeq(line, 1, Len(line))
  BY SubSeqFull, LenProperties
<1>2. ParsedUpTo(1, {})
  BY <1>1 DEF ParsedUpTo
<1>3. 1 \in 1 .. (Len(line) + 1) /\ {} \in SUBSET (1 .. Len(line))
  BY <1>1
<1>. QED  BY <1>1, <1>2, <1>3 DEF ConfigFollowsLine, ThresholdIsOne, EmptyConfig, ValueFlags

\* What a step leaves alone stays parsed.
LEMMA ParseUntouched ==
  ASSUME ConfigFollowsLine, ThresholdIsOne, UNCHANGED <<line, rest, config>>
  PROVE  ConfigFollowsLine' /\ ThresholdIsOne'
<1>1. line' = line /\ rest' = rest /\ config' = config
  OBVIOUS
<1>2. PICK k \in 1 .. (Len(line) + 1), P \in SUBSET (1 .. Len(line)) : ParsedUpTo(k, P)
  BY DEF ConfigFollowsLine
<1>3. ParsedUpTo(k, P)'
  BY <1>1, <1>2 DEF ParsedUpTo, Width, ValueAt
<1>4. (\E a \in 1 .. (Len(line) + 1), B \in SUBSET (1 .. Len(line)) : ParsedUpTo(a, B))'
  BY <1>1, <1>3
<1>. QED  BY <1>1, <1>4 DEF ConfigFollowsLine, ThresholdIsOne, Elements

\* The head of what is left is the argument at the parser's place.
LEMMA HeadOfRest ==
  ASSUME line \in Seq(Elements(line)), NEW k \in 1 .. (Len(line) + 1),
         rest = SubSeq(line, k, Len(line)), rest # <<>>
  PROVE  /\ k \in 1 .. Len(line) /\ rest[1] = line[k]
         /\ Len(rest) = Len(line) - k + 1
         /\ Len(rest) > 1 => rest[2] = line[k + 1]
         /\ rest \in Seq(Elements(line))
<1>1. Len(line) \in Nat /\ k \in Int
  BY LenProperties
<1>2. CASE k = Len(line) + 1
  <2>1. SubSeq(line, k, Len(line)) = <<>>
    BY <1>1, <1>2, SubSeqEmpty
  <2>. QED  BY <2>1
<1>3. CASE k <= Len(line)
  <2>1. /\ rest \in Seq(Elements(line))
        /\ Len(rest) = Len(line) - k + 1
        /\ \A i \in 1 .. (Len(line) - k + 1) : rest[i] = line[k + i - 1]
    BY <1>1, <1>3, SubSeqProperties
  <2>2. 1 \in 1 .. (Len(line) - k + 1) /\ k + 1 - 1 = k /\ k + 2 - 1 = k + 1
    BY <1>1, <1>3
  <2>3. rest[1] = line[k]
    BY <2>1, <2>2
  <2>4. Len(rest) > 1 => 2 \in 1 .. (Len(line) - k + 1)
    BY <1>1, <1>3, <2>1
  <2>5. Len(rest) > 1 => rest[2] = line[k + 1]
    BY <2>1, <2>2, <2>4
  <2>. QED  BY <1>1, <1>3, <2>1, <2>3, <2>5
<1>. QED  BY <1>1, <1>2, <1>3

\* What is left after some arguments is what is left of the line from their end.
LEMMA RestAfter ==
  ASSUME line \in Seq(Elements(line)), NEW k \in 1 .. Len(line), NEW n \in {1, 2},
         rest = SubSeq(line, k, Len(line)), Len(rest) = Len(line) - k + 1, n <= Len(rest)
  PROVE  SubSeq(rest, n + 1, Len(rest)) = SubSeq(line, k + n, Len(line))
<1>1. Len(line) \in Nat
  BY LenProperties
<1>2. CASE n = Len(rest)
  <2>1. SubSeq(rest, n + 1, Len(rest)) = <<>>
    BY <1>1, <1>2, SubSeqEmpty
  <2>2. SubSeq(line, k + n, Len(line)) = <<>>
    BY <1>1, <1>2, SubSeqEmpty
  <2>. QED  BY <2>1, <2>2
<1>3. CASE n < Len(rest)
  <2>1. /\ n + 1 \in 1 .. (Len(line) - k + 1) /\ Len(rest) \in 1 .. (Len(line) - k + 1)
        /\ Len(line) \in 1 .. Len(line)
    BY <1>1, <1>3
  <2>2. SubSeq(SubSeq(line, k, Len(line)), n + 1, Len(rest))
          = SubSeq(line, k + (n + 1) - 1, k + Len(rest) - 1)
    BY <2>1, SubSeqOfSubSeq
  <2>3. k + (n + 1) - 1 = k + n /\ k + Len(rest) - 1 = Len(line)
    BY <1>1
  <2>. QED  BY <2>2, <2>3
<1>. QED  BY <1>1, <1>2, <1>3

\* One more flag is parsed: the place of the parser joins those of the flags.
LEMMA FlagParsed ==
  ASSUME ConfigFollowsLine, ThresholdIsOne, ParseValue
  PROVE  ConfigFollowsLine' /\ ThresholdIsOne'
<1>1. /\ line \in Seq(Elements(line)) /\ Len(line) \in Nat
      /\ DOMAIN config = ValueFlags
  BY LenProperties DEF ConfigFollowsLine
<1>2. PICK k \in 1 .. (Len(line) + 1), P \in SUBSET (1 .. Len(line)) : ParsedUpTo(k, P)
  BY DEF ConfigFollowsLine
<1>3. /\ rest # <<>> /\ rest[1].flag \in ValueFlags /\ Value # NoValue
      /\ ~BadFailOn(rest[1].flag, Value)
      /\ config' = [config EXCEPT ![rest[1].flag] = Value]
      /\ rest' = SubSeq(rest, Taken + 1, Len(rest))
      /\ line' = line
  BY DEF ParseValue
<1>4. /\ k \in 1 .. Len(line) /\ rest[1] = line[k] /\ Len(rest) = Len(line) - k + 1
      /\ Len(rest) > 1 => rest[2] = line[k + 1]
  BY <1>1, <1>2, <1>3, HeadOfRest DEF ParsedUpTo
<1>5. Value = ValueAt(k) /\ Taken = Width(k) /\ Taken \in {1, 2} /\ Taken <= Len(rest)
  BY <1>1, <1>3, <1>4 DEF Value, ValueAt, Taken, Width
<1>6. rest' = SubSeq(line, k + Width(k), Len(line))
  BY <1>1, <1>2, <1>3, <1>4, <1>5, RestAfter DEF ParsedUpTo
<1>. DEFINE Q == P \cup {k}
<1>0. PICK m : m = k + Width(k)
  OBVIOUS
<1>7. m \in 1 .. (Len(line) + 1) /\ k < m /\ Q \in SUBSET (1 .. Len(line))
  BY <1>0, <1>1, <1>4, <1>5
<1>8. \A i : Width(i)' = Width(i) /\ ValueAt(i)' = ValueAt(i)
  BY <1>3 DEF Width, ValueAt
<1>9. \A i : Width(i) \in {1, 2}
  BY DEF Width
<1>10. \A i \in P : i + Width(i) <= k
  BY <1>2 DEF ParsedUpTo
<1>11. \A i \in Q : i + Width(i) <= m
  BY <1>0, <1>7, <1>9, <1>10
<1>12. ASSUME NEW i \in 1 .. Len(line), i <= m
       PROVE  i \in Q \/ i = m <=> i = 1 \/ \E j \in Q : i = j + Width(j)
  <2>1. CASE i <= k
    <3>1. i \in P \/ i = k <=> i = 1 \/ \E j \in P : i = j + Width(j)
      BY <1>2, <2>1 DEF ParsedUpTo
    <3>2. i # m /\ i # k + Width(k)
      BY <1>0, <1>7, <2>1
    <3>. QED  BY <3>1, <3>2
  <2>2. CASE i > k
    <3>1. i \notin P /\ i # k /\ i # 1
      BY <1>4, <1>9, <1>10, <2>2
    <3>2. \A j \in P : i # j + Width(j)
      BY <1>9, <1>10, <2>2
    <3>. QED  BY <1>0, <3>1, <3>2
  <2>. QED  BY <1>4, <2>1, <2>2
<1>13. ASSUME NEW f \in ValueFlags
       PROVE  IF \A i \in Q : line[i].flag # f
                THEN config'[f] = EmptyConfig[f]
                ELSE \E i \in Q : /\ line[i].flag = f /\ config'[f] = ValueAt(i)
                                  /\ \A j \in Q : line[j].flag = f => j <= i
  <2>1. CASE f = line[k].flag
    <3>1. config'[f] = ValueAt(k)
      BY <1>1, <1>3, <1>4, <1>5, <2>1
    <3>2. ASSUME NEW j \in P
          PROVE  j <= k
      <4>1. j \in Int /\ Width(j) \in {1, 2} /\ j + Width(j) <= k
        BY <1>1, <1>9, <1>10
      <4>. QED  BY <1>4, <4>1
    <3>3. k \in Q /\ k <= k /\ \A j \in Q : j <= k
      BY <1>4, <3>2
    <3>4. \E i \in Q : /\ line[i].flag = f /\ config'[f] = ValueAt(i)
                       /\ \A j \in Q : line[j].flag = f => j <= i
      <4>. HIDE DEF Q
      <4>. QED  BY <2>1, <3>1, <3>3, Zenon
    <3>5. ~ \A i \in Q : line[i].flag # f
      <4>. HIDE DEF Q
      <4>. QED  BY <2>1, <3>3, Zenon
    <3>. HIDE DEF Q
    <3>. QED  BY <3>4, <3>5
  <2>2. CASE f # line[k].flag
    <3>1. config'[f] = config[f]
      BY <1>1, <1>3, <1>4, <2>2
    <3>2. IF \A i \in P : line[i].flag # f
            THEN config[f] = EmptyConfig[f]
            ELSE \E i \in P : /\ line[i].flag = f /\ config[f] = ValueAt(i)
                              /\ \A j \in P : line[j].flag = f => j <= i
      BY <1>2 DEF ParsedUpTo
    <3>. QED  BY <2>2, <3>1, <3>2
  <2>. QED  BY <2>1, <2>2
<1>14. ParsedUpTo(m, Q)'
  BY <1>0, <1>3, <1>6, <1>8, <1>11, <1>12, <1>13 DEF ParsedUpTo
<1>15. ConfigFollowsLine'
  <2>1. DOMAIN config' = ValueFlags
    BY <1>1, <1>3
  <2>2. (line \in Seq(Elements(line)))'
    BY <1>1, <1>3 DEF Elements
  <2>3. (\E a \in 1 .. (Len(line) + 1), B \in SUBSET (1 .. Len(line)) : ParsedUpTo(a, B))'
    BY <1>3, <1>7, <1>14
  <2>. QED  BY <2>1, <2>2, <2>3 DEF ConfigFollowsLine
<1>16. ThresholdIsOne'
  <2>1. CASE rest[1].flag = "--fail-on"
    BY <1>1, <1>3, <2>1 DEF ThresholdIsOne, BadFailOn, ValueFlags
  <2>2. CASE rest[1].flag # "--fail-on"
    BY <1>1, <1>3, <2>2 DEF ThresholdIsOne, ValueFlags
  <2>. QED  BY <2>1, <2>2
<1>. QED  BY <1>15, <1>16

\* A set of natural numbers that is not empty has a least element.
LEMMA LeastElement ==
  ASSUME NEW S, S \subseteq Nat, S # {}
  PROVE  \E n \in S : \A m \in S : n <= m
<1>1. IsWellFoundedOn({ss \in Nat \X Nat : ss[1] < ss[2]}, Nat)
  BY NatLessThanWellFounded, Zenon DEF OpToRel
<1>2. PICK n \in S : \A m \in S : <<m, n>> \notin {ss \in Nat \X Nat : ss[1] < ss[2]}
  BY <1>1, WFMin
<1>3. \A m \in S : ~(m < n)
  BY <1>2
<1>. QED  BY <1>3

\* Only one set of places is that of the flags: at the least place on which two
\* of them differed they would agree on every place before, and so on it too.
LEMMA FlagsAreUnique ==
  ASSUME line \in Seq(Elements(line)),
         NEW P \in SUBSET DOMAIN line, NEW Q \in SUBSET DOMAIN line,
         AreFlags(P), AreFlags(Q)
  PROVE  P = Q
<1>1. DOMAIN line \subseteq Nat
  BY LenProperties
<1>. DEFINE S == (P \ Q) \cup (Q \ P)
<1>. SUFFICES ASSUME S # {} PROVE FALSE
  OBVIOUS
<1>2. PICK n \in S : \A m \in S : n <= m
  BY <1>1, LeastElement
<1>3. \A j \in DOMAIN line : j < n => (j \in P <=> j \in Q)
  BY <1>1, <1>2
<1>4. \A j \in DOMAIN line : n = j + Width(j) => j < n
  BY <1>1 DEF Width
<1>5. /\ n \in P <=> n = 1 \/ \E j \in P : n = j + Width(j)
      /\ n \in Q <=> n = 1 \/ \E j \in Q : n = j + Width(j)
  BY DEF AreFlags
<1>. QED  BY <1>2, <1>3, <1>4, <1>5

\* When nothing is left to parse the threshold is the last one given.
LEMMA ThresholdIsTheLastGiven ==
  ASSUME ConfigFollowsLine, rest = <<>>
  PROVE  config["--fail-on"] = LastValue("--fail-on", "fail")
<1>1. /\ line \in Seq(Elements(line)) /\ Len(line) \in Nat
      /\ DOMAIN line = 1 .. Len(line)
  BY LenProperties DEF ConfigFollowsLine
<1>2. PICK k \in 1 .. (Len(line) + 1), P \in SUBSET (1 .. Len(line)) : ParsedUpTo(k, P)
  BY DEF ConfigFollowsLine
<1>3. k = Len(line) + 1
  <2>. SUFFICES ASSUME k \in 1 .. Len(line) PROVE FALSE
    BY <1>1
  <2>1. \A i \in k .. Len(line) : line[i] \in Elements(line)
    BY <1>1 DEF Elements
  <2>2. Len(SubSeq(line, k, Len(line))) = Len(line) - k + 1
    BY <1>1, <2>1, SubSeqProperties
  <2>3. Len(<<>>) = 0
    OBVIOUS
  <2>4. Len(SubSeq(line, k, Len(line))) = 0
    BY <1>2, <2>3 DEF ParsedUpTo
  <2>. QED  BY <1>1, <2>2, <2>4
<1>4. AreFlags(P)
  BY <1>1, <1>2, <1>3 DEF ParsedUpTo, AreFlags
<1>. DEFINE places == CHOOSE at \in SUBSET DOMAIN line : AreFlags(at)
            given  == {i \in places : line[i].flag = "--fail-on"}
            last   == CHOOSE i \in given : \A j \in given : j <= i
<1>5. places = P
  <2>1. places \in SUBSET DOMAIN line /\ AreFlags(places)
    BY <1>1, <1>4
  <2>. QED  BY <1>1, <1>4, <2>1, FlagsAreUnique
<1>6. IF \A i \in P : line[i].flag # "--fail-on"
        THEN config["--fail-on"] = EmptyConfig["--fail-on"]
        ELSE \E i \in P : /\ line[i].flag = "--fail-on" /\ config["--fail-on"] = ValueAt(i)
                          /\ \A j \in P : line[j].flag = "--fail-on" => j <= i
  BY <1>2 DEF ParsedUpTo, ValueFlags
<1>7. CASE given = {}
  <2>1. config["--fail-on"] = "fail"
    BY <1>5, <1>6, <1>7 DEF EmptyConfig, ValueFlags
  <2>. QED  BY <1>7, <2>1 DEF LastValue
<1>8. CASE given # {}
  <2>1. PICK i \in given : config["--fail-on"] = ValueAt(i) /\ \A j \in given : j <= i
    BY <1>5, <1>6, <1>8
  <2>2. last \in given /\ \A j \in given : j <= last
    BY <2>1
  <2>3. last = i
    BY <1>1, <1>5, <2>1, <2>2
  <2>4. LastValue("--fail-on", "fail") = ValueAt(last)
    BY <1>8 DEF LastValue
  <2>. QED  BY <2>1, <2>3, <2>4
<1>. QED  BY <1>7, <1>8

-----------------------------------------------------------------------------
(***************************************************************************)
(* The outcome: how an invocation gets to its exit code.                   *)
(***************************************************************************)

\* The scanners read the host in their order.
ScannersRead ==
  {{}, {"system"}, {"system", "user"}, {"system", "user", "docker"}, Elements(Scans)}

\* The results the engine owes for the selection.
Owed == {ResultOf(r) : r \in {r \in Catalog.rules : r.control \in selection}}

\* The selection is that of a catalog that loaded, made when nothing was left to
\* parse; the results are the engine's; an exit has one of the three codes.
OutcomeInv ==
  /\ ConfigFollowsLine /\ ThresholdIsOne
  /\ acquired \in ScannersRead
  /\ pc \in {"load", "resolve", "acquire", "persist", "report"} => rest = <<>>
  /\ pc \in {"resolve", "acquire", "persist", "report"} => IsKnownDirectory
  /\ pc \in {"persist", "report"} => results = Owed
  /\ \A r \in results : r.status \in Statuses
  /\ output \in {"nothing", "help", "error", "report"}
  /\ pc = "exited" => exit \in {ExitClean, ExitPostureBreach, ExitUsage}
  /\ ExitCodeTellsTheOutcome

\* Every result of a rule of a known catalog has a status.
LEMMA ResultsHaveStatuses ==
  ASSUME machine \in Machines, IsKnownDirectory, NEW rule \in Catalog.rules
  PROVE  ResultOf(rule).status \in Statuses
<1>1. rule.policy \in Statuses
  BY PoliciesAssumption DEF IsKnownDirectory, Catalog
<1>2. rule.id \in Registered => machine.evaluations[rule.id].kind \in Kinds
  BY KindsAssumption
<1>. DEFINE evaluation == IF rule.id \in Registered THEN machine.evaluations[rule.id] ELSE Failure
<1>3. evaluation.kind \in Kinds
  BY <1>2 DEF Failure, Kinds
<1>4. StatusOf(evaluation, rule.policy) \in Statuses
  <2>. HIDE DEF evaluation
  <2>. QED  BY <1>1, <1>3 DEF StatusOf, Kinds, Statuses
<1>. QED  BY <1>4 DEF ResultOf

\* The next scanner is the one that comes after those that have read the host.
LEMMA ScannersAreTakenInOrder ==
  ASSUME acquired \in ScannersRead, acquired # Elements(Scans)
  PROVE  acquired \cup {NextScan} \in ScannersRead
<1>1. Elements(Scans) = {"system", "user", "docker", "ssh"}
  BY DEF Elements, Scans
<1>2. Cardinality({}) = 0 /\ IsFiniteSet({})
  BY FS_EmptySet
<1>3. Cardinality({"system"}) = 1 /\ IsFiniteSet({"system"})
  BY FS_Singleton
<1>4. Cardinality({"system", "user"}) = 2 /\ IsFiniteSet({"system", "user"})
  <2>1. {"system", "user"} = {"system"} \cup {"user"} /\ "user" \notin {"system"}
    OBVIOUS
  <2>. QED  BY <1>3, <2>1, FS_AddElement
<1>5. Cardinality({"system", "user", "docker"}) = 3
  <2>1. /\ {"system", "user", "docker"} = {"system", "user"} \cup {"docker"}
        /\ "docker" \notin {"system", "user"}
    OBVIOUS
  <2>. QED  BY <1>4, <2>1, FS_AddElement
<1>6. Scans[1] = "system" /\ Scans[2] = "user" /\ Scans[3] = "docker" /\ Scans[4] = "ssh"
  BY DEF Scans
<1>7. CASE acquired = {}
  BY <1>2, <1>6, <1>7 DEF NextScan, ScannersRead
<1>8. CASE acquired = {"system"}
  BY <1>3, <1>6, <1>8 DEF NextScan, ScannersRead
<1>9. CASE acquired = {"system", "user"}
  BY <1>4, <1>6, <1>9 DEF NextScan, ScannersRead
<1>10. CASE acquired = {"system", "user", "docker"}
  <2>1. acquired \cup {NextScan} = Elements(Scans)
    BY <1>1, <1>5, <1>6, <1>10 DEF NextScan
  <2>. QED  BY <2>1 DEF ScannersRead
<1>. QED  BY <1>7, <1>8, <1>9, <1>10 DEF ScannersRead

\* A step that changes nothing of a scan keeps its outcome.
LEMMA OutcomeUntouched ==
  ASSUME OutcomeInv, UNCHANGED scanVars
  PROVE  OutcomeInv'
<1>1. /\ UNCHANGED <<line, rest, config>>
      /\ UNCHANGED <<pc, machine, evidence, acquired, selection, results, output, exit>>
  BY DEF scanVars
<1>2. ConfigFollowsLine' /\ ThresholdIsOne'
  BY <1>1, ParseUntouched DEF OutcomeInv
<1>3. UNCHANGED <<IsKnownDirectory, Owed>>
  BY <1>1 DEF IsKnownDirectory, Owed, Catalog, ResultOf
<1>4. LastValue("--fail-on", "fail")' = LastValue("--fail-on", "fail")
  BY <1>1 DEF LastValue, AreFlags, Width, ValueAt
<1>5. ExitCodeTellsTheOutcome'
  BY <1>1, <1>4 DEF OutcomeInv, ExitCodeTellsTheOutcome, Catalog
<1>. QED  BY <1>1, <1>2, <1>3, <1>5 DEF OutcomeInv, ScannersRead

\* A scan that has just begun, or that is forgotten, has no outcome yet.
LEMMA OutcomeForgotten ==
  ASSUME line' \in Seq(Elements(line')), rest' = line', config' = EmptyConfig,
         pc' \in {"idle", "parse"}, output' = "nothing",
         acquired' = {}, results' = {}
  PROVE  OutcomeInv'
<1>1. Len(line') \in Nat /\ rest' = SubSeq(line', 1, Len(line'))
  BY SubSeqFull, LenProperties
<1>2. ParsedUpTo(1, {})'
  BY <1>1 DEF ParsedUpTo
<1>3. 1 \in 1 .. (Len(line') + 1) /\ {} \in SUBSET (1 .. Len(line'))
  BY <1>1
<1>4. (\E k \in 1 .. (Len(line) + 1), P \in SUBSET (1 .. Len(line)) : ParsedUpTo(k, P))'
  BY <1>2, <1>3
<1>5. ConfigFollowsLine' /\ ThresholdIsOne'
  BY <1>4 DEF ConfigFollowsLine, ThresholdIsOne, EmptyConfig, ValueFlags, Elements
<1>. QED  BY <1>5 DEF OutcomeInv, ScannersRead, ExitCodeTellsTheOutcome

\* Parsing, loading and resolving go on or end in the help or a usage error; the
\* selection that is made is of a catalog that is there.
LEMMA PreparingKeepsOutcome ==
  ASSUME OutcomeInv,
         ParseHelp \/ ParseError \/ EndOfArguments \/ LoadCatalog \/ ResolveSelection
  PROVE  OutcomeInv'
<1>1. /\ pc \in {"parse", "load", "resolve"}
      /\ UNCHANGED <<line, rest, config, machine, acquired, results>>
      /\ \/ pc' = "exited" /\ output' = "help" /\ exit' = ExitClean
         \/ pc' = "exited" /\ output' = "error" /\ exit' = ExitUsage
         \/ /\ pc' \in {"load", "resolve", "acquire"} /\ output' = output
            /\ pc' = "load" => rest = <<>>
            /\ pc' # "load" => pc \in {"load", "resolve"}
            /\ pc' = "resolve" => IsKnownDirectory
            /\ pc' = "acquire" => pc = "resolve"
  BY DEF ParseHelp, ParseError, EndOfArguments, LoadCatalog, ResolveSelection, Exit, Fail, Goto
<1>2. ConfigFollowsLine' /\ ThresholdIsOne'
  BY <1>1, ParseUntouched DEF OutcomeInv
<1>3. IsKnownDirectory' = IsKnownDirectory
  BY <1>1 DEF IsKnownDirectory
<1>4. ExitCodeTellsTheOutcome'
  BY <1>1 DEF ExitCodeTellsTheOutcome
<1>. QED  BY <1>1, <1>2, <1>3, <1>4 DEF OutcomeInv, ScannersRead

\* A flag that is parsed changes the configuration only.
LEMMA ParsingKeepsOutcome ==
  ASSUME OutcomeInv, ParseValue
  PROVE  OutcomeInv'
<1>1. ConfigFollowsLine' /\ ThresholdIsOne'
  BY FlagParsed DEF OutcomeInv
<1>2. pc = "parse" /\ UNCHANGED <<pc, acquired, results, output, exit>>
  BY DEF ParseValue
<1>. QED  BY <1>1, <1>2 DEF OutcomeInv, ScannersRead, ExitCodeTellsTheOutcome

\* A scanner that cannot read its host ends the scan after it was tried.
LEMMA ScannerKeepsOutcome ==
  ASSUME OutcomeInv, AcquireScanner
  PROVE  OutcomeInv'
<1>1. /\ pc = "acquire" /\ acquired # Elements(Scans)
      /\ acquired' = acquired \cup {NextScan}
      /\ UNCHANGED <<line, rest, config, machine, selection, results>>
      /\ \/ pc' = "exited" /\ output' = "error" /\ exit' = ExitPostureBreach
         \/ UNCHANGED <<pc, exit, output>>
  BY DEF AcquireScanner, Fail, Exit
<1>2. ConfigFollowsLine' /\ ThresholdIsOne'
  BY <1>1, ParseUntouched DEF OutcomeInv
<1>3. (acquired \in ScannersRead)'
  BY <1>1, ScannersAreTakenInOrder DEF OutcomeInv, ScannersRead
<1>4. IsKnownDirectory' = IsKnownDirectory
  BY <1>1 DEF IsKnownDirectory
<1>5. ExitCodeTellsTheOutcome'
  BY <1>1 DEF ExitCodeTellsTheOutcome
<1>. QED  BY <1>1, <1>2, <1>3, <1>4, <1>5 DEF OutcomeInv

\* The engine gives every rule of the selected controls its result.
LEMMA EngineKeepsOutcome ==
  ASSUME machine \in Machines, OutcomeInv, RunScan
  PROVE  OutcomeInv'
<1>1. /\ pc = "acquire" /\ pc' \in {"persist", "report"}
      /\ results' = Owed
      /\ UNCHANGED <<line, rest, config, machine, acquired, selection, exit, output>>
  BY DEF RunScan, Goto, Owed
<1>2. ConfigFollowsLine' /\ ThresholdIsOne'
  BY <1>1, ParseUntouched DEF OutcomeInv
<1>3. UNCHANGED <<IsKnownDirectory, Owed>>
  BY <1>1 DEF IsKnownDirectory, Owed, Catalog, ResultOf
<1>4. \A r \in results' : r.status \in Statuses
  BY <1>1, ResultsHaveStatuses DEF OutcomeInv, Owed
<1>5. ExitCodeTellsTheOutcome'
  BY <1>1 DEF ExitCodeTellsTheOutcome
<1>. QED  BY <1>1, <1>2, <1>3, <1>4, <1>5 DEF OutcomeInv, ScannersRead

\* The store takes the evidence, or the scan ends after every scanner has read.
LEMMA PersistingKeepsOutcome ==
  ASSUME OutcomeInv, acquired = Elements(Scans), PersistEvidence \/ PersistFails
  PROVE  OutcomeInv'
<1>1. /\ pc = "persist"
      /\ UNCHANGED <<line, rest, config, machine, acquired, selection, results>>
      /\ \/ pc' = "exited" /\ output' = "error" /\ exit' = ExitPostureBreach
         \/ pc' = "report" /\ UNCHANGED <<exit, output>>
  BY DEF PersistEvidence, PersistFails, Fail, Exit, Goto
<1>2. ConfigFollowsLine' /\ ThresholdIsOne'
  BY <1>1, ParseUntouched DEF OutcomeInv
<1>3. UNCHANGED <<IsKnownDirectory, Owed>>
  BY <1>1 DEF IsKnownDirectory, Owed, Catalog, ResultOf
<1>4. acquired' # {}
  BY <1>1 DEF Elements, Scans
<1>5. ExitCodeTellsTheOutcome'
  BY <1>1, <1>4 DEF ExitCodeTellsTheOutcome
<1>. QED  BY <1>1, <1>2, <1>3, <1>5 DEF OutcomeInv, ScannersRead

\* The statuses at which a level of --fail-on is a breach.
BreachesAt(level) ==
  CASE level = "fail"    -> {"FAIL", "ERROR"}
    [] level = "warning" -> {"FAIL", "ERROR", "WARNING"}
    [] level = "never"   -> {}

\* posture_exit_code tells whether the level is reached.
LEMMA BreachesAreThoseOfTheLevel ==
  ASSUME NEW status, NEW level \in {"fail", "warning", "never"}
  PROVE  Breaches(status, level) <=> status \in BreachesAt(level)
<1>1. CASE level = "fail"
  BY <1>1 DEF Breaches, BreachesAt
<1>2. CASE level = "warning"
  BY <1>2 DEF Breaches, BreachesAt
<1>3. CASE level = "never"
  BY <1>3 DEF Breaches, BreachesAt
<1>. QED  BY <1>1, <1>2, <1>3

\* The report is of the results owed, and its code of their statuses.
LEMMA ReportKeepsOutcome ==
  ASSUME OutcomeInv, Report
  PROVE  OutcomeInv'
<1>1. /\ pc = "report" /\ pc' = "exited" /\ output' = "report"
      /\ exit' = IF \E r \in results : Breaches(r.status, config["--fail-on"])
                   THEN ExitPostureBreach ELSE ExitClean
      /\ UNCHANGED <<line, rest, config, machine, acquired, selection, results>>
  BY DEF Report, Exit
<1>2. ConfigFollowsLine' /\ ThresholdIsOne'
  BY <1>1, ParseUntouched DEF OutcomeInv
<1>3. rest = <<>> /\ results = Owed /\ IsKnownDirectory
  BY <1>1 DEF OutcomeInv
<1>. DEFINE level == LastValue("--fail-on", "fail")
<1>4. level' = level /\ level = config["--fail-on"] /\ level \in {"fail", "warning", "never"}
  <2>1. LastValue("--fail-on", "fail")' = LastValue("--fail-on", "fail")
    BY <1>1 DEF LastValue, AreFlags, Width, ValueAt
  <2>. QED  BY <2>1, <1>3, ThresholdIsTheLastGiven DEF OutcomeInv, ThresholdIsOne
<1>5. {<<r.control, r.rule>> : r \in results} =
        {<<r.control, r.id>> : r \in {r \in Catalog.rules : r.control \in selection}}
  <2>1. \A r : ResultOf(r).control = r.control /\ ResultOf(r).rule = r.id
    BY DEF ResultOf
  <2>. QED  BY <1>3, <2>1 DEF Owed
<1>6. exit' = IF {r.status : r \in results} \cap BreachesAt(level) = {} THEN 0 ELSE 2
  <2>1. (\E r \in results : Breaches(r.status, config["--fail-on"]))
          <=> {r.status : r \in results} \cap BreachesAt(level) # {}
    <3>. HIDE DEF level
    <3>. QED  BY <1>4, BreachesAreThoseOfTheLevel
  <2>. HIDE DEF level
  <2>. QED  BY <1>1, <2>1 DEF ExitPostureBreach, ExitClean
<1>7. ExitCodeTellsTheOutcome'
  <2>1. {r.status : r \in results'} = {r.status : r \in results}
    BY <1>1
  <2>2. exit' = IF {r.status : r \in results'} \cap BreachesAt(level') = {} THEN 0 ELSE 2
    <3>. HIDE DEF level
    <3>. QED  BY <1>4, <1>6, <2>1
  <2>3. ({<<r.control, r.rule>> : r \in results} =
           {<<r.control, r.id>> : r \in {r \in Catalog.rules : r.control \in selection}})'
    BY <1>1, <1>5 DEF Catalog
  <2>. QED  BY <1>1, <2>2, <2>3 DEF ExitCodeTellsTheOutcome, BreachesAt
<1>8. exit' \in {ExitClean, ExitPostureBreach, ExitUsage}
  BY <1>1
<1>. QED  BY <1>1, <1>2, <1>3, <1>7, <1>8 DEF OutcomeInv, ScannersRead

\* A killed scan has no outcome.
LEMMA KillKeepsOutcome ==
  ASSUME OutcomeInv, Killed
  PROVE  OutcomeInv'
<1>1. /\ pc' = "idle"
      /\ UNCHANGED <<line, rest, config, acquired, results, output>>
  BY DEF Killed
<1>2. ConfigFollowsLine' /\ ThresholdIsOne'
  BY <1>1, ParseUntouched DEF OutcomeInv
<1>. QED  BY <1>1, <1>2 DEF OutcomeInv, ScannersRead, ExitCodeTellsTheOutcome

\* The outcome follows from the line, whatever the other commands do.
THEOREM OutcomeInvariant == AgentSpec => []OutcomeInv
<1>1. AgentInit => OutcomeInv
  <2>. SUFFICES ASSUME AgentInit PROVE OutcomeInv
    OBVIOUS
  <2>1. /\ line = <<>> /\ rest = line /\ config = EmptyConfig /\ pc = "idle"
        /\ acquired = {} /\ results = {} /\ output = "nothing"
    BY DEF AgentInit, Init
  <2>2. line \in Seq(Elements(line))
    BY <2>1
  <2>3. ConfigFollowsLine /\ ThresholdIsOne
    BY <2>1, <2>2, NothingParsed
  <2>. QED  BY <2>1, <2>3 DEF OutcomeInv, ScannersRead, ExitCodeTellsTheOutcome
<1>2. ScanInv /\ OutcomeInv /\ [AgentNext]_allVars => OutcomeInv'
  <2>. SUFFICES ASSUME ScanInv, OutcomeInv, [AgentNext]_allVars PROVE OutcomeInv'
    OBVIOUS
  <2>1. CASE StartScan
    <3>1. line' \in Seq(Elements(line'))
      BY <2>1, LinesAssumption DEF StartScan, Start
    <3>. QED  BY <2>1, <3>1, OutcomeForgotten DEF StartScan, Start
  <2>2. CASE ForgetScan
    <3>1. line' \in Seq(Elements(line'))
      BY <2>2 DEF ForgetScan
    <3>. QED  BY <2>2, <3>1, OutcomeForgotten DEF ForgetScan
  <2>3. CASE ScanStep
    <3>1. Step /\ machine \in Machines
      BY <2>3 DEF ScanStep, ScanInv
    <3>2. pc = "persist" => acquired = Elements(Scans)
      BY DEF ScanInv, ResultsFollowEvidence
    <3>3. CASE PersistEvidence \/ PersistFails
      BY <3>2, <3>3, PersistingKeepsOutcome DEF PersistEvidence, PersistFails
    <3>. QED  BY <3>1, <3>3, PreparingKeepsOutcome, ParsingKeepsOutcome, ScannerKeepsOutcome,
                 EngineKeepsOutcome, ReportKeepsOutcome, KillKeepsOutcome DEF Step
  <2>4. CASE ReportStep
    BY <2>4, OutcomeUntouched DEF ReportStep, scanVars
  <2>5. CASE UNCHANGED allVars
    BY <2>5, OutcomeUntouched DEF allVars, vars, scanVars
  <2>. QED  BY <2>1, <2>2, <2>3, <2>4, <2>5 DEF AgentNext, StartReport, PrintAndExit, OthersWrite
<1>. QED  BY <1>1, <1>2, ScanInvariant, PTL DEF AgentSpec

\* The exit code of a scan and what it printed tell what happened, for any
\* argument list in any order (parse_args, posture_exit_code, run): the threshold
\* that counts is the last one given, and a report covers every rule selected.
THEOREM ExitCodesAreTrue == AgentSpec => []ExitCodeTellsTheOutcome
<1>1. OutcomeInv => ExitCodeTellsTheOutcome
  BY DEF OutcomeInv
<1>. QED  BY <1>1, OutcomeInvariant, PTL

-----------------------------------------------------------------------------
(***************************************************************************)
(* The commands take turns, and a report is only written from sound flags. *)
(***************************************************************************)

\* One command runs, and the other left nothing behind.
TurnsInv ==
  /\ command \in Commands
  /\ pc # "idle" => step = "idle" /\ command = "scan"
  /\ step # "idle" => pc = "idle" /\ command # "scan"

\* What a report has before it writes: sound flags, then a store that it could
\* open; what it read is still in the store when it writes.
ReportInv ==
  /\ Reporting!TypeOK
  /\ step \in {"open", "write"} => Reporting!HasValidSettings
  /\ step = "write" => Reporting!LeadsToStore

\* The scan command never takes a record out of the store.
LEMMA StoreGrows ==
  ASSUME ScanStep \/ Start \/ OthersWrite
  PROVE  store \subseteq store'
BY DEF ScanStep, Step, Start, OthersWrite, ParseHelp, ParseValue, ParseError, EndOfArguments,
       LoadCatalog, ResolveSelection, AcquireScanner, RunScan, PersistEvidence, PersistFails,
       Report, Killed

\* A report that has not begun, or is forgotten, or printed a line and left.
LEMMA ReportForgotten ==
  ASSUME settings' = Reporting!NoSettings, log' = {}, lacking' = {}, pdf' = <<>>,
         \/ step' \in {"idle", "parse"} /\ code' = NoCode
         \/ step' = "exited" /\ code' \in {Reporting!ExitOk, Reporting!ExitFailure}
  PROVE  ReportInv'
BY DEF ReportInv, Reporting!TypeOK, Reporting!NoSettings, Reporting!NoCode, NoCode,
       Reporting!ExitOk, Reporting!ExitFailure

\* What is not the report's own step keeps what it has read.
LEMMA ReportUntouched ==
  ASSUME ReportInv, UNCHANGED reportVars, store \subseteq store'
  PROVE  ReportInv'
BY DEF ReportInv, Reporting!TypeOK, reportVars, Reporting!HasValidSettings,
       Reporting!LeadsToStore, Reporting!IsValidScore

\* Parsing the flags of a report reads and writes nothing; the store is opened
\* for sound flags only.
LEMMA ReportParsingKeepsTypes ==
  ASSUME ReportInv,
         \/ Reporting!ParseHelp \/ Reporting!ParseValue
         \/ Reporting!ParseError \/ Reporting!EndOfArguments
  PROVE  ReportInv'
<1>1. /\ step = "parse" /\ code = NoCode /\ pdf = <<>>
      /\ UNCHANGED <<log, lacking, pdf, store>>
      /\ DOMAIN settings' = Reporting!ReportFlags
  BY DEF Reporting!ParseHelp, Reporting!ParseValue, Reporting!ParseError, Reporting!EndOfArguments,
         ReportInv, Reporting!TypeOK, Reporting!NoCode, NoCode, Reporting!ExitOk
<1>2. \/ step' = "exited" /\ code' \in {Reporting!ExitOk, Reporting!ExitUsage}
      \/ step' = "parse" /\ UNCHANGED code
      \/ step' = "open" /\ UNCHANGED <<code, settings>> /\ Reporting!HasValidSettings
  BY <1>1 DEF Reporting!ParseHelp, Reporting!ParseValue, Reporting!ParseError,
              Reporting!EndOfArguments, Reporting!Leave
<1>3. step' = "open" => Reporting!HasValidSettings'
  BY <1>2 DEF Reporting!HasValidSettings, Reporting!IsValidScore
<1>. QED  BY <1>1, <1>2, <1>3 DEF ReportInv, Reporting!TypeOK, Reporting!NoCode, NoCode,
                 Reporting!ExitOk, Reporting!ExitUsage

\* What is read is what the store has, and only a path that leads to a store is
\* read.
LEMMA ReportReadingKeepsTypes ==
  ASSUME ReportInv,
         \/ Reporting!OpenRefused \/ Reporting!ReadStore
         \/ Reporting!ReadLacking \/ Reporting!ReadFails
  PROVE  ReportInv'
<1>1. /\ step = "open" /\ code = NoCode /\ pdf = <<>> /\ Reporting!HasValidSettings
      /\ log \cup lacking \subseteq store
      /\ DOMAIN settings = Reporting!ReportFlags
      /\ UNCHANGED <<settings, pdf, store>>
  BY DEF Reporting!OpenRefused, Reporting!ReadStore, Reporting!ReadLacking, Reporting!ReadFails,
         ReportInv, Reporting!TypeOK, Reporting!NoCode, NoCode, Reporting!ExitOk
<1>2. /\ log' \cup lacking' \subseteq store
      /\ \/ step' = "exited" /\ code' = Reporting!ExitUsage
         \/ step' = "write" /\ UNCHANGED code /\ Reporting!LeadsToStore
  BY <1>1 DEF Reporting!OpenRefused, Reporting!ReadStore, Reporting!ReadLacking,
              Reporting!ReadFails, Reporting!Leave, Reporting!Lacking
<1>3. UNCHANGED <<Reporting!HasValidSettings, Reporting!LeadsToStore>>
  BY <1>1 DEF Reporting!HasValidSettings, Reporting!IsValidScore, Reporting!LeadsToStore
<1>. QED  BY <1>1, <1>2, <1>3 DEF ReportInv, Reporting!TypeOK, Reporting!NoCode, NoCode,
                 Reporting!ExitUsage

\* A document is written with the code of success, and refused with a failure.
LEMMA ReportWritingKeepsTypes ==
  ASSUME ReportInv, Reporting!WriteReport \/ Reporting!WriteFails
  PROVE  ReportInv'
<1>1. /\ step = "write" /\ step' = "exited"
      /\ code' = Reporting!ExitOk \/ (code' = Reporting!ExitFailure /\ UNCHANGED pdf)
      /\ UNCHANGED <<settings, log, lacking, store>>
  BY DEF Reporting!WriteReport, Reporting!WriteFails, Reporting!Leave
<1>2. /\ Reporting!HasValidSettings /\ Reporting!LeadsToStore /\ code = NoCode /\ pdf = <<>>
      /\ log \cup lacking \subseteq store
      /\ DOMAIN settings = Reporting!ReportFlags
  BY <1>1 DEF ReportInv, Reporting!TypeOK, Reporting!NoCode, NoCode, Reporting!ExitOk
<1>3. UNCHANGED <<Reporting!HasValidSettings, Reporting!LeadsToStore>>
  BY <1>1 DEF Reporting!HasValidSettings, Reporting!IsValidScore, Reporting!LeadsToStore
<1>. QED  BY <1>1, <1>2, <1>3 DEF ReportInv, Reporting!TypeOK, Reporting!NoCode, NoCode,
                 Reporting!ExitOk, Reporting!ExitFailure

\* The steps of a report stay within it.
LEMMA ReportStepsKeepTypes ==
  ASSUME ReportInv, Reporting!Steps
  PROVE  ReportInv' /\ step \in {"parse", "open", "write"} /\ step' # "idle"
<1>1. ReportInv'
  BY ReportParsingKeepsTypes, ReportReadingKeepsTypes, ReportWritingKeepsTypes
     DEF Reporting!Steps
<1>2. step \in {"parse", "open", "write"} /\ step' # "idle"
  BY DEF Reporting!Steps, Reporting!ParseHelp, Reporting!ParseValue, Reporting!ParseError,
         Reporting!EndOfArguments, Reporting!OpenRefused, Reporting!ReadStore,
         Reporting!ReadLacking, Reporting!ReadFails, Reporting!WriteReport,
         Reporting!WriteFails, Reporting!Leave
<1>. QED  BY <1>1, <1>2

\* The scan and the report never run both, and each leaves the other's variables
\* as its end left them.
THEOREM TurnsInvariant == AgentSpec => [](TurnsInv /\ ReportInv)
<1>1. AgentInit => TurnsInv /\ ReportInv
  BY DEF AgentInit, Init, Reporting!Idle, TurnsInv, Commands, ReportInv, Reporting!TypeOK,
         Reporting!NoSettings, Reporting!NoCode, NoCode
<1>2. TurnsInv /\ ReportInv /\ [AgentNext]_allVars => TurnsInv' /\ ReportInv'
  <2>. SUFFICES ASSUME TurnsInv, ReportInv, [AgentNext]_allVars PROVE TurnsInv' /\ ReportInv'
    OBVIOUS
  <2>1. CASE StartScan
    <3>1. ReportInv'
      BY <2>1, ReportForgotten DEF StartScan, ForgetReport
    <3>. QED  BY <2>1, <3>1 DEF StartScan, ForgetReport, Start, TurnsInv, Commands
  <2>2. CASE StartReport
    <3>1. ReportInv'
      BY <2>2, ReportForgotten DEF StartReport, Reporting!Begin, Reporting!NoCode, NoCode
    <3>. QED  BY <2>2, <3>1 DEF StartReport, ForgetScan, TurnsInv, Commands
  <2>3. CASE PrintAndExit
    <3>1. ReportInv'
      BY <2>3, ReportForgotten DEF PrintAndExit
    <3>. QED  BY <2>3, <3>1 DEF PrintAndExit, ForgetScan, TurnsInv, Commands
  <2>4. CASE ScanStep
    <3>1. ReportInv' /\ UNCHANGED <<command, step>>
      BY <2>4, ReportUntouched, StoreGrows DEF ScanStep, reportVars
    <3>2. pc # "idle"
      BY <2>4 DEF ScanStep, Step, ParseHelp, ParseValue, ParseError, EndOfArguments, LoadCatalog,
                  ResolveSelection, AcquireScanner, RunScan, PersistEvidence, PersistFails,
                  Report, Killed
    <3>. QED  BY <3>1, <3>2 DEF TurnsInv
  <2>5. CASE ReportStep
    <3>1. ReportInv' /\ step # "idle" /\ UNCHANGED <<command, pc>>
      BY <2>5, ReportStepsKeepTypes DEF ReportStep
    <3>. QED  BY <3>1 DEF TurnsInv
  <2>6. CASE OthersWrite
    <3>1. ReportInv'
      BY <2>6, ReportForgotten DEF OthersWrite, ForgetReport
    <3>. QED  BY <2>6, <3>1 DEF OthersWrite, ForgetReport, ForgetScan, TurnsInv, Commands
  <2>7. CASE UNCHANGED allVars
    <3>1. UNCHANGED <<reportVars, store, command, pc, step>>
      BY <2>7 DEF allVars, vars, reportVars
    <3>2. ReportInv'
      BY <3>1, ReportUntouched
    <3>. QED  BY <3>1, <3>2 DEF TurnsInv
  <2>. QED  BY <2>1, <2>2, <2>3, <2>4, <2>5, <2>6, <2>7 DEF AgentNext
<1>. QED  BY <1>1, <1>2, PTL DEF AgentSpec

\* Every variable of the program has its type, for any arguments, catalogs,
\* hosts and stores: among them that an exit code stands for an exit, that a
\* document was written only by a report that succeeded with sound flags on a
\* path that leads to a store, and that one command runs at a time.
THEOREM AgentTypeCorrect == AgentSpec => []AgentTypeOK
<1>1. ScanInv /\ OutcomeInv /\ TurnsInv /\ ReportInv => AgentTypeOK
  <2>. SUFFICES ASSUME ScanInv, OutcomeInv, TurnsInv, ReportInv PROVE AgentTypeOK
    OBVIOUS
  <2>1. TypeOK
    <3>1. acquired \subseteq Elements(Scans)
      <4>1. Elements(Scans) = {"system", "user", "docker", "ssh"}
        BY DEF Elements, Scans
      <4>. QED  BY <4>1 DEF OutcomeInv, ScannersRead
    <3>2. pc = "exited" <=> exit # NoCode /\ pc # "idle"
      BY DEF ScanInv, OutcomeInv, NoCode, ExitClean, ExitPostureBreach, ExitUsage
    <3>3. exit \in {NoCode, ExitClean, ExitPostureBreach, ExitUsage}
      BY DEF ScanInv, OutcomeInv
    <3>. QED  BY <3>1, <3>2, <3>3 DEF TypeOK, ScanInv, OutcomeInv, ConfigFollowsLine,
                                      ThresholdIsOne
  <2>. QED  BY <2>1 DEF AgentTypeOK, TurnsInv, ReportInv
<1>. QED  BY <1>1, ScanInvariant, OutcomeInvariant, TurnsInvariant, PTL

-----------------------------------------------------------------------------
(***************************************************************************)
(* What a report says of the store.  What a report of any records tells is *)
(* proved in ReportCommand_proofs; here its operators are applied to the   *)
(* variables of the program.                                               *)
(***************************************************************************)
Written == INSTANCE ReportCommand_proofs

\* The two instances of a report have the same text,
LEMMA SameText == Written!ReportText = Reporting!ReportText
<1>1. Written!SummaryLines = Reporting!SummaryLines
  BY Zenon DEF Written!SummaryLines, Reporting!SummaryLines, Written!CountLines,
         Reporting!CountLines, Written!ShownCounts, Reporting!ShownCounts, Written!ConsentCounts,
         Reporting!ConsentCounts, Written!CountOf,
         Reporting!CountOf, Written!CountedAs, Reporting!CountedAs, Written!ErrorCount,
         Reporting!ErrorCount, Written!Status, Reporting!Status, Written!NonConclusive,
         Reporting!NonConclusive, Written!MapSeq, Reporting!MapSeq, Written!Kept, Reporting!Kept,
         Written!Ordered, Reporting!Ordered, Written!Cardinality, Reporting!Cardinality,
         Written!Line, Reporting!Line, Written!ConsentControl, Reporting!ConsentControl,
         Written!TrackerSignal, Reporting!TrackerSignal, Written!None, Reporting!None,
         Written!Blank, Reporting!Blank, Written!PassSignal, Reporting!PassSignal,
         Written!Inconclusive, Reporting!Inconclusive, Written!DockerControl,
         Reporting!DockerControl, Written!NoDockerSignal, Reporting!NoDockerSignal,
         Written!SshControl, Reporting!SshControl, Written!NoSshdSignal, Reporting!NoSshdSignal
<1>2. Written!ScoreLines = Reporting!ScoreLines
  BY Zenon DEF Written!ScoreLines, Reporting!ScoreLines, Written!ScoreCounts,
         Reporting!ScoreCounts, Written!ConsentCounts, Reporting!ConsentCounts, Written!Status,
         Reporting!Status, Written!MapSeq, Reporting!MapSeq, Written!Line, Reporting!Line,
         Written!None, Reporting!None, Written!Blank, Reporting!Blank
<1>3. Written!ByControl = Reporting!ByControl
  BY Zenon DEF Written!ByControl, Reporting!ByControl, Written!InOrderOf, Reporting!InOrderOf,
         Written!Ordered, Reporting!Ordered, Written!Precedes, Reporting!Precedes,
         Written!Cardinality, Reporting!Cardinality, Written!None, Reporting!None, Written!Blank,
         Reporting!Blank
<1>4. Written!ConsentRows = Reporting!ConsentRows
  BY Zenon DEF Written!ConsentRows, Reporting!ConsentRows, Written!Line, Reporting!Line,
         Written!ConsentControl, Reporting!ConsentControl, Written!Inconclusive,
         Reporting!Inconclusive
<1>5. Written!NonConclusiveRows = Reporting!NonConclusiveRows
  BY ZenonT(60) DEF Written!NonConclusiveRows, Reporting!NonConclusiveRows, Written!MapSeq,
         Reporting!MapSeq, Written!Kept, Reporting!Kept, Written!Line, Reporting!Line,
         Written!NonConclusive, Reporting!NonConclusive, Written!ByControl, Reporting!ByControl,
         Written!InOrderOf, Reporting!InOrderOf, Written!Ordered, Reporting!Ordered,
         Written!Precedes, Reporting!Precedes, Written!Cardinality, Reporting!Cardinality,
         Written!None, Reporting!None, Written!Blank, Reporting!Blank, Written!PassSignal,
         Reporting!PassSignal, Written!Inconclusive, Reporting!Inconclusive,
         Written!DockerControl, Reporting!DockerControl, Written!NoDockerSignal,
         Reporting!NoDockerSignal, Written!SshControl, Reporting!SshControl, Written!NoSshdSignal,
         Reporting!NoSshdSignal
<1>6. Written!GapLines = Reporting!GapLines
  <2>1. Written!Kept(Written!ByControl, LAMBDA id : Written!GapStatus(Content[id]) # Written!None)
          = Reporting!Kept(Reporting!ByControl,
                           LAMBDA id : Reporting!GapStatus(Content[id]) # Reporting!None)
    BY ZenonT(60) DEF Written!MapSeq, Reporting!MapSeq, Written!Kept, Reporting!Kept,
           Written!NonConclusive, Reporting!NonConclusive, Written!GapStatus, Reporting!GapStatus,
           Written!ByControl, Reporting!ByControl, Written!InOrderOf, Reporting!InOrderOf,
           Written!Ordered, Reporting!Ordered, Written!Precedes, Reporting!Precedes,
           Written!Cardinality, Reporting!Cardinality, Written!None, Reporting!None,
           Written!Blank, Reporting!Blank, Written!PassSignal, Reporting!PassSignal,
           Written!Inconclusive, Reporting!Inconclusive, Written!DockerControl,
           Reporting!DockerControl, Written!NoDockerSignal, Reporting!NoDockerSignal,
           Written!SshControl, Reporting!SshControl, Written!NoSshdSignal, Reporting!NoSshdSignal
  <2>2. \A gaps :
          Written!MapSeq(gaps, LAMBDA id : Written!Line("gap", Content[id].control,
                                                        Written!GapStatus(Content[id])))
            = Reporting!MapSeq(gaps, LAMBDA id : Reporting!Line("gap", Content[id].control,
                                                                Reporting!GapStatus(Content[id])))
    BY Zenon DEF Written!MapSeq, Reporting!MapSeq, Written!Line, Reporting!Line,
           Written!NonConclusive, Reporting!NonConclusive, Written!GapStatus, Reporting!GapStatus,
           Written!None, Reporting!None, Written!Blank, Reporting!Blank, Written!PassSignal,
           Reporting!PassSignal, Written!Inconclusive, Reporting!Inconclusive,
           Written!DockerControl, Reporting!DockerControl, Written!NoDockerSignal,
           Reporting!NoDockerSignal, Written!SshControl, Reporting!SshControl,
           Written!NoSshdSignal, Reporting!NoSshdSignal
  <2>. QED  BY Zenon, <2>1, <2>2 DEF Written!GapLines, Reporting!GapLines, Written!Line,
                 Reporting!Line, Written!None, Reporting!None, Written!Blank, Reporting!Blank
<1>7. Written!EvidenceSummary = Reporting!EvidenceSummary
  BY Zenon, <1>3 DEF Written!EvidenceSummary, Reporting!EvidenceSummary, Written!MapSeq,
         Reporting!MapSeq, Written!Line, Reporting!Line, Written!IsShownRedacted,
         Reporting!IsShownRedacted, Written!None, Reporting!None, Written!Blank, Reporting!Blank
<1>8. Written!Appendix = Reporting!Appendix
  BY Zenon, <1>3 DEF Written!Appendix, Reporting!Appendix, Written!MapSeq, Reporting!MapSeq,
         Written!Line, Reporting!Line, Written!None, Reporting!None, Written!InOrderOf,
         Reporting!InOrderOf, Written!Ordered, Reporting!Ordered, Written!Precedes,
         Reporting!Precedes, Written!Cardinality, Reporting!Cardinality
<1>. QED  BY Zenon, <1>1, <1>2, <1>3, <1>4, <1>5, <1>6, <1>7, <1>8
     DEF Written!ReportText, Reporting!ReportText, Written!MapSeq, Reporting!MapSeq, Written!Line,
         Reporting!Line, Written!None, Reporting!None

\* the same pages,
LEMMA SamePages ==
  ASSUME NEW lines
  PROVE  Written!ShownLines(Written!PdfObjects(lines))
           = Reporting!ShownLines(Reporting!PdfObjects(lines))
<1>1. \A text : Written!PdfObjects(text) = Reporting!PdfObjects(text)
  BY Zenon DEF Written!PdfObjects, Reporting!PdfObjects, Written!PageCount, Reporting!PageCount,
         Written!PageObject, Reporting!PageObject, Written!FixedObjects, Reporting!FixedObjects,
         Written!ContentObject, Reporting!ContentObject, Written!Page, Reporting!Page,
         Written!SmallerOf, Reporting!SmallerOf, Written!FlattenSeq, Reporting!FlattenSeq
<1>2. \A objects : Written!ShownLines(objects) = Reporting!ShownLines(objects)
  BY Zenon DEF Written!ShownLines, Reporting!ShownLines, Written!ShownPage, Reporting!ShownPage,
         Written!FlattenSeq, Reporting!FlattenSeq
<1>. QED  BY <1>1, <1>2

\* and the same properties.
LEMMA SameAgreement == Written!SectionsAgree <=> Reporting!SectionsAgree
BY Zenon DEF Written!SectionsAgree, Reporting!SectionsAgree, Written!Shown, Reporting!Shown,
       Written!ShownAs, Reporting!ShownAs, Written!ShownIds, Reporting!ShownIds,
       Written!CountShown, Reporting!CountShown, Written!IncompleteShown,
       Reporting!IncompleteShown, Written!GapStatus, Reporting!GapStatus, Written!NonConclusive,
       Reporting!NonConclusive, Written!FirstWhere, Reporting!FirstWhere, Written!Cardinality,
       Reporting!Cardinality, Written!None, Reporting!None, Written!Blank, Reporting!Blank,
       Written!PassSignal, Reporting!PassSignal, Written!Inconclusive, Reporting!Inconclusive,
       Written!DockerControl, Reporting!DockerControl, Written!NoDockerSignal,
       Reporting!NoDockerSignal, Written!SshControl, Reporting!SshControl, Written!NoSshdSignal,
       Reporting!NoSshdSignal

LEMMA SameEvidence ==
  Written!EvidenceIsShownOrItsLackIs <=> Reporting!EvidenceIsShownOrItsLackIs
BY Zenon DEF Written!EvidenceIsShownOrItsLackIs, Reporting!EvidenceIsShownOrItsLackIs,
       Written!Shown, Reporting!Shown, Written!ShownIds, Reporting!ShownIds, Written!Lacking,
       Reporting!Lacking, Written!None, Reporting!None

\* What is assumed of one is assumed of the other.
LEMMA WrittenAssumptions ==
  Written!BlankIsText /\ Written!RankOrders /\ Written!LinesPerPageIsPositive
BY Zenon, ReportAssumption DEF Written!BlankIsText, Reporting!BlankIsText, Written!RankOrders,
   Reporting!RankOrders, Written!LinesPerPageIsPositive, Reporting!LinesPerPageIsPositive,
   Written!Blank, Reporting!Blank

\* The controls and ids of the records have a place in the order.
LEMMA StoredAreKnown ==
  ASSUME NEW S, IsFiniteSet(S), S \subseteq DOMAIN Content
  PROVE  Written!IsKnown(S)
<1>1. /\ S \subseteq DOMAIN Rank
      /\ \A id \in S : Content[id].control \in DOMAIN Rank \cup {Reporting!None}
  BY RecordsAssumption
<1>2. Written!IsFiniteSet(S)
  BY Zenon DEF Written!IsFiniteSet, IsFiniteSet
<1>3. Written!None = Reporting!None
  BY DEF Written!None, Reporting!None
<1>. QED  BY <1>1, <1>2, <1>3 DEF Written!IsKnown

\* What a report is made from: a store without damage, or those of its records
\* that lack a digest.
IsMadeFromStore ==
  \/ log = store /\ lacking = {} /\ Reporting!Damaged = {}
  \/ log = {} /\ lacking = Reporting!Lacking /\ Reporting!Lacking # {}

\* The store holds finitely many known records.  A report has read nothing
\* before it opens the store, and from then on until the next command the store
\* is as it read it; the document, once written, is its text.
ShownInv ==
  /\ IsFiniteSet(store) /\ store \subseteq DOMAIN Content
  /\ step \in {"idle", "parse", "open"} => log = {} /\ lacking = {} /\ pdf = <<>>
  /\ step = "write" => IsMadeFromStore
  /\ pdf # <<>> => IsMadeFromStore /\ Written!IsReport

LEMMA ReadAreKnown ==
  ASSUME IsFiniteSet(store), store \subseteq DOMAIN Content, IsMadeFromStore
  PROVE  Written!IsKnown(log) /\ Written!IsKnown(lacking)
<1>1. log \subseteq store /\ lacking \subseteq store
  BY DEF IsMadeFromStore, Reporting!Lacking
<1>2. /\ IsFiniteSet(log) /\ log \subseteq DOMAIN Content
      /\ IsFiniteSet(lacking) /\ lacking \subseteq DOMAIN Content
  BY <1>1, FS_Subset
<1>. QED  BY <1>2, StoredAreKnown

\* A store that others add to, or a scan, stays a finite set of known records.
LEMMA StoreStaysKnown ==
  ASSUME ScanInv, IsFiniteSet(store), store \subseteq DOMAIN Content,
         ScanStep \/ Start \/ OthersWrite
  PROVE  IsFiniteSet(store') /\ store' \subseteq DOMAIN Content
<1>1. CASE store' = store
  BY <1>1
<1>2. CASE OthersWrite
  <2>1. PICK batch \in OtherBatches : store' = store \cup batch
    BY <1>2 DEF OthersWrite
  <2>2. IsFiniteSet(batch) /\ batch \subseteq DOMAIN Content
    BY <2>1, RecordsAssumption
  <2>. QED  BY <2>1, <2>2, FS_Union
<1>3. CASE ScanStep /\ store' # store
  <2>1. /\ pc = "persist"
        /\ \E written \in SUBSET evidence : store' = store \cup written
    BY <1>3 DEF ScanStep, Step, ParseHelp, ParseValue, ParseError, EndOfArguments, LoadCatalog,
                ResolveSelection, AcquireScanner, RunScan, PersistEvidence, PersistFails, Report,
                Killed
  <2>2. evidence = UNION {machine.evidence[s] : s \in Elements(Scans)} /\ machine \in Machines
    BY <2>1 DEF ScanInv, EvidenceFollowsScanners, ResultsFollowEvidence, LoggedBy
  <2>3. \A s \in Elements(Scans) :
          IsFiniteSet(machine.evidence[s]) /\ machine.evidence[s] \subseteq DOMAIN Content
    BY <2>2, RecordsAssumption
  <2>4. IsFiniteSet({machine.evidence[s] : s \in Elements(Scans)})
    <3>1. PICK a, b, c, d : /\ a = machine.evidence["system"] /\ b = machine.evidence["user"]
                            /\ c = machine.evidence["docker"] /\ d = machine.evidence["ssh"]
      OBVIOUS
    <3>2. IsFiniteSet({} \cup {a})
      BY FS_EmptySet, FS_AddElement
    <3>3. IsFiniteSet({a} \cup {b})
      BY <3>2, FS_AddElement
    <3>4. IsFiniteSet({a, b} \cup {c})
      BY <3>3, FS_AddElement
    <3>5. IsFiniteSet({a, b, c} \cup {d})
      BY <3>4, FS_AddElement
    <3>6. {machine.evidence[s] : s \in {"system", "user", "docker", "ssh"}} = {a, b, c} \cup {d}
      BY <3>1
    <3>7. Elements(Scans) = {"system", "user", "docker", "ssh"}
      BY DEF Elements, Scans
    <3>. QED  BY <3>5, <3>6, <3>7
  <2>5. IsFiniteSet(evidence) /\ evidence \subseteq DOMAIN Content
    <3>1. \A T \in {machine.evidence[s] : s \in Elements(Scans)} : IsFiniteSet(T)
      BY <2>3
    <3>2. IsFiniteSet(UNION {machine.evidence[s] : s \in Elements(Scans)})
      BY <2>4, <3>1, FS_UNION
    <3>. QED  BY <2>2, <2>3, <3>2
  <2>6. PICK written \in SUBSET evidence : store' = store \cup written
    BY <2>1
  <2>7. IsFiniteSet(written) /\ written \subseteq DOMAIN Content
    BY <2>5, <2>6, FS_Subset
  <2>. QED  BY <2>6, <2>7, FS_Union
<1>4. CASE Start
  BY <1>1, <1>4 DEF Start
<1>. QED  BY <1>1, <1>2, <1>3, <1>4

\* A step that leaves no document and nothing read.
LEMMA NothingIsShown ==
  ASSUME IsFiniteSet(store'), store' \subseteq DOMAIN Content,
         step' # "write", log' = {}, lacking' = {}, pdf' = <<>>
  PROVE  ShownInv'
BY DEF ShownInv

\* The text depends on the flags and the records read.
LEMMA TextIsKept ==
  ASSUME UNCHANGED <<settings, log, lacking>>
  PROVE  Written!ReportText' = Written!ReportText
<1>1. UNCHANGED Written!ByControl
  BY DEF Written!ByControl, Written!InOrderOf, Written!Ordered
<1>2. UNCHANGED Written!SummaryLines
  <2>1. UNCHANGED <<Written!ShownCounts, Written!ErrorCount>>
    BY DEF Written!ShownCounts, Written!CountOf, Written!ErrorCount
  <2>. QED  BY <2>1 DEF Written!SummaryLines, Written!CountLines, Written!MapSeq, Written!Kept,
                 Written!Ordered
<1>3. UNCHANGED <<Written!ScoreLines, Written!ConsentRows>>
  BY DEF Written!ScoreLines, Written!ConsentRows
<1>4. UNCHANGED Written!NonConclusiveRows
  BY <1>1 DEF Written!NonConclusiveRows, Written!MapSeq, Written!Kept, Written!Ordered
<1>5. UNCHANGED Written!GapLines
  BY <1>1 DEF Written!GapLines, Written!MapSeq, Written!Kept, Written!Ordered
<1>6. UNCHANGED <<Written!EvidenceSummary, Written!Appendix>>
  BY <1>1 DEF Written!EvidenceSummary, Written!Appendix, Written!MapSeq, Written!InOrderOf,
         Written!Ordered
<1>. QED  BY <1>1, <1>2, <1>3, <1>4, <1>5, <1>6 DEF Written!ReportText, Written!MapSeq

\* A report reads the store and writes its text.
LEMMA ReportStepsShow ==
  ASSUME ShownInv, ReportInv, Reporting!Steps
  PROVE  ShownInv'
<1>1. store' = store /\ IsFiniteSet(store') /\ store' \subseteq DOMAIN Content
  BY ReportOnlyReads DEF ShownInv
<1>2. step \in {"parse", "open", "write"} /\ pdf = <<>>
  BY ReportStepsKeepTypes DEF ReportInv, Reporting!TypeOK, Reporting!ExitOk, Reporting!NoCode
<1>3. UNCHANGED <<Reporting!Damaged, Reporting!Lacking>>
  BY <1>1 DEF Reporting!Damaged, Reporting!Lacking
<1>4. CASE \/ Reporting!ParseHelp \/ Reporting!ParseValue
           \/ Reporting!ParseError \/ Reporting!EndOfArguments \/ Reporting!OpenRefused
           \/ Reporting!ReadFails
  <2>1. step \in {"parse", "open"} /\ step' # "write" /\ UNCHANGED <<log, lacking, pdf>>
    BY <1>4 DEF Reporting!ParseHelp, Reporting!ParseValue, Reporting!ParseError,
                Reporting!EndOfArguments, Reporting!OpenRefused, Reporting!ReadFails,
                Reporting!Leave
  <2>. QED  BY <1>1, <2>1, NothingIsShown DEF ShownInv
<1>5. CASE Reporting!ReadStore \/ Reporting!ReadLacking
  <2>1. /\ step = "open" /\ step' = "write" /\ pdf' = pdf
        /\ \/ log' = store /\ lacking' = lacking /\ Reporting!Damaged = {}
           \/ log' = log /\ lacking' = Reporting!Lacking /\ Reporting!Lacking # {}
    BY <1>5 DEF Reporting!ReadStore, Reporting!ReadLacking
  <2>2. IsMadeFromStore'
    BY <1>1, <1>3, <2>1 DEF ShownInv, IsMadeFromStore
  <2>. QED  BY <1>1, <1>2, <2>1, <2>2 DEF ShownInv
<1>6. CASE Reporting!WriteReport
  <2>1. /\ step = "write" /\ step' = "exited" /\ UNCHANGED <<settings, log, lacking>>
        /\ pdf' = Reporting!ShownLines(Reporting!PdfObjects(Reporting!ReportText))
    BY <1>6 DEF Reporting!WriteReport, Reporting!Leave
  <2>2. IsMadeFromStore /\ IsMadeFromStore'
    BY <1>1, <1>3, <2>1 DEF ShownInv, IsMadeFromStore
  <2>3. Written!IsKnown(log) /\ Written!IsKnown(lacking)
    BY <2>2, ReadAreKnown DEF ShownInv
  <2>4. Written!ShownLines(Written!PdfObjects(Written!ReportText)) = Written!ReportText
    BY <2>3, WrittenAssumptions, Written!ReportIsShown
  <2>5. pdf' = Written!ReportText
    BY <2>1, <2>4, SameText, SamePages
  <2>6. Written!ReportText' = Written!ReportText
    BY <2>1, TextIsKept
  <2>7. Written!IsReport'
    BY <2>5, <2>6 DEF Written!IsReport
  <2>. QED  BY <1>1, <2>1, <2>2, <2>7 DEF ShownInv
<1>7. CASE Reporting!WriteFails
  <2>1. step' = "exited" /\ pdf' = <<>>
    BY <1>2, <1>7 DEF Reporting!WriteFails, Reporting!Leave
  <2>. QED  BY <1>1, <2>1 DEF ShownInv
<1>. QED  BY <1>4, <1>5, <1>6, <1>7 DEF Reporting!Steps

\* A report reads a store that nobody changes until it has written its text:
\* the other commands and programs wait for it to end, and what they start from
\* has no report.
THEOREM ShownInvariant == AgentSpec => []ShownInv
<1>1. AgentInit => ShownInv
  BY FS_EmptySet DEF AgentInit, Init, Reporting!Idle, ShownInv
<1>2. ScanInv /\ TurnsInv /\ ReportInv /\ ShownInv /\ [AgentNext]_allVars => ShownInv'
  <2>. SUFFICES ASSUME ScanInv, TurnsInv, ReportInv, ShownInv, [AgentNext]_allVars PROVE ShownInv'
    OBVIOUS
  <2>1. IsFiniteSet(store) /\ store \subseteq DOMAIN Content
    BY DEF ShownInv
  <2>2. CASE StartScan
    <3>1. IsFiniteSet(store') /\ store' \subseteq DOMAIN Content
      BY <2>1, <2>2, StoreStaysKnown DEF StartScan
    <3>. QED  BY <2>2, <3>1, NothingIsShown DEF StartScan, ForgetReport
  <2>3. CASE StartReport
    BY <2>1, <2>3, NothingIsShown DEF StartReport, Reporting!Begin
  <2>4. CASE PrintAndExit
    BY <2>1, <2>4, NothingIsShown DEF PrintAndExit
  <2>5. CASE ScanStep
    <3>1. IsFiniteSet(store') /\ store' \subseteq DOMAIN Content
      BY <2>1, <2>5, StoreStaysKnown
    <3>2. pc # "idle"
      BY <2>5 DEF ScanStep, Step, ParseHelp, ParseValue, ParseError, EndOfArguments, LoadCatalog,
                  ResolveSelection, AcquireScanner, RunScan, PersistEvidence, PersistFails,
                  Report, Killed
    <3>3. step = "idle" /\ UNCHANGED <<step, log, lacking, pdf>>
      BY <2>5, <3>2 DEF TurnsInv, ScanStep, reportVars
    <3>. QED  BY <3>1, <3>3, NothingIsShown DEF ShownInv
  <2>6. CASE ReportStep
    BY <2>6, ReportStepsShow DEF ReportStep
  <2>7. CASE OthersWrite
    <3>1. IsFiniteSet(store') /\ store' \subseteq DOMAIN Content
      BY <2>1, <2>7, StoreStaysKnown
    <3>. QED  BY <2>7, <3>1, NothingIsShown DEF OthersWrite, ForgetReport
  <2>8. CASE UNCHANGED allVars
    <3>1. UNCHANGED <<settings, log, lacking, pdf, step, store>>
      BY <2>8 DEF allVars, vars, reportVars
    <3>2. IsMadeFromStore => IsMadeFromStore'
      BY <3>1 DEF IsMadeFromStore, Reporting!Damaged, Reporting!Lacking
    <3>3. Written!IsReport => Written!IsReport'
      BY <3>1, TextIsKept DEF Written!IsReport
    <3>. QED  BY <3>1, <3>2, <3>3 DEF ShownInv
  <2>. QED  BY <2>2, <2>3, <2>4, <2>5, <2>6, <2>7, <2>8 DEF AgentNext
<1>. QED  BY <1>1, <1>2, ScanInvariant, TurnsInvariant, PTL DEF AgentSpec

\* The sections of a report (executive summary, matrix, gaps, evidence summary
\* and appendix, each computed on its own way from the records) agree, for any
\* controls, signals and damage the records of the store may have.
THEOREM SectionsOfReportsAgree == AgentSpec => []ReportSectionsAgree
<1>1. ShownInv => ReportSectionsAgree
  <2>. SUFFICES ASSUME ShownInv PROVE ReportSectionsAgree
    OBVIOUS
  <2>1. CASE pdf = <<>>
    BY <2>1 DEF ReportSectionsAgree, Reporting!SectionsAgree
  <2>2. CASE pdf # <<>>
    <3>1. Written!IsReport /\ Written!IsKnown(log) /\ Written!IsKnown(lacking)
      BY <2>2, ReadAreKnown DEF ShownInv
    <3>2. Written!SectionsAgree
      BY <3>1, WrittenAssumptions, Written!ReportAgrees
    <3>. QED  BY <3>2, SameAgreement DEF ReportSectionsAgree
  <2>. QED  BY <2>1, <2>2
<1>. QED  BY <1>1, ShownInvariant, PTL

\* A report shows every record of the store with its digest, or lists exactly
\* those that lack one (report_evidence_metadata), whatever was in the store.
THEOREM ReportsShowTheStore == AgentSpec => []ReportedStoreIsShown
<1>1. ShownInv => ReportedStoreIsShown
  <2>. SUFFICES ASSUME ShownInv PROVE ReportedStoreIsShown
    OBVIOUS
  <2>1. CASE pdf = <<>>
    BY <2>1 DEF ReportedStoreIsShown, Reporting!EvidenceIsShownOrItsLackIs
  <2>2. CASE pdf # <<>>
    <3>1. Written!IsReport /\ Written!IsKnown(log) /\ Written!IsKnown(lacking)
      BY <2>2, ReadAreKnown DEF ShownInv
    <3>2. \/ log = store /\ lacking = {} /\ Written!Damaged = {}
          \/ log = {} /\ lacking = Written!Lacking /\ Written!Lacking # {}
      BY <2>2 DEF ShownInv, IsMadeFromStore, Reporting!Damaged, Written!Damaged,
                  Reporting!Lacking, Written!Lacking, Reporting!None, Written!None
    <3>3. Written!EvidenceIsShownOrItsLackIs
      BY <3>1, <3>2, WrittenAssumptions, Written!ReportShows
    <3>. QED  BY <3>3, SameEvidence DEF ReportedStoreIsShown
  <2>. QED  BY <2>1, <2>2
<1>. QED  BY <1>1, ShownInvariant, PTL

=============================================================================
