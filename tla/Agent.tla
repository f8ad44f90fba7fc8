-------------------------------- MODULE Agent --------------------------------
(***************************************************************************)
(* The command line program (main.rs): one command after another, each a   *)
(* process of its own, that share nothing but the evidence store.  A scan  *)
(* writes it, a report reads it, and other programs that use the same SDK  *)
(* may have left records in it.                                            *)
(***************************************************************************)
EXTENDS ScanCommand

CONSTANTS
  Rank, LinesPerPage, ReportLines, Paths, Scores, ValidRuns, ValidStamps,
  Content,       \* every record id -> what a report reads of the record
  OtherBatches   \* the sets of records another program may leave

VARIABLES
  command,       \* the last command given
  args, settings, step, log, lacking, pdf, code   \* those of ReportCommand

reportVars == <<args, settings, step, log, lacking, pdf, code>>
allVars    == <<vars, command, reportVars>>

Reporting == INSTANCE ReportCommand

\* What a report assumes of its ids and its pages (stated in Matrix and
\* PdfDocument).
ASSUME ReportAssumption ==
  Reporting!BlankIsText /\ Reporting!RankOrders /\ Reporting!LinesPerPageIsPositive

\* Records are known by their ids, which have a place in the byte order, as the
\* controls that some of them are linked to; a program leaves finitely many.
ASSUME RecordsAssumption ==
  /\ DOMAIN Content \subseteq DOMAIN Rank
  /\ \A id \in DOMAIN Content : Content[id].control \in DOMAIN Rank \cup {Reporting!None}
  /\ \A batch \in OtherBatches : IsFiniteSet(batch) /\ batch \subseteq DOMAIN Content
  /\ \A m \in Machines : \A s \in Elements(Scans) :
       IsFiniteSet(m.evidence[s]) /\ m.evidence[s] \subseteq DOMAIN Content

Commands == {"none", "scan", "report", "selftest", "version", "help", "unknown"}

AgentInit == Init /\ command = "none" /\ Reporting!Idle

Running == pc \notin {"idle", "exited"} \/ step \notin {"idle", "exited"}

\* The process of an earlier command is gone, and its memory with it.
ForgetScan ==
  /\ line' = <<>> /\ rest' = <<>> /\ config' = EmptyConfig
  /\ pc' = "idle" /\ output' = "nothing" /\ exit' = NoCode
  /\ evidence' = {} /\ acquired' = {} /\ selection' = {} /\ results' = {}
  /\ UNCHANGED machine

ForgetReport ==
  /\ args' = <<>> /\ settings' = Reporting!NoSettings /\ step' = "idle"
  /\ log' = {} /\ lacking' = {} /\ pdf' = <<>> /\ code' = NoCode

StartScan ==
  /\ ~Running
  /\ command' = "scan"
  /\ Start /\ ForgetReport

StartReport ==
  /\ ~Running
  /\ command' = "report"
  /\ Reporting!Begin /\ ForgetScan

\* selftest, --version and --help print a line; any other word is refused.
PrintAndExit ==
  /\ ~Running
  /\ command' \in {"selftest", "version", "help", "unknown"}
  /\ ForgetScan /\ UNCHANGED store
  /\ args' = <<>> /\ settings' = Reporting!NoSettings /\ step' = "exited"
  /\ log' = {} /\ lacking' = {} /\ pdf' = <<>>
  /\ code' = IF command' = "unknown" THEN Reporting!ExitFailure ELSE Reporting!ExitOk

\* A scan does not write to a store it cannot open.
ScanStep ==
  /\ Step
  /\ pc = "persist" /\ pc' = "report" => Reporting!Damaged = {}
  /\ UNCHANGED <<command, reportVars>>

ReportStep ==
  /\ Reporting!Steps
  /\ UNCHANGED <<command, line, rest, config, pc, machine, evidence, acquired, selection, results,
                 output, exit>>

\* Between two commands another program leaves records, some of them of an
\* older format or cut short.
OthersWrite ==
  /\ ~Running
  /\ store \cap UNION OtherBatches = {}
  /\ \E batch \in OtherBatches : store' = store \cup batch
  /\ command' = "none"
  /\ ForgetScan /\ ForgetReport

AgentNext == StartScan \/ StartReport \/ PrintAndExit \/ ScanStep \/ ReportStep \/ OthersWrite

AgentSpec == AgentInit /\ [][AgentNext]_allVars

-----------------------------------------------------------------------------
(***************************************************************************)
(* Properties.                                                             *)
(***************************************************************************)

\* Every variable has its type; the scan and the report never run both.
AgentTypeOK ==
  /\ TypeOK
  /\ command \in Commands
  /\ Reporting!TypeOK
  /\ pc # "idle" => step = "idle" /\ command = "scan"
  /\ step # "idle" => pc = "idle" /\ command # "scan"

\* The sections of a report agree with each other, whatever scans and other
\* programs left in the store; what the code writes as a constant is excepted
\* (stated in ReportCommand).
ReportSectionsAgree == Reporting!SectionsAgree

\* A report shows every record of the store with its digest, or lists exactly
\* those that lack one (stated in ReportCommand); so what a scan has reported
\* as stored is in the next report, unless that report says what it lacks.
ReportedStoreIsShown == Reporting!EvidenceIsShownOrItsLackIs

=============================================================================
