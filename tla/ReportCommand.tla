---------------------------- MODULE ReportCommand ----------------------------
(***************************************************************************)
(* `sovri-agent report` (report.rs): one invocation from its arguments     *)
(* through the evidence store to a PDF on standard output.                 *)
(*                                                                         *)
(* External: the evidence store of the SDK, which refuses to open when it  *)
(* cannot decode one of its records and names the first it met.  Lines of  *)
(* constant text that depend on nothing are left out, and so are locators, *)
(* kinds and references, which a record carries from the store to its      *)
(* lines.                                                                  *)
(***************************************************************************)
EXTENDS PdfDocument

CONSTANTS
  ReportLines,  \* the argument lists an operator may give
  Paths,        \* the value of --evidence-store -> what it leads to
  Scores,       \* the value of --framework-score -> its parts
  ValidRuns, ValidStamps,  \* the values --run and --executed-at accept
  Content       \* record id -> control, signal, classification and damage

VARIABLES
  args,      \* the arguments not parsed yet
  settings,  \* the parsed flags
  step,      \* where the invocation is
  log,       \* the records the report is made from
  lacking,   \* the records shown with the limitation instead
  pdf,       \* the lines of the document written to standard output
  code,      \* the exit code, or NoCode
  store      \* the evidence store: the ids of its records

vars == <<args, settings, step, log, lacking, pdf, code, store>>

None    == "none"
NoCode  == -1
ExitOk      == 0
ExitFailure == 1
ExitUsage   == 64

ReportFlags == {"--run", "--evidence-store", "--executed-at", "--framework-score"}

NoSettings == [f \in ReportFlags |-> None]

Idle ==
  /\ args = <<>> /\ settings = NoSettings /\ step = "idle"
  /\ log = {} /\ lacking = {} /\ pdf = <<>> /\ code = NoCode

Begin ==
  /\ args' \in ReportLines
  /\ settings' = NoSettings /\ step' = "parse"
  /\ log' = {} /\ lacking' = {} /\ pdf' = <<>> /\ code' = NoCode
  /\ UNCHANGED store

Leave(exit) == step' = "exited" /\ code' = exit

-----------------------------------------------------------------------------
(***************************************************************************)
(* parse_args: a help flag counts when it is met, every other complaint    *)
(* about a value waits for the end.                                        *)
(***************************************************************************)
Value == IF args[1].inline # None THEN args[1].inline
         ELSE IF Len(args) > 1 THEN args[2].text ELSE None

Taken == IF args[1].inline # None THEN 1 ELSE 2

ParseHelp ==
  /\ step = "parse" /\ args # <<>>
  /\ args[1].flag = "--help"
  /\ Leave(ExitOk)
  /\ UNCHANGED <<args, settings, log, lacking, pdf, store>>

ParseValue ==
  /\ step = "parse" /\ args # <<>>
  /\ args[1].flag \in ReportFlags /\ Value # None
  /\ settings' = [settings EXCEPT ![args[1].flag] = Value]
  /\ args' = SubSeq(args, Taken + 1, Len(args))
  /\ UNCHANGED <<step, log, lacking, pdf, code, store>>

ParseError ==
  /\ step = "parse" /\ args # <<>>
  /\ args[1].flag # "--help"
  /\ args[1].flag \notin ReportFlags \/ Value = None
  /\ Leave(ExitUsage)
  /\ UNCHANGED <<args, settings, log, lacking, pdf, store>>

\* score_percentage_tenths: digits, a point, one digit, a percent sign.
IsValidScore(text) ==
  /\ Scores[text].shaped
  /\ Scores[text].whole <= 100
  /\ 10 * Scores[text].whole + Scores[text].fraction <= 1000

HasValidSettings ==
  /\ settings["--run"] \in ValidRuns
  /\ settings["--executed-at"] \in ValidStamps
  /\ settings["--framework-score"] # None => IsValidScore(settings["--framework-score"])
  /\ settings["--evidence-store"] # None

EndOfArguments ==
  /\ step = "parse" /\ args = <<>>
  /\ IF HasValidSettings THEN step' = "open" /\ UNCHANGED code ELSE Leave(ExitUsage)
  /\ UNCHANGED <<args, settings, log, lacking, pdf, store>>

-----------------------------------------------------------------------------
(***************************************************************************)
(* canonical_evidence_store and report_evidence_metadata.                  *)
(***************************************************************************)
Damaged == {id \in store : Content[id].damage # None}
Lacking == {id \in store : Content[id].damage = "no content hash"}

\* A record neither decoder can read; the other damage escapes the fallback,
\* which looks at fewer fields.
Unreadable == {id \in store : Content[id].damage = "syntax"}

LeadsToStore == Paths[settings["--evidence-store"]] = "directory"

\* A path that is missing, is a file or leads out of its parent.  A store
\* without records may not have a directory yet.
OpenRefused ==
  /\ step = "open"
  /\ ~LeadsToStore \/ store = {}
  /\ Leave(ExitUsage)
  /\ UNCHANGED <<args, settings, log, lacking, pdf, store>>

ReadStore ==
  /\ step = "open" /\ LeadsToStore
  /\ Damaged = {}
  /\ log' = store
  /\ step' = "write"
  /\ UNCHANGED <<args, settings, lacking, pdf, code, store>>

\* Not the code: the fallback keeps the records it finds sound next to those
\* that lack a digest, without asking what else is wrong with them.
ReadLackingBesideOthers ==
  /\ step = "open" /\ LeadsToStore
  /\ Lacking # {} /\ Unreadable = {}
  /\ lacking' = Lacking
  /\ log' = store \ Lacking
  /\ step' = "write"
  /\ UNCHANGED <<args, settings, pdf, code, store>>

\* The first record the store complains about lacks its digest: the report is
\* made of the records that do, and of no other.
ReadLacking ==
  /\ step = "open" /\ LeadsToStore
  /\ Lacking # {} /\ Unreadable = {}
  /\ lacking' = Lacking
  /\ step' = "write"
  /\ UNCHANGED <<args, settings, log, pdf, code, store>>

ReadFails ==
  /\ step = "open" /\ LeadsToStore
  /\ Damaged \ Lacking # {}
  /\ Leave(ExitUsage)
  /\ UNCHANGED <<args, settings, log, lacking, pdf, store>>

-----------------------------------------------------------------------------
(***************************************************************************)
(* The lines of the report.                                                *)
(***************************************************************************)
ConsentControl  == "consent.tracker.prior-consent"
DockerControl   == "container.base-image.supported"
SshControl      == "host.ssh.permit-root-login"
PassSignal      == "PASS"
TrackerSignal   == "www.google-analytics.com"
Inconclusive    == "consent signal was inconclusive"
NoDockerSignal  == "no Docker daemon is present"
NoSshdSignal    == "sshd configuration could not be read"

\* non_conclusive_status
NonConclusive(r) ==
  IF r.control = DockerControl /\ r.signal = NoDockerSignal THEN "SKIPPED"
  ELSE IF r.control = SshControl /\ r.signal = NoSshdSignal THEN "ERROR"
  ELSE None

\* Not the code: a record is counted by its signal alone, so that a skipped or
\* an errored control counts as a failure and an inconclusive one has no warning.
CountedBySignal(r) ==
  IF r.signal = None THEN {} ELSE IF r.signal = PassSignal THEN {"PASS"} ELSE {"FAIL"}

\* append_record_result_counts: the statuses a record is counted under.
CountedAs(r) ==
  IF NonConclusive(r) # None THEN {NonConclusive(r)}
  ELSE IF r.signal = None THEN {}
  ELSE IF r.signal = PassSignal THEN {"PASS"}
  ELSE IF r.signal = Inconclusive THEN {"FAIL", "WARNING"}
  ELSE IF r.control = ConsentControl /\ r.signal = TrackerSignal THEN {"FAIL", "PASS"}
  ELSE {"FAIL"}

\* gap_status, for a record linked to a control.
GapStatus(r) ==
  IF r.control = None \/ r.signal = PassSignal THEN None
  ELSE IF NonConclusive(r) # None THEN NonConclusive(r)
  ELSE IF r.signal = Inconclusive THEN "WARNING"
  ELSE "FAIL"

CountOf(status)  == Cardinality({id \in log : status \in CountedAs(Content[id])})
ErrorCount       == Cardinality({id \in log : NonConclusive(Content[id]) = "ERROR"})

\* The counts of the canonical consent corpus, constants of the code.
ConsentCounts == [s \in Status |-> IF s \in {"FAIL", "PASS"} THEN 1 ELSE 0]

\* executive_result_counts: when nothing is counted, the counts of the
\* consent corpus stand in.
ShownCounts ==
  IF \A s \in Status : CountOf(s) = 0
    THEN ConsentCounts
    ELSE [s \in Status |-> CountOf(s)]

\* records_ordered_by_control: a record without a control comes first.
ByControl ==
  InOrderOf(log,
            LAMBDA id : <<IF Content[id].control = None THEN Blank ELSE Content[id].control, id>>)

IsShownRedacted(r) == r.classification # "Public"

Line(tag, what, status) == [tag |-> tag, what |-> what, status |-> status]

CountLines ==
  MapSeq(Kept(<<"FAIL", "PASS", "WARNING", "SKIPPED", "ERROR">>, LAMBDA s : ShownCounts[s] > 0),
         LAMBDA s : Line("count", ShownCounts[s], s))

SummaryLines ==
  (IF log = {} THEN <<Line("no controls", 0, None)>> ELSE CountLines)
    \o (IF ErrorCount > 0 THEN <<Line("incomplete", ErrorCount, None)>> ELSE <<>>)

\* Next to the score stand the counts of the consent corpus, whatever the store
\* holds.
ScoreCounts ==
  MapSeq(<<"FAIL", "PASS", "WARNING", "SKIPPED", "ERROR">>,
         LAMBDA s : Line("score count", ConsentCounts[s], s))

ScoreLines ==
  IF log = {} THEN <<Line("no scores", Blank, None)>>
  ELSE <<Line("score", IF settings["--framework-score"] = None THEN "0.0%"
                       ELSE settings["--framework-score"], None)>> \o ScoreCounts

\* The consent control and its tracker rule are reported whatever the store
\* holds; the CMP rule warns when any record is inconclusive.
ConsentRows ==
  <<Line("rule", "cmp", IF \E id \in log : Content[id].signal = Inconclusive
                          THEN "WARNING" ELSE "PASS"),
    Line("rule", "tracker", "FAIL"), Line("row", ConsentControl, "FAIL")>>

NonConclusiveRows ==
  MapSeq(Kept(ByControl, LAMBDA id : NonConclusive(Content[id]) # None),
         LAMBDA id : Line("row", Content[id].control, NonConclusive(Content[id])))

GapLines ==
  LET gaps == Kept(ByControl, LAMBDA id : GapStatus(Content[id]) # None)
  IN  IF gaps = <<>> THEN <<Line("no gaps", Blank, None)>>
      ELSE MapSeq(gaps, LAMBDA id : Line("gap", Content[id].control, GapStatus(Content[id])))

EvidenceSummary ==
  IF log = {} THEN <<Line("no evidence", Blank, None)>>
  ELSE MapSeq(ByControl, LAMBDA id :
                Line("summary", id, IF IsShownRedacted(Content[id]) THEN "redacted" ELSE "open"))

Appendix ==
  MapSeq(ByControl, LAMBDA id : Line("digest", id, None))
    \o MapSeq(InOrderOf(lacking, LAMBDA id : <<id>>),
              LAMBDA id : Line("limitation", id, None))

ReportText ==
  <<Line("run", settings["--run"], None), Line("date", settings["--executed-at"], None)>>
    \o SummaryLines \o ScoreLines
    \o MapSeq(ByControl, LAMBDA id : Line("evidence", id, None))
    \o ConsentRows \o NonConclusiveRows \o GapLines \o EvidenceSummary \o Appendix

\* execute and write_pdf.
WriteReport ==
  /\ step = "write"
  /\ pdf' = ShownLines(PdfObjects(ReportText))
  /\ Leave(ExitOk)
  /\ UNCHANGED <<args, settings, log, lacking, store>>

\* Standard output refuses a byte: what was written does not end in a table.
WriteFails ==
  /\ step = "write"
  /\ Leave(ExitFailure)
  /\ UNCHANGED <<args, settings, log, lacking, pdf, store>>

Steps ==
  \/ ParseHelp \/ ParseValue \/ ParseError \/ EndOfArguments
  \/ OpenRefused \/ ReadStore \/ ReadLacking \/ ReadFails
  \/ WriteReport \/ WriteFails

-----------------------------------------------------------------------------
(***************************************************************************)
(* Properties.                                                             *)
(***************************************************************************)
Shown(tag)           == {n \in DOMAIN pdf : pdf[n].tag = tag}
ShownAs(tag, status) == Cardinality({n \in Shown(tag) : pdf[n].status = status})
ShownIds(tag)        == {pdf[n].what : n \in Shown(tag)}

\* The count the summary shows for a status, and for incomplete controls.
CountShown(status) ==
  LET found == FirstWhere(pdf, LAMBDA l : l.tag = "count" /\ l.status = status)
  IN  IF found = <<>> THEN 0 ELSE found[1].what

IncompleteShown ==
  LET found == FirstWhere(pdf, LAMBDA l : l.tag = "incomplete")
  IN  IF found = <<>> THEN 0 ELSE found[1].what

\* Every variable has its type, and the exit code tells what was written: a
\* whole document or the help, nothing when the invocation was refused.
TypeOK ==
  /\ step \in {"idle", "parse", "open", "write", "exited"}
  /\ DOMAIN settings = ReportFlags
  /\ log \cup lacking \subseteq store
  /\ code \in {NoCode, ExitOk, ExitFailure, ExitUsage}
  /\ step = "exited" <=> code # NoCode
  /\ pdf # <<>> => code = ExitOk /\ HasValidSettings /\ LeadsToStore

\* The sections of a report, each computed on its own way from the records,
\* agree: the errored controls of the summary are the ERROR rows of the matrix
\* and the ERROR gaps, the skipped ones likewise; every warning counted is
\* listed as a gap, but for those of records linked to no control; and no failed
\* gap with a signal goes uncounted.  What the code writes without looking at
\* the records agrees with nothing and is left out here: the counts next to the
\* score (ScoreCounts), which contradict those of the summary whenever these are
\* not "1 FAIL, 1 PASS", and the FAIL row of the consent control.
SectionsAgree ==
  pdf # <<>> =>
    /\ \A status \in {"ERROR", "SKIPPED"} :
         /\ CountShown(status) = ShownAs("row", status)
         /\ ShownAs("gap", status) = ShownAs("row", status)
    /\ CountShown("ERROR") = IncompleteShown
    /\ CountShown("WARNING") =
         ShownAs("gap", "WARNING")
           + Cardinality({id \in log : Content[id].signal = Inconclusive /\ Content[id].control = None})
    /\ Cardinality({id \in log : /\ GapStatus(Content[id]) = "FAIL"
                                 /\ Content[id].signal # None}) <= CountShown("FAIL")
    /\ ShownIds("summary") = ShownIds("evidence") /\ ShownIds("digest") = ShownIds("evidence")

\* A reader of a report knows what it leaves out.  Every record of the store
\* appears with its digest and in every evidence section, or the report lists
\* exactly the records that have no digest, each with the limitation; and a
\* record that could not be decoded is never shown with a digest.
EvidenceIsShownOrItsLackIs ==
  pdf # <<>> =>
    /\ \A id \in ShownIds("digest") : Content[id].damage = None
    /\ \/ ShownIds("limitation") = {} /\ ShownIds("digest") = store
       \/ ShownIds("limitation") # {} /\ ShownIds("limitation") = Lacking

=============================================================================
