------------------------------ MODULE ExportRun ------------------------------
(***************************************************************************)
(* LocalDatabase::export_run and validate_corpus_reconstruction running    *)
(* beside the writers of LocalDatabase.                                    *)
(*                                                                         *)
(* export_run rebuilds the corpus with five SELECT statements on an        *)
(* autocommit connection: each one sees the content committed when it      *)
(* runs, and nothing holds the file still between two of them.  The        *)
(* evidence store is the SDK's (external): an index of records, each with  *)
(* an id and the hash of its content, that this code only reads.           *)
(***************************************************************************)
EXTENDS LocalDatabase

CONSTANTS
  Exporter,      \* the handles that export, each one run at a time
  StoreIndexes   \* the possible contents of the evidence store's index

VARIABLES
  store,      \* the evidence store's index: a set of [id, hash]
  step,       \* the next SELECT of each exporter
  parts,      \* what each exporter has read so far
  verdict,    \* what the last call of each exporter returned
  validated,  \* the run each exporter validated just before, or Blank
  quiet       \* history: nobody committed the exporter's run since it began

exportVars == <<store, step, parts, verdict, validated, quiet>>
allVars    == <<vars, exportVars>>

ExportSteps == {"idle", "frameworks", "results", "controls", "evidence", "render"}
Verdicts    == {"none", "artifact", "missing run", "unsupported format", "failed",
                "valid", "missing evidence", "integrity mismatch"}

NoParts == [run_id |-> Blank, executed_at |-> Blank, frameworks |-> {}, results |-> {},
            controls |-> {}, evidence |-> {}]

ExportInit ==
  /\ Init
  /\ store \in StoreIndexes
  /\ step = [x \in Exporter |-> "idle"]
  /\ parts = [x \in Exporter |-> NoParts]
  /\ verdict = [x \in Exporter |-> "none"]
  /\ validated = [x \in Exporter |-> Blank]
  /\ quiet = [x \in Exporter |-> TRUE]

RunIds == {c.run_id : c \in {c \in Corpora : IsAccepted(c)}}

-----------------------------------------------------------------------------
(***************************************************************************)
(* Validation.  A snapshot without a digest is never an error; one with a  *)
(* digest must resolve to a record of the same id.                         *)
(***************************************************************************)
Resolves(link) ==
  link.digest = Blank \/ [id |-> link.evidence_id, hash |-> link.digest] \in store

IdIsStored(link) == \E r \in store : r.id = link.evidence_id

\* Not the code: a record with the right id is taken for the right record.
ValidationById(links) ==
  IF \A l \in links : l.digest = Blank \/ IdIsStored(l) THEN {"valid"} ELSE {"missing evidence"}

\* The loop stops at the first snapshot, in evidence id order, that does not
\* resolve; which one that is decides only the kind of the error.
Validation(links) ==
  LET bad == {l \in links : ~Resolves(l)}
  IN  IF bad = {} THEN {"valid"}
      ELSE {IF IdIsStored(l) THEN "integrity mismatch" ELSE "missing evidence" : l \in bad}

Validate(x) ==
  /\ step[x] = "idle"
  /\ \E run \in RunIds :
       \E v \in Validation(ForRun(db.run_evidence_links, run)) :
         /\ verdict' = [verdict EXCEPT ![x] = v]
         /\ validated' = [validated EXCEPT ![x] = IF v = "valid" THEN run ELSE Blank]
  /\ parts' = [parts EXCEPT ![x] = NoParts]
  /\ quiet' = [quiet EXCEPT ![x] = TRUE]
  /\ UNCHANGED <<vars, store, step>>

-----------------------------------------------------------------------------
(***************************************************************************)
(* The statements of reconstruct_export_corpus, in their order.            *)
(***************************************************************************)

StartExport(x, run) ==
  /\ step[x] = "idle"
  /\ quiet' = [quiet EXCEPT ![x] = validated[x] = run => @]
  /\ UNCHANGED <<vars, store>>

\* A run without a scan_runs row ends the call.
MissingRun(x) ==
  \E run \in RunIds :
    /\ \A r \in db.scan_runs : r.id # run
    /\ StartExport(x, run)
    /\ verdict' = [verdict EXCEPT ![x] = "missing run"]
    /\ parts' = [parts EXCEPT ![x] = NoParts]
    /\ validated' = [validated EXCEPT ![x] = Blank]
    /\ UNCHANGED step

ReadRun(x) ==
  \E r \in db.scan_runs :
    /\ StartExport(x, r.id)
    /\ verdict' = [verdict EXCEPT ![x] = "none"]
    /\ parts' = [parts EXCEPT ![x] = [NoParts EXCEPT !.run_id = r.id,
                                                   !.executed_at = r.executed_at]]
    /\ validated' = [validated EXCEPT ![x] = IF @ = r.id THEN @ ELSE Blank]
    /\ step' = [step EXCEPT ![x] = "frameworks"]

Select(x, from, read, to) ==
  /\ step[x] = from
  /\ parts' = [parts EXCEPT ![x] = read]
  /\ step' = [step EXCEPT ![x] = to]
  /\ UNCHANGED <<vars, store, verdict, validated, quiet>>

ReadFrameworks(x) ==
  Select(x, "frameworks",
         [parts[x] EXCEPT !.frameworks = ForRun(db.run_framework_links, parts[x].run_id)],
         "results")

\* Not the code: the statement names the wrong table.
ReadResultsFromGaps(x) ==
  Select(x, "results",
         [parts[x] EXCEPT !.results = ForRun(db.compliance_gaps, parts[x].run_id)],
         "controls")

\* Not the code: the read is not isolated from the running transaction.
ReadResultsUncommitted(x) ==
  Select(x, "results",
         [parts[x] EXCEPT !.results = ForRun(draft.control_results, parts[x].run_id)],
         "controls")

ReadResults(x) ==
  Select(x, "results",
         [parts[x] EXCEPT !.results = ForRun(db.control_results, parts[x].run_id)],
         "controls")

\* Not the code: the statement has no filter on the run.
ReadControlsOfAnyRun(x) ==
  Select(x, "controls", [parts[x] EXCEPT !.controls = db.run_control_links], "evidence")

ReadControls(x) ==
  Select(x, "controls",
         [parts[x] EXCEPT !.controls = ForRun(db.run_control_links, parts[x].run_id)],
         "evidence")

ReadEvidence(x) ==
  Select(x, "evidence",
         [parts[x] EXCEPT !.evidence = ForRun(db.run_evidence_links, parts[x].run_id)],
         "render")

\* The format is looked at only once the corpus is rebuilt.
Render(x) ==
  /\ step[x] = "render"
  /\ \E v \in {"artifact", "unsupported format"} : verdict' = [verdict EXCEPT ![x] = v]
  /\ step' = [step EXCEPT ![x] = "idle"]
  /\ UNCHANGED <<vars, store, parts, validated, quiet>>

\* A SELECT fails, a busy file included: the call returns the error.
ReadFails(x) ==
  /\ step[x] \notin {"idle", "render"}
  /\ verdict' = [verdict EXCEPT ![x] = "failed"]
  /\ step' = [step EXCEPT ![x] = "idle"]
  /\ parts' = [parts EXCEPT ![x] = NoParts]
  /\ validated' = [validated EXCEPT ![x] = Blank]
  /\ UNCHANGED <<vars, store, quiet>>

\* The caller is done with the artifact.
Release(x) ==
  /\ step[x] = "idle"
  /\ verdict[x] \in {"artifact", "unsupported format"}
  /\ verdict' = [verdict EXCEPT ![x] = "none"]
  /\ parts' = [parts EXCEPT ![x] = NoParts]
  /\ validated' = [validated EXCEPT ![x] = Blank]
  /\ UNCHANGED <<vars, store, step, quiet>>

ExportStep(x) ==
  \/ Validate(x)
  \/ MissingRun(x)
  \/ ReadRun(x)
  \/ ReadFrameworks(x)
  \/ ReadResults(x)
  \/ ReadControls(x)
  \/ ReadEvidence(x)
  \/ Render(x)
  \/ ReadFails(x)
  \/ Release(x)

\* A write goes on as in LocalDatabase; its commit ends the quiet of the
\* exporters of that run.
ExportedRun(x) == IF parts[x].run_id = Blank THEN validated[x] ELSE parts[x].run_id

WriterStep ==
  /\ Next
  /\ quiet' = [x \in Exporter |->
                 quiet[x] /\ ~ \E w \in Connection :
                                 Committing(w) /\ corpus[w].run_id = ExportedRun(x)]
  /\ UNCHANGED <<store, step, parts, verdict, validated>>

ExportNext == WriterStep \/ \E x \in Exporter : ExportStep(x)

ExportSpec == ExportInit /\ [][ExportNext]_allVars

-----------------------------------------------------------------------------
(***************************************************************************)
(* Properties.                                                             *)
(***************************************************************************)

\* Every variable of the export has its type.
ExportTypeOK ==
  /\ store \in StoreIndexes
  /\ step \in [Exporter -> ExportSteps]
  /\ verdict \in [Exporter -> Verdicts]
  /\ validated \in [Exporter -> RunIds \cup {Blank}]
  /\ quiet \in [Exporter -> BOOLEAN]
  /\ \A x \in Exporter :
       /\ parts[x].run_id \in RunIds \cup {Blank}
       /\ parts[x].frameworks \subseteq FrameworkLinkRow
       /\ parts[x].results \subseteq ResultRow
       /\ parts[x].controls \subseteq ControlLinkRow
       /\ parts[x].evidence \subseteq EvidenceLinkRow

Exported(x) == step[x] = "idle" /\ verdict[x] = "artifact"

\* The parts are those of one corpus of the exported run.
PartsOf(p, c) ==
  /\ c.run_id = p.run_id
  /\ p.frameworks = FrameworkLinks(c)
  /\ p.results = ResultRows(c)
  /\ p.controls = ControlLinks(c)
  /\ {l.evidence_id : l \in p.evidence} = {e.id : e \in Elements(c.evidence)}

\* An export during which nobody commits the exported run is that run's last
\* committed corpus, however many other runs are written meanwhile: sharing
\* frameworks and evidence ids with them changes nothing.
QuietExportIsExact ==
  \A x \in Exporter :
    Exported(x) /\ quiet[x] =>
      /\ \E c \in latest : PartsOf(parts[x], c)
      /\ [id |-> parts[x].run_id, executed_at |-> parts[x].executed_at] \in db.scan_runs
      /\ parts[x].evidence = ForRun(db.run_evidence_links, parts[x].run_id)

\* Even while its run is rewritten, an export reads committed rows only: each
\* part is, on its own, what some corpus of that run was stored as, never a
\* mixture with the draft of a running or a rolled-back write.
PartsAreCommitted ==
  \A x \in Exporter : Exported(x) =>
    LET own == {c \in Corpora : IsAccepted(c) /\ c.run_id = parts[x].run_id}
    IN  /\ parts[x].frameworks \in {FrameworkLinks(c) : c \in own}
        /\ parts[x].results \in {ResultRows(c) : c \in own}
        /\ parts[x].controls \in {ControlLinks(c) : c \in own}
        /\ {l.evidence_id : l \in parts[x].evidence} \in
             {{e.id : e \in Elements(c.evidence)} : c \in own}

\* A caller that validates a run and then exports it, with no commit of that
\* run in between, exports only evidence the store still vouches for.
ValidatedExportMatchesStore ==
  \A x \in Exporter :
    Exported(x) /\ quiet[x] /\ validated[x] = parts[x].run_id =>
      \A l \in parts[x].evidence : Resolves(l)

\* The documentation's claim: what is exported is one persisted run.
ExportIsOnePersistedRun ==
  \A x \in Exporter : Exported(x) => \E c \in Corpora : PartsOf(parts[x], c)

\* The reconstruction test's claim: no export format receives a corpus
\* rebuilt from evidence whose digest does not match the store.
NoExportOfMismatchedEvidence ==
  \A x \in Exporter : Exported(x) => \A l \in parts[x].evidence : Resolves(l)

=============================================================================
