---------------------------- MODULE LocalDatabase ----------------------------
(***************************************************************************)
(* LocalDatabase::write_completed_corpus (src/src/local_db.rs): several    *)
(* connections to one SQLite file, each writing one completed corpus at a  *)
(* time inside one deferred transaction.                                   *)
(*                                                                         *)
(* The connections are the handles of threads or processes that opened the *)
(* same file.  SQLite's rollback-journal mode is external: BEGIN DEFERRED  *)
(* takes no lock, the first INSERT takes the single write lock or waits    *)
(* for it until the busy timeout, other connections see the committed      *)
(* content only, and an error or a crash before COMMIT leaves no trace.    *)
(* `draft` is what the transaction that holds the lock sees.               *)
(***************************************************************************)
EXTENDS CorpusRows

CONSTANTS
  Connection,    \* the open database handles
  Nobody,        \* the value of `lock` when no transaction writes
  Corpora,       \* the corpora callers may hand to write_completed_corpus
  LegacyGaps     \* gap rows without a run that a migrated file may hold

ASSUME NobodyAssumption  == Nobody \notin Connection
ASSUME CorporaAssumption == Corpora \subseteq Corpus
ASSUME LegacyAssumption  == LegacyGaps \subseteq {g \in GapRow : g.run_id = Blank}

VARIABLES
  db,        \* the committed content of the file
  lock,      \* the connection whose transaction holds the write lock
  draft,     \* the content that transaction sees; db when there is none
  pc,        \* where each connection is in write_completed_corpus
  corpus,    \* the argument of each connection's call
  row,       \* the evidence record the transaction writes next
  outcome,   \* what the last call of each connection returned
  latest     \* history: the last corpus committed for each run

vars == <<db, lock, draft, pc, corpus, row, outcome, latest>>

\* The steps that run inside the transaction, after its first INSERT.
WritingSteps == {"outcomes", "scores", "results", "gaps", "links", "evidence"}
Steps        == {"idle", "catalog"} \cup WritingSteps
Outcomes     == {"none", "ok", "refused", "busy", "error"}

EmptyDatabase(gaps) ==
  [scan_runs |-> {}, frameworks |-> {}, controls |-> {}, run_framework_links |-> {},
   run_control_links |-> {}, control_results |-> {}, compliance_gaps |-> gaps,
   score_summaries |-> {}, evidence_metadata |-> {}, run_evidence_links |-> {}]

Init ==
  /\ \E gaps \in SUBSET LegacyGaps : db = EmptyDatabase(gaps)
  /\ lock = Nobody
  /\ draft = db
  /\ pc = [w \in Connection |-> "idle"]
  /\ corpus = [w \in Connection |-> EmptyCorpus]
  /\ row = 1
  /\ outcome = [w \in Connection |-> "none"]
  /\ latest = {}

-----------------------------------------------------------------------------
(***************************************************************************)
(* What each function of the transaction does to the content it sees.      *)
(***************************************************************************)

\* Not the code: the upsert of scan_runs without its CASE on the time stamp.
StampedRunAlways(runs, c) == {[id |-> c.run_id, executed_at |-> c.executed_at]}

\* The upsert of scan_runs keeps the old time stamp when the new one is ''.
StampedRun(runs, c) ==
  LET old == {x \in runs : x.id = c.run_id}
  IN  IF c.executed_at = Blank /\ old # {}
        THEN old
        ELSE {[id |-> c.run_id, executed_at |-> c.executed_at]}

RunCatalogWritten(d, c) ==
  [d EXCEPT !.scan_runs           = Upsert(@, StampedRun(@, c), IdKey),
            !.frameworks          = InsertNew(@, CatalogueEntries(c), IdKey),
            !.controls            = @ \cup ControlIds(c),
            !.run_framework_links = Upsert(NotForRun(@, c.run_id), FrameworkLinks(c),
                                           FrameworkLinkKey),
            !.run_control_links   = Upsert(NotForRun(@, c.run_id), ControlLinks(c),
                                           ControlLinkKey)]

\* Not the code: the results of the previous write are kept.
RunOutcomesClearedGapsOnly(d, c) ==
  [d EXCEPT !.compliance_gaps = NotForRun(@, c.run_id)]

\* Not the code: the gaps of the previous write are kept.
RunOutcomesClearedResultsOnly(d, c) ==
  [d EXCEPT !.control_results = NotForRun(@, c.run_id)]

RunOutcomesCleared(d, c) ==
  [d EXCEPT !.control_results = NotForRun(@, c.run_id),
            !.compliance_gaps = NotForRun(@, c.run_id)]

\* Not the code: the upserts without the DELETE before them.
ScoreSummariesAdded(d, c) ==
  [d EXCEPT !.score_summaries = Upsert(@, ScoreRows(c), FrameworkLinkKey)]

ScoreSummariesWritten(d, c) ==
  [d EXCEPT !.score_summaries = Upsert(NotForRun(@, c.run_id), ScoreRows(c), FrameworkLinkKey)]

ControlResultsWritten(d, c) ==
  [d EXCEPT !.control_results = Upsert(@, ResultRows(c), OutcomeKey)]

\* Not the code: a legacy gap is superseded only by a gap of the same status.
SupersededGapOfStatus(g, c) ==
  g.run_id = Blank /\ \E r \in GapRows(c) : ResultKey(r) = ResultKey(g) /\ r.status = g.status

\* A gap of a run replaces the row the same gap had before rows named a run.
SupersededGap(g, c) ==
  g.run_id = Blank /\ \E r \in GapRows(c) : ResultKey(r) = ResultKey(g)

GapRowsWritten(d, c) ==
  [d EXCEPT !.compliance_gaps =
     InsertNew({g \in @ : ~SupersededGap(g, c)}, GapRows(c), OutcomeKey)]

\* Not the code: the snapshot of the previous write is kept.
EvidenceLinksKept(d, c) == d

\* Not the code: the DELETE names the evidence and forgets the run.
EvidenceLinksClearedById(d, c) ==
  [d EXCEPT !.run_evidence_links =
     {x \in @ : \A e \in Elements(c.evidence) : e.id # x.evidence_id}]

EvidenceLinksCleared(d, c) ==
  [d EXCEPT !.run_evidence_links = NotForRun(@, c.run_id)]

EvidenceRowWritten(d, c, e) ==
  LET metadata == WrittenEvidence(d.evidence_metadata, e)
  IN  [d EXCEPT !.evidence_metadata  = metadata,
                !.run_evidence_links = Upsert(@, SnapshotRows(metadata, c.run_id, e),
                                              EvidenceLinkKey)]

-----------------------------------------------------------------------------
(***************************************************************************)
(* The steps of a call.                                                    *)
(***************************************************************************)

\* A corpus without a run id, or whose frameworks do not match their metadata,
\* is refused before any transaction starts.
Refuse(w) ==
  /\ pc[w] = "idle"
  /\ \E c \in Corpora : ~IsAccepted(c)
  /\ outcome' = [outcome EXCEPT ![w] = "refused"]
  /\ UNCHANGED <<db, lock, draft, pc, corpus, row, latest>>

\* BEGIN DEFERRED takes no lock, so it never waits.
Begin(w) ==
  /\ pc[w] = "idle"
  /\ \E c \in Corpora :
       /\ IsAccepted(c)
       /\ corpus' = [corpus EXCEPT ![w] = c]
  /\ pc' = [pc EXCEPT ![w] = "catalog"]
  /\ outcome' = [outcome EXCEPT ![w] = "none"]
  /\ UNCHANGED <<db, lock, draft, row, latest>>

\* The first INSERT takes the write lock and the content it sees is the
\* content committed at that moment.
WriteRunCatalog(w) ==
  /\ pc[w] = "catalog"
  /\ lock = Nobody
  /\ lock' = w
  /\ draft' = RunCatalogWritten(db, corpus[w])
  /\ pc' = [pc EXCEPT ![w] = "outcomes"]
  /\ UNCHANGED <<db, corpus, row, outcome, latest>>

Advance(w, from, content, to) ==
  /\ pc[w] = from
  /\ draft' = content
  /\ pc' = [pc EXCEPT ![w] = to]
  /\ UNCHANGED <<db, lock, corpus, outcome, latest>>

ClearRunOutcomes(w) ==
  /\ Advance(w, "outcomes", RunOutcomesCleared(draft, corpus[w]), "scores")
  /\ UNCHANGED row

WriteScoreSummaries(w) ==
  /\ Advance(w, "scores", ScoreSummariesWritten(draft, corpus[w]), "results")
  /\ UNCHANGED row

WriteControlResults(w) ==
  /\ Advance(w, "results", ControlResultsWritten(draft, corpus[w]), "gaps")
  /\ UNCHANGED row

WriteGapRows(w) ==
  /\ Advance(w, "gaps", GapRowsWritten(draft, corpus[w]), "links")
  /\ UNCHANGED row

\* Not the code: the evidence loop starts one record too early.
ClearEvidenceLinksEarly(w) ==
  /\ Advance(w, "links", EvidenceLinksCleared(draft, corpus[w]), "evidence")
  /\ row' = 0

ClearEvidenceLinks(w) ==
  /\ Advance(w, "links", EvidenceLinksCleared(draft, corpus[w]), "evidence")
  /\ row' = 1

WriteEvidenceRow(w) ==
  /\ row \in DOMAIN corpus[w].evidence
  /\ Advance(w, "evidence",
             EvidenceRowWritten(draft, corpus[w], corpus[w].evidence[row]), "evidence")
  /\ row' = row + 1

Commit(w) ==
  /\ pc[w] = "evidence"
  /\ row \notin DOMAIN corpus[w].evidence
  /\ db' = draft
  /\ lock' = Nobody
  /\ row' = 1
  /\ pc' = [pc EXCEPT ![w] = "idle"]
  /\ corpus' = [corpus EXCEPT ![w] = EmptyCorpus]
  /\ outcome' = [outcome EXCEPT ![w] = "ok"]
  /\ latest' = {c \in latest : c.run_id # corpus[w].run_id} \cup {corpus[w]}
  /\ UNCHANGED draft

\* The call ends without a commit: SQLite discards the draft, if there is one.
GiveUp(w, result) ==
  /\ IF lock = w THEN lock' = Nobody /\ draft' = db /\ row' = 1
                 ELSE UNCHANGED <<lock, draft, row>>
  /\ pc' = [pc EXCEPT ![w] = "idle"]
  /\ corpus' = [corpus EXCEPT ![w] = EmptyCorpus]
  /\ outcome' = [outcome EXCEPT ![w] = result]
  /\ UNCHANGED <<db, latest>>

\* Not the code: a busy answer is retried for ever.
BusyTimeoutRetries(w) ==
  /\ pc[w] = "catalog"
  /\ lock # Nobody
  /\ outcome' = [outcome EXCEPT ![w] = IF @ = "busy" THEN "none" ELSE "busy"]
  /\ UNCHANGED <<db, lock, draft, pc, corpus, row, latest>>

\* The first INSERT waits for the lock of another connection until the busy
\* timeout of the connection expires.
BusyTimeout(w) ==
  /\ pc[w] = "catalog"
  /\ lock # Nobody
  /\ GiveUp(w, "busy")

\* Any statement, COMMIT included, may fail: `?` returns the error and the
\* transaction is rolled back as it is dropped.
StatementFails(w) ==
  /\ pc[w] # "idle"
  /\ GiveUp(w, "error")

\* The process dies: its caller hears nothing and the next connection that
\* reads the file rolls the journal back.
Crash(w) ==
  /\ pc[w] # "idle"
  /\ GiveUp(w, "none")

WriteStep(w) ==
  \/ WriteRunCatalog(w)
  \/ ClearRunOutcomes(w)
  \/ WriteScoreSummaries(w)
  \/ WriteControlResults(w)
  \/ WriteGapRows(w)
  \/ ClearEvidenceLinks(w)
  \/ WriteEvidenceRow(w)
  \/ Commit(w)

Next ==
  \E w \in Connection :
    \/ Refuse(w)
    \/ Begin(w)
    \/ WriteStep(w)
    \/ BusyTimeout(w)
    \/ StatementFails(w)
    \/ Crash(w)

Spec == Init /\ [][Next]_vars

\* A call that has begun keeps executing, or times out while it waits.
FairSpec == Spec /\ \A w \in Connection : WF_vars(WriteStep(w) \/ BusyTimeout(w))

-----------------------------------------------------------------------------
(***************************************************************************)
(* Properties.                                                             *)
(***************************************************************************)

\* Every variable has its type.
TypeOK ==
  /\ db \in Database
  /\ draft \in Database
  /\ lock \in Connection \cup {Nobody}
  /\ pc \in [Connection -> Steps]
  /\ corpus \in [Connection -> Corpora \cup {EmptyCorpus}]
  /\ row \in Nat \ {0}
  /\ outcome \in [Connection -> Outcomes]
  /\ latest \subseteq Corpora

\* The tables of a run hold the rows of corpus c.
IsStored(d, c) ==
  /\ ForRun(d.run_framework_links, c.run_id) = FrameworkLinks(c)
  /\ ForRun(d.run_control_links, c.run_id) = ControlLinks(c)
  /\ ForRun(d.control_results, c.run_id) = ResultRows(c)
  /\ ForRun(d.compliance_gaps, c.run_id) = GapRows(c)
  /\ ForRun(d.score_summaries, c.run_id) = ScoreRows(c)

\* After any sequence of writes, rewrites, failures and crashes the tables of
\* a run hold the rows of the last corpus committed for it and no other row:
\* nothing of an earlier corpus survives a rewrite, nothing of a rolled-back
\* one is left behind (the DELETEs and upserts of write_run_catalog,
\* clear_run_outcomes, write_score_summaries, write_gap_rows).
LatestCorpusIsStored == \A c \in latest : IsStored(db, c)

\* The evidence snapshot of a run names exactly the evidence of its last
\* corpus, and carries the digest, the classification and the locator that
\* corpus gave, whatever other runs recorded for the same evidence id since
\* (write_evidence_rows; the historical digest is what reconstruction checks).
SnapshotKeepsCorpusEvidence ==
  \A c \in latest :
    LET links == ForRun(db.run_evidence_links, c.run_id)
    IN  /\ {x.evidence_id : x \in links} = {e.id : e \in Elements(c.evidence)}
        /\ \A e \in LastOfEachKey(c.evidence, IdKey) :
             \E x \in links :
               /\ x.evidence_id = e.id
               /\ x.locator = e.locator
               /\ e.digest # Blank => /\ x.digest = e.digest
                                      /\ x.classification = e.classification

\* A persisted gap is a persisted scoped result that failed or warned, with
\* the same status, and every such result has its gap, in every run.  The two
\* tables are filled by different loops with different conflict clauses; they
\* agree as long as no corpus gives one rule of a control two results.
GapsAgreeWithResults ==
  {g \in db.compliance_gaps : g.run_id # Blank} =
    {[run_id |-> r.run_id, framework_id |-> r.framework_id, control_id |-> r.control_id,
      rule_id |-> r.rule_id, status |-> r.status]
       : r \in {r \in db.control_results : IsGap(r)}}

\* The counts of a score summary are the numbers of persisted results of that
\* run and framework with that status, and every framework with a persisted
\* scoped result has a summary.
ScoresAgreeWithResults ==
  /\ {FrameworkLinkKey(s) : s \in db.score_summaries} =
       {FrameworkLinkKey(r) : r \in {r \in db.control_results : r.framework_id # Blank}}
  /\ \A s \in db.score_summaries :
       LET Counted(status) ==
             Cardinality({r \in db.control_results : /\ FrameworkLinkKey(r) = FrameworkLinkKey(s)
                                                     /\ r.status = status})
       IN  /\ s.pass = Counted("PASS")
           /\ s.fail = Counted("FAIL")
           /\ s.warning = Counted("WARNING")

\* One record of one corpus gave both values.
SuppliedTogether(id, digest, classification) ==
  \E c \in Corpora : \E e \in Elements(c.evidence) :
    e.id = id /\ e.digest = digest /\ e.classification = classification

\* A digest and a classification stored side by side, in the shared metadata
\* or in a run's snapshot, were given together by one corpus record for that
\* evidence: a rewrite without a digest keeps both, a rewrite with one replaces
\* both, so a secret's digest never carries another record's classification.
ClassificationFollowsDigest ==
  /\ \A x \in db.evidence_metadata : SuppliedTogether(x.id, x.digest, x.classification)
  /\ \A x \in db.run_evidence_links :
       SuppliedTogether(x.evidence_id, x.digest, x.classification)

\* The step in which a call commits.
Committing(w) == pc[w] = "evidence" /\ pc'[w] = "idle" /\ outcome'[w] = "ok"

SameRows(table, other, run) == ForRun(table, run) = ForRun(other, run)

OwnWritesOnly ==
  \A x \in db.scan_runs \cup db'.scan_runs :
    \/ \E w \in Connection : Committing(w) /\ corpus[w].run_id = x.id
    \/ /\ {y \in db.scan_runs : y.id = x.id} = {y \in db'.scan_runs : y.id = x.id}
       /\ SameRows(db.run_framework_links, db'.run_framework_links, x.id)
       /\ SameRows(db.run_control_links, db'.run_control_links, x.id)
       /\ SameRows(db.control_results, db'.control_results, x.id)
       /\ SameRows(db.compliance_gaps, db'.compliance_gaps, x.id)
       /\ SameRows(db.score_summaries, db'.score_summaries, x.id)
       /\ SameRows(db.run_evidence_links, db'.run_evidence_links, x.id)

\* A committed row of a run changes only in the step in which a writer of that
\* same run commits: writes of other runs, failures and crashes leave it alone.
OnlyItsOwnWriteChangesARun == [][OwnWritesOnly]_vars

\* What is known is not forgotten: a run once stored stays and its time stamp
\* is never blanked by a rewrite that carries none; the framework catalogue
\* keeps the version it saw first; a digest recorded for an evidence id is
\* replaced only by another digest; a legacy gap disappears only when a run
\* records that gap.
FactsAreKept ==
  /\ \A x \in db.scan_runs :
       \E y \in db'.scan_runs : y.id = x.id /\ (x.executed_at # Blank => y.executed_at # Blank)
  /\ db.frameworks \subseteq db'.frameworks
  /\ \A f, g \in db'.frameworks : f.id = g.id => f = g
  /\ \A x \in db.evidence_metadata :
       \E y \in db'.evidence_metadata : /\ y.id = x.id
                                       /\ (x.digest # Blank => y.digest # Blank)
                                       /\ (x.locator # Blank => y.locator = x.locator)
  /\ \A g \in db.compliance_gaps \ db'.compliance_gaps :
       g.run_id = Blank => \E h \in db'.compliance_gaps :
                              h.run_id # Blank /\ ResultKey(h) = ResultKey(g)

\* No step forgets a fact: runs, time stamps, catalogue versions, digests,
\* locators and legacy gaps, as above.
KnownFactsAreKept == [][FactsAreKept]_vars

\* A call that has begun returns, in success or in error: waiting for the write
\* lock cannot last longer than the busy timeout.
CallsReturn == \A w \in Connection : pc[w] # "idle" ~> pc[w] = "idle"

-----------------------------------------------------------------------------
(***************************************************************************)
(* The refinement: the committed content is a store that changes in one    *)
(* step per committed call.                                                *)
(***************************************************************************)
RunRecord(x) ==
  [run_id      |-> x.id,
   executed_at |-> x.executed_at,
   frameworks  |-> ForRun(db.run_framework_links, x.id),
   controls    |-> ForRun(db.run_control_links, x.id),
   results     |-> ForRun(db.control_results, x.id),
   gaps        |-> ForRun(db.compliance_gaps, x.id),
   scores      |-> ForRun(db.score_summaries, x.id),
   evidence    |-> ForRun(db.run_evidence_links, x.id)]

Store == INSTANCE CorpusStore WITH
  saved     <- {RunRecord(x) : x \in db.scan_runs},
  catalogue <- [frameworks |-> db.frameworks, controls |-> db.controls],
  evidence  <- db.evidence_metadata,
  legacy    <- ForRun(db.compliance_gaps, Blank)

\* Whatever the interleaving, the busy timeouts, the failed statements and the
\* crashes, readers see a store in which every call either saved its whole
\* corpus at once or did nothing.
ImplementsCorpusStore == Store!Spec

=============================================================================
