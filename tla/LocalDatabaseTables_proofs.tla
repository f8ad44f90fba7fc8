--------------------- MODULE LocalDatabaseTables_proofs ---------------------
(***************************************************************************)
(* Theorems about the tables of LocalDatabase and about those who read     *)
(* them.                                                                   *)
(*                                                                         *)
(* Evidence: a digest and a classification stored side by side were given  *)
(* together, and the snapshot of a run describes the evidence of its last  *)
(* corpus.                                                                 *)
(*                                                                         *)
(* Outcomes, for corpora that report a rule of a framework's control once: *)
(* the stored gaps are the stored results that failed or warned, the       *)
(* counts of the score summaries are the numbers of stored results.  Both  *)
(* rest on the fact that every row belongs to a run with a committed       *)
(* corpus.                                                                 *)
(*                                                                         *)
(* Read queries, for corpora that report a rule of a control once: what    *)
(* they tell of a run through different tables, joins and filters agrees.  *)
(*                                                                         *)
(* Exports, for any exporters and evidence stores: beside writers they     *)
(* change nothing for the writers; every part of an export is what some    *)
(* corpus of its run was stored as; an export its run's writers leave      *)
(* alone is the last committed corpus, and agrees with the validation made *)
(* before it.                                                              *)
(***************************************************************************)
EXTENDS LocalDatabase_proofs, Queries, ExportRun

\* Only the two evidence statements touch the evidence tables.
LEMMA EvidenceTablesUntouched ==
  ASSUME NEW d \in Database, NEW c,
         NEW n \in {RunCatalogWritten(d, c), RunOutcomesCleared(d, c),
                    ScoreSummariesWritten(d, c), ControlResultsWritten(d, c),
                    GapRowsWritten(d, c)}
  PROVE  /\ n.evidence_metadata = d.evidence_metadata
         /\ n.run_evidence_links = d.run_evidence_links
BY DEF Database, RunCatalogWritten, RunOutcomesCleared, ScoreSummariesWritten,
       ControlResultsWritten, GapRowsWritten

(***************************************************************************)
(* The pairs of digest and classification.                                 *)
(***************************************************************************)
Paired(d) ==
  /\ \A x \in d.evidence_metadata : SuppliedTogether(x.id, x.digest, x.classification)
  /\ \A x \in d.run_evidence_links :
       SuppliedTogether(x.evidence_id, x.digest, x.classification)

\* The upsert of one record either keeps both values of the row it meets or
\* takes both from the record, and the snapshot copies both from one of them.
LEMMA EvidenceRowKeepsPairs ==
  ASSUME NEW d \in Database, Paired(d), NEW c \in Corpora, NEW i \in DOMAIN c.evidence
  PROVE  Paired(EvidenceRowWritten(d, c, c.evidence[i]))
<1>. DEFINE e == c.evidence[i]
            metadata == WrittenEvidence(d.evidence_metadata, e)
            links == Upsert(d.run_evidence_links, SnapshotRows(metadata, c.run_id, e),
                            EvidenceLinkKey)
<1>1. SuppliedTogether(e.id, e.digest, e.classification)
  BY DEF SuppliedTogether, Elements
<1>. HIDE DEF e
<1>2. \A x \in metadata : SuppliedTogether(x.id, x.digest, x.classification)
  BY <1>1 DEF WrittenEvidence, MergedEvidence, Paired
<1>3. \A x \in SnapshotRows(metadata, c.run_id, e) :
        SuppliedTogether(x.evidence_id, x.digest, x.classification)
  BY <1>1, <1>2 DEF SnapshotRows
<1>4. \A x \in links : SuppliedTogether(x.evidence_id, x.digest, x.classification)
  BY <1>3 DEF Upsert, Paired
<1>5. /\ EvidenceRowWritten(d, c, e).evidence_metadata = metadata
      /\ EvidenceRowWritten(d, c, e).run_evidence_links = links
  BY DEF EvidenceRowWritten, Database
<1>. QED  BY <1>2, <1>4, <1>5 DEF Paired, e

\* The DELETE of a run's snapshot leaves only pairs that were there.
LEMMA ClearedLinksKeepPairs ==
  ASSUME NEW d \in Database, Paired(d), NEW c
  PROVE  Paired(EvidenceLinksCleared(d, c))
BY DEF Paired, EvidenceLinksCleared, NotForRun, Database

PairsInv == Paired(db) /\ Paired(draft)

\* A statement of a transaction keeps the pairs of its draft.
LEMMA StatementKeepsPairs ==
  ASSUME TypeOK, CallsCarryCorpora, PairsInv, NEW w \in Connection,
         WriteRunCatalog(w) \/ Statement(w)
  PROVE  PairsInv'
<1>. USE DEF PairsInv, TypeOK
<1>1. CASE WriteRunCatalog(w)
  BY <1>1, EvidenceTablesUntouched DEF WriteRunCatalog, Paired
<1>2. CASE ClearRunOutcomes(w) \/ WriteScoreSummaries(w) \/ WriteControlResults(w) \/ WriteGapRows(w)
  <2>1. db' = db /\ draft' \in {RunOutcomesCleared(draft, corpus[w]),
                                ScoreSummariesWritten(draft, corpus[w]),
                                ControlResultsWritten(draft, corpus[w]),
                                GapRowsWritten(draft, corpus[w])}
    BY <1>2 DEF ClearRunOutcomes, WriteScoreSummaries, WriteControlResults, WriteGapRows, Advance
  <2>2. /\ draft'.evidence_metadata = draft.evidence_metadata
        /\ draft'.run_evidence_links = draft.run_evidence_links
    BY <2>1, EvidenceTablesUntouched
  <2>. QED  BY <2>1, <2>2 DEF Paired
<1>3. CASE ClearEvidenceLinks(w)
  BY <1>3, ClearedLinksKeepPairs DEF ClearEvidenceLinks, Advance
<1>4. CASE WriteEvidenceRow(w)
  <2>1. corpus[w] \in Corpora
    BY <1>4 DEF CallsCarryCorpora, WriteEvidenceRow, Advance
  <2>. QED  BY <1>4, <2>1, EvidenceRowKeepsPairs DEF WriteEvidenceRow, Advance
<1>. QED  BY <1>1, <1>2, <1>3, <1>4 DEF Statement

\* A digest and a classification stored side by side were given together by one
\* record of one corpus (ClassificationFollowsDigest).
THEOREM PairsGivenTogether == Spec => []ClassificationFollowsDigest
<1>1. Init => PairsInv
  BY DEF Init, EmptyDatabase, PairsInv, Paired
<1>2. TypeOK /\ CallsCarryCorpora /\ PairsInv /\ [Next]_vars => PairsInv'
  <2>. SUFFICES ASSUME TypeOK, CallsCarryCorpora, PairsInv, [Next]_vars PROVE PairsInv'
    OBVIOUS
  <2>1. ASSUME NEW w \in Connection, WriteRunCatalog(w) \/ Statement(w) PROVE PairsInv'
    BY <2>1, StatementKeepsPairs
  <2>2. CASE db' \in {db, draft} /\ draft' \in {db, draft}
    BY <2>2 DEF PairsInv
  <2>3. ASSUME NEW w \in Connection,
               Refuse(w) \/ Begin(w) \/ Commit(w) \/ BusyTimeout(w) \/ StatementFails(w) \/ Crash(w)
        PROVE  PairsInv'
    BY <2>2, <2>3 DEF Refuse, Begin, Commit, BusyTimeout, StatementFails, Crash, GiveUp
  <2>4. CASE UNCHANGED vars
    BY <2>2, <2>4 DEF vars
  <2>. QED  BY <2>1, <2>3, <2>4 DEF Next, WriteStep, Statement
<1>3. PairsInv => ClassificationFollowsDigest
  BY DEF PairsInv, Paired, ClassificationFollowsDigest
<1>. QED  BY <1>1, <1>2, <1>3, CallsTyped, PTL DEF Spec

(***************************************************************************)
(* The snapshot of a run, record by record.                                *)
(***************************************************************************)
Describes(x, e) ==
  /\ x.evidence_id = e.id
  /\ x.locator = e.locator
  /\ e.digest # Blank => x.digest = e.digest /\ x.classification = e.classification

\* The last record of its id among the first n.
IsLastAmong(c, n, i) == \A j \in 1..n : c.evidence[j].id = c.evidence[i].id => j <= i

\* The snapshot as the first n records of the corpus make it.
SnapshotUpTo(links, c, n) ==
  /\ {x.evidence_id : x \in links} = {c.evidence[i].id : i \in 1..n}
  /\ \A i \in 1..n : IsLastAmong(c, n, i) => \E x \in links : Describes(x, c.evidence[i])

Snapshot(d, run) == ForRun(d.run_evidence_links, run)

IsDescribed(d, c) == SnapshotUpTo(Snapshot(d, c.run_id), c, Len(c.evidence))

\* The whole snapshot is what the property asks for.
LEMMA DescribedIsKept ==
  ASSUME \A c \in latest : c \in Corpus /\ IsDescribed(db, c)
  PROVE  SnapshotKeepsCorpusEvidence
<1>. SUFFICES ASSUME NEW c \in latest
     PROVE  LET links == ForRun(db.run_evidence_links, c.run_id)
            IN  /\ {x.evidence_id : x \in links} = {e.id : e \in Elements(c.evidence)}
                /\ \A e \in LastOfEachKey(c.evidence, IdKey) : \E x \in links : Describes(x, e)
  BY DEF SnapshotKeepsCorpusEvidence, Describes
<1>1. DOMAIN c.evidence = 1 .. Len(c.evidence) /\ Len(c.evidence) \in Nat
  BY DEF Corpus
<1>2. IsDescribed(db, c)
  OBVIOUS
<1>3. {e.id : e \in Elements(c.evidence)} = {c.evidence[i].id : i \in DOMAIN c.evidence}
  BY DEF Elements
<1>4. ASSUME NEW e \in LastOfEachKey(c.evidence, IdKey)
      PROVE  \E i \in 1 .. Len(c.evidence) :
               e = c.evidence[i] /\ IsLastAmong(c, Len(c.evidence), i)
  BY <1>1 DEF LastOfEachKey, IdKey, IsLastAmong
<1>. QED  BY <1>1, <1>2, <1>3, <1>4 DEF IsDescribed, Snapshot, SnapshotUpTo

\* Once a record is written, its id has a metadata row.
LEMMA WrittenIdIsKnown ==
  ASSUME NEW table, NEW e
  PROVE  \E x \in WrittenEvidence(table, e) : x.id = e.id
<1>1. CASE \E x \in table : x.id = e.id
  <2>1. PICK x \in table : x.id = e.id
    BY <1>1
  <2>2. MergedEvidence(x, e) \in WrittenEvidence(table, e)
    BY <2>1 DEF WrittenEvidence
  <2>3. MergedEvidence(x, e).id = e.id
    BY DEF MergedEvidence
  <2>. QED  BY <2>2, <2>3
<1>2. CASE ~ \E x \in table : x.id = e.id
  BY <1>2 DEF WrittenEvidence
<1>. QED  BY <1>1, <1>2

\* Writing record n + 1 extends the snapshot by it: the metadata row it reads is
\* there, and the rows of other ids stay.
LEMMA SnapshotGrows ==
  ASSUME NEW d \in Database, NEW c, NEW n \in Nat,
         SnapshotUpTo(Snapshot(d, c.run_id), c, n)
  PROVE  SnapshotUpTo(Snapshot(EvidenceRowWritten(d, c, c.evidence[n + 1]), c.run_id), c, n + 1)
<1>. DEFINE e        == c.evidence[n + 1]
            metadata == WrittenEvidence(d.evidence_metadata, e)
            fresh    == SnapshotRows(metadata, c.run_id, e)
            old      == Snapshot(d, c.run_id)
            new      == Snapshot(EvidenceRowWritten(d, c, e), c.run_id)
<1>1. \E x \in metadata : x.id = e.id
  BY WrittenIdIsKnown
<1>2. \A x \in fresh : Describes(x, e) /\ x.run_id = c.run_id
  BY DEF SnapshotRows, Describes
<1>3. fresh # {}
  BY <1>1 DEF SnapshotRows
<1>4. new = {x \in old : x.evidence_id # e.id} \cup fresh
  <2>1. EvidenceRowWritten(d, c, e).run_evidence_links =
          Upsert(d.run_evidence_links, fresh, EvidenceLinkKey)
    BY DEF EvidenceRowWritten, Database
  <2>2. \A x : <<c.run_id, e.id>> = EvidenceLinkKey(x) <=> x.run_id = c.run_id /\ x.evidence_id = e.id
    BY DEF EvidenceLinkKey
  <2>3. \A x \in fresh : EvidenceLinkKey(x) = <<c.run_id, e.id>>
    BY <1>2 DEF EvidenceLinkKey, Describes
  <2>. HIDE DEF fresh, e
  <2>4. Upsert(d.run_evidence_links, fresh, EvidenceLinkKey) =
          {x \in d.run_evidence_links : ~(x.run_id = c.run_id /\ x.evidence_id = e.id)} \cup fresh
    BY <1>3, <2>2, <2>3 DEF Upsert
  <2>. QED  BY <1>2, <2>1, <2>4 DEF Snapshot, ForRun
<1>. HIDE DEF fresh, new, old, metadata
<1>5. 1 .. (n + 1) = (1 .. n) \cup {n + 1} /\ n + 1 \notin 1 .. n
  OBVIOUS
<1>6. {x.evidence_id : x \in new} = {c.evidence[i].id : i \in 1 .. (n + 1)}
  <2>1. {x.evidence_id : x \in new} = {x.evidence_id : x \in old} \cup {e.id}
    <3>. HIDE DEF e
    <3>. QED  BY <1>2, <1>3, <1>4 DEF Describes
  <2>2. {x.evidence_id : x \in old} = {c.evidence[i].id : i \in 1 .. n}
    BY DEF SnapshotUpTo, old
  <2>3. {c.evidence[i].id : i \in 1 .. (n + 1)} = {c.evidence[i].id : i \in 1 .. n} \cup {e.id}
    BY <1>5
  <2>. QED  BY <2>1, <2>2, <2>3
<1>7. ASSUME NEW i \in 1 .. (n + 1), IsLastAmong(c, n + 1, i)
      PROVE  \E x \in new : Describes(x, c.evidence[i])
  <2>1. CASE i = n + 1
    BY <1>2, <1>3, <1>4, <2>1
  <2>2. CASE i \in 1 .. n
    <3>1. IsLastAmong(c, n, i)
      BY <1>5, <1>7 DEF IsLastAmong
    <3>2. c.evidence[i].id # e.id
      BY <1>7, <2>2 DEF IsLastAmong
    <3>3. PICK x \in old : Describes(x, c.evidence[i])
      BY <2>2, <3>1 DEF SnapshotUpTo, old
    <3>. QED  BY <1>4, <3>2, <3>3 DEF Describes
  <2>. QED  BY <1>5, <2>1, <2>2
<1>. QED  BY <1>6, <1>7 DEF SnapshotUpTo, new

(***************************************************************************)
(* The inductive invariant: the committed snapshots are whole, and the     *)
(* draft has every other run's snapshot and its own up to `row`.           *)
(***************************************************************************)
SnapshotsCommitted == \A c \in latest : IsDescribed(db, c)

SnapshotUnderWay ==
  \A w \in Connection : pc[w] \in WritingSteps =>
    /\ \A c \in latest : c.run_id # corpus[w].run_id => IsDescribed(draft, c)
    /\ pc[w] = "evidence" =>
         /\ row - 1 <= Len(corpus[w].evidence)
         /\ SnapshotUpTo(Snapshot(draft, corpus[w].run_id), corpus[w], row - 1)

SnapshotInv == SnapshotsCommitted /\ SnapshotUnderWay

\* Leaving another run alone leaves its snapshot whole.
LEMMA OtherSnapshotsStay ==
  ASSUME NEW d, NEW n, NEW c, OtherRunsKept(d, n, c),
         NEW x, x.run_id # c.run_id, x.run_id # Blank, IsDescribed(d, x)
  PROVE  IsDescribed(n, x)
BY DEF OtherRunsKept, RunRowsKept, IsDescribed, Snapshot

\* The evidence loop of the statement's own run.
LEMMA StatementKeepsOwnSnapshot ==
  ASSUME TypeOK, CallsCarryCorpora, SnapshotInv, NEW w \in Connection, Statement(w),
         pc'[w] = "evidence"
  PROVE  /\ row' - 1 <= Len(corpus[w].evidence)
         /\ SnapshotUpTo(Snapshot(draft', corpus[w].run_id), corpus[w], row' - 1)
<1>. USE DEF TypeOK
<1>1. corpus[w] \in Corpus
  BY CorporaAssumption DEF CallsCarryCorpora, Statement, ClearRunOutcomes, WriteScoreSummaries,
     WriteControlResults, WriteGapRows, ClearEvidenceLinks, WriteEvidenceRow, Advance
<1>2. DOMAIN corpus[w].evidence = 1 .. Len(corpus[w].evidence) /\ Len(corpus[w].evidence) \in Nat
  BY <1>1 DEF Corpus
<1>3. CASE ClearEvidenceLinks(w)
  <2>1. row' = 1 /\ draft' = EvidenceLinksCleared(draft, corpus[w])
    BY <1>3 DEF ClearEvidenceLinks, Advance
  <2>2. Snapshot(draft', corpus[w].run_id) = {}
    <3>1. draft'.run_evidence_links = NotForRun(draft.run_evidence_links, corpus[w].run_id)
      BY <2>1 DEF EvidenceLinksCleared, Database
    <3>. QED  BY <3>1 DEF Snapshot, ForRun, NotForRun
  <2>3. 1 .. (row' - 1) = {}
    BY <2>1
  <2>. QED  BY <1>2, <2>1, <2>2, <2>3 DEF SnapshotUpTo
<1>4. CASE WriteEvidenceRow(w)
  <2>1. /\ pc[w] = "evidence" /\ row \in 1 .. Len(corpus[w].evidence) /\ row' = row + 1
        /\ draft' = EvidenceRowWritten(draft, corpus[w], corpus[w].evidence[row])
    BY <1>2, <1>4 DEF WriteEvidenceRow, Advance
  <2>2. SnapshotUpTo(Snapshot(draft, corpus[w].run_id), corpus[w], row - 1)
    BY <2>1 DEF SnapshotInv, SnapshotUnderWay, WritingSteps
  <2>3. row - 1 \in Nat /\ (row - 1) + 1 = row /\ row' - 1 = row
    BY <2>1
  <2>4. SnapshotUpTo(Snapshot(EvidenceRowWritten(draft, corpus[w], corpus[w].evidence[(row - 1) + 1]),
                              corpus[w].run_id), corpus[w], (row - 1) + 1)
    BY <2>2, <2>3, SnapshotGrows
  <2>5. SnapshotUpTo(Snapshot(draft', corpus[w].run_id), corpus[w], row)
    BY <2>1, <2>3, <2>4
  <2>. QED  BY <1>2, <2>1, <2>3, <2>5
<1>5. ~(ClearRunOutcomes(w) \/ WriteScoreSummaries(w) \/ WriteControlResults(w) \/ WriteGapRows(w))
  BY DEF ClearRunOutcomes, WriteScoreSummaries, WriteControlResults, WriteGapRows, Advance
<1>. QED  BY <1>3, <1>4, <1>5 DEF Statement

\* A statement inside the transaction.
LEMMA StatementKeepsSnapshots ==
  ASSUME TypeOK, CallsCarryCorpora, StoreInv, SnapshotInv, NEW w \in Connection, Statement(w)
  PROVE  SnapshotInv'
<1>1. PICK from \in WritingSteps, to \in WritingSteps, n \in {draft'} :
        Advance(w, from, n, to) /\ OtherRunsKept(draft, n, corpus[w])
  BY StatementAdvances DEF StoreInv
<1>2. \A v \in Connection : pc'[v] = IF v = w THEN to ELSE pc[v]
  BY <1>1 DEF TypeOK, Advance
<1>3. \A v \in Connection : v # w => pc[v] \notin WritingSteps
  BY <1>1 DEF StoreInv, WriterHoldsLock, Advance
<1>4. ASSUME NEW c \in latest, c.run_id # corpus[w].run_id
      PROVE  IsDescribed(draft', c)
  <2>1. IsDescribed(draft, c)
    BY <1>1, <1>4 DEF SnapshotInv, SnapshotUnderWay, Advance
  <2>2. c.run_id # Blank
    BY DEF StoreInv, OneLatestPerRun, IsAccepted
  <2>. QED  BY <1>1, <1>4, <2>1, <2>2, OtherSnapshotsStay
<1>5. pc'[w] = "evidence" =>
        /\ row' - 1 <= Len(corpus[w].evidence)
        /\ SnapshotUpTo(Snapshot(draft', corpus[w].run_id), corpus[w], row' - 1)
  BY StatementKeepsOwnSnapshot
<1>6. SnapshotUnderWay'
  BY <1>1, <1>2, <1>3, <1>4, <1>5 DEF SnapshotUnderWay, Advance
<1>7. SnapshotsCommitted'
  BY <1>1 DEF SnapshotInv, SnapshotsCommitted, Advance
<1>. QED  BY <1>6, <1>7 DEF SnapshotInv

\* The first statement starts from the committed snapshots.
LEMMA FirstInsertKeepsSnapshots ==
  ASSUME TypeOK, CallsCarryCorpora, StoreInv, SnapshotInv, NEW w \in Connection,
         WriteRunCatalog(w)
  PROVE  SnapshotInv'
<1>. USE DEF WriteRunCatalog
<1>1. \A v \in Connection : pc'[v] = IF v = w THEN "outcomes" ELSE pc[v]
  BY DEF TypeOK
<1>2. \A v \in Connection : pc[v] \notin WritingSteps
  BY NobodyAssumption DEF StoreInv, WriterHoldsLock
<1>3. OtherRunsKept(db, draft', corpus[w])
  BY CatalogEffect DEF TypeOK
<1>4. ASSUME NEW c \in latest, c.run_id # corpus[w].run_id
      PROVE  IsDescribed(draft', c)
  BY <1>3, <1>4, OtherSnapshotsStay
     DEF StoreInv, OneLatestPerRun, IsAccepted, SnapshotInv, SnapshotsCommitted
<1>. QED  BY <1>1, <1>2, <1>4 DEF SnapshotInv, SnapshotsCommitted, SnapshotUnderWay

\* The commit publishes a snapshot of every record.
LEMMA CommitKeepsSnapshots ==
  ASSUME TypeOK, CallsCarryCorpora, StoreInv, SnapshotInv, NEW w \in Connection, Commit(w)
  PROVE  SnapshotInv'
<1>. USE DEF Commit
<1>1. \A v \in Connection : pc'[v] \notin WritingSteps
  BY DEF TypeOK, StoreInv, WriterHoldsLock, WritingSteps
<1>2. corpus[w] \in Corpus
  BY CorporaAssumption DEF CallsCarryCorpora
<1>3. DOMAIN corpus[w].evidence = 1 .. Len(corpus[w].evidence) /\ Len(corpus[w].evidence) \in Nat
  BY <1>2 DEF Corpus
<1>4. row - 1 = Len(corpus[w].evidence)
  BY <1>3 DEF TypeOK, SnapshotInv, SnapshotUnderWay, WritingSteps
<1>5. IsDescribed(draft, corpus[w])
  BY <1>4 DEF IsDescribed, SnapshotInv, SnapshotUnderWay, WritingSteps
<1>6. \A c \in latest : c.run_id # corpus[w].run_id => IsDescribed(draft, c)
  BY DEF SnapshotInv, SnapshotUnderWay, WritingSteps
<1>. QED  BY <1>1, <1>5, <1>6 DEF SnapshotInv, SnapshotsCommitted, SnapshotUnderWay

\* A call that ends without a commit.
LEMMA GiveUpKeepsSnapshots ==
  ASSUME TypeOK, StoreInv, SnapshotInv, NEW w \in Connection, NEW result, GiveUp(w, result)
  PROVE  SnapshotInv'
<1>. USE DEF GiveUp
<1>1. \A v \in Connection : /\ pc'[v] = IF v = w THEN "idle" ELSE pc[v]
                            /\ v # w => corpus'[v] = corpus[v]
  BY DEF TypeOK
<1>2. ASSUME NEW v \in Connection, pc'[v] \in WritingSteps
      PROVE  v # w /\ pc[v] \in WritingSteps /\ UNCHANGED <<draft, row>>
  BY <1>1, <1>2 DEF StoreInv, WriterHoldsLock, WritingSteps
<1>. QED  BY <1>1, <1>2 DEF SnapshotInv, SnapshotsCommitted, SnapshotUnderWay

\* The snapshots of the committed runs are whole, and the one under way is as far
\* as the evidence loop has got.
THEOREM SnapshotInvariant == Spec => []SnapshotInv
<1>1. Init => SnapshotInv
  BY DEF Init, SnapshotInv, SnapshotsCommitted, SnapshotUnderWay, WritingSteps
<1>2. TypeOK /\ CallsCarryCorpora /\ StoreInv /\ SnapshotInv /\ [Next]_vars => SnapshotInv'
  <2>. SUFFICES ASSUME TypeOK, CallsCarryCorpora, StoreInv, SnapshotInv, [Next]_vars
                PROVE  SnapshotInv'
    OBVIOUS
  <2>1. CASE UNCHANGED vars
    BY <2>1 DEF vars, SnapshotInv, SnapshotsCommitted, SnapshotUnderWay
  <2>2. ASSUME NEW w \in Connection, Refuse(w) PROVE SnapshotInv'
    BY <2>2 DEF Refuse, SnapshotInv, SnapshotsCommitted, SnapshotUnderWay
  <2>3. ASSUME NEW w \in Connection, Begin(w) PROVE SnapshotInv'
    <3>1. \A v \in Connection : /\ pc'[v] = IF v = w THEN "catalog" ELSE pc[v]
                                /\ v # w => corpus'[v] = corpus[v]
      BY <2>3 DEF Begin, TypeOK
    <3>. QED
      BY <2>3, <3>1 DEF Begin, SnapshotInv, SnapshotsCommitted, SnapshotUnderWay, WritingSteps
  <2>4. ASSUME NEW w \in Connection, WriteRunCatalog(w) PROVE SnapshotInv'
    BY <2>4, FirstInsertKeepsSnapshots
  <2>5. ASSUME NEW w \in Connection, Statement(w) PROVE SnapshotInv'
    BY <2>5, StatementKeepsSnapshots
  <2>6. ASSUME NEW w \in Connection, Commit(w) PROVE SnapshotInv'
    BY <2>6, CommitKeepsSnapshots
  <2>7. ASSUME NEW w \in Connection, BusyTimeout(w) \/ StatementFails(w) \/ Crash(w)
        PROVE  SnapshotInv'
    BY <2>7, GiveUpKeepsSnapshots DEF BusyTimeout, StatementFails, Crash
  <2>. QED
    BY <2>1, <2>2, <2>3, <2>4, <2>5, <2>6, <2>7 DEF Next, WriteStep, Statement
<1>. QED  BY <1>1, <1>2, CallsTyped, StoreInvariant, PTL DEF Spec

\* The snapshot of a run names exactly the evidence of its last corpus and
\* carries what that corpus said of it (SnapshotKeepsCorpusEvidence).
THEOREM SnapshotKept == Spec => []SnapshotKeepsCorpusEvidence
<1>1. TypeOK /\ SnapshotInv => SnapshotKeepsCorpusEvidence
  BY CorporaAssumption, DescribedIsKept DEF TypeOK, SnapshotInv, SnapshotsCommitted
<1>. QED  BY <1>1, TypeCorrect, SnapshotInvariant, PTL

-----------------------------------------------------------------------------
(***************************************************************************)
(* Runs and their outcome rows name one of the given runs.                 *)
(***************************************************************************)
Covered(d, runs) ==
  /\ \A x \in d.scan_runs : x.id \in runs
  /\ \A x \in d.control_results \cup d.score_summaries : x.run_id \in runs
  /\ \A x \in d.compliance_gaps : x.run_id \in runs \cup {Blank}

\* No statement writes a row of a run other than that of its corpus.
LEMMA WritesKeepCover ==
  ASSUME NEW d \in Database, NEW c, NEW runs, Covered(d, runs), c.run_id \in runs
  PROVE  /\ Covered(RunCatalogWritten(d, c), runs)
         /\ Covered(RunOutcomesCleared(d, c), runs)
         /\ Covered(ScoreSummariesWritten(d, c), runs)
         /\ Covered(ControlResultsWritten(d, c), runs)
         /\ Covered(GapRowsWritten(d, c), runs)
         /\ Covered(EvidenceLinksCleared(d, c), runs)
<1>1. Covered(RunCatalogWritten(d, c), runs)
  <2>1. \A x \in StampedRun(d.scan_runs, c) : x.id \in runs
    BY DEF StampedRun
  <2>. QED  BY <2>1 DEF RunCatalogWritten, Covered, Upsert, Database
<1>2. Covered(RunOutcomesCleared(d, c), runs)
  BY DEF RunOutcomesCleared, Covered, NotForRun, Database
<1>3. Covered(ScoreSummariesWritten(d, c), runs)
  BY RowsNameTheirRun DEF ScoreSummariesWritten, Covered, Upsert, NotForRun, Database
<1>4. Covered(ControlResultsWritten(d, c), runs)
  BY RowsNameTheirRun DEF ControlResultsWritten, Covered, Upsert, Database
<1>5. Covered(GapRowsWritten(d, c), runs)
  BY RowsNameTheirRun DEF GapRowsWritten, Covered, InsertNew, Database
<1>6. Covered(EvidenceLinksCleared(d, c), runs)
  BY DEF EvidenceLinksCleared, Covered, Database
<1>. QED  BY <1>1, <1>2, <1>3, <1>4, <1>5, <1>6

\* Nor does the evidence loop.
LEMMA EvidenceKeepsCover ==
  ASSUME NEW d \in Database, NEW c, NEW e, NEW runs, Covered(d, runs)
  PROVE  Covered(EvidenceRowWritten(d, c, e), runs)
BY DEF EvidenceRowWritten, Covered, Database

(***************************************************************************)
(* What the joins of the read queries meet: a row for every run, links     *)
(* that belong to these runs, and one row for every evidence id that a     *)
(* link names.                                                             *)
(***************************************************************************)
Joined(d, runs) ==
  /\ \A run \in runs : \E x \in d.scan_runs : x.id = run
  /\ \A x \in d.run_framework_links \cup d.run_control_links \cup d.run_evidence_links :
       x.run_id \in runs
  /\ \A x, y \in d.evidence_metadata : x.id = y.id => x = y
  /\ \A l \in d.run_evidence_links : \E x \in d.evidence_metadata : x.id = l.evidence_id

\* write_run_catalog adds its run, and links of no other.
LEMMA CatalogJoins ==
  ASSUME NEW d \in Database, NEW c, NEW runs, Joined(d, runs)
  PROVE  Joined(RunCatalogWritten(d, c), runs \cup {c.run_id})
<1>. DEFINE n == RunCatalogWritten(d, c)
<1>1. /\ n.scan_runs = Upsert(d.scan_runs, StampedRun(d.scan_runs, c), IdKey)
      /\ n.run_framework_links =
           Upsert(NotForRun(d.run_framework_links, c.run_id), FrameworkLinks(c), FrameworkLinkKey)
      /\ n.run_control_links =
           Upsert(NotForRun(d.run_control_links, c.run_id), ControlLinks(c), ControlLinkKey)
      /\ n.evidence_metadata = d.evidence_metadata
      /\ n.run_evidence_links = d.run_evidence_links
  BY DEF RunCatalogWritten, Database
<1>. HIDE DEF n
<1>2. /\ \A x \in StampedRun(d.scan_runs, c) : x.id = c.run_id
      /\ \E x \in StampedRun(d.scan_runs, c) : TRUE
  <2>. DEFINE old == {x \in d.scan_runs : x.id = c.run_id}
  <2>1. CASE c.executed_at = Blank /\ old # {}
    BY <2>1 DEF StampedRun
  <2>2. CASE ~(c.executed_at = Blank /\ old # {})
    <3>1. StampedRun(d.scan_runs, c) = {[id |-> c.run_id, executed_at |-> c.executed_at]}
      BY <2>2 DEF StampedRun
    <3>. QED  BY <3>1
  <2>. QED  BY <2>1, <2>2
<1>3. \A run \in runs \cup {c.run_id} : \E x \in n.scan_runs : x.id = run
  BY <1>1, <1>2 DEF Joined, Upsert, IdKey
<1>4. \A x \in n.run_framework_links \cup n.run_control_links \cup n.run_evidence_links :
        x.run_id \in runs \cup {c.run_id}
  BY <1>1, RowsNameTheirRun DEF Joined, Upsert, NotForRun
<1>. QED  BY <1>1, <1>3, <1>4 DEF Joined, n

\* The statements on results, gaps and summaries touch none of these tables, and
\* the DELETE of a snapshot only takes links away.
LEMMA WritesKeepJoins ==
  ASSUME NEW d \in Database, NEW c, NEW runs, Joined(d, runs)
  PROVE  /\ Joined(RunOutcomesCleared(d, c), runs)
         /\ Joined(ScoreSummariesWritten(d, c), runs)
         /\ Joined(ControlResultsWritten(d, c), runs)
         /\ Joined(GapRowsWritten(d, c), runs)
         /\ Joined(EvidenceLinksCleared(d, c), runs)
<1>1. Joined(RunOutcomesCleared(d, c), runs)
  BY DEF RunOutcomesCleared, Joined, Database
<1>2. Joined(ScoreSummariesWritten(d, c), runs)
  BY DEF ScoreSummariesWritten, Joined, Database
<1>3. Joined(ControlResultsWritten(d, c), runs)
  BY DEF ControlResultsWritten, Joined, Database
<1>4. Joined(GapRowsWritten(d, c), runs)
  BY DEF GapRowsWritten, Joined, Database
<1>5. Joined(EvidenceLinksCleared(d, c), runs)
  <2>1. /\ EvidenceLinksCleared(d, c).run_evidence_links \subseteq d.run_evidence_links
        /\ EvidenceLinksCleared(d, c).scan_runs = d.scan_runs
        /\ EvidenceLinksCleared(d, c).run_framework_links = d.run_framework_links
        /\ EvidenceLinksCleared(d, c).run_control_links = d.run_control_links
        /\ EvidenceLinksCleared(d, c).evidence_metadata = d.evidence_metadata
    BY DEF EvidenceLinksCleared, NotForRun, Database
  <2>. QED  BY <2>1 DEF Joined
<1>. QED  BY <1>1, <1>2, <1>3, <1>4, <1>5

\* The evidence loop merges into the one row of an id before it links it.
LEMMA EvidenceKeepsJoins ==
  ASSUME NEW d \in Database, NEW c, NEW e, NEW runs, Joined(d, runs), c.run_id \in runs
  PROVE  Joined(EvidenceRowWritten(d, c, e), runs)
<1>. DEFINE n        == EvidenceRowWritten(d, c, e)
            metadata == WrittenEvidence(d.evidence_metadata, e)
<1>1. /\ n.scan_runs = d.scan_runs
      /\ n.run_framework_links = d.run_framework_links
      /\ n.run_control_links = d.run_control_links
      /\ n.evidence_metadata = metadata
      /\ n.run_evidence_links =
           Upsert(d.run_evidence_links, SnapshotRows(metadata, c.run_id, e), EvidenceLinkKey)
  BY DEF EvidenceRowWritten, Database
<1>2. \A x, y \in metadata : x.id = y.id => x = y
  BY DEF WrittenEvidence, MergedEvidence, Joined
<1>3. /\ \E x \in metadata : x.id = e.id
      /\ \A x \in d.evidence_metadata : x.id # e.id => x \in metadata
  BY WrittenIdIsKnown DEF WrittenEvidence
<1>4. \A l \in SnapshotRows(metadata, c.run_id, e) : l.evidence_id = e.id /\ l.run_id = c.run_id
  BY DEF SnapshotRows
<1>. HIDE DEF n, metadata
<1>5. \A l \in n.run_evidence_links : \E x \in metadata : x.id = l.evidence_id
  BY <1>1, <1>3, <1>4 DEF Joined, Upsert
<1>6. \A l \in n.run_evidence_links : l.run_id \in runs
  BY <1>1, <1>4 DEF Joined, Upsert
<1>. QED  BY <1>1, <1>2, <1>5, <1>6 DEF Joined, n

LatestRuns == {c.run_id : c \in latest}

\* The committed rows belong to runs with a committed corpus; those of a draft
\* may also belong to the run it writes.
IsCovered(d, runs) == Covered(d, runs) /\ Joined(d, runs)

CoverInv ==
  /\ IsCovered(db, LatestRuns)
  /\ \A w \in Connection : pc[w] \in WritingSteps =>
       IsCovered(draft, LatestRuns \cup {corpus[w].run_id})

\* A statement of a transaction.
LEMMA StatementKeepsCover ==
  ASSUME TypeOK, StoreInv, CoverInv, NEW w \in Connection, Statement(w)
  PROVE  CoverInv'
<1>. DEFINE runs == LatestRuns \cup {corpus[w].run_id}
<1>1. /\ pc[w] \in WritingSteps /\ lock = w
      /\ UNCHANGED <<db, corpus, latest>>
      /\ \A v \in Connection : v # w => pc[v] \notin WritingSteps /\ pc'[v] = pc[v]
  BY DEF TypeOK, StoreInv, WriterHoldsLock, Statement, WritingSteps, ClearRunOutcomes,
         WriteScoreSummaries, WriteControlResults, WriteGapRows, ClearEvidenceLinks,
         WriteEvidenceRow, Advance
<1>2. /\ draft \in Database /\ corpus[w].run_id \in runs
      /\ Covered(draft, runs) /\ Joined(draft, runs)
  BY <1>1 DEF TypeOK, CoverInv, IsCovered
<1>3. draft' \in {RunOutcomesCleared(draft, corpus[w]), ScoreSummariesWritten(draft, corpus[w]),
                  ControlResultsWritten(draft, corpus[w]), GapRowsWritten(draft, corpus[w]),
                  EvidenceLinksCleared(draft, corpus[w]),
                  EvidenceRowWritten(draft, corpus[w], corpus[w].evidence[row])}
  BY DEF Statement, ClearRunOutcomes, WriteScoreSummaries, WriteControlResults, WriteGapRows,
         ClearEvidenceLinks, WriteEvidenceRow, Advance
<1>. HIDE DEF runs
<1>4. IsCovered(draft', runs)
  <2>1. Covered(draft', runs)
    BY <1>2, <1>3, WritesKeepCover, EvidenceKeepsCover
  <2>2. Joined(draft', runs)
    BY <1>2, <1>3, WritesKeepJoins, EvidenceKeepsJoins
  <2>. QED  BY <2>1, <2>2 DEF IsCovered
<1>. QED  BY <1>1, <1>4 DEF CoverInv, LatestRuns, runs

\* Every committed row that belongs to a run, and every row of scan_runs, names a
\* run that a corpus was committed for (legacy gaps name none), every such run has
\* its row, and every linked evidence id has exactly one.
THEOREM RowsBelongToLatest == Spec => []CoverInv
<1>1. Init => CoverInv
  BY LegacyAssumption
     DEF Init, EmptyDatabase, CoverInv, LatestRuns, IsCovered, Covered, Joined, WritingSteps
<1>2. TypeOK /\ CallsCarryCorpora /\ StoreInv /\ CoverInv /\ [Next]_vars => CoverInv'
  <2>. SUFFICES ASSUME TypeOK, CallsCarryCorpora, StoreInv, CoverInv, [Next]_vars
                PROVE  CoverInv'
    OBVIOUS
  <2>1. CASE UNCHANGED vars
    BY <2>1 DEF vars, CoverInv, LatestRuns
  <2>2. ASSUME NEW w \in Connection, Refuse(w) PROVE CoverInv'
    BY <2>2 DEF Refuse, CoverInv, LatestRuns
  <2>3. ASSUME NEW w \in Connection, Begin(w) PROVE CoverInv'
    <3>1. \A v \in Connection : /\ pc'[v] = IF v = w THEN "catalog" ELSE pc[v]
                                /\ v # w => corpus'[v] = corpus[v]
      BY <2>3 DEF Begin, TypeOK
    <3>. QED  BY <2>3, <3>1 DEF Begin, CoverInv, LatestRuns, WritingSteps
  <2>4. ASSUME NEW w \in Connection, WriteRunCatalog(w) PROVE CoverInv'
    <3>1. \A v \in Connection : /\ pc[v] \notin WritingSteps
                                /\ pc'[v] = IF v = w THEN "outcomes" ELSE pc[v]
      BY <2>4, NobodyAssumption DEF WriteRunCatalog, TypeOK, StoreInv, WriterHoldsLock
    <3>2. Covered(db, LatestRuns \cup {corpus[w].run_id}) /\ Joined(db, LatestRuns)
      BY DEF CoverInv, IsCovered, Covered
    <3>3. IsCovered(draft', LatestRuns \cup {corpus[w].run_id})
      <4>1. draft' = RunCatalogWritten(db, corpus[w]) /\ db \in Database
        BY <2>4 DEF WriteRunCatalog, TypeOK
      <4>2. Covered(draft', LatestRuns \cup {corpus[w].run_id})
        BY <3>2, <4>1, WritesKeepCover
      <4>3. Joined(draft', LatestRuns \cup {corpus[w].run_id})
        BY <3>2, <4>1, CatalogJoins
      <4>. QED  BY <4>2, <4>3 DEF IsCovered
    <3>. QED  BY <2>4, <3>1, <3>3 DEF WriteRunCatalog, CoverInv, LatestRuns
  <2>5. ASSUME NEW w \in Connection, Statement(w) PROVE CoverInv'
    BY <2>5, StatementKeepsCover
  <2>6. ASSUME NEW w \in Connection, Commit(w) PROVE CoverInv'
    <3>1. \A v \in Connection : pc'[v] \notin WritingSteps
      BY <2>6 DEF Commit, TypeOK, StoreInv, WriterHoldsLock, WritingSteps
    <3>2. IsCovered(draft, LatestRuns \cup {corpus[w].run_id})
      BY <2>6 DEF Commit, CoverInv, WritingSteps
    <3>3. LatestRuns' = LatestRuns \cup {corpus[w].run_id}
      BY <2>6 DEF Commit, LatestRuns
    <3>. QED  BY <2>6, <3>1, <3>2, <3>3 DEF Commit, CoverInv
  <2>7. ASSUME NEW w \in Connection, NEW result, GiveUp(w, result) PROVE CoverInv'
    <3>1. \A v \in Connection : /\ pc'[v] = IF v = w THEN "idle" ELSE pc[v]
                                /\ v # w => corpus'[v] = corpus[v]
      BY <2>7 DEF GiveUp, TypeOK
    <3>2. ASSUME NEW v \in Connection, pc'[v] \in WritingSteps
          PROVE  v # w /\ pc[v] \in WritingSteps /\ draft' = draft
      BY <2>7, <3>1, <3>2 DEF GiveUp, StoreInv, WriterHoldsLock, WritingSteps
    <3>. QED  BY <2>7, <3>1, <3>2 DEF GiveUp, CoverInv, LatestRuns
  <2>. QED
    BY <2>1, <2>2, <2>3, <2>4, <2>5, <2>6, <2>7
       DEF Next, WriteStep, Statement, BusyTimeout, StatementFails, Crash
<1>. QED  BY <1>1, <1>2, CallsTyped, StoreInvariant, PTL DEF Spec

(***************************************************************************)
(* Corpora that report a rule of a framework's control once.               *)
(***************************************************************************)
ReportsOnce(c) ==
  \A i, j \in DOMAIN c.results :
    c.results[i].framework_id # Blank /\ ResultKey(c.results[i]) = ResultKey(c.results[j]) => i = j

RowOf(c, r) ==
  [run_id |-> c.run_id, framework_id |-> r.framework_id, control_id |-> r.control_id,
   rule_id |-> r.rule_id, status |-> r.status, evidence_id |-> FirstRef(r)]

\* Then the scoped rows are those of all the scoped results.
LEMMA ScopedRows ==
  ASSUME NEW c \in Corpus, ReportsOnce(c)
  PROVE  {x \in ResultRows(c) : x.framework_id # Blank} =
           {RowOf(c, c.results[i]) : i \in {i \in DOMAIN c.results :
                                               c.results[i].framework_id # Blank}}
<1>1. DOMAIN c.results = 1 .. Len(c.results) /\ Len(c.results) \in Nat
  BY DEF Corpus
<1>2. ASSUME NEW i \in DOMAIN c.results, c.results[i].framework_id # Blank
      PROVE  c.results[i] \in LastOfEachKey(c.results, ResultKey)
  <2>1. \A j \in DOMAIN c.results : ResultKey(c.results[j]) = ResultKey(c.results[i]) => j = i
    BY <1>2 DEF ReportsOnce
  <2>. QED  BY <1>1, <2>1 DEF LastOfEachKey
<1>3. ASSUME NEW r \in LastOfEachKey(c.results, ResultKey)
      PROVE  \E i \in DOMAIN c.results : r = c.results[i]
  BY DEF LastOfEachKey
<1>4. ResultRows(c) = {RowOf(c, r) : r \in LastOfEachKey(c.results, ResultKey)}
  BY DEF ResultRows, RowOf
<1>5. \A r : RowOf(c, r).framework_id = r.framework_id
  BY DEF RowOf
<1>. QED  BY <1>2, <1>3, <1>4, <1>5

GapOf(r) ==
  [run_id |-> r.run_id, framework_id |-> r.framework_id, control_id |-> r.control_id,
   rule_id |-> r.rule_id, status |-> r.status]

GapPlaces(c) == {i \in DOMAIN c.results : IsGap(c.results[i])}

\* The gap rows of such a corpus are those of its results that are gaps.
LEMMA GapsOfReports ==
  ASSUME NEW c \in Corpus, ReportsOnce(c)
  PROVE  GapRows(c) = {GapOf(RowOf(c, c.results[i])) : i \in GapPlaces(c)}
<1>. DEFINE gaps == GapPlaces(c)
<1>. USE DEF GapPlaces
<1>1. DOMAIN c.results = 1 .. Len(c.results) /\ Len(c.results) \in Nat
  BY DEF Corpus
<1>2. FirstGaps(c.results) = {c.results[i] : i \in gaps}
  <2>1. \A i \in gaps : \A j \in DOMAIN c.results :
          ResultKey(c.results[j]) = ResultKey(c.results[i]) => i = j
    BY DEF ReportsOnce, IsGap
  <2>. QED  BY <1>1, <2>1 DEF FirstGaps
<1>3. GapRows(c) = {GapOf(RowOf(c, c.results[i])) : i \in gaps}
  <2>1. \A r : GapOf(RowOf(c, r)) =
                 [run_id |-> c.run_id, framework_id |-> r.framework_id,
                  control_id |-> r.control_id, rule_id |-> r.rule_id, status |-> r.status]
    BY DEF GapOf, RowOf
  <2>. QED  BY <1>2, <2>1 DEF GapRows
<1>. QED  BY <1>3

\* They are those of its result rows.
LEMMA GapsOfResults ==
  ASSUME NEW c \in Corpus, ReportsOnce(c)
  PROVE  GapRows(c) = {GapOf(x) : x \in {x \in ResultRows(c) : IsGap(x)}}
<1>. DEFINE gaps == GapPlaces(c)
<1>. USE DEF GapPlaces
<1>4. {x \in ResultRows(c) : IsGap(x)} = {RowOf(c, c.results[i]) : i \in gaps}
  <2>1. \A r : IsGap(RowOf(c, r)) <=> IsGap(r)
    BY DEF RowOf, IsGap
  <2>2. {x \in ResultRows(c) : IsGap(x)} =
          {x \in {x \in ResultRows(c) : x.framework_id # Blank} : IsGap(x)}
    BY DEF IsGap
  <2>3. \A i \in gaps : c.results[i].framework_id # Blank
    BY DEF IsGap
  <2>. QED  BY <2>1, <2>2, <2>3, ScopedRows
<1>. QED  BY <1>4, GapsOfReports

\* The number of rows of a framework with a status is the number of its results.
LEMMA RowsCounted ==
  ASSUME NEW c \in Corpus, ReportsOnce(c), NEW f, f # Blank, NEW s
  PROVE  Cardinality({x \in ResultRows(c) : x.framework_id = f /\ x.status = s}) =
           StatusCount(c, f, s)
<1>. DEFINE I == {i \in DOMAIN c.results : /\ c.results[i].framework_id = f
                                           /\ c.results[i].status = s}
            T == {x \in ResultRows(c) : x.framework_id = f /\ x.status = s}
            F == [i \in I |-> RowOf(c, c.results[i])]
<1>1. IsFiniteSet(I)
  <2>1. DOMAIN c.results = 1 .. Len(c.results) /\ Len(c.results) \in Nat
    BY DEF Corpus
  <2>2. IsFiniteSet(1 .. Len(c.results))
    BY <2>1, FS_Interval
  <2>. QED  BY <2>1, <2>2, FS_Subset
<1>2. T = {RowOf(c, c.results[i]) : i \in I}
  <2>1. \A r : RowOf(c, r).framework_id = r.framework_id /\ RowOf(c, r).status = r.status
    BY DEF RowOf
  <2>2. T = {x \in {x \in ResultRows(c) : x.framework_id # Blank} :
               x.framework_id = f /\ x.status = s}
    OBVIOUS
  <2>. QED  BY <2>1, <2>2, ScopedRows
<1>3. \A i, j \in I : F[i] = F[j] => i = j
  <2>. SUFFICES ASSUME NEW i \in I, NEW j \in I, F[i] = F[j] PROVE i = j
    OBVIOUS
  <2>1. ResultKey(c.results[i]) = ResultKey(c.results[j])
    BY DEF RowOf, ResultKey
  <2>. QED  BY <2>1 DEF ReportsOnce
<1>4. F \in Bijection(I, T)
  BY <1>2, <1>3 DEF Bijection, Injection, Surjection, IsInjective
<1>5. ExistsBijection(I, T)
  BY <1>4 DEF ExistsBijection
<1>. QED  BY <1>1, <1>5, FS_Bijection DEF StatusCount

OneResultPerRule == \A c \in Corpora : ReportsOnce(c)

\* Every committed row belongs to the last corpus of its run.
LEMMA RowsOfLatest ==
  ASSUME StoreInv, CoverInv
  PROVE  /\ \A x \in db.control_results : \E c \in latest : x \in ResultRows(c)
         /\ \A x \in db.score_summaries : \E c \in latest : x \in ScoreRows(c)
         /\ \A x \in db.compliance_gaps : x.run_id # Blank => \E c \in latest : x \in GapRows(c)
         /\ \A c \in latest : /\ ResultRows(c) \subseteq db.control_results
                              /\ ScoreRows(c) \subseteq db.score_summaries
                              /\ GapRows(c) \subseteq db.compliance_gaps
BY DEF StoreInv, LatestCorpusIsStored, IsStored, ForRun, CoverInv, IsCovered, Covered, LatestRuns

\* A persisted gap is a persisted scoped result that failed or warned, and every
\* such result has its gap (GapsAgreeWithResults).
THEOREM GapsAgree ==
  ASSUME OneResultPerRule
  PROVE  Spec => []GapsAgreeWithResults
<1>1. TypeOK /\ StoreInv /\ CoverInv => GapsAgreeWithResults
  <2>. SUFFICES ASSUME TypeOK, StoreInv, CoverInv PROVE GapsAgreeWithResults
    OBVIOUS
  <2>1. \A c \in latest : /\ c.run_id # Blank
                          /\ GapRows(c) = {GapOf(x) : x \in {x \in ResultRows(c) : IsGap(x)}}
    BY CorporaAssumption, GapsOfResults
       DEF OneResultPerRule, TypeOK, StoreInv, OneLatestPerRun, IsAccepted
  <2>2. {g \in db.compliance_gaps : g.run_id # Blank} = UNION {GapRows(c) : c \in latest}
    BY <2>1, RowsOfLatest, RowsNameTheirRun
  <2>3. {r \in db.control_results : IsGap(r)} =
          UNION {{x \in ResultRows(c) : IsGap(x)} : c \in latest}
    BY RowsOfLatest
  <2>4. UNION {GapRows(c) : c \in latest} = {GapOf(r) : r \in {r \in db.control_results : IsGap(r)}}
    BY <2>1, <2>3
  <2>. QED  BY <2>2, <2>4 DEF GapsAgreeWithResults, GapOf
<1>. QED  BY <1>1, TypeCorrect, StoreInvariant, RowsBelongToLatest, PTL

\* The counts of a score summary are the numbers of persisted results, and every
\* framework with a persisted scoped result has a summary (ScoresAgreeWithResults).
THEOREM ScoresAgree ==
  ASSUME OneResultPerRule
  PROVE  Spec => []ScoresAgreeWithResults
<1>1. TypeOK /\ StoreInv /\ CoverInv => ScoresAgreeWithResults
  <2>. SUFFICES ASSUME TypeOK, StoreInv, CoverInv PROVE ScoresAgreeWithResults
    OBVIOUS
  <2>1. \A c \in latest : c \in Corpus /\ ReportsOnce(c)
    BY CorporaAssumption DEF OneResultPerRule, TypeOK
  <2>2. ASSUME NEW c \in latest
        PROVE  {s.framework_id : s \in ScoreRows(c)} =
                 {x.framework_id : x \in {x \in ResultRows(c) : x.framework_id # Blank}}
    <3>. DEFINE scoped == {i \in DOMAIN c.results : c.results[i].framework_id # Blank}
                ScoreOf(f) == [run_id |-> c.run_id, framework_id |-> f,
                               pass |-> StatusCount(c, f, "PASS"),
                               fail |-> StatusCount(c, f, "FAIL"),
                               warning |-> StatusCount(c, f, "WARNING")]
    <3>1. {s.framework_id : s \in ScoreRows(c)} = {c.results[i].framework_id : i \in scoped}
      <4>1. ScoreRows(c) = {ScoreOf(f) : f \in {r.framework_id : r \in Elements(c.results)} \ {Blank}}
        BY DEF ScoreRows
      <4>2. {r.framework_id : r \in Elements(c.results)} \ {Blank} =
              {c.results[i].framework_id : i \in scoped}
        BY DEF Elements
      <4>3. \A f : ScoreOf(f).framework_id = f
        OBVIOUS
      <4>. HIDE DEF ScoreOf, scoped
      <4>. QED  BY <4>1, <4>2, <4>3
    <3>2. \A r : RowOf(c, r).framework_id = r.framework_id
      BY DEF RowOf
    <3>3. {x \in ResultRows(c) : x.framework_id # Blank} = {RowOf(c, c.results[i]) : i \in scoped}
      BY <2>1, ScopedRows
    <3>. HIDE DEF scoped
    <3>4. {x.framework_id : x \in {RowOf(c, c.results[i]) : i \in scoped}} =
            {c.results[i].framework_id : i \in scoped}
      BY <3>2
    <3>. QED  BY <3>1, <3>3, <3>4
  <2>3. {FrameworkLinkKey(s) : s \in db.score_summaries} =
          {FrameworkLinkKey(r) : r \in {r \in db.control_results : r.framework_id # Blank}}
    <3>1. ASSUME NEW s \in db.score_summaries
          PROVE  \E r \in db.control_results :
                   r.framework_id # Blank /\ FrameworkLinkKey(r) = FrameworkLinkKey(s)
      <4>1. PICK c \in latest : s \in ScoreRows(c)
        BY RowsOfLatest
      <4>2. PICK x \in ResultRows(c) : x.framework_id # Blank /\ x.framework_id = s.framework_id
        BY <2>2, <4>1
      <4>. QED  BY <4>1, <4>2, RowsOfLatest, RowsNameTheirRun DEF FrameworkLinkKey
    <3>2. ASSUME NEW r \in db.control_results, r.framework_id # Blank
          PROVE  \E s \in db.score_summaries : FrameworkLinkKey(r) = FrameworkLinkKey(s)
      <4>1. PICK c \in latest : r \in ResultRows(c)
        BY RowsOfLatest
      <4>2. PICK s \in ScoreRows(c) : s.framework_id = r.framework_id
        BY <2>2, <3>2, <4>1
      <4>. QED  BY <4>1, <4>2, RowsOfLatest, RowsNameTheirRun DEF FrameworkLinkKey
    <3>. QED  BY <3>1, <3>2
  <2>4. ASSUME NEW s \in db.score_summaries, NEW c \in latest, s \in ScoreRows(c), NEW status
        PROVE  Cardinality({r \in db.control_results : /\ FrameworkLinkKey(r) = FrameworkLinkKey(s)
                                                       /\ r.status = status}) =
                 StatusCount(c, s.framework_id, status)
    <3>1. s.run_id = c.run_id /\ s.framework_id # Blank
      BY <2>4 DEF ScoreRows
    <3>2. ForRun(db.control_results, c.run_id) = ResultRows(c)
      BY DEF StoreInv, LatestCorpusIsStored, IsStored
    <3>3. {r \in db.control_results : FrameworkLinkKey(r) = FrameworkLinkKey(s) /\ r.status = status} =
            {x \in ResultRows(c) : x.framework_id = s.framework_id /\ x.status = status}
      BY <3>1, <3>2 DEF FrameworkLinkKey, ForRun
    <3>. QED  BY <2>1, <3>1, <3>3, RowsCounted
  <2>5. ASSUME NEW s \in db.score_summaries, NEW c \in latest, s \in ScoreRows(c)
        PROVE  /\ s.pass = StatusCount(c, s.framework_id, "PASS")
               /\ s.fail = StatusCount(c, s.framework_id, "FAIL")
               /\ s.warning = StatusCount(c, s.framework_id, "WARNING")
    BY <2>5 DEF ScoreRows
  <2>6. \A s \in db.score_summaries : \E c \in latest : s \in ScoreRows(c)
    BY RowsOfLatest
  <2>. DEFINE Counted(s, status) ==
         Cardinality({r \in db.control_results : /\ FrameworkLinkKey(r) = FrameworkLinkKey(s)
                                                 /\ r.status = status})
  <2>7. ASSUME NEW s \in db.score_summaries
        PROVE  /\ s.pass = Counted(s, "PASS")
               /\ s.fail = Counted(s, "FAIL")
               /\ s.warning = Counted(s, "WARNING")
    <3>1. PICK c \in latest : s \in ScoreRows(c)
      BY <2>6
    <3>2. \A status : Counted(s, status) = StatusCount(c, s.framework_id, status)
      BY <2>4, <3>1
    <3>. HIDE DEF Counted
    <3>. QED  BY <2>5, <3>1, <3>2
  <2>. QED  BY <2>3, <2>7 DEF ScoresAgreeWithResults
<1>. QED  BY <1>1, TypeCorrect, StoreInvariant, RowsBelongToLatest, PTL

-----------------------------------------------------------------------------
(***************************************************************************)
(* The read queries tell the stored runs.                                  *)
(*                                                                         *)
(* Sums first: a fold over a finite set of values, of how many things have *)
(* each value, is the number of things.                                    *)
(***************************************************************************)
AnyOf(S) == CHOOSE x \in S : TRUE

\* One turn of the fold that MapThenSumSet is, for the numbers n.
FoldTurn(g, n, V) ==
  [S \in SUBSET V |-> IF S = {} THEN 0 ELSE n[AnyOf(S)] + g[S \ {AnyOf(S)}]]

With(R, F, S) == {r \in R : F[r] \in S}

\* n tells how many elements of R have each value of V under F.
Tells(n, R, F, V) == \A v \in V : n[v] = Cardinality(With(R, F, {v}))

\* The elements with any value of S are those with one of them and the others.
LEMMA WithOneLess ==
  ASSUME NEW R, IsFiniteSet(R), NEW F, NEW S, NEW v \in S
  PROVE  /\ IsFiniteSet(With(R, F, S)) /\ Cardinality(With(R, F, S)) \in Nat
         /\ Cardinality(With(R, F, S)) =
              Cardinality(With(R, F, {v})) + Cardinality(With(R, F, S \ {v}))
<1>1. /\ IsFiniteSet(With(R, F, S)) /\ IsFiniteSet(With(R, F, {v}))
      /\ IsFiniteSet(With(R, F, S \ {v}))
  <2>1. \A T : With(R, F, T) \subseteq R
    BY DEF With
  <2>. QED  BY <2>1, FS_Subset
<1>2. /\ With(R, F, S) = With(R, F, {v}) \cup With(R, F, S \ {v})
      /\ With(R, F, {v}) \cap With(R, F, S \ {v}) = {}
  BY DEF With
<1>3. Cardinality({}) = 0
  BY FS_EmptySet
<1>4. /\ Cardinality(With(R, F, S)) \in Nat /\ Cardinality(With(R, F, {v})) \in Nat
      /\ Cardinality(With(R, F, S \ {v})) \in Nat
  BY <1>1, FS_CardinalityType
<1>5. PICK A, B : A = With(R, F, {v}) /\ B = With(R, F, S \ {v})
  OBVIOUS
<1>6. Cardinality(A \cup B) = Cardinality(A) + Cardinality(B) - Cardinality(A \cap B)
  <2>1. IsFiniteSet(A) /\ IsFiniteSet(B)
    BY <1>1, <1>5
  <2>. QED  BY <2>1, FS_Union
<1>7. With(R, F, S) = A \cup B /\ A \cap B = {}
  BY <1>2, <1>5
<1>8. Cardinality(With(R, F, S)) = Cardinality(A) + Cardinality(B) - 0
  BY <1>3, <1>6, <1>7
<1>9. /\ Cardinality(A) = Cardinality(With(R, F, {v}))
      /\ Cardinality(B) = Cardinality(With(R, F, S \ {v}))
  BY <1>5
<1>. HIDE DEF With
<1>. QED  BY <1>1, <1>4, <1>8, <1>9

\* The fold exists: it is the number of elements with any of the values.
LEMMA FoldExists ==
  ASSUME NEW R, IsFiniteSet(R), NEW F, NEW V, NEW n, Tells(n, R, F, V)
  PROVE  \E g : g = FoldTurn(g, n, V)
<1>. DEFINE g == [S \in SUBSET V |-> Cardinality(With(R, F, S))]
<1>1. ASSUME NEW S \in SUBSET V
      PROVE  Cardinality(With(R, F, S)) =
               IF S = {} THEN 0 ELSE n[AnyOf(S)] + g[S \ {AnyOf(S)}]
  <2>1. CASE S = {}
    <3>1. With(R, F, S) = {}
      BY <2>1 DEF With
    <3>. QED  BY <2>1, <3>1, FS_EmptySet
  <2>2. CASE S # {}
    <3>1. AnyOf(S) \in S
      BY <2>2 DEF AnyOf
    <3>2. n[AnyOf(S)] = Cardinality(With(R, F, {AnyOf(S)}))
      BY <3>1 DEF Tells
    <3>3. g[S \ {AnyOf(S)}] = Cardinality(With(R, F, S \ {AnyOf(S)}))
      OBVIOUS
    <3>. HIDE DEF g
    <3>. QED  BY <2>2, <3>1, <3>2, <3>3, WithOneLess
  <2>. QED  BY <2>1, <2>2
<1>2. g = FoldTurn(g, n, V)
  BY <1>1 DEF FoldTurn
<1>. QED  BY <1>2

\* It is the only one.
LEMMA FoldCounts ==
  ASSUME NEW R, IsFiniteSet(R), NEW F, NEW V, IsFiniteSet(V), NEW n, Tells(n, R, F, V),
         \A r \in R : F[r] \in V,
         NEW g, g = FoldTurn(g, n, V)
  PROVE  g[V] = Cardinality(R)
<1>. DEFINE wrong == {S \in SUBSET V : g[S] # Cardinality(With(R, F, S))}
<1>0. \A S \in SUBSET V : g[S] = IF S = {} THEN 0 ELSE n[AnyOf(S)] + g[S \ {AnyOf(S)}]
  BY DEF FoldTurn
<1>1. wrong = {}
  <2>. SUFFICES ASSUME wrong # {} PROVE FALSE
    OBVIOUS
  <2>1. wrong \subseteq FiniteSubsetsOf(V)
    <3>1. \A S \in SUBSET V : IsFiniteSet(S)
      BY FS_Subset
    <3>. QED  BY <3>1 DEF FiniteSubsetsOf
  <2>2. PICK S \in wrong : \A T \in wrong : ~ (<<T, S>> \in StrictSubsetOrdering(V))
    <3>. HIDE DEF wrong
    <3>. QED  BY <2>1, FS_StrictSubsetOrderingWellFounded, WFMin
  <2>3. CASE S = {}
    <3>1. With(R, F, S) = {}
      BY <2>3 DEF With
    <3>. QED  BY <1>0, <2>3, <3>1, FS_EmptySet
  <2>4. CASE S # {}
    <3>1. AnyOf(S) \in S /\ S \in SUBSET V
      BY <2>4 DEF AnyOf
    <3>2. n[AnyOf(S)] = Cardinality(With(R, F, {AnyOf(S)}))
      BY <3>1 DEF Tells
    <3>3. S \ {AnyOf(S)} \notin wrong
      <4>1. <<S \ {AnyOf(S)}, S>> \in StrictSubsetOrdering(V)
        BY <3>1 DEF StrictSubsetOrdering
      <4>. QED  BY <2>2, <4>1
    <3>4. g[S \ {AnyOf(S)}] = Cardinality(With(R, F, S \ {AnyOf(S)}))
      BY <3>1, <3>3
    <3>5. g[S] = n[AnyOf(S)] + g[S \ {AnyOf(S)}]
      BY <1>0, <2>4, <3>1
    <3>6. Cardinality(With(R, F, S)) =
            Cardinality(With(R, F, {AnyOf(S)})) + Cardinality(With(R, F, S \ {AnyOf(S)}))
      BY <3>1, WithOneLess
    <3>. QED  BY <2>2, <3>2, <3>4, <3>5, <3>6
  <2>. QED  BY <2>3, <2>4
<1>2. With(R, F, V) = R
  BY DEF With
<1>3. V \notin wrong
  BY <1>1
<1>. QED  BY <1>2, <1>3

\* What MapThenSumSet chooses when it adds up the values of a function, and when
\* it adds up a field.
FoldOf(n, V) == CHOOSE g : g = FoldTurn(g, n, V)

FieldTurn(g, field, V) ==
  [S \in SUBSET V |-> IF S = {} THEN 0 ELSE AnyOf(S)[field] + g[S \ {AnyOf(S)}]]

FieldFold(field, V) == CHOOSE g : g = FieldTurn(g, field, V)

\* Summed over the values that occur.
LEMMA ListedSum ==
  ASSUME NEW R, IsFiniteSet(R), NEW F, NEW V, IsFiniteSet(V), NEW n, Tells(n, R, F, V),
         \A r \in R : F[r] \in V
  PROVE  FoldOf(n, V)[V] = Cardinality(R)
<1>1. FoldOf(n, V) = FoldTurn(FoldOf(n, V), n, V)
  BY FoldExists DEF FoldOf
<1>. QED  BY <1>1, FoldCounts

\* The same for a count that the values carry in a field.
Carries(field, R, F, V) == \A v \in V : v[field] = Cardinality(With(R, F, {v}))

LEMMA FieldSum ==
  ASSUME NEW R, IsFiniteSet(R), NEW F, NEW V, IsFiniteSet(V), NEW field,
         Carries(field, R, F, V),
         \A r \in R : F[r] \in V
  PROVE  FieldFold(field, V)[V] = Cardinality(R)
<1>. DEFINE n == [v \in V |-> v[field]]
<1>1. Tells(n, R, F, V)
  BY DEF Tells, Carries
<1>2. \A g : FieldTurn(g, field, V) = FoldTurn(g, n, V)
  <2>1. \A S \in SUBSET V : S # {} => n[AnyOf(S)] = AnyOf(S)[field]
    BY DEF AnyOf
  <2>. HIDE DEF n
  <2>. QED  BY <2>1 DEF FoldTurn, FieldTurn
<1>. HIDE DEF n
<1>3. \E g : g = FieldTurn(g, field, V)
  <2>1. PICK g : g = FoldTurn(g, n, V)
    BY <1>1, FoldExists
  <2>. QED  BY <1>2, <2>1
<1>4. FieldFold(field, V) = FieldTurn(FieldFold(field, V), field, V)
  BY <1>3 DEF FieldFold
<1>5. FieldFold(field, V) = FoldTurn(FieldFold(field, V), n, V)
  BY <1>2, <1>4
<1>. QED  BY <1>1, <1>5, FoldCounts

(***************************************************************************)
(* Corpora that report each rule of a control once, with and without a     *)
(* framework.                                                              *)
(***************************************************************************)
ReportsEachOnce(c) ==
  \A i, j \in DOMAIN c.results : ResultKey(c.results[i]) = ResultKey(c.results[j]) => i = j

OneResultPerKey == \A c \in Corpora : ReportsEachOnce(c)

\* A set of places of a list has a last one.
LEMMA LastPlace ==
  ASSUME NEW n \in Nat, NEW S \in SUBSET (1 .. n), S # {}
  PROVE  \E i \in S : \A j \in S : j <= i
<1>. DEFINE above == {i .. n : i \in S}
<1>1. above \subseteq FiniteSubsetsOf(Nat) /\ above # {}
  <2>1. \A i \in S : i .. n \in SUBSET Nat /\ IsFiniteSet(i .. n)
    BY FS_Interval
  <2>. QED  BY <2>1 DEF FiniteSubsetsOf
<1>2. PICK least \in above : \A b \in above : ~ (<<b, least>> \in StrictSubsetOrdering(Nat))
  <2>. HIDE DEF above
  <2>. QED  BY <1>1, FS_StrictSubsetOrderingWellFounded, WFMin
<1>3. PICK i \in S : least = i .. n
  BY <1>2
<1>4. ASSUME NEW j \in S, ~(j <= i)
      PROVE  FALSE
  <2>1. j .. n \subseteq i .. n /\ i \in i .. n /\ i \notin j .. n
    BY <1>4
  <2>2. <<j .. n, i .. n>> \in StrictSubsetOrdering(Nat)
    BY <2>1 DEF StrictSubsetOrdering
  <2>. QED  BY <1>2, <1>3, <2>2
<1>. QED  BY <1>4

\* The loops that upsert frameworks and controls leave each of their ids.
LEMMA LoopsLeaveIds ==
  ASSUME NEW c \in Corpus
  PROVE  /\ {x.framework_id : x \in FrameworkLinks(c)} = DescribedFrameworks(c)
         /\ {x.control_id : x \in ControlLinks(c)} = ControlIds(c)
<1>1. /\ DOMAIN c.frameworks = 1 .. Len(c.frameworks) /\ Len(c.frameworks) \in Nat
      /\ DOMAIN c.controls = 1 .. Len(c.controls) /\ Len(c.controls) \in Nat
  BY DEF Corpus
<1>2. ASSUME NEW i \in DOMAIN c.frameworks
      PROVE  \E f \in LastOfEachKey(c.frameworks, FrameworkKey) :
               f.framework_id = c.frameworks[i].framework_id
  <2>. DEFINE S == {j \in DOMAIN c.frameworks : FrameworkKey(c.frameworks[j]) = FrameworkKey(c.frameworks[i])}
  <2>1. S \in SUBSET (1 .. Len(c.frameworks)) /\ S # {}
    BY <1>1
  <2>2. PICK last \in S : \A j \in S : j <= last
    <3>. HIDE DEF S
    <3>. QED  BY <1>1, <2>1, LastPlace
  <2>3. c.frameworks[last] \in LastOfEachKey(c.frameworks, FrameworkKey)
    BY <2>2 DEF LastOfEachKey
  <2>. QED  BY <2>2, <2>3 DEF FrameworkKey
<1>3. ASSUME NEW i \in DOMAIN c.controls
      PROVE  \E k \in LastOfEachKey(c.controls, ControlKey) :
               k.control_id = c.controls[i].control_id
  <2>. DEFINE S == {j \in DOMAIN c.controls : ControlKey(c.controls[j]) = ControlKey(c.controls[i])}
  <2>1. S \in SUBSET (1 .. Len(c.controls)) /\ S # {}
    BY <1>1
  <2>2. PICK last \in S : \A j \in S : j <= last
    <3>. HIDE DEF S
    <3>. QED  BY <1>1, <2>1, LastPlace
  <2>3. c.controls[last] \in LastOfEachKey(c.controls, ControlKey)
    BY <2>2 DEF LastOfEachKey
  <2>. QED  BY <2>2, <2>3 DEF ControlKey
<1>4. /\ \A f \in LastOfEachKey(c.frameworks, FrameworkKey) : \E i \in DOMAIN c.frameworks : f = c.frameworks[i]
      /\ \A k \in LastOfEachKey(c.controls, ControlKey) : \E i \in DOMAIN c.controls : k = c.controls[i]
  BY DEF LastOfEachKey
<1>5. {x.framework_id : x \in FrameworkLinks(c)} = DescribedFrameworks(c)
  <2>1. {x.framework_id : x \in FrameworkLinks(c)} =
          {f.framework_id : f \in LastOfEachKey(c.frameworks, FrameworkKey)}
    <3>. DEFINE Link(f) == [run_id |-> c.run_id, framework_id |-> f.framework_id,
                            version |-> f.version]
    <3>1. FrameworkLinks(c) = {Link(f) : f \in LastOfEachKey(c.frameworks, FrameworkKey)}
      BY DEF FrameworkLinks
    <3>2. \A f : Link(f).framework_id = f.framework_id
      OBVIOUS
    <3>. HIDE DEF Link
    <3>. QED  BY <3>1, <3>2
  <2>2. DescribedFrameworks(c) = {c.frameworks[i].framework_id : i \in DOMAIN c.frameworks}
    BY DEF DescribedFrameworks, Elements
  <2>3. ASSUME NEW x \in LastOfEachKey(c.frameworks, FrameworkKey)
        PROVE  x.framework_id \in {c.frameworks[i].framework_id : i \in DOMAIN c.frameworks}
    BY <1>4
  <2>4. ASSUME NEW i \in DOMAIN c.frameworks
        PROVE  c.frameworks[i].framework_id \in {x.framework_id : x \in LastOfEachKey(c.frameworks, FrameworkKey)}
    BY <1>2
  <2>. QED  BY <2>1, <2>2, <2>3, <2>4
<1>6. {x.control_id : x \in ControlLinks(c)} = ControlIds(c)
  <2>1. {x.control_id : x \in ControlLinks(c)} =
          {k.control_id : k \in LastOfEachKey(c.controls, ControlKey)}
    <3>. DEFINE Link(k) == [run_id |-> c.run_id, framework_id |-> k.framework_id,
                            control_id |-> k.control_id, reference |-> k.reference]
    <3>1. ControlLinks(c) = {Link(k) : k \in LastOfEachKey(c.controls, ControlKey)}
      BY DEF ControlLinks
    <3>2. \A k : Link(k).control_id = k.control_id
      OBVIOUS
    <3>. HIDE DEF Link
    <3>. QED  BY <3>1, <3>2
  <2>2. ControlIds(c) = {c.controls[i].control_id : i \in DOMAIN c.controls}
    BY DEF ControlIds, Elements
  <2>3. ASSUME NEW x \in LastOfEachKey(c.controls, ControlKey)
        PROVE  x.control_id \in {c.controls[i].control_id : i \in DOMAIN c.controls}
    BY <1>4
  <2>4. ASSUME NEW i \in DOMAIN c.controls
        PROVE  c.controls[i].control_id \in {x.control_id : x \in LastOfEachKey(c.controls, ControlKey)}
    BY <1>3
  <2>. QED  BY <2>1, <2>2, <2>3, <2>4
<1>. QED  BY <1>5, <1>6

\* Every result of such a corpus has its row.
LEMMA EachResultIsARow ==
  ASSUME NEW c \in Corpus, ReportsEachOnce(c), NEW i \in DOMAIN c.results
  PROVE  RowOf(c, c.results[i]) \in ResultRows(c)
<1>1. DOMAIN c.results = 1 .. Len(c.results) /\ Len(c.results) \in Nat
  BY DEF Corpus
<1>2. \A j \in DOMAIN c.results : ResultKey(c.results[j]) = ResultKey(c.results[i]) => j <= i
  BY <1>1 DEF ReportsEachOnce
<1>3. c.results[i] \in LastOfEachKey(c.results, ResultKey)
  BY <1>2 DEF LastOfEachKey
<1>. QED  BY <1>3 DEF ResultRows, RowOf

\* And every row is that of a result.
LEMMA EachRowIsAResult ==
  ASSUME NEW c, NEW x \in ResultRows(c)
  PROVE  \E i \in DOMAIN c.results : x = RowOf(c, c.results[i])
BY DEF ResultRows, LastOfEachKey, RowOf

\* The set of what a function makes of finitely many arguments is finite.
LEMMA ImageIsFinite ==
  ASSUME NEW S, IsFiniteSet(S), NEW f
  PROVE  IsFiniteSet({f[x] : x \in S})
<1>. DEFINE g == [x \in S |-> f[x]]
<1>1. g \in Surjection(S, {f[x] : x \in S})
  BY DEF Surjection
<1>. QED  BY <1>1, FS_Surjection

\* The places of a list of results are finitely many.
LEMMA FinitelyMany ==
  ASSUME NEW c \in Corpus
  PROVE  \A S \in SUBSET DOMAIN c.results : IsFiniteSet(S)
<1>1. DOMAIN c.results = 1 .. Len(c.results) /\ Len(c.results) \in Nat
  BY DEF Corpus
<1>2. IsFiniteSet(1 .. Len(c.results))
  BY <1>1, FS_Interval
<1>. QED  BY <1>1, <1>2, FS_Subset

(***************************************************************************)
(* The queries, one by one.                                                *)
(***************************************************************************)
\* The runs that are listed are those with a committed corpus, and of any other
\* name nothing is found.
LEMMA RunsAreListed ==
  ASSUME CoverInv
  PROVE  /\ QueryRuns = LatestRuns
         /\ \A run \in LatestRuns : QueryRun(run) = {run}
         /\ \A run : run # Blank /\ run \notin LatestRuns => IsUnknown(run)
<1>. USE DEF CoverInv, IsCovered, Covered, Joined
<1>1. QueryRuns = LatestRuns
  BY DEF QueryRuns
<1>2. ASSUME NEW run \in LatestRuns
      PROVE  QueryRun(run) = {run}
  BY DEF QueryRun
<1>3. ASSUME NEW run, run # Blank, run \notin LatestRuns
      PROVE  IsUnknown(run)
  <2>1. /\ ForRun(db.run_framework_links, run) = {} /\ ForRun(db.run_control_links, run) = {}
        /\ ForRun(db.run_evidence_links, run) = {} /\ ForRun(db.control_results, run) = {}
        /\ ForRun(db.compliance_gaps, run) = {} /\ ForRun(db.score_summaries, run) = {}
    BY <1>3 DEF ForRun
  <2>2. QueryRun(run) = {} /\ CompletedRunExecutedAt(run) = {}
    BY <1>3 DEF QueryRun, CompletedRunExecutedAt
  <2>3. /\ FrameworkRecordsForRun(run) = {} /\ DOMAIN ControlRecordsForRun(run) = {}
        /\ ControlResultRecordsForRun(run) = {} /\ ComplianceGapRecordsForRun(run) = {}
        /\ ScoreSummariesForRun(run) = {}
    BY <2>1 DEF FrameworkRecordsForRun, ControlRecordsForRun, ControlResultRecordsForRun,
                ComplianceGapRecordsForRun, ScoreSummariesForRun, Listed
  <2>4. EvidenceMetadataRecordsForRun(run) = {}
    BY <2>1 DEF EvidenceMetadataRecordsForRun
  <2>5. DOMAIN QueryResultsForRun(run) = {}
    BY <2>1 DEF QueryResultsForRun, Listed
  <2>6. \A s \in Status : DOMAIN QueryGaps(run, s) = {}
    BY <2>1 DEF QueryGaps, Listed
  <2>. QED  BY <2>2, <2>3, <2>4, <2>5, <2>6 DEF IsUnknown
<1>. QED  BY <1>1, <1>2, <1>3

\* What a list of results says of an entry is how many rows have its columns.
LEMMA ResultsListed ==
  ASSUME NEW rows
  PROVE  \A v : Occurrences(Listed(rows, ResultColumns), v) =
                  Cardinality({x \in rows : ResultColumns(x) = v})
<1>. SUFFICES ASSUME NEW v
     PROVE  Occurrences(Listed(rows, ResultColumns), v) =
              Cardinality({x \in rows : ResultColumns(x) = v})
  OBVIOUS
<1>1. CASE \E x \in rows : ResultColumns(x) = v
  BY <1>1 DEF Occurrences, Listed
<1>2. CASE ~ \E x \in rows : ResultColumns(x) = v
  <2>1. {x \in rows : ResultColumns(x) = v} = {}
    BY <1>2
  <2>2. v \notin DOMAIN Listed(rows, ResultColumns)
    BY <1>2 DEF Listed
  <2>. QED  BY <2>1, <2>2, FS_EmptySet DEF Occurrences
<1>. QED  BY <1>1, <1>2

\* The results of a run, with and without the filter on a control and a status.
LEMMA ResultListsAgree ==
  ASSUME NEW c, c.run_id # Blank, ForRun(db.control_results, c.run_id) = ResultRows(c)
  PROVE  ResultQueriesAgree(c)
<1>. DEFINE run == c.run_id
            Filtered(k, s) == {x \in ResultRows(c) : x.control_id = k /\ x.status = s}
<1>1. QueryResultsForRun(run) = Listed(ResultRows(c), ResultColumns)
  BY DEF QueryResultsForRun
<1>2. ASSUME NEW k \in Controls(c), NEW s \in Status
      PROVE  /\ \A v \in DOMAIN QueryResults(run, k, s) : v[3] = run
             /\ \A r \in Elements(c.results) :
                  Occurrences(QueryResults(run, k, s), <<k, r.rule_id, run, s>>) =
                    InAll(run, k, r.rule_id, s)
  <2>0. QueryResults(run, k, s) = Listed(Filtered(k, s), ResultColumns)
    BY DEF QueryResults
  <2>1. \A v \in DOMAIN QueryResults(run, k, s) : v[3] = run
    <3>1. DOMAIN QueryResults(run, k, s) = {ResultColumns(x) : x \in Filtered(k, s)}
      BY <2>0 DEF Listed
    <3>2. \A x \in Filtered(k, s) : ResultColumns(x)[3] = run
      BY RowsNameTheirRun DEF ResultColumns
    <3>. QED  BY <3>1, <3>2
  <2>2. ASSUME NEW r \in Elements(c.results)
        PROVE  Occurrences(QueryResults(run, k, s), <<k, r.rule_id, run, s>>) =
                 InAll(run, k, r.rule_id, s)
    <3>. DEFINE v == <<k, r.rule_id, run, s>>
    <3>1. {x \in Filtered(k, s) : ResultColumns(x) = v} = {x \in ResultRows(c) : ResultColumns(x) = v}
      BY DEF ResultColumns
    <3>2. Occurrences(QueryResults(run, k, s), v) =
            Cardinality({x \in Filtered(k, s) : ResultColumns(x) = v})
      <4>. HIDE DEF Filtered, v
      <4>. QED  BY <2>0, ResultsListed
    <3>3. InAll(run, k, r.rule_id, s) = Cardinality({x \in ResultRows(c) : ResultColumns(x) = v})
      BY <1>1, ResultsListed DEF InAll
    <3>. QED  BY <3>1, <3>2, <3>3
  <2>. QED  BY <2>1, <2>2
<1>3. \A v \in DOMAIN QueryResultsForRun(run) : v[1] \in Controls(c)
  <2>1. DOMAIN QueryResultsForRun(run) = {ResultColumns(x) : x \in ResultRows(c)}
    BY <1>1 DEF Listed
  <2>2. ASSUME NEW x \in ResultRows(c)
        PROVE  ResultColumns(x)[1] \in Controls(c)
    <3>1. PICK i \in DOMAIN c.results : x = RowOf(c, c.results[i])
      BY EachRowIsAResult
    <3>2. ResultColumns(x)[1] = c.results[i].control_id
      BY <3>1 DEF ResultColumns, RowOf
    <3>. QED  BY <3>2 DEF Controls, Elements
  <2>. QED  BY <2>1, <2>2
<1>. QED  BY <1>2, <1>3 DEF ResultQueriesAgree

\* The scoped results of a status.
Scoped(c, s) ==
  {i \in DOMAIN c.results : c.results[i].framework_id # Blank /\ c.results[i].status = s}

GapsOf(c, s) == {x \in GapRows(c) : x.status = s}

\* Each failed or warned result has one gap row.
LEMMA GapsCounted ==
  ASSUME NEW c \in Corpus, ReportsOnce(c), NEW s, IsGapStatus(s)
  PROVE  IsFiniteSet(GapsOf(c, s)) /\ Cardinality(GapsOf(c, s)) = Cardinality(Scoped(c, s))
<1>. DEFINE F == [i \in Scoped(c, s) |-> GapOf(RowOf(c, c.results[i]))]
<1>1. Scoped(c, s) = {i \in GapPlaces(c) : c.results[i].status = s}
  BY DEF Scoped, GapPlaces, IsGap
<1>2. \A r : GapOf(RowOf(c, r)).status = r.status
  BY DEF GapOf, RowOf
<1>3. GapsOf(c, s) = {GapOf(RowOf(c, c.results[i])) : i \in Scoped(c, s)}
  BY <1>1, <1>2, GapsOfReports DEF GapsOf
<1>4. \A i, j \in Scoped(c, s) : F[i] = F[j] => i = j
  <2>. SUFFICES ASSUME NEW i \in Scoped(c, s), NEW j \in Scoped(c, s), F[i] = F[j] PROVE i = j
    OBVIOUS
  <2>1. ResultKey(c.results[i]) = ResultKey(c.results[j])
    BY DEF GapOf, RowOf, ResultKey
  <2>. QED  BY <2>1 DEF ReportsOnce, Scoped
<1>5. F \in Bijection(Scoped(c, s), GapsOf(c, s))
  BY <1>3, <1>4 DEF Bijection, Injection, Surjection, IsInjective
<1>6. ExistsBijection(Scoped(c, s), GapsOf(c, s))
  BY <1>5 DEF ExistsBijection
<1>7. IsFiniteSet(Scoped(c, s))
  BY FinitelyMany DEF Scoped
<1>. QED  BY <1>6, <1>7, FS_Bijection

GapColumns(x) == <<x.control_id, x.rule_id, x.status>>

\* The gaps that the list of a status counts are all of them.
LEMMA GapsSum ==
  ASSUME NEW c \in Corpus, ReportsOnce(c), NEW s, IsGapStatus(s),
         ForRun(db.compliance_gaps, c.run_id) = GapRows(c)
  PROVE  LET list == QueryGaps(c.run_id, s)
         IN  MapThenSumSet(LAMBDA v : list[v], DOMAIN list) = Cardinality(Scoped(c, s))
<1>. DEFINE R == GapsOf(c, s)
            F == [x \in R |-> GapColumns(x)]
            V == {F[x] : x \in R}
<1>1. PICK list : list = QueryGaps(c.run_id, s)
  OBVIOUS
<1>2. list = [v \in V |-> Cardinality({x \in R : GapColumns(x) = v})]
  BY <1>1 DEF QueryGaps, Listed, GapsOf, GapColumns
<1>3. IsFiniteSet(R) /\ Cardinality(R) = Cardinality(Scoped(c, s))
  BY GapsCounted
<1>4. IsFiniteSet(V)
  <2>. HIDE DEF F, R
  <2>. QED  BY <1>3, ImageIsFinite
<1>5. Tells(list, R, F, V)
  <2>1. \A v : With(R, F, {v}) = {x \in R : GapColumns(x) = v}
    BY DEF With
  <2>. HIDE DEF V, F, R
  <2>. QED  BY <1>2, <2>1 DEF Tells
<1>6. DOMAIN list = V /\ \A r \in R : F[r] \in V
  BY <1>2
<1>7. MapThenSumSet(LAMBDA v : list[v], V) = Cardinality(R)
  <2>. HIDE DEF V, F, R
  <2>1. FoldOf(list, V)[V] = Cardinality(R)
    BY <1>3, <1>4, <1>5, <1>6, ListedSum
  <2>2. MapThenSumSet(LAMBDA v : list[v], V) = FoldOf(list, V)[V]
    BY DEF MapThenSumSet, MapThenFoldSet, FoldOf, FoldTurn, AnyOf
  <2>. QED  BY <2>1, <2>2
<1>. QED  BY <1>1, <1>3, <1>6, <1>7

\* The gaps listed alike are no more than the results with these columns.
LEMMA GapsAreFew ==
  ASSUME NEW c \in Corpus, ReportsOnce(c), c.run_id # Blank, NEW s,
         ForRun(db.compliance_gaps, c.run_id) = GapRows(c),
         ForRun(db.control_results, c.run_id) = ResultRows(c),
         NEW g \in DOMAIN QueryGaps(c.run_id, s)
  PROVE  QueryGaps(c.run_id, s)[g] <= InAll(c.run_id, g[1], g[2], g[3])
<1>. DEFINE gaps    == {x \in GapsOf(c, s) : GapColumns(x) = g}
            v       == <<g[1], g[2], c.run_id, g[3]>>
            results == {x \in ResultRows(c) : ResultColumns(x) = v}
            failed  == {x \in results : IsGap(x)}
            F       == [x \in failed |-> GapOf(x)]
<1>1. QueryGaps(c.run_id, s) = [w \in {GapColumns(x) : x \in GapsOf(c, s)} |->
                                  Cardinality({x \in GapsOf(c, s) : GapColumns(x) = w})]
  BY DEF QueryGaps, Listed, GapsOf, GapColumns
<1>2. QueryGaps(c.run_id, s)[g] = Cardinality(gaps) /\ \E x \in GapsOf(c, s) : GapColumns(x) = g
  BY <1>1
<1>3. InAll(c.run_id, g[1], g[2], g[3]) = Cardinality(results)
  <2>1. QueryResultsForRun(c.run_id) = Listed(ResultRows(c), ResultColumns)
    BY DEF QueryResultsForRun
  <2>. QED  BY <2>1, ResultsListed DEF InAll
<1>4. \A x \in ResultRows(c) : /\ x.run_id = c.run_id
                               /\ GapColumns(GapOf(x)) = GapColumns(x)
                               /\ GapOf(x).status = x.status
  BY RowsNameTheirRun DEF GapOf, GapColumns
<1>5. gaps = {GapOf(x) : x \in failed}
  <2>1. GapRows(c) = {GapOf(x) : x \in {x \in ResultRows(c) : IsGap(x)}}
    BY GapsOfResults
  <2>2. \A x \in ResultRows(c) : ResultColumns(x) = v <=> GapColumns(x) = g
    <3>1. PICK y \in GapsOf(c, s) : GapColumns(y) = g
      BY <1>2
    <3>2. g = <<g[1], g[2], g[3]>>
      BY <3>1 DEF GapColumns
    <3>. QED  BY <1>4, <3>2 DEF ResultColumns, GapColumns
  <2>3. \A y \in GapRows(c) : GapColumns(y) = g => y.status = s
    <3>1. PICK y \in GapsOf(c, s) : GapColumns(y) = g
      BY <1>2
    <3>. QED  BY <3>1 DEF GapColumns, GapsOf
  <2>4. gaps = {y \in GapRows(c) : GapColumns(y) = g}
    BY <2>3 DEF GapsOf
  <2>5. failed = {x \in {x \in ResultRows(c) : IsGap(x)} : GapColumns(x) = g}
    BY <2>2
  <2>. HIDE DEF gaps, failed
  <2>. QED  BY <1>4, <2>1, <2>4, <2>5
<1>6. IsFiniteSet(results)
  <2>. DEFINE rowOf == [i \in DOMAIN c.results |-> RowOf(c, c.results[i])]
  <2>1. IsFiniteSet({rowOf[i] : i \in DOMAIN c.results})
    <3>1. IsFiniteSet(DOMAIN c.results)
      BY FinitelyMany
    <3>. HIDE DEF rowOf
    <3>. QED  BY <3>1, ImageIsFinite
  <2>2. results \subseteq {rowOf[i] : i \in DOMAIN c.results}
    BY EachRowIsAResult
  <2>. QED  BY <2>1, <2>2, FS_Subset
<1>7. F \in Surjection(failed, gaps)
  BY <1>5 DEF Surjection
<1>8. IsFiniteSet(failed) /\ Cardinality(failed) <= Cardinality(results)
  BY <1>6, FS_Subset
<1>9. Cardinality(gaps) <= Cardinality(failed) /\ IsFiniteSet(gaps)
  <2>. HIDE DEF failed, gaps, F
  <2>. QED  BY <1>7, <1>8, FS_Surjection
<1>. QED  BY <1>2, <1>3, <1>6, <1>8, <1>9, FS_CardinalityType

\* What the score query tells of a framework.
Told(c, f) == [framework |-> f, pass |-> StatusCount(c, f, "PASS"),
               fail |-> StatusCount(c, f, "FAIL"), warning |-> StatusCount(c, f, "WARNING")]

ScopedPlaces(c) == {i \in DOMAIN c.results : c.results[i].framework_id # Blank}

LEMMA ScoresTold ==
  ASSUME NEW c, ForRun(db.score_summaries, c.run_id) = ScoreRows(c)
  PROVE  ScoreSummariesForRun(c.run_id) =
           {Told(c, c.results[i].framework_id) : i \in ScopedPlaces(c)}
<1>. DEFINE ScoreOf(f) == [run_id |-> c.run_id, framework_id |-> f,
                           pass |-> StatusCount(c, f, "PASS"), fail |-> StatusCount(c, f, "FAIL"),
                           warning |-> StatusCount(c, f, "WARNING")]
            Columns(x) == [framework |-> x.framework_id, pass |-> x.pass, fail |-> x.fail,
                           warning |-> x.warning]
            names == {r.framework_id : r \in Elements(c.results)} \ {Blank}
<1>1. names = {c.results[i].framework_id : i \in ScopedPlaces(c)}
  BY DEF Elements, ScopedPlaces
<1>2. ScoreRows(c) = {ScoreOf(f) : f \in names}
  BY DEF ScoreRows
<1>3. ScoreSummariesForRun(c.run_id) = {Columns(x) : x \in ScoreRows(c)}
  BY DEF ScoreSummariesForRun
<1>4. \A f : Columns(ScoreOf(f)) = Told(c, f)
  BY DEF Told
<1>. HIDE DEF ScoreOf, Columns, names
<1>. QED  BY <1>1, <1>2, <1>3, <1>4

\* Added up over the frameworks, a count of the score query is the number of
\* scoped results of its status.
LEMMA ScoresSum ==
  ASSUME NEW c \in Corpus, ForRun(db.score_summaries, c.run_id) = ScoreRows(c)
  PROVE  /\ FieldFold("fail", ScoreSummariesForRun(c.run_id))[ScoreSummariesForRun(c.run_id)] =
              Cardinality(Scoped(c, "FAIL"))
         /\ FieldFold("warning", ScoreSummariesForRun(c.run_id))[ScoreSummariesForRun(c.run_id)] =
              Cardinality(Scoped(c, "WARNING"))
<1>1. PICK V : V = ScoreSummariesForRun(c.run_id)
  OBVIOUS
<1>2. PICK F : F = [i \in ScopedPlaces(c) |-> Told(c, c.results[i].framework_id)]
  OBVIOUS
<1>3. V = {F[i] : i \in ScopedPlaces(c)}
  BY <1>1, <1>2, ScoresTold
<1>4. \A i \in ScopedPlaces(c) : F[i] \in V /\ F[i] = Told(c, c.results[i].framework_id)
  BY <1>2, <1>3
<1>5. IsFiniteSet(V)
  <2>1. IsFiniteSet(ScopedPlaces(c))
    BY FinitelyMany DEF ScopedPlaces
  <2>. QED  BY <1>3, <2>1, ImageIsFinite
<1>6. ASSUME NEW s
      PROVE  /\ IsFiniteSet(Scoped(c, s)) /\ Scoped(c, s) \subseteq ScopedPlaces(c)
             /\ \A v \in V : Cardinality(With(Scoped(c, s), F, {v})) = StatusCount(c, v.framework, s)
  <2>1. IsFiniteSet(Scoped(c, s)) /\ Scoped(c, s) \subseteq ScopedPlaces(c)
    BY FinitelyMany DEF Scoped, ScopedPlaces
  <2>2. ASSUME NEW v \in V
        PROVE  With(Scoped(c, s), F, {v}) =
                 {i \in DOMAIN c.results : /\ c.results[i].framework_id = v.framework
                                           /\ c.results[i].status = s}
    <3>1. PICK k \in ScopedPlaces(c) : v = Told(c, c.results[k].framework_id)
      BY <1>3, <1>4
    <3>2. v.framework # Blank /\ v = Told(c, v.framework)
      BY <3>1 DEF Told, ScopedPlaces
    <3>3. \A i \in ScopedPlaces(c) : F[i] = v <=> c.results[i].framework_id = v.framework
      <4>1. \A f : Told(c, f).framework = f
        BY DEF Told
      <4>. QED  BY <1>4, <3>2, <4>1
    <3>. QED  BY <3>2, <3>3 DEF With, Scoped, ScopedPlaces
  <2>. QED  BY <2>1, <2>2 DEF StatusCount
<1>7. \A v \in V : /\ v["fail"] = StatusCount(c, v.framework, "FAIL")
                   /\ v["warning"] = StatusCount(c, v.framework, "WARNING")
  <2>1. \A f : /\ Told(c, f)["fail"] = StatusCount(c, f, "FAIL")
               /\ Told(c, f)["warning"] = StatusCount(c, f, "WARNING")
               /\ Told(c, f).framework = f
    BY DEF Told
  <2>. QED  BY <1>3, <1>4, <2>1
<1>8. ASSUME NEW field, NEW s, \A v \in V : v[field] = StatusCount(c, v.framework, s)
      PROVE  FieldFold(field, V)[V] = Cardinality(Scoped(c, s))
  <2>1. /\ IsFiniteSet(Scoped(c, s)) /\ \A i \in Scoped(c, s) : F[i] \in V
        /\ Carries(field, Scoped(c, s), F, V)
    BY <1>4, <1>6, <1>8 DEF Carries
  <2>. QED  BY <1>5, <2>1, FieldSum
<1>. QED  BY <1>1, <1>7, <1>8

\* The queries about gaps, results and scores agree.
LEMMA GapListsAgree ==
  ASSUME NEW c \in Corpus, ReportsEachOnce(c), c.run_id # Blank,
         ForRun(db.control_results, c.run_id) = ResultRows(c),
         ForRun(db.compliance_gaps, c.run_id) = GapRows(c),
         ForRun(db.score_summaries, c.run_id) = ScoreRows(c)
  PROVE  GapQueriesAgree(c)
<1>. DEFINE run == c.run_id
<1>0. ReportsOnce(c)
  BY DEF ReportsEachOnce, ReportsOnce
<1>1. ComplianceGapRecordsForRun(run) \subseteq ControlResultRecordsForRun(run)
  <2>1. \A x : ResultKey(GapOf(x)) = ResultKey(x)
    BY DEF ResultKey, GapOf
  <2>2. GapRows(c) = {GapOf(x) : x \in {x \in ResultRows(c) : IsGap(x)}}
    BY <1>0, GapsOfResults
  <2>. QED  BY <2>1, <2>2 DEF ComplianceGapRecordsForRun, ControlResultRecordsForRun
<1>2. \A s \in Status : \A g \in DOMAIN QueryGaps(run, s) :
        QueryGaps(run, s)[g] <= InAll(run, g[1], g[2], g[3])
  BY <1>0, GapsAreFew
<1>3. ASSUME NEW s, IsGapStatus(s)
      PROVE  MapThenSumSet(LAMBDA v : QueryGaps(run, s)[v], DOMAIN QueryGaps(run, s)) =
               Cardinality(Scoped(c, s))
  BY <1>0, <1>3, GapsSum
<1>4. PICK V : V = ScoreSummariesForRun(run)
  OBVIOUS
<1>5. MapThenSumSet(LAMBDA x : x.fail, V) = Cardinality(Scoped(c, "FAIL"))
  <2>1. MapThenSumSet(LAMBDA x : x.fail, V) = FieldFold("fail", V)[V]
    BY DEF MapThenSumSet, MapThenFoldSet, FieldFold, FieldTurn, AnyOf
  <2>. QED  BY <1>4, <2>1, ScoresSum
<1>6. MapThenSumSet(LAMBDA x : x.warning, V) = Cardinality(Scoped(c, "WARNING"))
  <2>1. MapThenSumSet(LAMBDA x : x.warning, V) = FieldFold("warning", V)[V]
    BY DEF MapThenSumSet, MapThenFoldSet, FieldFold, FieldTurn, AnyOf
  <2>. QED  BY <1>4, <2>1, ScoresSum
<1>7. /\ MapThenSumSet(LAMBDA v : QueryGaps(run, "FAIL")[v], DOMAIN QueryGaps(run, "FAIL")) =
           MapThenSumSet(LAMBDA x : x.fail, ScoreSummariesForRun(run))
      /\ MapThenSumSet(LAMBDA v : QueryGaps(run, "WARNING")[v], DOMAIN QueryGaps(run, "WARNING")) =
           MapThenSumSet(LAMBDA x : x.warning, ScoreSummariesForRun(run))
  BY <1>3, <1>4, <1>5, <1>6 DEF IsGapStatus
<1>. QED  BY <1>1, <1>2, <1>7 DEF GapQueriesAgree

\* The evidence of a run is listed, and evidence that a result cites is found by
\* its id, by its digest and by the control of that result.
CitedIsFound(c) ==
  \A r \in Elements(c.results), e \in Elements(c.evidence) :
    FirstRef(r) = e.id =>
      /\ Cardinality(QueryEvidence("id", e.id)) = 1
      /\ QueryEvidence("id", e.id) \subseteq QueryEvidence("control", r.control_id)
      /\ \A x \in QueryEvidence("id", e.id) : x \in QueryEvidence("digest", x.digest)

LEMMA EvidenceIsFound ==
  ASSUME CoverInv, SnapshotKeepsCorpusEvidence, NEW c \in latest, c \in Corpus, ReportsEachOnce(c),
         ForRun(db.control_results, c.run_id) = ResultRows(c)
  PROVE  /\ EvidenceMetadataRecordsForRun(c.run_id) = {e.id : e \in Elements(c.evidence)}
         /\ CitedIsFound(c)
<1>. DEFINE links == ForRun(db.run_evidence_links, c.run_id)
<1>1. /\ \A x, y \in db.evidence_metadata : x.id = y.id => x = y
      /\ \A l \in links : \E x \in db.evidence_metadata : x.id = l.evidence_id
  BY DEF CoverInv, IsCovered, Joined, ForRun
<1>2. {l.evidence_id : l \in links} = {e.id : e \in Elements(c.evidence)}
  BY DEF SnapshotKeepsCorpusEvidence
<1>3. EvidenceMetadataRecordsForRun(c.run_id) = {l.evidence_id : l \in links}
  <2>1. EvidenceMetadataRecordsForRun(c.run_id) =
          {x.id : x \in {x \in db.evidence_metadata : \E l \in links : l.evidence_id = x.id}}
    BY DEF EvidenceMetadataRecordsForRun
  <2>. HIDE DEF links
  <2>. QED  BY <1>1, <2>1
<1>4. ASSUME NEW r \in Elements(c.results), NEW e \in Elements(c.evidence), FirstRef(r) = e.id
      PROVE  /\ Cardinality(QueryEvidence("id", e.id)) = 1
             /\ QueryEvidence("id", e.id) \subseteq QueryEvidence("control", r.control_id)
             /\ \A x \in QueryEvidence("id", e.id) : x \in QueryEvidence("digest", x.digest)
  <2>1. QueryEvidence("id", e.id) = {x \in db.evidence_metadata : x.id = e.id}
    BY DEF QueryEvidence
  <2>2. QueryEvidence("control", r.control_id) =
          {x \in db.evidence_metadata :
             \E y \in db.control_results : y.evidence_id = x.id /\ y.control_id = r.control_id}
    BY DEF QueryEvidence
  <2>3. \A d : QueryEvidence("digest", d) = {x \in db.evidence_metadata : x.digest = d}
    BY DEF QueryEvidence
  <2>4. PICK x \in db.evidence_metadata : x.id = e.id
    <3>. HIDE DEF links
    <3>. QED  BY <1>1, <1>2
  <2>5. QueryEvidence("id", e.id) = {x}
    BY <1>1, <2>1, <2>4
  <2>6. Cardinality(QueryEvidence("id", e.id)) = 1
    BY <2>5, FS_Singleton
  <2>7. \E y \in db.control_results : y.evidence_id = e.id /\ y.control_id = r.control_id
    <3>1. PICK i \in DOMAIN c.results : r = c.results[i]
      BY DEF Elements
    <3>2. RowOf(c, r) \in db.control_results
      BY <3>1, EachResultIsARow DEF ForRun
    <3>. QED  BY <1>4, <3>2 DEF RowOf
  <2>. QED  BY <2>1, <2>2, <2>3, <2>6, <2>7
<1>. QED  BY <1>2, <1>3, <1>4 DEF CitedIsFound

\* The read queries list exactly the runs with a committed corpus and nothing of
\* any other; of a listed run those that read its results, gaps and score
\* summaries through different tables, joins and filters agree entry by entry
\* and in their sums, the lists of frameworks, controls and evidence are those
\* of its last corpus, and cited evidence is found by id, digest and control
\* (QueriesTellTheStoredRuns: query_runs to query_evidence of local_db.rs).
THEOREM QueriesAgree ==
  ASSUME OneResultPerKey
  PROVE  Spec => []QueriesTellTheStoredRuns
<1>1. TypeOK /\ StoreInv /\ CoverInv /\ SnapshotKeepsCorpusEvidence => QueriesTellTheStoredRuns
  <2>. SUFFICES ASSUME TypeOK, StoreInv, CoverInv, SnapshotKeepsCorpusEvidence
                PROVE  QueriesTellTheStoredRuns
    OBVIOUS
  <2>1. ASSUME NEW c \in latest
        PROVE  c \in Corpus /\ c.run_id # Blank /\ ReportsEachOnce(c) /\ IsStored(db, c)
    BY CorporaAssumption
       DEF OneResultPerKey, TypeOK, StoreInv, OneLatestPerRun, IsAccepted, LatestCorpusIsStored
  <2>2. \A run \in CorpusRuns \ QueryRuns : IsUnknown(run)
    BY RunsAreListed DEF CorpusRuns
  <2>3. QueryRuns = {c.run_id : c \in latest}
    BY RunsAreListed DEF LatestRuns
  <2>4. ASSUME NEW c \in latest
        PROVE  /\ QueryRun(c.run_id) = {c.run_id}
               /\ ResultQueriesAgree(c) /\ GapQueriesAgree(c)
               /\ FrameworkRecordsForRun(c.run_id) = DescribedFrameworks(c)
               /\ DOMAIN ControlRecordsForRun(c.run_id) = ControlIds(c)
               /\ EvidenceMetadataRecordsForRun(c.run_id) = {e.id : e \in Elements(c.evidence)}
               /\ CitedIsFound(c)
    <3>1. QueryRun(c.run_id) = {c.run_id}
      BY RunsAreListed DEF LatestRuns
    <3>2. ResultQueriesAgree(c) /\ GapQueriesAgree(c)
      BY <2>1, ResultListsAgree, GapListsAgree DEF IsStored
    <3>3. FrameworkRecordsForRun(c.run_id) = DescribedFrameworks(c)
      BY <2>1, LoopsLeaveIds DEF IsStored, FrameworkRecordsForRun
    <3>4. DOMAIN ControlRecordsForRun(c.run_id) = ControlIds(c)
      <4>1. DOMAIN ControlRecordsForRun(c.run_id) = {x.control_id : x \in ControlLinks(c)}
        BY <2>1 DEF IsStored, ControlRecordsForRun, Listed
      <4>. QED  BY <2>1, <4>1, LoopsLeaveIds
    <3>5. /\ EvidenceMetadataRecordsForRun(c.run_id) = {e.id : e \in Elements(c.evidence)}
          /\ CitedIsFound(c)
      BY <2>1, EvidenceIsFound DEF IsStored
    <3>. QED  BY <3>1, <3>2, <3>3, <3>4, <3>5
  <2>. QED  BY <2>2, <2>3, <2>4 DEF QueriesTellTheStoredRuns, CitedIsFound
<1>. QED  BY <1>1, TypeCorrect, StoreInvariant, RowsBelongToLatest, SnapshotKept, PTL

-----------------------------------------------------------------------------
(***************************************************************************)
(* Exports beside writers.                                                 *)
(***************************************************************************)

\* An export is a stutter of the database: whatever LocalDatabase guarantees
\* holds with exporters beside it.
THEOREM ExportsOnlyRead == ExportSpec => Spec
<1>1. ExportInit => Init
  BY DEF ExportInit
<1>2. [ExportNext]_allVars => [Next]_vars
  BY DEF ExportNext, allVars, WriterStep, ExportStep, Validate, MissingRun, ReadRun, StartExport,
         ReadFrameworks, ReadResults, ReadControls, ReadEvidence, Select, Render, ReadFails, Release
<1>. QED  BY <1>1, <1>2, PTL DEF ExportSpec, Spec

\* What is used of the database: types, the last corpora and their snapshots,
\* and that every run has a committed corpus.
DatabaseInv == TypeOK /\ StoreInv /\ SnapshotInv /\ CoverInv

\* It holds beside exports.
LEMMA DatabaseBesideExports == ExportSpec => []DatabaseInv
<1>1. Spec => []DatabaseInv
  BY TypeCorrect, StoreInvariant, SnapshotInvariant, RowsBelongToLatest, PTL DEF DatabaseInv
<1>. QED  BY <1>1, ExportsOnlyRead, PTL

\* A run with a row has a committed corpus, whose rows are the run's.
LEMMA RunHasCorpus ==
  ASSUME DatabaseInv, NEW r \in db.scan_runs
  PROVE  /\ r.id \in RunIds /\ r.id # Blank /\ r.id \in LatestRuns
         /\ r = [id |-> r.id, executed_at |-> r.executed_at]
<1>1. r.id \in LatestRuns
  BY DEF DatabaseInv, CoverInv, IsCovered, Covered
<1>2. r \in RunRow
  BY DEF DatabaseInv, TypeOK, Database
<1>. QED  BY <1>1, <1>2 DEF DatabaseInv, TypeOK, StoreInv, OneLatestPerRun, LatestRuns, IsAccepted,
                   RunIds, RunRow

(***************************************************************************)
(* Type correctness.                                                       *)
(***************************************************************************)
Parts == [run_id : RunIds \cup {Blank}, executed_at : STRING,
          frameworks : SUBSET FrameworkLinkRow, results : SUBSET ResultRow,
          controls : SUBSET ControlLinkRow, evidence : SUBSET EvidenceLinkRow]

ExportTyped ==
  /\ store \in StoreIndexes
  /\ step \in [Exporter -> ExportSteps]
  /\ parts \in [Exporter -> Parts]
  /\ verdict \in [Exporter -> Verdicts]
  /\ validated \in [Exporter -> RunIds \cup {Blank}]
  /\ quiet \in [Exporter -> BOOLEAN]

\* A statement reads rows of its table.
LEMMA SelectKeepsType ==
  ASSUME DatabaseInv, ExportTyped, NEW x \in Exporter,
         ReadFrameworks(x) \/ ReadResults(x) \/ ReadControls(x) \/ ReadEvidence(x)
  PROVE  ExportTyped'
<1>1. /\ \A run : ForRun(db.run_framework_links, run) \in SUBSET FrameworkLinkRow
      /\ \A run : ForRun(db.control_results, run) \in SUBSET ResultRow
      /\ \A run : ForRun(db.run_control_links, run) \in SUBSET ControlLinkRow
      /\ \A run : ForRun(db.run_evidence_links, run) \in SUBSET EvidenceLinkRow
  BY DEF DatabaseInv, TypeOK, Database, ForRun
<1>2. ASSUME NEW p \in Parts, NEW from, NEW to \in ExportSteps, Select(x, from, p, to)
      PROVE  ExportTyped'
  BY <1>2 DEF Select, ExportTyped
<1>3. \A rows : /\ rows \in SUBSET FrameworkLinkRow => [parts[x] EXCEPT !.frameworks = rows] \in Parts
                /\ rows \in SUBSET ResultRow => [parts[x] EXCEPT !.results = rows] \in Parts
                /\ rows \in SUBSET ControlLinkRow => [parts[x] EXCEPT !.controls = rows] \in Parts
                /\ rows \in SUBSET EvidenceLinkRow => [parts[x] EXCEPT !.evidence = rows] \in Parts
  <2>1. parts[x] \in Parts
    BY DEF ExportTyped
  <2>. QED  BY <2>1 DEF Parts
<1>4. {"results", "controls", "evidence", "render"} \subseteq ExportSteps
  BY DEF ExportSteps
<1>5. CASE ReadFrameworks(x)
  BY <1>1, <1>2, <1>3, <1>4, <1>5 DEF ReadFrameworks
<1>6. CASE ReadResults(x)
  BY <1>1, <1>2, <1>3, <1>4, <1>6 DEF ReadResults
<1>7. CASE ReadControls(x)
  BY <1>1, <1>2, <1>3, <1>4, <1>7 DEF ReadControls
<1>8. CASE ReadEvidence(x)
  BY <1>1, <1>2, <1>3, <1>4, <1>8 DEF ReadEvidence
<1>. QED  BY <1>5, <1>6, <1>7, <1>8

\* Every variable of the export keeps its type.
LEMMA ExportStaysTyped ==
  ASSUME DatabaseInv, ExportTyped, [ExportNext]_allVars
  PROVE  ExportTyped'
<1>1. NoParts \in Parts
  BY BlankIsText DEF NoParts, Parts
<1>. USE DEF ExportTyped
<1>2. CASE WriterStep
  BY <1>2 DEF WriterStep
<1>3. CASE UNCHANGED allVars
  BY <1>3 DEF allVars, exportVars
<1>4. ASSUME NEW x \in Exporter, Validate(x) PROVE ExportTyped'
  <2>1. \A links : Validation(links) \subseteq Verdicts
    BY DEF Validation, Verdicts
  <2>. QED  BY <1>1, <1>4, <2>1 DEF Validate
<1>5. ASSUME NEW x \in Exporter, MissingRun(x) PROVE ExportTyped'
  <2>1. quiet' \in [Exporter -> BOOLEAN] /\ UNCHANGED <<store, step>>
    BY <1>5 DEF MissingRun, StartExport
  <2>2. /\ verdict' = [verdict EXCEPT ![x] = "missing run"]
        /\ parts' = [parts EXCEPT ![x] = NoParts]
        /\ validated' = [validated EXCEPT ![x] = Blank]
    BY <1>5 DEF MissingRun
  <2>. QED  BY <1>1, <2>1, <2>2 DEF Verdicts
<1>6. ASSUME NEW x \in Exporter, ReadRun(x) PROVE ExportTyped'
  <2>1. PICK r \in db.scan_runs :
          /\ StartExport(x, r.id)
          /\ verdict' = [verdict EXCEPT ![x] = "none"]
          /\ parts' = [parts EXCEPT ![x] = [NoParts EXCEPT !.run_id = r.id,
                                                         !.executed_at = r.executed_at]]
          /\ validated' = [validated EXCEPT ![x] = IF @ = r.id THEN @ ELSE Blank]
          /\ step' = [step EXCEPT ![x] = "frameworks"]
    BY <1>6 DEF ReadRun
  <2>2. r.id \in RunIds /\ r.executed_at \in STRING
    BY RunHasCorpus DEF DatabaseInv, TypeOK, Database, RunRow
  <2>3. [NoParts EXCEPT !.run_id = r.id, !.executed_at = r.executed_at] \in Parts
    BY <1>1, <2>2 DEF Parts
  <2>4. quiet' \in [Exporter -> BOOLEAN] /\ store' = store
    BY <2>1 DEF StartExport
  <2>. QED  BY <2>1, <2>3, <2>4 DEF ExportSteps, Verdicts
<1>7. ASSUME NEW x \in Exporter, Render(x) \/ ReadFails(x) \/ Release(x) PROVE ExportTyped'
  <2>1. CASE Render(x)
    BY <1>1, <2>1 DEF Render, ExportSteps, Verdicts
  <2>2. CASE ReadFails(x)
    BY <1>1, <2>2 DEF ReadFails, ExportSteps, Verdicts
  <2>3. CASE Release(x)
    BY <1>1, <2>3 DEF Release, ExportSteps, Verdicts
  <2>. QED  BY <1>7, <2>1, <2>2, <2>3
<1>. QED  BY <1>2, <1>3, <1>4, <1>5, <1>6, <1>7, SelectKeepsType DEF ExportNext, ExportStep

(***************************************************************************)
(* How far an export has got, a finished one included, and what it has     *)
(* read by then.                                                           *)
(***************************************************************************)
At(x) == IF Exported(x) THEN "render" ELSE step[x]

HasFrameworks(x) == At(x) \in {"results", "controls", "evidence", "render"}
HasResults(x)    == At(x) \in {"controls", "evidence", "render"}
HasControls(x)   == At(x) \in {"evidence", "render"}
HasEvidence(x)   == At(x) = "render"

Own(run) == {c \in Corpora : IsAccepted(c) /\ c.run_id = run}

\* Each part is what a corpus of the run was stored as.
PartsCommitted(x) ==
  At(x) # "idle" =>
    /\ parts[x].run_id \in LatestRuns \ {Blank}
    /\ validated[x] \in {Blank, parts[x].run_id}
    /\ HasFrameworks(x) => parts[x].frameworks \in {FrameworkLinks(c) : c \in Own(parts[x].run_id)}
    /\ HasResults(x) => parts[x].results \in {ResultRows(c) : c \in Own(parts[x].run_id)}
    /\ HasControls(x) => parts[x].controls \in {ControlLinks(c) : c \in Own(parts[x].run_id)}
    /\ HasEvidence(x) => {l.evidence_id : l \in parts[x].evidence} \in
                           {{e.id : e \in Elements(c.evidence)} : c \in Own(parts[x].run_id)}

\* While nobody commits the run, each part is also what the tables hold now.
PartsCurrent(x) ==
  quiet[x] = TRUE /\ At(x) # "idle" =>
    /\ [id |-> parts[x].run_id, executed_at |-> parts[x].executed_at] \in db.scan_runs
    /\ HasFrameworks(x) => parts[x].frameworks = ForRun(db.run_framework_links, parts[x].run_id)
    /\ HasResults(x) => parts[x].results = ForRun(db.control_results, parts[x].run_id)
    /\ HasControls(x) => parts[x].controls = ForRun(db.run_control_links, parts[x].run_id)
    /\ HasEvidence(x) => parts[x].evidence = ForRun(db.run_evidence_links, parts[x].run_id)

\* While nobody commits the validated run, the store vouches for its snapshot.
ValidationCurrent(x) ==
  /\ parts[x].run_id # Blank => validated[x] \in {Blank, parts[x].run_id}
  /\ quiet[x] = TRUE /\ validated[x] # Blank /\ (\E r \in db.scan_runs : r.id = validated[x]) =>
       \A l \in ForRun(db.run_evidence_links, validated[x]) : Resolves(l)

ExportInv ==
  /\ ExportTyped
  /\ \A x \in Exporter : PartsCommitted(x) /\ PartsCurrent(x) /\ ValidationCurrent(x)

\* The rows of a run with a committed corpus are those of that corpus.
LEMMA RunRowsAreOwn ==
  ASSUME DatabaseInv, NEW run \in LatestRuns
  PROVE  \E c \in latest :
           /\ c \in Own(run)
           /\ ForRun(db.run_framework_links, run) = FrameworkLinks(c)
           /\ ForRun(db.control_results, run) = ResultRows(c)
           /\ ForRun(db.run_control_links, run) = ControlLinks(c)
           /\ {l.evidence_id : l \in ForRun(db.run_evidence_links, run)} =
                {e.id : e \in Elements(c.evidence)}
<1>1. PICK c \in latest : c.run_id = run
  BY DEF LatestRuns
<1>2. c \in Own(run)
  BY <1>1 DEF DatabaseInv, TypeOK, StoreInv, OneLatestPerRun, Own
<1>3. IsStored(db, c)
  BY DEF DatabaseInv, StoreInv, LatestCorpusIsStored
<1>4. {l.evidence_id : l \in ForRun(db.run_evidence_links, run)} = {e.id : e \in Elements(c.evidence)}
  <2>1. IsDescribed(db, c)
    BY DEF DatabaseInv, SnapshotInv, SnapshotsCommitted
  <2>2. DOMAIN c.evidence = 1 .. Len(c.evidence)
    BY CorporaAssumption DEF DatabaseInv, TypeOK, Corpus
  <2>3. {e.id : e \in Elements(c.evidence)} = {c.evidence[i].id : i \in DOMAIN c.evidence}
    BY DEF Elements
  <2>. QED  BY <1>1, <2>1, <2>2, <2>3 DEF IsDescribed, SnapshotUpTo, Snapshot
<1>. QED  BY <1>1, <1>2, <1>3, <1>4 DEF IsStored

\* No step forgets a run.
LEMMA RunsStay ==
  ASSUME [Next]_vars
  PROVE  LatestRuns \subseteq LatestRuns'
<1>1. latest' = latest \/ \E w \in Connection : Commit(w)
  BY DEF Next, WriteStep, vars, Refuse, Begin, WriteRunCatalog, ClearRunOutcomes,
         WriteScoreSummaries, WriteControlResults, WriteGapRows, ClearEvidenceLinks,
         WriteEvidenceRow, Advance, BusyTimeout, StatementFails, Crash, GiveUp
<1>2. ASSUME NEW w \in Connection, Commit(w), NEW c \in latest
      PROVE  \E x \in latest' : x.run_id = c.run_id
  <2>1. CASE c.run_id = corpus[w].run_id
    BY <1>2, <2>1 DEF Commit
  <2>2. CASE c.run_id # corpus[w].run_id
    BY <1>2, <2>2 DEF Commit
  <2>. QED  BY <2>1, <2>2
<1>. QED  BY <1>1, <1>2 DEF LatestRuns

\* A writer's step: the exporters of the runs it does not commit see the same
\* rows, the others are no longer quiet.
LEMMA WriterKeepsExports ==
  ASSUME DatabaseInv, ExportInv, WriterStep, [OwnWritesOnly]_vars, NEW x \in Exporter
  PROVE  PartsCommitted(x)' /\ PartsCurrent(x)' /\ ValidationCurrent(x)'
<1>1. /\ UNCHANGED <<store, step, parts, verdict, validated>>
      /\ PartsCommitted(x) /\ PartsCurrent(x) /\ ValidationCurrent(x)
      /\ At(x)' = At(x)
  BY DEF WriterStep, ExportInv, At, Exported
<1>2. /\ HasFrameworks(x)' = HasFrameworks(x) /\ HasResults(x)' = HasResults(x)
      /\ HasControls(x)' = HasControls(x) /\ HasEvidence(x)' = HasEvidence(x)
  BY <1>1 DEF HasFrameworks, HasResults, HasControls, HasEvidence
<1>3. PartsCommitted(x)'
  <2>1. LatestRuns \subseteq LatestRuns'
    BY RunsStay DEF WriterStep
  <2>. QED  BY <1>1, <1>2, <2>1 DEF PartsCommitted, Own
<1>4. ASSUME quiet'[x] = TRUE
      PROVE  /\ quiet[x] = TRUE
             /\ ~ \E w \in Connection : Committing(w) /\ corpus[w].run_id = ExportedRun(x)
  BY <1>4 DEF WriterStep, ExportInv, ExportTyped
<1>5. ASSUME quiet'[x] = TRUE, NEW r \in db.scan_runs \cup db'.scan_runs, r.id = ExportedRun(x)
      PROVE  /\ {y \in db.scan_runs : y.id = r.id} = {y \in db'.scan_runs : y.id = r.id}
             /\ SameRows(db.run_framework_links, db'.run_framework_links, r.id)
             /\ SameRows(db.run_control_links, db'.run_control_links, r.id)
             /\ SameRows(db.control_results, db'.control_results, r.id)
             /\ SameRows(db.run_evidence_links, db'.run_evidence_links, r.id)
  <2>1. CASE OwnWritesOnly
    BY <1>4, <1>5, <2>1 DEF OwnWritesOnly
  <2>2. CASE UNCHANGED vars
    BY <2>2 DEF vars, SameRows
  <2>. QED  BY <2>1, <2>2
<1>6. PartsCurrent(x)'
  <2>. SUFFICES ASSUME quiet'[x] = TRUE, At(x) # "idle" PROVE PartsCurrent(x)'
    BY <1>1 DEF PartsCurrent
  <2>1. ExportedRun(x) = parts[x].run_id
    BY <1>1 DEF PartsCommitted, ExportedRun
  <2>2. [id |-> parts[x].run_id, executed_at |-> parts[x].executed_at] \in db.scan_runs
    BY <1>1, <1>4 DEF PartsCurrent
  <2>3. /\ [id |-> parts[x].run_id, executed_at |-> parts[x].executed_at] \in db'.scan_runs
        /\ SameRows(db.run_framework_links, db'.run_framework_links, parts[x].run_id)
        /\ SameRows(db.run_control_links, db'.run_control_links, parts[x].run_id)
        /\ SameRows(db.control_results, db'.control_results, parts[x].run_id)
        /\ SameRows(db.run_evidence_links, db'.run_evidence_links, parts[x].run_id)
    <3>. DEFINE r == [id |-> parts[x].run_id, executed_at |-> parts[x].executed_at]
    <3>1. r \in db.scan_runs \cup db'.scan_runs /\ r.id = ExportedRun(x) /\ r.id = parts[x].run_id
      BY <2>1, <2>2
    <3>2. r \in {y \in db.scan_runs : y.id = r.id}
      BY <2>2
    <3>. HIDE DEF r
    <3>3. r \in {y \in db'.scan_runs : y.id = r.id}
      BY <1>5, <3>1, <3>2
    <3>4. /\ SameRows(db.run_framework_links, db'.run_framework_links, parts[x].run_id)
          /\ SameRows(db.run_control_links, db'.run_control_links, parts[x].run_id)
          /\ SameRows(db.control_results, db'.control_results, parts[x].run_id)
          /\ SameRows(db.run_evidence_links, db'.run_evidence_links, parts[x].run_id)
      BY <1>5, <3>1
    <3>. QED  BY <3>3, <3>4 DEF r
  <2>. QED  BY <1>1, <1>2, <1>4, <2>3 DEF PartsCurrent, SameRows
<1>7. ValidationCurrent(x)'
  <2>. SUFFICES ASSUME quiet'[x] = TRUE, validated[x] # Blank,
                       NEW r \in db'.scan_runs, r.id = validated[x],
                       NEW l \in ForRun(db'.run_evidence_links, validated[x])
                PROVE  Resolves(l)
    BY <1>1 DEF ValidationCurrent, Resolves
  <2>1. ExportedRun(x) = validated[x]
    BY <1>1 DEF ValidationCurrent, ExportedRun
  <2>2. /\ r \in db.scan_runs
        /\ SameRows(db.run_evidence_links, db'.run_evidence_links, validated[x])
    BY <1>5, <2>1
  <2>. QED  BY <1>1, <1>4, <2>2 DEF ValidationCurrent, SameRows
<1>. QED  BY <1>3, <1>6, <1>7

\* What a step of one exporter leaves of another.
LEMMA OtherExportsStay ==
  ASSUME ExportInv, UNCHANGED <<vars, store>>, NEW x \in Exporter,
         step'[x] = step[x], parts'[x] = parts[x], verdict'[x] = verdict[x],
         validated'[x] = validated[x], quiet'[x] = quiet[x]
  PROVE  PartsCommitted(x)' /\ PartsCurrent(x)' /\ ValidationCurrent(x)'
<1>1. /\ PartsCommitted(x) /\ PartsCurrent(x) /\ ValidationCurrent(x)
      /\ db' = db /\ latest' = latest /\ store' = store
  BY DEF ExportInv, vars
<1>2. /\ At(x)' = At(x) /\ LatestRuns' = LatestRuns
      /\ \A l : Resolves(l)' = Resolves(l)
  BY <1>1 DEF At, Exported, LatestRuns, Resolves
<1>3. PartsCommitted(x)'
  BY <1>1, <1>2
     DEF PartsCommitted, HasFrameworks, HasResults, HasControls, HasEvidence, Own
<1>4. PartsCurrent(x)'
  BY <1>1, <1>2 DEF PartsCurrent, HasFrameworks, HasResults, HasControls, HasEvidence
<1>5. ValidationCurrent(x)'
  BY <1>1, <1>2 DEF ValidationCurrent
<1>. QED  BY <1>3, <1>4, <1>5

\* An exporter that has nothing in hand.
LEMMA IdleExport ==
  ASSUME NEW x \in Exporter, step'[x] = "idle", verdict'[x] # "artifact"
  PROVE  PartsCommitted(x)' /\ PartsCurrent(x)'
BY DEF PartsCommitted, PartsCurrent, At, Exported

\* A validation that passes has resolved the run's snapshot.
LEMMA ValidateKeepsExport ==
  ASSUME ExportTyped, NEW x \in Exporter, Validate(x)
  PROVE  PartsCommitted(x)' /\ PartsCurrent(x)' /\ ValidationCurrent(x)'
<1>1. PICK run \in RunIds : \E v \in Validation(ForRun(db.run_evidence_links, run)) :
         /\ verdict' = [verdict EXCEPT ![x] = v]
         /\ validated' = [validated EXCEPT ![x] = IF v = "valid" THEN run ELSE Blank]
  BY DEF Validate
<1>2. PICK v \in Validation(ForRun(db.run_evidence_links, run)) :
         /\ verdict'[x] = v
         /\ validated'[x] = IF v = "valid" THEN run ELSE Blank
  BY <1>1 DEF ExportTyped
<1>3. v \in {"valid", "integrity mismatch", "missing evidence"}
  BY DEF Validation
<1>4. /\ step'[x] = "idle" /\ parts'[x].run_id = Blank
      /\ UNCHANGED <<vars, store>>
  BY DEF Validate, ExportTyped, NoParts
<1>5. v = "valid" => \A l \in ForRun(db.run_evidence_links, run) : Resolves(l)
  BY DEF Validation
<1>6. ValidationCurrent(x)'
  BY <1>2, <1>4, <1>5 DEF ValidationCurrent, Resolves, vars
<1>. QED  BY <1>2, <1>3, <1>4, <1>6, IdleExport

\* The first statement fixes the run, which has a committed corpus.
LEMMA ReadRunKeepsExport ==
  ASSUME DatabaseInv, ExportInv, NEW x \in Exporter, ReadRun(x)
  PROVE  PartsCommitted(x)' /\ PartsCurrent(x)' /\ ValidationCurrent(x)'
<1>1. PICK r \in db.scan_runs :
        /\ StartExport(x, r.id)
        /\ verdict' = [verdict EXCEPT ![x] = "none"]
        /\ parts' = [parts EXCEPT ![x] = [NoParts EXCEPT !.run_id = r.id,
                                                       !.executed_at = r.executed_at]]
        /\ validated' = [validated EXCEPT ![x] = IF @ = r.id THEN @ ELSE Blank]
        /\ step' = [step EXCEPT ![x] = "frameworks"]
  BY DEF ReadRun
<1>2. /\ step'[x] = "frameworks" /\ verdict'[x] = "none"
      /\ parts'[x].run_id = r.id /\ parts'[x].executed_at = r.executed_at
      /\ validated'[x] = IF validated[x] = r.id THEN r.id ELSE Blank
      /\ UNCHANGED <<db, latest, store>>
  BY <1>1 DEF ExportInv, ExportTyped, NoParts, StartExport, vars
<1>3. validated[x] = r.id /\ quiet'[x] = TRUE => quiet[x] = TRUE
  BY <1>1 DEF ExportInv, ExportTyped, StartExport
<1>4. r.id # Blank /\ r.id \in LatestRuns /\ r = [id |-> r.id, executed_at |-> r.executed_at]
  BY RunHasCorpus
<1>5. At(x)' = "frameworks"
  BY <1>2 DEF At, Exported
<1>6. PartsCommitted(x)'
  BY <1>2, <1>4, <1>5 DEF PartsCommitted, HasFrameworks, HasResults, HasControls, HasEvidence,
                          LatestRuns
<1>7. PartsCurrent(x)'
  BY <1>2, <1>4, <1>5 DEF PartsCurrent, HasFrameworks, HasResults, HasControls, HasEvidence
<1>8. ValidationCurrent(x)'
  BY <1>2, <1>3, <1>4 DEF ValidationCurrent, ExportInv, Resolves
<1>. QED  BY <1>6, <1>7, <1>8

\* Each further statement reads one committed part.
LEMMA SelectKeepsExport ==
  ASSUME DatabaseInv, ExportInv, NEW x \in Exporter,
         ReadFrameworks(x) \/ ReadResults(x) \/ ReadControls(x) \/ ReadEvidence(x)
  PROVE  PartsCommitted(x)' /\ PartsCurrent(x)' /\ ValidationCurrent(x)'
<1>. DEFINE run == parts[x].run_id
<1>1. /\ UNCHANGED <<db, latest, store>>
      /\ step[x] # "idle" /\ step'[x] # "idle"
      /\ validated'[x] = validated[x] /\ quiet'[x] = quiet[x] /\ verdict'[x] = verdict[x]
  BY DEF ReadFrameworks, ReadResults, ReadControls, ReadEvidence, Select, vars, ExportInv,
         ExportTyped
<1>2. At(x) = step[x] /\ At(x)' = step'[x]
  BY <1>1 DEF At, Exported
<1>3. parts[x] \in Parts /\ PartsCommitted(x) /\ PartsCurrent(x) /\ ValidationCurrent(x)
  BY DEF ExportInv, ExportTyped
<1>4. run \in LatestRuns
  BY <1>1, <1>2, <1>3 DEF PartsCommitted
<1>5. PICK c \in latest :
           /\ c \in Own(run)
           /\ ForRun(db.run_framework_links, run) = FrameworkLinks(c)
           /\ ForRun(db.control_results, run) = ResultRows(c)
           /\ ForRun(db.run_control_links, run) = ControlLinks(c)
           /\ {l.evidence_id : l \in ForRun(db.run_evidence_links, run)} =
                {e.id : e \in Elements(c.evidence)}
  BY <1>4, RunRowsAreOwn
<1>6. \/ /\ step[x] = "frameworks" /\ step'[x] = "results"
         /\ parts'[x] = [parts[x] EXCEPT !.frameworks = ForRun(db.run_framework_links, run)]
      \/ /\ step[x] = "results" /\ step'[x] = "controls"
         /\ parts'[x] = [parts[x] EXCEPT !.results = ForRun(db.control_results, run)]
      \/ /\ step[x] = "controls" /\ step'[x] = "evidence"
         /\ parts'[x] = [parts[x] EXCEPT !.controls = ForRun(db.run_control_links, run)]
      \/ /\ step[x] = "evidence" /\ step'[x] = "render"
         /\ parts'[x] = [parts[x] EXCEPT !.evidence = ForRun(db.run_evidence_links, run)]
  BY DEF ReadFrameworks, ReadResults, ReadControls, ReadEvidence, Select, ExportInv, ExportTyped
<1>7. parts'[x].run_id = run /\ parts'[x].executed_at = parts[x].executed_at
  BY <1>3, <1>6 DEF Parts
<1>8. /\ HasFrameworks(x)' => \/ HasFrameworks(x) /\ parts'[x].frameworks = parts[x].frameworks
                              \/ parts'[x].frameworks = ForRun(db.run_framework_links, run)
      /\ HasResults(x)' => \/ HasResults(x) /\ parts'[x].results = parts[x].results
                           \/ parts'[x].results = ForRun(db.control_results, run)
      /\ HasControls(x)' => \/ HasControls(x) /\ parts'[x].controls = parts[x].controls
                            \/ parts'[x].controls = ForRun(db.run_control_links, run)
      /\ HasEvidence(x)' => parts'[x].evidence = ForRun(db.run_evidence_links, run)
  BY <1>2, <1>3, <1>6 DEF Parts, HasFrameworks, HasResults, HasControls, HasEvidence
<1>. HIDE DEF run
<1>9. PartsCommitted(x)'
  <2>1. LatestRuns' = LatestRuns
    BY <1>1 DEF LatestRuns
  <2>2. HasFrameworks(x)' => parts'[x].frameworks \in {FrameworkLinks(k) : k \in Own(run)}
    BY <1>1, <1>2, <1>3, <1>5, <1>8 DEF PartsCommitted, run
  <2>3. HasResults(x)' => parts'[x].results \in {ResultRows(k) : k \in Own(run)}
    BY <1>1, <1>2, <1>3, <1>5, <1>8 DEF PartsCommitted, run
  <2>4. HasControls(x)' => parts'[x].controls \in {ControlLinks(k) : k \in Own(run)}
    BY <1>1, <1>2, <1>3, <1>5, <1>8 DEF PartsCommitted, run
  <2>5. HasEvidence(x)' => {l.evidence_id : l \in parts'[x].evidence} \in
                             {{e.id : e \in Elements(k.evidence)} : k \in Own(run)}
    BY <1>5, <1>8
  <2>6. run \in LatestRuns \ {Blank} /\ validated'[x] \in {Blank, run}
    BY <1>1, <1>2, <1>3 DEF PartsCommitted, run
  <2>. QED  BY <1>7, <2>1, <2>2, <2>3, <2>4, <2>5, <2>6 DEF PartsCommitted
<1>10. PartsCurrent(x)'
  BY <1>1, <1>2, <1>3, <1>7, <1>8 DEF PartsCurrent, run
<1>11. ValidationCurrent(x)'
  BY <1>1, <1>3, <1>7 DEF ValidationCurrent, Resolves, run
<1>. QED  BY <1>9, <1>10, <1>11

\* The end of an export, and the calls that end without one.
LEMMA EndKeepsExport ==
  ASSUME DatabaseInv, ExportInv, NEW x \in Exporter,
         MissingRun(x) \/ Render(x) \/ ReadFails(x) \/ Release(x)
  PROVE  PartsCommitted(x)' /\ PartsCurrent(x)' /\ ValidationCurrent(x)'
<1>1. CASE MissingRun(x) \/ ReadFails(x) \/ Release(x)
  <2>1. step'[x] = "idle" /\ verdict'[x] # "artifact" /\ validated'[x] = Blank
    BY <1>1 DEF MissingRun, ReadFails, Release, StartExport, ExportInv, ExportTyped
  <2>. QED  BY <2>1, IdleExport DEF ValidationCurrent
<1>2. CASE Render(x)
  <2>1. /\ step[x] = "render" /\ step'[x] = "idle"
        /\ verdict'[x] \in {"artifact", "unsupported format"}
        /\ UNCHANGED <<vars, store, parts, validated, quiet>>
    BY <1>2 DEF Render, ExportInv, ExportTyped
  <2>2. At(x) = "render" /\ At(x)' \in {"render", "idle"}
    BY <2>1 DEF At, Exported
  <2>3. PartsCommitted(x) /\ PartsCurrent(x) /\ ValidationCurrent(x)
    BY DEF ExportInv
  <2>4. PartsCommitted(x)'
    BY <2>1, <2>2, <2>3 DEF PartsCommitted, HasFrameworks, HasResults, HasControls, HasEvidence,
                            LatestRuns, Own, vars
  <2>5. PartsCurrent(x)' /\ ValidationCurrent(x)'
    BY <2>1, <2>2, <2>3 DEF PartsCurrent, ValidationCurrent, HasFrameworks, HasResults,
                            HasControls, HasEvidence, Resolves, vars
  <2>. QED  BY <2>4, <2>5
<1>. QED  BY <1>1, <1>2

\* What an exporter holds is committed, and current while nobody commits its run.
THEOREM ExportInvariant == ExportSpec => []ExportInv
<1>1. ExportInit => ExportInv
  BY BlankIsText DEF ExportInit, ExportInv, ExportTyped, ExportSteps, Verdicts, Parts, NoParts,
     PartsCommitted, PartsCurrent, ValidationCurrent, At, Exported
<1>2. DatabaseInv /\ ExportInv /\ [OwnWritesOnly]_vars /\ [ExportNext]_allVars => ExportInv'
  <2>. SUFFICES ASSUME DatabaseInv, ExportInv, [OwnWritesOnly]_vars, [ExportNext]_allVars
                PROVE  ExportInv'
    OBVIOUS
  <2>. DEFINE Kept(x) == PartsCommitted(x)' /\ PartsCurrent(x)' /\ ValidationCurrent(x)'
  <2>1. ExportTyped'
    BY ExportStaysTyped DEF ExportInv
  <2>2. CASE WriterStep
    BY <2>1, <2>2, WriterKeepsExports DEF ExportInv
  <2>3. CASE UNCHANGED allVars
    <3>1. \A x \in Exporter : Kept(x)
      BY <2>3, OtherExportsStay DEF allVars, exportVars
    <3>. QED  BY <2>1, <3>1 DEF ExportInv
  <2>4. ASSUME NEW x \in Exporter, ExportStep(x) PROVE ExportInv'
    <3>1. Kept(x)
      BY <2>4, ValidateKeepsExport, ReadRunKeepsExport, SelectKeepsExport, EndKeepsExport
         DEF ExportStep, ExportInv
    <3>2. ASSUME NEW y \in Exporter, y # x PROVE Kept(y)
      <4>1. /\ UNCHANGED <<vars, store>>
            /\ step'[y] = step[y] /\ parts'[y] = parts[y] /\ verdict'[y] = verdict[y]
            /\ validated'[y] = validated[y] /\ quiet'[y] = quiet[y]
        BY <2>4, <3>2 DEF ExportInv, ExportTyped, ExportStep, Validate, MissingRun, ReadRun,
           StartExport, ReadFrameworks, ReadResults, ReadControls, ReadEvidence, Select, Render,
           ReadFails, Release
      <4>. QED  BY <4>1, OtherExportsStay
    <3>. QED  BY <2>1, <3>1, <3>2 DEF ExportInv
  <2>. QED  BY <2>2, <2>3, <2>4 DEF ExportNext
<1>3. ExportSpec => [][OwnWritesOnly]_vars
  BY ExportsOnlyRead, Isolation, PTL DEF OnlyItsOwnWriteChangesARun
<1>. QED  BY <1>1, <1>2, <1>3, DatabaseBesideExports, PTL DEF ExportSpec

\* Every variable of the export keeps its type (ExportTypeOK).
THEOREM ExportTypeCorrect == ExportSpec => []ExportTypeOK
<1>1. ExportInv => ExportTypeOK
  BY DEF ExportInv, ExportTyped, Parts, ExportTypeOK
<1>. QED  BY <1>1, ExportInvariant, PTL

\* Each part of an export is what some corpus of its run was stored as, never a
\* mixture with a draft (PartsAreCommitted).
THEOREM ExportsCommittedParts == ExportSpec => []PartsAreCommitted
<1>1. ExportInv => PartsAreCommitted
  BY DEF ExportInv, PartsCommitted, PartsAreCommitted, At, HasFrameworks, HasResults, HasControls,
         HasEvidence, Own
<1>. QED  BY <1>1, ExportInvariant, PTL

\* An export during which nobody commits its run is the run's last committed
\* corpus (QuietExportIsExact).
THEOREM QuietExportsExact == ExportSpec => []QuietExportIsExact
<1>1. DatabaseInv /\ ExportInv => QuietExportIsExact
  <2>. SUFFICES ASSUME DatabaseInv, ExportInv, NEW x \in Exporter, Exported(x), quiet[x]
                PROVE  /\ \E c \in latest : PartsOf(parts[x], c)
                       /\ [id |-> parts[x].run_id, executed_at |-> parts[x].executed_at] \in db.scan_runs
                       /\ parts[x].evidence = ForRun(db.run_evidence_links, parts[x].run_id)
    BY DEF QuietExportIsExact
  <2>1. At(x) = "render" /\ quiet[x] = TRUE
    BY DEF At, ExportInv, ExportTyped
  <2>2. HasFrameworks(x) /\ HasResults(x) /\ HasControls(x) /\ HasEvidence(x)
    BY <2>1 DEF HasFrameworks, HasResults, HasControls, HasEvidence
  <2>3. parts[x].run_id \in LatestRuns
    BY <2>1 DEF ExportInv, PartsCommitted
  <2>4. /\ [id |-> parts[x].run_id, executed_at |-> parts[x].executed_at] \in db.scan_runs
        /\ parts[x].frameworks = ForRun(db.run_framework_links, parts[x].run_id)
        /\ parts[x].results = ForRun(db.control_results, parts[x].run_id)
        /\ parts[x].controls = ForRun(db.run_control_links, parts[x].run_id)
        /\ parts[x].evidence = ForRun(db.run_evidence_links, parts[x].run_id)
    BY <2>1, <2>2 DEF ExportInv, PartsCurrent
  <2>5. PICK c \in latest :
          /\ c \in Own(parts[x].run_id)
          /\ parts[x].frameworks = FrameworkLinks(c)
          /\ parts[x].results = ResultRows(c)
          /\ parts[x].controls = ControlLinks(c)
          /\ {l.evidence_id : l \in parts[x].evidence} = {e.id : e \in Elements(c.evidence)}
    BY <2>3, <2>4, RunRowsAreOwn
  <2>6. PartsOf(parts[x], c)
    BY <2>5 DEF PartsOf, Own
  <2>. QED  BY <2>4, <2>6
<1>. QED  BY <1>1, ExportInvariant, DatabaseBesideExports, PTL

\* A run validated and then exported, with no commit of it in between, exports
\* only evidence the store vouches for (ValidatedExportMatchesStore).
THEOREM ValidatedExportsMatch == ExportSpec => []ValidatedExportMatchesStore
<1>1. ExportInv => ValidatedExportMatchesStore
  <2>. SUFFICES ASSUME ExportInv, NEW x \in Exporter, Exported(x), quiet[x],
                       validated[x] = parts[x].run_id, NEW l \in parts[x].evidence
                PROVE  Resolves(l)
    BY DEF ValidatedExportMatchesStore
  <2>1. At(x) = "render" /\ quiet[x] = TRUE /\ HasEvidence(x)
    BY DEF At, HasEvidence, ExportInv, ExportTyped
  <2>2. parts[x].run_id # Blank
    BY <2>1 DEF ExportInv, PartsCommitted
  <2>3. /\ [id |-> parts[x].run_id, executed_at |-> parts[x].executed_at] \in db.scan_runs
        /\ parts[x].evidence = ForRun(db.run_evidence_links, parts[x].run_id)
    BY <2>1 DEF ExportInv, PartsCurrent
  <2>. QED  BY <2>1, <2>2, <2>3 DEF ExportInv, ValidationCurrent
<1>. QED  BY <1>1, ExportInvariant, PTL

=============================================================================
