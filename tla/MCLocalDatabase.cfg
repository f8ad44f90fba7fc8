SPECIFICATION FairSpec
CONSTANTS
  Connection = {w1, w2}
  Nobody = nobody
  Corpora <- MCCorpora
  LegacyGaps <- MCLegacyGaps
INVARIANTS
  TypeOK
  LatestCorpusIsStored
  SnapshotKeepsCorpusEvidence
  QueriesTellTheStoredRuns
  GapsAgreeWithResults
  ScoresAgreeWithResults
  ClassificationFollowsDigest
PROPERTIES
  OnlyItsOwnWriteChangesARun
  KnownFactsAreKept
  ImplementsCorpusStore
  CallsReturn
