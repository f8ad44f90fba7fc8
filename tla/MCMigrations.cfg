SPECIFICATION FairSpec
CONSTANTS
  Opener = {o1, o2}
  Nobody = nobody
  Origins <- MCOrigins
  NewRun <- MCNewRun
  Spelling <- MCSpelling
  Identities <- MCIdentities
  Width <- MCWidth
INVARIANTS
  TypeOK
  OpenedFileIsSettled
  SoundFilesOpen
  OpenedRunsAreComplete
  RecoveredFieldsAreTrue
  RepairedScoresMatchResults
PROPERTIES
  LegacyDataIsKept
  OpenedFileNeverMigrates
  OpensReturn
