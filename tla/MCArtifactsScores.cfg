SPECIFICATION Spec
CONSTANTS
  Rank <- MCRank
  LinesPerPage = 3
  FrameworkEntries <- MCFrameworkEntries
  ControlEntries <- MCControlEntries
  ResultEntries <- MCResultEntries
  EvidenceEntries <- MCEvidenceEntries
  EarlierRuns <- MCEarlierRuns
  EarlierEvidence <- MCEarlierEvidence
  Seeds = {"alice", "bob"}
  MaxEntries = 3
  MaxSigned = 0
  MaxEdits = 0
CHECK_DEADLOCK FALSE
INVARIANTS
  ScoresTellFrameworksApart
