SPECIFICATION Spec
CONSTANTS
  Rank <- MCRank
  LinesPerPage = 3
  FrameworkEntries <- MCFrameworkEntries
  ControlEntries <- MCControlEntries
  ResultEntries <- MCResultEntries
  EvidenceEntries <- MCEvidenceEntries
  EarlierRuns <- MCEarlierRuns
  EarlierEvidence <- MCEarlierEvidence
  Seeds = {"alice", "bob"}
  MaxEntries = 5
  MaxSigned = 2
  MaxEdits = 2
CHECK_DEADLOCK FALSE
INVARIANTS
  FormatsAgree
  StoredRunExportsAlike
  RedactionSurvives
  VerdictsAreExact
  PdfIsReadable
