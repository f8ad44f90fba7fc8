SPECIFICATION AgentSpec
CONSTANTS
  CommandLines <- MCCommandLines
  Catalogs <- MCCatalogs
  ControlLists <- MCControlLists
  Machines <- MCMachines
  Rank <- MCRank
  LinesPerPage = 4
  ReportLines <- MCReportLines
  Paths <- MCPaths
  Scores <- MCScores
  ValidRuns = {"r1"}
  ValidStamps = {"t"}
  Content <- MCContent
  OtherBatches <- MCOtherBatches
INVARIANTS
  AgentTypeOK
  UsageErrorsAreHostIndependent
  ExitCodeTellsTheOutcome
  ReportedEvidenceIsStored
  ReportSectionsAgree
  ReportedStoreIsShown
