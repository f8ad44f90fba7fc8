SPECIFICATION ExportSpec
CONSTANTS
  Connection = {w1}
  Nobody = nobody
  Exporter = {x1}
  Corpora <- MCCorpora
  LegacyGaps <- MCNoLegacyGaps
  StoreIndexes <- MCStoreIndexes
INVARIANTS
  NoExportOfMismatchedEvidence
