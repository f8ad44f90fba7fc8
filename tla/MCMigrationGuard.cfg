SPECIFICATION Spec
CONSTANTS
  Scripts <- MCScripts
  Gaps <- MCGaps
  CorpusTables <- MCCorpusTables
  CorpusColumns <- MCCorpusColumns
  Folded <- MCFolded
CHECK_DEADLOCK FALSE
INVARIANTS
  AppliedScriptsKeepTheSchema
  RefusalsNameTheFirstLoss
