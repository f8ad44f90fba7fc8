SPECIFICATION Spec
CONSTANTS
  Connection = {w1, w2}
  Nobody = nobody
  Corpora <- MCCorporaWithTwice
  LegacyGaps <- MCNoLegacyGaps
INVARIANTS
  GapsAgreeWithResults
