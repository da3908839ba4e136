SPECIFICATION MoeSpec
CONSTANTS
  NLayers = 1
  NExperts = 4
  NSlot = 3
  TopK = 2
  MaxTopK = 2
  BadKeys = {}
  MaxBatch = 2
  ReadsFail = TRUE
  NTokens = 2
INVARIANTS ExactOrCounted DraftUsesResident
