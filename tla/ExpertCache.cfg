SPECIFICATION FairSpec
CONSTANTS
  NLayers = 2
  NExperts = 2
  NSlot = 3
  TopK = 2
  MaxTopK = 2
  BadKeys = {}
  MaxBatch = 2
  ReadsFail = TRUE
INVARIANT
  ServedBytes
PROPERTY
  BatchEnds
