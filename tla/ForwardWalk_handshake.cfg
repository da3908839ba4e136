SPECIFICATION FairSpec
CONSTANTS
  NLayers = 4
  NPin = 1
  NSlot = 2
  NChunk = 2
  BadLayers = {}
  NBound = 3
  Retry = TRUE
INVARIANT NoReadAfterFree
PROPERTIES
  BindAlwaysReturns
  CloseAlwaysReturns
