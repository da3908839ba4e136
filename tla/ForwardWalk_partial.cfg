SPECIFICATION Spec
CONSTANTS
  NLayers = 4
  NPin = 0
  NSlot = 2
  NChunk = 2
  BadLayers = {}
  NBound = 2
  Retry = FALSE
INVARIANT ComputeSeesOwnLayer
