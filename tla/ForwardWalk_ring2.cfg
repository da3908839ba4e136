SPECIFICATION Spec
CONSTANTS
  NLayers = 6
  NPin = 2
  NSlot = 2
  NChunk = 3
  BadLayers = {}
  NBound = 6
  Retry = FALSE
INVARIANT
  ComputeSeesOwnLayer
PROPERTY ImplementsLayerFeed
