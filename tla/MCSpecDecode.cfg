SPECIFICATION Spec
CONSTANTS
  Vocab <- MCVocab
  Archs <- MCArchs
  Argmax <- MCArgmax
  Prompts <- MCPrompts
  Gens = {0, 6}
  SpecN = 3
  Modes = {"recompute", "serial", "ngram", "hybrid"}
  MaxRuns = 2
INVARIANTS
  StateIsPrefix
  SavedIsResumable
  InBounds
  DraftInStep
PROPERTY EmittedIsGreedy
CHECK_DEADLOCK FALSE
