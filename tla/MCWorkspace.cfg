SPECIFICATION WorkspaceSpec
CONSTANTS
  Files = {a, b}
  BaseOf <- MCBaseOf
  Prefixed <- MCPrefixed
  Contents = {x, y}
  Policies <- MCPolicies
  x = x
  y = y
  a = a
  b = b
  SameSecond = FALSE
  MaxSeq = 2
  MaxBackups = 3
  MaxTime = 1
SYMMETRY MCSymmetry
INVARIANTS  WholeText RollbackRestoresLatest
CHECK_DEADLOCK FALSE
