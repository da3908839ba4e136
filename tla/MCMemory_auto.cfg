SPECIFICATION MCSpec
CONSTANTS
  NLayers = 3
  Align = 4
  Sizes = {4}
  Widens = {0}
  Budgets = {8}
  MaxPrompt = 32768
  MaxGen = 4096
  Cfgs <- MCReleased
  Requests <- MCRequests
  Machines <- MCMachines
  Lengths <- MCLengths
INVARIANT AutoStarts
CHECK_DEADLOCK FALSE
