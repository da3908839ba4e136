SPECIFICATION MCSpec
CONSTANTS
  NLayers = 3
  Align = 4
  Sizes = {4, 8, 12, 20}
  Widens = {0, 4}
  Budgets = {8, 12, 16, 24, 28, 32, 36, 40, 48, 56, 64, 72, 80}
  MaxPrompt = 32768
  MaxGen = 4096
  Cfgs <- MCCfgs
  Requests <- MCRequests
  Machines <- MCMachines
  Lengths <- MCLengths
INVARIANTS
  
  
  
  ScratchFits
CHECK_DEADLOCK FALSE
