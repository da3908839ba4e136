SPECIFICATION FairSpec
CONSTANTS
  MaxIter = 5
  MaxRetries = 2
  MaxRepair = 3
  MaxReflections = 2
  Plans <- MCPlans
  ToolErrors = {"TOOL_ERROR", "TIMEOUT", "NETWORK_ERROR", "INVALID_ARGUMENT", "PERMISSION_ERROR", "FILE_NOT_FOUND"}
  Crashes = TRUE

  
PROPERTIES
  
  RunReturns
