SPECIFICATION TwoCallsSpec
CONSTANTS
  NumTasks = 1
  NumGradients = 2
  Cycles = 1
  StallWindow <- MCWindow
  Serialize = TRUE
  ResourceFailures = FALSE
CHECK_DEADLOCK FALSE
INVARIANT GateMutex
