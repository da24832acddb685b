SPECIFICATION FairSpec
CONSTANTS
  NumTasks = 2
  NumGradients = 1
  Cycles = 2
  StallWindow <- MCUnevenWindow
  Serialize = TRUE
  ResourceFailures = TRUE
CHECK_DEADLOCK FALSE
INVARIANTS
  TypeOK
  GateMutex
  NoContextUseAfterFree
  SuppressedWhileManaged
PROPERTIES OnlyStalledIsCut SweepReturns
