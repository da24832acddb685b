SPECIFICATION MCSpec
CONSTANTS
  NumTasks = 1
  NumGradients = 2
  Cycles = 2
  StallWindow <- MCWindow
  Serialize = TRUE
  ResourceFailures = TRUE
  Registry <- MCRegistry
  MaxTasks = 3
  MaxGradients = 2
  UtilStart = 2
  UtilEnd = 4
  UtilStep = 1
  Whole = 4
  SeqCycles = 2
  Durations = {0, 2, 5}
  PowResults <- MCPowResults
  PowOne = 2
  Low = 0
  LongPeriod = 3
  MaxPeriod = 4
CHECK_DEADLOCK FALSE
INVARIANTS
  CompleteIsExact
  NoUnreapedThread
  ArraysOutliveManaged
  UtilizationsSumToTarget
PROPERTIES
  OrphansStartNoJob
  ImplementsSweep
  MissesAreExplained
  SequentialImplementsSweep
