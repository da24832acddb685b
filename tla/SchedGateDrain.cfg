SPECIFICATION HealthySpec
CONSTANTS
  NumTasks = 2
  NumGradients = 1
  Cycles = 1
  StallWindow <- MCWindow
  Serialize = TRUE
  ResourceFailures = FALSE
CHECK_DEADLOCK FALSE
PROPERTY OrphansDrain
