SPECIFICATION MCSpec
CONSTANTS
  Stressors = 2
  Instances = 2
  MaxOps = 1
  Timed = {1}
  MayHang = TRUE
  Failures = TRUE
  MayStop = TRUE
  ContextThreads = 3
  ContextOps = 3
  ContextStops = TRUE
  ContextFailures = TRUE
CHECK_DEADLOCK FALSE
INVARIANTS NoUseAfterFree CountsOwnWorkers ResultIsTotal
INVARIANTS OpsWithinLimit NoRingUseAfterFree CleanupWithinMargin
PROPERTY BothEnd
