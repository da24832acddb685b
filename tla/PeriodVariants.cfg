SPECIFICATION MCSpec
CONSTANTS
  Jobs = 3
  Callbacks = {c1, c2}
  DeadlineInUse = FALSE
  Rearms = TRUE
  OnDelete = "waits"
  Duration = TRUE
  Prompt = FALSE
  Failures = TRUE
CHECK_DEADLOCK FALSE
INVARIANTS NoLostWakeup DeadlineIsFirst SkipIsLater CallbackFailureIsRearm
PROPERTY OverlapTerminates
