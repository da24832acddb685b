SPECIFICATION Spec
CONSTANTS
  Jobs = 2
  Callbacks = {c1}
  DeadlineInUse = FALSE
  Rearms = TRUE
  OnDelete = "waits"
  Duration = FALSE
  Prompt = TRUE
  Failures = FALSE
CHECK_DEADLOCK FALSE
INVARIANT ReportsEndedJobs
