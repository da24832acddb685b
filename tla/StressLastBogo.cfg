SPECIFICATION Spec
CONSTANTS
  Stressors = 1
  Instances = 2
  MaxOps = 1
  Timed = {1}
  MayHang = FALSE
  Failures = TRUE
  MayStop = FALSE
CHECK_DEADLOCK FALSE
INVARIANT LastBogoIsTotal
