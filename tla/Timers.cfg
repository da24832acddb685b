SPECIFICATION MCSpec
CONSTANTS
  Platforms = {"sylixos", "oneos", "ruihua"}
  Contexts = {c1, c2}
CHECK_DEADLOCK FALSE
INVARIANTS NoUseAfterFree
PROPERTIES ImplementsTimer CallsReturn StartedTimerFires KernelImplementsTimer
