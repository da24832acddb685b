SPECIFICATION Spec
CONSTANTS
  Concurrency = 2
  Turns = 1
  Creations = 1
  MayFail = {"tmp"}
CHECK_DEADLOCK FALSE
PROPERTY FatherComesBack
