SPECIFICATION CommandSpec
CONSTANTS
  Iterations = 3
  MqBlocks = {TRUE, FALSE}
  Concurrency = 3
  Turns = 2
  Creations = 2
  MayFail = {"father", "son", "tmp", "worker", "buffer", "queue"}
CHECK_DEADLOCK FALSE
INVARIANTS CommandTypeOK SendNeverBlocks ClocksSpanWork SemaphoresOutliveSons
PROPERTIES MeasuredAsDocumented NoMessageIsLost ObjectsOutliveThreads 
