CONSTANTS
  MaxParts = 1
  MaxData = 3
  PipeSize = 3
  ReadSize = 2
  SocketSize = 2
  HeaderLimit = 1
  HighWater = 4
  LowWater = 2
  ReadLimit = 3
  Limit = 20
  Timeouts = {"idle"}
SPECIFICATION Spec
PROPERTIES
  SlowCgiSurvives
CHECK_DEADLOCK FALSE
