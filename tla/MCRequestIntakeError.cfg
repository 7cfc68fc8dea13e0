CONSTANTS
  ServerLimit = 8
  LocationLimit = 6
  MaxHeaders = 3
  Requests <- MissingOnly
  MaxRequests = 1
  RecvSize = 4
  SocketSize = 7
  PageSize = 2
  PieceSize = 2
  Pipelines = FALSE
  Faults = {}
  MayLeave = FALSE
SPECIFICATION Spec
INVARIANTS
  ErrorIsLast
