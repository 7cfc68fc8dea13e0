CONSTANTS
  ServerLimit = 8
  LocationLimit = 6
  MaxHeaders = 3
  Requests <- AllRequests
  MaxRequests = 2
  RecvSize = 4
  SocketSize = 7
  PageSize = 2
  PieceSize = 2
  Pipelines = TRUE
  Faults = {"open", "write", "reopen", "pipe"}
  MayLeave = TRUE
SPECIFICATION Spec
INVARIANTS
  AnswersRight
  BodyAccounted
  NoStall
  SpoolRemoved
