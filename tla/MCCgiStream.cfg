\* One script of at most two header parts and five pieces of data, every limit
\* small enough to be reached, and both time limits.
CONSTANTS
  MaxParts = 2
  MaxData = 5
  PipeSize = 3
  ReadSize = 2
  SocketSize = 2
  HeaderLimit = 1
  HighWater = 4
  LowWater = 2
  ReadLimit = 3
  Limit = 20
  Timeouts = {"job", "idle"}
SPECIFICATION FairSpec
INVARIANTS
  Framed
  NothingLost
  KeptAfterWhole
  OutBounded
PROPERTIES
  StreamEnds
