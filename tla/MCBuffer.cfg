\* Blocks and limits around the sizes at which the vector is compacted.
CONSTANTS
  a = a
  b = b
  Byte <- SomeBytes
  Blocks <- SomeBlocks
  Counts = {0, 1, 2, 4}
  Maxes = {2, 5}
  ResultLimit = 6
SPECIFICATION Spec
INVARIANTS
  WasteBounded
PROPERTIES
  QueueRefined
