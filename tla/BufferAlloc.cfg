SPECIFICATION FairSpec
CONSTANTS
  Base = 1
  BufferSize = 12
  DescSize = 2
  DescAlign = 2
  Sizes = {0, 1, 4}
  Alignments = {1, 3}
  Resizes <- Growing
  NullPtr = NullPtr
INVARIANT TypeOK
INVARIANT NoOverlap
INVARIANT AllPlaced
PROPERTY SearchIsExact
PROPERTY NoStrayWrite
PROPERTY SearchEnds
PROPERTY ArenaSpec
CHECK_DEADLOCK FALSE
