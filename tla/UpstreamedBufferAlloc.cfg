SPECIFICATION Spec
CONSTANTS
  Base = 0
  BufferSize = 20
  DescSize = 2
  DescAlign = 2
  Alignments = {1}
  NullPtr = NullPtr
  Sizes = {1, 2, 3}
  Word = 2
  UpstreamSize = 9
INVARIANT BlocksGoHome
INVARIANT ContentsKept
CHECK_DEADLOCK FALSE
