SPECIFICATION Spec
CONSTANTS
  Nodes = {1, 2, 3, 4}
  Null = Null
  Hash <- Hashes
  MaxSize = 6
  NoCall = NoCall
INVARIANTS BucketsWellFormed NodesPlaced IterationExact
PROPERTY SetSpec
VIEW AllButCall
CHECK_DEADLOCK FALSE
