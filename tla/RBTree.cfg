SPECIFICATION Spec
CONSTANTS
  Keys = {1, 2, 3, 4, 5, 6, 7, 8, 9, 10}
  Null = Null
  NoCall = NoCall
INVARIANTS TreeShape Balance QueriesExact
PROPERTY SetSpec
CHECK_DEADLOCK FALSE
