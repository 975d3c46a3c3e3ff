SPECIFICATION Spec
CONSTANTS
  Keys = {0, 1, 2, 3, 4, 5, 6, 7, 9, 12, 15}
  KeyBits = 4
  ClzBits = 4
  MaxKeys = 4
  Null = Null
  NoCall = NoCall
INVARIANTS PathsSpellKeys QueriesExact DestructorExact
PROPERTY SetSpec
CHECK_DEADLOCK FALSE
VIEW AllButCall
