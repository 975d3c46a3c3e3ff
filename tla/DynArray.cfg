SPECIFICATION Spec
CONSTANTS
  Values = {a, b, c}
  Raw = Raw
  Moved = Moved
  Blank = Blank
  NoCall = NoCall
  MaxLength = 4
INVARIANT Lifetimes
PROPERTY SequenceSpec
CHECK_DEADLOCK FALSE
VIEW AllButCall
SYMMETRY Symmetry
