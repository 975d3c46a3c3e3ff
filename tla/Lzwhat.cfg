SPECIFICATION Spec
CONSTANTS
  Letters = {1, 2}
  MaxInput = 9
  DictSize = 4
  EncodeSize = 4
INVARIANT RoundTrip
INVARIANT WindowExact
INVARIANT VarintExact
PROPERTY Finishes
CHECK_DEADLOCK FALSE
