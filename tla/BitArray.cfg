SPECIFICATION Spec
CONSTANTS
  ByteBits = 3
  MaxBits = 7
  Samples <- SampleBytes
  NoCall = NoCall
VIEW AllButCall
INVARIANT ReadsExact
PROPERTY WritesExactly
CHECK_DEADLOCK FALSE
