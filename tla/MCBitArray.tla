----------------------------- MODULE MCBitArray -----------------------------
(* BitArray with three bits to the byte.                                   *)
EXTENDS BitArray

AllButCall == <<_num_bits, _capacity, _buffer, pc, sound>>
SampleBytes == {{}, {0, 2}, Byte}
=============================================================================
