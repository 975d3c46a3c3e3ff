------------------------------ MODULE BitBytes ------------------------------
(***************************************************************************)
(* The arithmetic on bytes of peff::BitArray (containers/bitarray.h); the  *)
(* code of peff::BitSet (containers/bitset.h) is the same.  A byte is the  *)
(* set of its bits that are 1, so that & is \cap and | is \cup; shifts     *)
(* drop what leaves the byte, as conversions to uint8_t do.  The width of  *)
(* a byte, 8, is a parameter.                                              *)
(***************************************************************************)
EXTENDS Integers

CONSTANT ByteBits

ASSUME ByteAssumption == ByteBits \in Nat \ {0}

Byte == 0 .. ByteBits - 1
Bytes == SUBSET Byte

Shl(b, n) == {j + n : j \in b} \cap Byte
Shr(b, n) == {j - n : j \in b} \cap Byte
Not(b) == Byte \ b
Low(n) == Shr(Byte, ByteBits - n)     \* 0xff >> (8 - n)

IndexOf(at) == at \div ByteBits
OffsetOf(at) == at % ByteBits
BytesFor(bits) == (bits + ByteBits - 1) \div ByteBits

IsOne(buffer, at) == OffsetOf(at) \in buffer[IndexOf(at)]

SetBit(buffer, at) == [buffer EXCEPT ![IndexOf(at)] = @ \cup Shl({0}, OffsetOf(at))]
ClearBit(buffer, at) ==
  [buffer EXCEPT ![IndexOf(at)] = @ \cap Not(Shl({0}, OffsetOf(at)))]

(* _set_byte: the lowest n bits of b, which may end in the next byte; b is *)
(* not masked.                                                             *)
Crosses(at, n) == IndexOf(at + n - 1) # IndexOf(at)

SetByte_NoCarry(buffer, at, b, n) ==
  [buffer EXCEPT ![IndexOf(at)] =
     (@ \cap Not(Shl(Low(n), OffsetOf(at)))) \cup Shl(b, OffsetOf(at))]
SetByte(buffer, at, b, n) ==
  LET i == IndexOf(at)
      o == OffsetOf(at)
      rest == n - (ByteBits - o)
  IN IF ~Crosses(at, n)
     THEN [buffer EXCEPT ![i] = (@ \cap Not(Shl(Low(n), o))) \cup Shl(b, o)]
     ELSE [buffer EXCEPT
             ![i] = (@ \cap Low(o)) \cup Shl(b, o),
             ![i + 1] = (@ \cap Shl(Byte, rest)) \cup Shr(b, ByteBits - o)]

(* _get_byte. *)
GetByte_HighOnly(buffer, at, n) == Shr(buffer[IndexOf(at)], OffsetOf(at)) \cap Low(n)
GetByte(buffer, at, n) ==
  LET low == Shr(buffer[IndexOf(at)], OffsetOf(at))
      high == Shl(buffer[IndexOf(at) + 1], ByteBits - OffsetOf(at))
  IN (IF Crosses(at, n) THEN low \cup high ELSE low) \cap Low(n)

(* fill_set and fill_clear.  The middle is memset; its length is unsigned. *)
FillStart(at) == IndexOf(at + ByteBits - 1)
FillUnderflows(at, n) == IndexOf(at + n) < FillStart(at)
Middle(at, n) == FillStart(at) .. IndexOf(at + n) - 1

(* first and last are what becomes of the byte in which the range begins   *)
(* and of the one in which it ends, unless they are whole.                 *)
Fill(buffer, at, n, first(_), middle, last(_)) ==
  LET begun == IF OffsetOf(at) = 0 THEN buffer
               ELSE [buffer EXCEPT ![IndexOf(at)] = first(@)]
      filled == [i \in DOMAIN buffer |-> IF i \in Middle(at, n) THEN middle ELSE begun[i]]
  IN IF OffsetOf(at + n) = 0 THEN filled
     ELSE [filled EXCEPT ![IndexOf(at + n)] = last(@)]

FillSet(buffer, at, n) ==
  Fill(buffer, at, n, LAMBDA b : b \cup Shl(Byte, OffsetOf(at)),
       Byte, LAMBDA b : b \cup Low(OffsetOf(at) + 1))
FillClear(buffer, at, n) ==
  Fill(buffer, at, n, LAMBDA b : b \cap Low(OffsetOf(at) + 1),
       {}, LAMBDA b : b \cap Shl(Byte, OffsetOf(at)))
=============================================================================
