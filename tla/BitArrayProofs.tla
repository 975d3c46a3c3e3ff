--------------------------- MODULE BitArrayProofs ---------------------------
(***************************************************************************)
(* Proofs about BitArray, for bytes of any width and arrays of any size:   *)
(* reads return what the array holds, and calls write exactly their range. *)
(* First, what the byte arithmetic does to single bits: a read returns,    *)
(* and a write changes, the bits of its range and no others, wherever in a *)
(* byte the range begins and ends.  Then the inductive invariant, Fits: as *)
(* long as no call of the kind that sound excludes was made, the buffer is *)
(* whole bytes, as many as the capacity says, and the bits fit.            *)
(***************************************************************************)
EXTENDS BitArray, TLAPS

-----------------------------------------------------------------------------
(* The byte arithmetic. *)

(* A larger quotient is a product larger by at least the divisor. *)
LEMMA ProductGrows ==
  ASSUME NEW a \in Nat \ {0}, NEW p \in Int, NEW q \in Int, p < q
  PROVE  a * q >= a * p + a
<1>1. q - p - 1 \in Nat
  OBVIOUS
<1>2. a * (q - p - 1) >= 0
  BY <1>1
<1>3. a * (q - p - 1) = a * q - a * p - a
  OBVIOUS
<1>4. a * q \in Int /\ a * p \in Int
  OBVIOUS
<1>5. QED
  BY <1>2, <1>3, <1>4

(* Quotient and remainder are determined by n = a * q + r with r < a. *)
LEMMA DivisionUnique ==
  ASSUME NEW a \in Nat \ {0}, NEW p \in Int, NEW q \in Int,
         NEW r \in 0 .. a - 1, NEW s \in 0 .. a - 1, a * p + r = a * q + s
  PROVE  p = q /\ r = s
<1>1. a * p \in Int /\ a * q \in Int
  OBVIOUS
<1>2. ~(p < q)
  <2>1. SUFFICES ASSUME p < q PROVE FALSE
    OBVIOUS
  <2>2. a * q >= a * p + a
    BY <2>1, ProductGrows
  <2>3. QED
    BY <1>1, <2>2
<1>3. ~(q < p)
  <2>1. SUFFICES ASSUME q < p PROVE FALSE
    OBVIOUS
  <2>2. a * p >= a * q + a
    BY <2>1, ProductGrows
  <2>3. QED
    BY <1>1, <2>2
<1>4. p = q
  BY <1>2, <1>3
<1>5. QED
  BY <1>1, <1>4

(* A position is a byte and a bit of it. *)
LEMMA PositionSplits ==
  ASSUME NEW p \in Nat
  PROVE  /\ IndexOf(p) \in Nat /\ OffsetOf(p) \in Byte
         /\ ByteBits * IndexOf(p) \in Int
         /\ p = ByteBits * IndexOf(p) + OffsetOf(p)
<1>1. ByteBits \in Nat \ {0}
  BY ByteAssumption
<1>2. /\ p \div ByteBits \in Nat /\ p % ByteBits \in 0 .. ByteBits - 1
      /\ p = ByteBits * (p \div ByteBits) + (p % ByteBits)
  BY <1>1
<1>3. ByteBits * (p \div ByteBits) \in Int
  BY <1>1, <1>2
<1>4. QED
  BY <1>2, <1>3 DEF IndexOf, OffsetOf, Byte

LEMMA PositionOf ==
  ASSUME NEW i \in Nat, NEW o \in Byte
  PROVE  /\ ByteBits * i + o \in Nat
         /\ IndexOf(ByteBits * i + o) = i /\ OffsetOf(ByteBits * i + o) = o
<1>1. ByteBits \in Nat \ {0} /\ o \in 0 .. ByteBits - 1
  BY ByteAssumption DEF Byte
<1>2. ByteBits * i \in Nat
  BY <1>1
<1>3. PICK p \in Nat : p = ByteBits * i + o
  BY <1>1, <1>2
<1>4. /\ IndexOf(p) \in Nat /\ OffsetOf(p) \in Byte
      /\ p = ByteBits * IndexOf(p) + OffsetOf(p)
  BY PositionSplits
<1>5. IndexOf(p) = i /\ OffsetOf(p) = o
  BY <1>1, <1>3, <1>4, DivisionUnique DEF Byte
<1>6. QED
  BY <1>3, <1>5

(* How far two positions are apart, by the bytes they are in. *)
LEMMA Distance ==
  ASSUME NEW at \in Nat, NEW p \in Nat
  PROVE  LET d == OffsetOf(p) - OffsetOf(at)
         IN /\ IndexOf(p) < IndexOf(at) => p - at <= d - ByteBits
            /\ IndexOf(p) = IndexOf(at) => p - at = d
            /\ IndexOf(p) = IndexOf(at) + 1 => p - at = ByteBits + d
            /\ IndexOf(p) > IndexOf(at) + 1 => p - at >= 2 * ByteBits + d
<1> DEFINE i == IndexOf(at)
           q == IndexOf(p)
<1>1. /\ i \in Nat /\ q \in Nat
      /\ OffsetOf(at) \in Int /\ OffsetOf(p) \in Int
      /\ at = ByteBits * i + OffsetOf(at) /\ p = ByteBits * q + OffsetOf(p)
      /\ ByteBits \in Nat \ {0}
  BY PositionSplits, ByteAssumption DEF Byte
<1> HIDE DEF i, q
<1>2. /\ ByteBits * i \in Int /\ ByteBits * q \in Int
      /\ ByteBits * (i + 1) = ByteBits * i + ByteBits
  BY <1>1
<1>3. CASE q < i
  <2>1. ByteBits * i >= ByteBits * q + ByteBits
    BY <1>1, <1>3, ProductGrows
  <2>2. QED
    BY <1>1, <1>2, <1>3, <2>1 DEF i, q
<1>4. CASE q = i
  BY <1>1, <1>2, <1>4 DEF i, q
<1>5. CASE q = i + 1
  BY <1>1, <1>2, <1>5 DEF i, q
<1>6. CASE q > i + 1
  <2>1. ByteBits * q >= ByteBits * (i + 1) + ByteBits
    BY <1>1, <1>6, ProductGrows
  <2>2. QED
    BY <1>1, <1>2, <1>6, <2>1 DEF i, q
<1>7. QED
  BY <1>1, <1>3, <1>4, <1>5, <1>6 DEF i, q

LEMMA Widths ==
  ASSUME NEW at \in Nat, NEW n \in 1 .. ByteBits
  PROVE  /\ ByteBits \in Nat \ {0} /\ n \in Nat /\ n >= 1 /\ n <= ByteBits
         /\ OffsetOf(at) \in 0 .. ByteBits - 1 /\ IndexOf(at) \in Nat
BY PositionSplits, ByteAssumption DEF Byte

(* A range of at most a byte reaches the next byte or stays in its first.  *)
LEMMA CrossesWhen ==
  ASSUME NEW at \in Nat, NEW n \in 1 .. ByteBits
  PROVE  Crosses(at, n) <=> OffsetOf(at) + n > ByteBits
<1>1. /\ ByteBits \in Nat \ {0} /\ n \in Nat /\ n >= 1 /\ n <= ByteBits
      /\ OffsetOf(at) \in 0 .. ByteBits - 1 /\ IndexOf(at) \in Nat
      /\ at + n - 1 \in Nat
  BY PositionSplits, ByteAssumption DEF Byte
<1>2. PICK p \in Nat : p = at + n - 1
  BY <1>1
<1>3. IndexOf(p) \in Nat /\ OffsetOf(p) \in 0 .. ByteBits - 1
  BY PositionSplits DEF Byte
<1>4. LET d == OffsetOf(p) - OffsetOf(at)
      IN /\ IndexOf(p) < IndexOf(at) => p - at <= d - ByteBits
         /\ IndexOf(p) = IndexOf(at) => p - at = d
         /\ IndexOf(p) = IndexOf(at) + 1 => p - at = ByteBits + d
         /\ IndexOf(p) > IndexOf(at) + 1 => p - at >= 2 * ByteBits + d
  BY Distance
<1>5. p - at = n - 1
  BY <1>1, <1>2
<1>6. IndexOf(p) = IndexOf(at) <=> OffsetOf(at) + n <= ByteBits
  BY <1>1, <1>3, <1>4, <1>5
<1>7. QED
  BY <1>1, <1>2, <1>6 DEF Crosses

(* Shifts and masks, bit by bit. *)
LEMMA ShiftedBits ==
  ASSUME NEW b \in Bytes, NEW n \in 0 .. ByteBits, NEW k \in Byte
  PROVE  /\ k \in Shl(b, n) <=> k - n \in b
         /\ k \in Shr(b, n) <=> k + n \in b
         /\ k \in Low(n) <=> k < n
         /\ k \in Not(b) <=> k \notin b
<1>1. ByteBits \in Nat \ {0} /\ n \in Int /\ k \in Int /\ \A m \in b : m \in Int
  BY ByteAssumption DEF Bytes, Byte
<1>2. k \in Shl(b, n) <=> k - n \in b
  <2>1. ASSUME k - n \in b PROVE k \in Shl(b, n)
    <3>1. k = (k - n) + n
      BY <1>1
    <3>2. QED
      BY <2>1, <3>1 DEF Shl
  <2>2. ASSUME k \in Shl(b, n) PROVE k - n \in b
    <3>1. PICK m \in b : k = m + n
      BY <2>2 DEF Shl
    <3>2. k - n = m
      BY <1>1, <3>1
    <3>3. QED
      BY <3>2
  <2>3. QED
    BY <2>1, <2>2
<1>3. \A c \in Bytes, r \in 0 .. ByteBits : k \in Shr(c, r) <=> k + r \in c
  <2> SUFFICES ASSUME NEW c \in Bytes, NEW r \in 0 .. ByteBits
               PROVE  k \in Shr(c, r) <=> k + r \in c
    OBVIOUS
  <2>0. r \in Int /\ \A m \in c : m \in Int
    BY <1>1 DEF Bytes, Byte
  <2>1. ASSUME k + r \in c PROVE k \in Shr(c, r)
    <3>1. k = (k + r) - r
      BY <1>1, <2>0
    <3>2. QED
      BY <2>1, <3>1 DEF Shr
  <2>2. ASSUME k \in Shr(c, r) PROVE k + r \in c
    <3>1. PICK m \in c : k = m - r
      BY <2>2 DEF Shr
    <3>2. k + r = m
      BY <1>1, <2>0, <3>1
    <3>3. QED
      BY <3>2
  <2>3. QED
    BY <2>1, <2>2
<1>4. k \in Low(n) <=> k < n
  <2>1. Byte \in Bytes /\ ByteBits - n \in 0 .. ByteBits
    BY <1>1 DEF Bytes
  <2>2. k \in Shr(Byte, ByteBits - n) <=> k + (ByteBits - n) \in Byte
    BY <1>3, <2>1
  <2>3. QED
    BY <1>1, <2>2 DEF Low, Byte
<1>5. QED
  BY <1>2, <1>3, <1>4 DEF Not

-----------------------------------------------------------------------------
(* A buffer of m bytes. *)
Buffer(m) == [0 .. m - 1 -> Bytes]

(* Where the positions of a range of at most a byte lie. *)
InRange(p, at, n) == p - at >= 0 /\ p - at < n

LEMMA RangeByte ==
  ASSUME NEW at \in Nat, NEW n \in 1 .. ByteBits, NEW p \in Nat
  PROVE  LET d == OffsetOf(p) - OffsetOf(at)
         IN InRange(p, at, n) <=>
              \/ /\ IndexOf(p) = IndexOf(at)
                 /\ OffsetOf(p) >= OffsetOf(at) /\ OffsetOf(p) < OffsetOf(at) + n
              \/ /\ IndexOf(p) = IndexOf(at) + 1
                 /\ OffsetOf(p) < OffsetOf(at) + n - ByteBits
<1> DEFINE o == OffsetOf(at)
           op == OffsetOf(p)
           i == IndexOf(at)
           ip == IndexOf(p)
<1>1. /\ ByteBits \in Nat \ {0} /\ n \in Nat /\ n >= 1 /\ n <= ByteBits
      /\ o \in 0 .. ByteBits - 1 /\ op \in 0 .. ByteBits - 1
      /\ i \in Nat /\ ip \in Nat /\ p - at \in Int
  BY PositionSplits, ByteAssumption DEF Byte
<1>2. /\ ip < i => p - at <= op - o - ByteBits
      /\ ip = i => p - at = op - o
      /\ ip = i + 1 => p - at = ByteBits + op - o
      /\ ip > i + 1 => p - at >= 2 * ByteBits + op - o
  BY Distance, <1>1
<1> HIDE DEF o, op, i, ip
<1>3. InRange(p, at, n) <=> \/ ip = i /\ op >= o /\ op < o + n
                            \/ ip = i + 1 /\ op < o + n - ByteBits
  BY <1>1, <1>2 DEF InRange
<1>4. QED
  BY <1>3 DEF o, op, i, ip

(* A byte of the buffer that a range reaches is in the buffer. *)
LEMMA RangeInBuffer ==
  ASSUME NEW m \in Nat, NEW p \in Nat, p < m * ByteBits
  PROVE  IndexOf(p) \in 0 .. m - 1
<1>1. /\ IndexOf(p) \in Nat /\ OffsetOf(p) \in 0 .. ByteBits - 1
      /\ p = ByteBits * IndexOf(p) + OffsetOf(p)
      /\ ByteBits \in Nat \ {0} /\ ByteBits * IndexOf(p) \in Int
  BY PositionSplits, ByteAssumption DEF Byte
<1>2. m * ByteBits = ByteBits * m /\ ByteBits * m \in Int
  BY <1>1
<1>3. ~(m <= IndexOf(p))
  <2>1. SUFFICES ASSUME m <= IndexOf(p) PROVE FALSE
    OBVIOUS
  <2>2. m = IndexOf(p) \/ ByteBits * IndexOf(p) >= ByteBits * m + ByteBits
    BY <1>1, <2>1, ProductGrows
  <2>3. QED
    BY <1>1, <1>2, <2>2
<1>4. QED
  BY <1>1, <1>3

LEMMA NextInBuffer ==
  ASSUME NEW m \in Nat, NEW at \in Nat, NEW n \in 1 .. ByteBits,
         at + n <= m * ByteBits, Crosses(at, n)
  PROVE  IndexOf(at) + 1 \in 0 .. m - 1
<1> DEFINE i == IndexOf(at)
<1>1. ByteBits \in Nat \ {0} /\ n \in Nat /\ n >= 1 /\ n <= ByteBits
  BY Widths
<1>2. m * ByteBits \in Int
  BY <1>1
<1>3. PICK p \in Nat : p = at + n - 1
  BY <1>1
<1>4. IndexOf(p) \in 0 .. m - 1
  BY <1>1, <1>2, <1>3, RangeInBuffer
<1>5. InRange(p, at, n)
  BY <1>1, <1>3 DEF InRange
<1>6. IndexOf(p) = i \/ IndexOf(p) = i + 1
  BY <1>5, RangeByte
<1>7. IndexOf(p) # i
  BY <1>3 DEF Crosses
<1>8. QED
  BY <1>4, <1>6, <1>7

(* get_byte returns the bits of its range, also over the end of a byte. *)
LEMMA GetByteReads ==
  ASSUME NEW m \in Nat, NEW buffer \in Buffer(m),
         NEW at \in Nat, NEW n \in 1 .. ByteBits, at + n <= m * ByteBits
  PROVE  GetByte(buffer, at, n) = {k \in 0 .. n - 1 : IsOne(buffer, at + k)}
<1> DEFINE o == OffsetOf(at)
           i == IndexOf(at)
<1>1. /\ ByteBits \in Nat \ {0} /\ n \in Nat /\ n >= 1 /\ n <= ByteBits
      /\ o \in 0 .. ByteBits - 1 /\ i \in Nat
  BY Widths
<1>0. m * ByteBits \in Int
  BY <1>1
<1>2. i \in 0 .. m - 1
  BY <1>0, <1>1, RangeInBuffer
<1>3. Crosses(at, n) <=> o + n > ByteBits
  BY CrossesWhen
<1>4. Crosses(at, n) => i + 1 \in 0 .. m - 1
  BY NextInBuffer
<1>5. ASSUME NEW k \in Byte
      PROVE  k \in GetByte(buffer, at, n) <=>
               k < n /\ IsOne(buffer, at + k)
  <2>1. k \in 0 .. ByteBits - 1
    BY DEF Byte
  <2>2. PICK p \in Nat : p = at + k
    BY <2>1
  <2>3. /\ OffsetOf(p) \in 0 .. ByteBits - 1
        /\ IndexOf(p) = i => OffsetOf(p) = o + k
        /\ IndexOf(p) = i + 1 => OffsetOf(p) = o + k - ByteBits
        /\ IndexOf(p) = i \/ IndexOf(p) = i + 1
    <3>1. InRange(p, at, ByteBits)
      BY <1>1, <2>1, <2>2 DEF InRange
    <3>2. IndexOf(p) = i \/ IndexOf(p) = i + 1
      BY <1>1, <3>1, RangeByte
    <3>3. /\ IndexOf(p) \in Nat /\ OffsetOf(p) \in 0 .. ByteBits - 1
          /\ p - at = k
      BY <2>1, <2>2, PositionSplits DEF Byte
    <3>4. /\ IndexOf(p) = i => k = OffsetOf(p) - o
          /\ IndexOf(p) = i + 1 => k = ByteBits + (OffsetOf(p) - o)
      BY <3>3, Distance
    <3>5. QED
      BY <1>1, <2>1, <3>2, <3>3, <3>4
  <2>4. /\ buffer[i] \in Bytes
        /\ Crosses(at, n) => buffer[i + 1] \in Bytes
    BY <1>2, <1>4 DEF Buffer
  <2>5. /\ k \in Shr(buffer[i], o) <=> k + o \in buffer[i]
        /\ k \in Low(n) <=> k < n
        /\ Crosses(at, n) =>
             k \in Shl(buffer[i + 1], ByteBits - o)
               <=> k - (ByteBits - o) \in buffer[i + 1]
    <3>1. o \in 0 .. ByteBits /\ ByteBits - o \in 0 .. ByteBits /\ n \in 0 .. ByteBits
      BY <1>1
    <3>2. QED
      BY <2>4, <3>1, ShiftedBits
  <2>6. k \in GetByte(buffer, at, n) <=>
          /\ k < n
          /\ \/ k + o \in buffer[i]
             \/ Crosses(at, n) /\ k - (ByteBits - o) \in buffer[i + 1]
    BY <2>5 DEF GetByte
  <2>7. /\ k + o \in buffer[i] => k + o < ByteBits
        /\ Crosses(at, n) /\ k - (ByteBits - o) \in buffer[i + 1]
             => k - (ByteBits - o) >= 0
    BY <1>1, <2>1, <2>4 DEF Bytes, Byte
  <2>8. IsOne(buffer, at + k) <=> OffsetOf(p) \in buffer[IndexOf(p)]
    BY <2>2 DEF IsOne
  <2>9. CASE IndexOf(p) = i
    <3>1. o + k < ByteBits /\ OffsetOf(p) = k + o
      BY <1>1, <2>1, <2>3, <2>9
    <3>2. k - (ByteBits - o) < 0
      BY <1>1, <2>1, <3>1
    <3>3. ~(Crosses(at, n) /\ k - (ByteBits - o) \in buffer[i + 1])
      BY <1>1, <2>1, <2>7, <3>2
    <3>4. IsOne(buffer, at + k) <=> k + o \in buffer[i]
      BY <2>8, <2>9, <3>1
    <3>5. QED
      BY <2>6, <3>3, <3>4
  <2>10. CASE IndexOf(p) = i + 1
    <3>1. k + o >= ByteBits /\ OffsetOf(p) = k - (ByteBits - o)
      BY <1>1, <2>1, <2>3, <2>10
    <3>2. k < n => Crosses(at, n)
      BY <1>1, <1>3, <2>1, <3>1
    <3>3. k + o \notin buffer[i]
      BY <1>1, <2>1, <2>7, <3>1
    <3>4. QED
      BY <2>6, <2>8, <2>10, <3>1, <3>2, <3>3
  <2>11. QED
    BY <2>3, <2>9, <2>10
<1>6. GetByte(buffer, at, n) \subseteq Byte
  BY DEF GetByte, Low, Shr
<1>7. 0 .. n - 1 \subseteq Byte /\ \A k \in Byte : k < n <=> k \in 0 .. n - 1
  BY <1>1 DEF Byte
<1>8. QED
  BY <1>5, <1>6, <1>7

(* set_byte writes the bits of its range, also over the end of a byte, and *)
(* no other bit of the buffer.                                             *)
LEMMA SetByteWrites ==
  ASSUME NEW m \in Nat, NEW buffer \in Buffer(m),
         NEW at \in Nat, NEW n \in 1 .. ByteBits, at + n <= m * ByteBits,
         NEW b \in Bytes, b \subseteq Low(n)
  PROVE  /\ SetByte(buffer, at, b, n) \in Buffer(m)
         /\ \A p \in Nat : p < m * ByteBits =>
              (IsOne(SetByte(buffer, at, b, n), p) <=>
                 IF InRange(p, at, n) THEN p - at \in b ELSE IsOne(buffer, p))
<1> DEFINE o == OffsetOf(at)
           i == IndexOf(at)
           rest == n - (ByteBits - o)
           r == SetByte(buffer, at, b, n)
<1>1. /\ ByteBits \in Nat \ {0} /\ n \in Nat /\ n >= 1 /\ n <= ByteBits
      /\ o \in 0 .. ByteBits - 1 /\ i \in Nat
  BY Widths
<1>0. m * ByteBits \in Int
  BY <1>1
<1>2. i \in 0 .. m - 1
  BY <1>0, <1>1, RangeInBuffer
<1>3. Crosses(at, n) <=> o + n > ByteBits
  BY CrossesWhen
<1>4. Crosses(at, n) => i + 1 \in 0 .. m - 1
  BY NextInBuffer
<1>5. /\ buffer[i] \in Bytes /\ Byte \in Bytes /\ Low(n) \in Bytes
      /\ Crosses(at, n) => buffer[i + 1] \in Bytes
  BY <1>2, <1>4 DEF Buffer, Bytes, Low, Shr
<1>6. ASSUME NEW k \in Byte
      PROVE  /\ k \in Shl(b, o) <=> k - o \in b
             /\ k \in Shr(b, ByteBits - o) <=> k + (ByteBits - o) \in b
             /\ k \in Low(o) <=> k < o
             /\ k \in Not(Shl(Low(n), o)) <=> ~(k >= o /\ k < o + n)
             /\ Crosses(at, n) => (k \in Shl(Byte, rest) <=> k >= rest)
  <2>1. o \in 0 .. ByteBits /\ ByteBits - o \in 0 .. ByteBits /\ n \in 0 .. ByteBits
    BY <1>1
  <2>2. /\ k \in Shl(b, o) <=> k - o \in b
        /\ k \in Shr(b, ByteBits - o) <=> k + (ByteBits - o) \in b
        /\ k \in Low(o) <=> k < o
    BY <2>1, ShiftedBits
  <2>3. /\ k \in Shl(Low(n), o) <=> k - o \in Low(n)
        /\ k - o \in Byte => (k - o \in Low(n) <=> k - o < n)
        /\ Low(n) \subseteq Byte
    BY <1>5, <2>1, ShiftedBits DEF Bytes
  <2>4. k \in Not(Shl(Low(n), o)) <=> ~(k >= o /\ k < o + n)
    BY <1>1, <2>3 DEF Not, Byte
  <2>5. Crosses(at, n) => (k \in Shl(Byte, rest) <=> k >= rest)
    <3>1. SUFFICES ASSUME Crosses(at, n) PROVE k \in Shl(Byte, rest) <=> k >= rest
      OBVIOUS
    <3>2. rest \in 0 .. ByteBits
      BY <1>1, <1>3, <3>1
    <3>3. k \in Shl(Byte, rest) <=> k - rest \in Byte
      BY <1>5, <3>2, ShiftedBits
    <3>4. QED
      BY <1>1, <3>2, <3>3 DEF Byte
  <2>6. QED
    BY <2>2, <2>4, <2>5
<1>7. \A x \in b : x \in Int /\ x >= 0 /\ x < n
  <2>1. Low(n) \subseteq Byte
    BY <1>5 DEF Bytes
  <2>2. \A x \in Byte : x \in Low(n) => x < n
    <3>1. n \in 0 .. ByteBits /\ Byte \in Bytes
      BY <1>1, <1>5
    <3>2. QED
      BY <3>1, ShiftedBits
  <2>3. QED
    BY <2>1, <2>2 DEF Byte
<1>8. CASE ~Crosses(at, n)
  <2>1. r = [buffer EXCEPT ![i] = (@ \cap Not(Shl(Low(n), o))) \cup Shl(b, o)]
    BY <1>8 DEF SetByte
  <2>2. r \in Buffer(m)
    BY <1>2, <1>5, <2>1 DEF Buffer, Bytes, Shl, Not
  <2>3. ASSUME NEW p \in Nat, p < m * ByteBits
        PROVE  IsOne(r, p) <=>
                 IF InRange(p, at, n) THEN p - at \in b ELSE IsOne(buffer, p)
    <3> DEFINE k == OffsetOf(p)
    <3>1. /\ IndexOf(p) \in 0 .. m - 1 /\ k \in Byte
          /\ k \in 0 .. ByteBits - 1 /\ p - at \in Int
      BY <1>0, <2>3, RangeInBuffer, PositionSplits DEF Byte
    <3>2. InRange(p, at, n) <=> IndexOf(p) = i /\ k >= o /\ k < o + n
      BY <1>1, <1>3, <1>8, <3>1, RangeByte
    <3>3. CASE IndexOf(p) = i
      <4>1. p - at = k - o
        BY <3>3, Distance
      <4>2. IsOne(r, p) <=> \/ k \in buffer[i] /\ k \in Not(Shl(Low(n), o))
                            \/ k \in Shl(b, o)
        BY <1>2, <2>1, <3>3 DEF IsOne, Buffer
      <4>3. IsOne(r, p) <=> \/ k \in buffer[i] /\ ~(k >= o /\ k < o + n)
                            \/ k - o \in b
        BY <1>6, <3>1, <4>2
      <4>4. k - o \in b => k >= o /\ k < o + n
        BY <1>1, <1>7, <3>1
      <4>5. IsOne(buffer, p) <=> k \in buffer[i]
        BY <3>3 DEF IsOne
      <4>6. QED
        BY <3>2, <3>3, <4>1, <4>3, <4>4, <4>5
    <3>4. CASE IndexOf(p) # i
      BY <2>1, <3>1, <3>2, <3>4 DEF IsOne, Buffer
    <3>5. QED
      BY <3>3, <3>4
  <2>4. QED
    BY <2>2, <2>3
<1>9. CASE Crosses(at, n)
  <2>1. r = [buffer EXCEPT
               ![i] = (@ \cap Low(o)) \cup Shl(b, o),
               ![i + 1] = (@ \cap Shl(Byte, rest)) \cup Shr(b, ByteBits - o)]
    BY <1>9 DEF SetByte
  <2>2. /\ r \in Buffer(m)
        /\ r[i] = (buffer[i] \cap Low(o)) \cup Shl(b, o)
        /\ r[i + 1] = (buffer[i + 1] \cap Shl(Byte, rest)) \cup Shr(b, ByteBits - o)
        /\ \A q \in 0 .. m - 1 : q # i /\ q # i + 1 => r[q] = buffer[q]
    <3>1. i # i + 1 /\ i + 1 \in 0 .. m - 1
      BY <1>1, <1>4, <1>9
    <3>2. /\ r[i] = (buffer[i] \cap Low(o)) \cup Shl(b, o)
          /\ r[i + 1] = (buffer[i + 1] \cap Shl(Byte, rest)) \cup Shr(b, ByteBits - o)
          /\ \A q \in 0 .. m - 1 : q # i /\ q # i + 1 => r[q] = buffer[q]
      BY <1>2, <2>1, <3>1 DEF Buffer
    <3>3. r[i] \in Bytes /\ r[i + 1] \in Bytes
      BY <1>5, <1>9, <3>2 DEF Bytes, Shl, Shr
    <3>4. r \in Buffer(m)
      BY <2>1, <3>2, <3>3 DEF Buffer
    <3>5. QED
      BY <3>2, <3>4
  <2>3. ASSUME NEW p \in Nat, p < m * ByteBits
        PROVE  IsOne(r, p) <=>
                 IF InRange(p, at, n) THEN p - at \in b ELSE IsOne(buffer, p)
    <3> DEFINE k == OffsetOf(p)
    <3>1. /\ IndexOf(p) \in 0 .. m - 1 /\ k \in Byte
          /\ k \in 0 .. ByteBits - 1 /\ p - at \in Int
      BY <1>0, <2>3, RangeInBuffer, PositionSplits DEF Byte
    <3>2. InRange(p, at, n) <=> \/ IndexOf(p) = i /\ k >= o
                                \/ IndexOf(p) = i + 1 /\ k < rest
      <4>1. InRange(p, at, n) <=> \/ IndexOf(p) = i /\ k >= o /\ k < o + n
                                  \/ IndexOf(p) = i + 1 /\ k < o + n - ByteBits
        BY RangeByte
      <4>2. o + n - ByteBits = rest /\ k < o + n
        BY <1>1, <1>3, <1>9, <3>1
      <4>3. QED
        BY <4>1, <4>2
    <3>3. CASE IndexOf(p) = i
      <4>1. p - at = k - o
        BY <3>3, Distance
      <4>2. IsOne(r, p) <=> (k \in buffer[i] /\ k < o) \/ k - o \in b
        BY <1>6, <2>2, <3>1, <3>3 DEF IsOne
      <4>3. k - o \in b => k >= o
        BY <1>1, <1>7, <3>1
      <4>4. IsOne(buffer, p) <=> k \in buffer[i]
        BY <3>3 DEF IsOne
      <4>5. i # i + 1
        BY <1>1
      <4>6. QED
        BY <1>1, <3>1, <3>2, <3>3, <4>1, <4>2, <4>3, <4>4, <4>5
    <3>4. CASE IndexOf(p) = i + 1
      <4>1. p - at = k + (ByteBits - o)
        <5>1. p - at = ByteBits + (k - o)
          BY <3>4, Distance
        <5>2. QED
          BY <1>1, <3>1, <5>1
      <4>2. IsOne(r, p) <=> \/ k \in buffer[i + 1] /\ k >= rest
                            \/ k + (ByteBits - o) \in b
        BY <1>6, <1>9, <2>2, <3>1, <3>4 DEF IsOne
      <4>3. k + (ByteBits - o) \in b => k < rest
        BY <1>1, <1>7, <3>1
      <4>4. IsOne(buffer, p) <=> k \in buffer[i + 1]
        BY <3>4 DEF IsOne
      <4>5. i # i + 1
        BY <1>1
      <4>6. QED
        BY <1>1, <3>1, <3>2, <3>4, <4>1, <4>2, <4>3, <4>4, <4>5
    <3>5. CASE IndexOf(p) # i /\ IndexOf(p) # i + 1
      BY <2>2, <3>1, <3>2, <3>5 DEF IsOne
    <3>6. QED
      BY <3>3, <3>4, <3>5
  <2>4. QED
    BY <2>2, <2>3
<1>10. QED
  BY <1>8, <1>9

-----------------------------------------------------------------------------
(* What a write does: the bits of range become those of ones, and every    *)
(* other bit of the buffer stays as it is.                                 *)
Sets(m, old, new, range, ones) ==
  /\ new \in Buffer(m)
  /\ \A p \in Nat : p < m * ByteBits =>
       (IsOne(new, p) <=> IF p \in range THEN p \in ones ELSE IsOne(old, p))

(* Positions are ordered by byte, then by bit. *)
LEMMA PositionOrder ==
  ASSUME NEW p \in Nat, NEW r \in Nat
  PROVE  p < r <=> \/ IndexOf(p) < IndexOf(r)
                   \/ IndexOf(p) = IndexOf(r) /\ OffsetOf(p) < OffsetOf(r)
<1>1. /\ IndexOf(p) \in Nat /\ IndexOf(r) \in Nat /\ ByteBits \in Nat \ {0}
      /\ OffsetOf(p) \in 0 .. ByteBits - 1 /\ OffsetOf(r) \in 0 .. ByteBits - 1
  BY PositionSplits, ByteAssumption DEF Byte
<1>2. LET d == OffsetOf(p) - OffsetOf(r)
      IN /\ IndexOf(p) < IndexOf(r) => p - r <= d - ByteBits
         /\ IndexOf(p) = IndexOf(r) => p - r = d
         /\ IndexOf(p) = IndexOf(r) + 1 => p - r = ByteBits + d
         /\ IndexOf(p) > IndexOf(r) + 1 => p - r >= 2 * ByteBits + d
  BY Distance
<1>3. QED
  BY <1>1, <1>2

(* set_bit, clear_bit. *)
LEMMA SetBitSets ==
  ASSUME NEW m \in Nat, NEW buffer \in Buffer(m),
         NEW at \in Nat, at < m * ByteBits
  PROVE  /\ Sets(m, buffer, SetBit(buffer, at), {at}, {at})
         /\ Sets(m, buffer, ClearBit(buffer, at), {at}, {})
<1> DEFINE o == OffsetOf(at)
           i == IndexOf(at)
<1>1. /\ ByteBits \in Nat \ {0} /\ o \in Byte /\ o \in 0 .. ByteBits - 1
      /\ i \in 0 .. m - 1
  BY RangeInBuffer, PositionSplits, ByteAssumption DEF Byte
<1>2. Shl({0}, o) = {o}
  BY <1>1 DEF Shl
<1>3. /\ SetBit(buffer, at) = [buffer EXCEPT ![i] = @ \cup {o}]
      /\ ClearBit(buffer, at) = [buffer EXCEPT ![i] = @ \cap (Byte \ {o})]
  BY <1>2 DEF SetBit, ClearBit, Not
<1>4. SetBit(buffer, at) \in Buffer(m) /\ ClearBit(buffer, at) \in Buffer(m)
  BY <1>1, <1>3 DEF Buffer, Bytes
<1>5. ASSUME NEW p \in Nat, p < m * ByteBits
      PROVE  /\ IsOne(SetBit(buffer, at), p) <=> p = at \/ IsOne(buffer, p)
             /\ IsOne(ClearBit(buffer, at), p) <=> p # at /\ IsOne(buffer, p)
  <2>1. IndexOf(p) \in 0 .. m - 1 /\ OffsetOf(p) \in Byte
    BY <1>5, RangeInBuffer, PositionSplits
  <2>2. p = at <=> IndexOf(p) = i /\ OffsetOf(p) = o
    <3>1. IndexOf(p) = i /\ OffsetOf(p) = o => p - at = o - o
      BY Distance
    <3>2. QED
      BY <1>1, <3>1
  <2>3. QED
    BY <1>1, <1>3, <2>1, <2>2 DEF IsOne, Buffer
<1>6. QED
  BY <1>4, <1>5 DEF Sets

(* set_byte, as a write of a range. *)
LEMMA SetByteSets ==
  ASSUME NEW m \in Nat, NEW buffer \in Buffer(m),
         NEW at \in Nat, NEW n \in 1 .. ByteBits, at + n <= m * ByteBits,
         NEW b \in Bytes, b \subseteq Low(n)
  PROVE  Sets(m, buffer, SetByte(buffer, at, b, n),
              at .. at + n - 1, {j \in at .. at + n - 1 : j - at \in b})
<1>1. n \in Nat
  BY Widths
<1>2. \A p \in Nat : p \in at .. at + n - 1 <=> InRange(p, at, n)
  BY <1>1 DEF InRange
<1>3. QED
  BY <1>2, SetByteWrites DEF Sets

(* Two writes to ranges that do not meet are one write. *)
LEMMA SetsTwice ==
  ASSUME NEW m, NEW old, NEW between, NEW new, NEW range, NEW ones, NEW range2, NEW ones2,
         Sets(m, old, between, range, ones), Sets(m, between, new, range2, ones2),
         range \cap range2 = {}, ones \subseteq range, ones2 \subseteq range2
  PROVE  Sets(m, old, new, range \cup range2, ones \cup ones2)
BY DEF Sets

(* A range that ends within a byte does not end where the buffer does. *)
LEMMA EndInBuffer ==
  ASSUME NEW m \in Nat, NEW e \in Nat, e <= m * ByteBits, OffsetOf(e) # 0
  PROVE  e < m * ByteBits
<1>1. 0 \in Byte /\ ByteBits \in Nat
  BY ByteAssumption DEF Byte
<1>2. OffsetOf(ByteBits * m + 0) = 0
  BY <1>1, PositionOf
<1>3. ByteBits * m + 0 = m * ByteBits /\ m * ByteBits \in Nat
  BY <1>1
<1>4. QED
  BY <1>2, <1>3

(* Where the whole bytes of a range begin. *)
LEMMA FillStartIs ==
  ASSUME NEW at \in Nat
  PROVE  FillStart(at) = IF OffsetOf(at) = 0 THEN IndexOf(at) ELSE IndexOf(at) + 1
<1>1. /\ ByteBits \in Nat \ {0} /\ IndexOf(at) \in Nat
      /\ OffsetOf(at) \in 0 .. ByteBits - 1
  BY PositionSplits, ByteAssumption DEF Byte
<1>2. PICK p \in Nat : p = at + ByteBits - 1
  BY <1>1
<1>3. IndexOf(p) \in Nat /\ OffsetOf(p) \in 0 .. ByteBits - 1
  BY PositionSplits DEF Byte
<1>4. LET d == OffsetOf(p) - OffsetOf(at)
      IN /\ IndexOf(p) < IndexOf(at) => p - at <= d - ByteBits
         /\ IndexOf(p) = IndexOf(at) => p - at = d
         /\ IndexOf(p) = IndexOf(at) + 1 => p - at = ByteBits + d
         /\ IndexOf(p) > IndexOf(at) + 1 => p - at >= 2 * ByteBits + d
  BY Distance
<1>5. p - at = ByteBits - 1
  BY <1>1, <1>2
<1>6. IndexOf(p) = IF OffsetOf(at) = 0 THEN IndexOf(at) ELSE IndexOf(at) + 1
  BY <1>1, <1>3, <1>4, <1>5
<1>7. QED
  BY <1>2, <1>6 DEF FillStart

(* fill_set and fill_clear write exactly their range when it ends at the   *)
(* end of a byte, or, for fill_set, when its last byte has one bit more to *)
(* fill than its first has to spare; for other ranges they do not.         *)
LEMMA FillSets ==
  ASSUME NEW m \in Nat, NEW buffer \in Buffer(m),
         NEW at \in Nat, NEW n \in Nat, at + n <= m * ByteBits, at < m * ByteBits,
         ~FillUnderflows(at, n)
  PROVE  /\ OffsetOf(at + n) \in {0, OffsetOf(at) + 1} =>
              Sets(m, buffer, FillSet(buffer, at, n), at .. at + n - 1, at .. at + n - 1)
         /\ OffsetOf(at) = 0 /\ OffsetOf(at + n) = 0 =>
              Sets(m, buffer, FillClear(buffer, at, n), at .. at + n - 1, {})
<1> DEFINE o == OffsetOf(at)
           i == IndexOf(at)
           s == FillStart(at)
<1>1. PICK e \in Nat : e = at + n
  OBVIOUS
<1> DEFINE oe == OffsetOf(e)
           q == IndexOf(e)
<1>2. /\ ByteBits \in Nat \ {0} /\ o \in Byte /\ oe \in Byte
      /\ o \in 0 .. ByteBits - 1 /\ oe \in 0 .. ByteBits - 1
      /\ i \in 0 .. m - 1 /\ i \in Nat /\ q \in Nat
  BY RangeInBuffer, PositionSplits, ByteAssumption DEF Byte
<1>3. s = IF o = 0 THEN i ELSE i + 1
  BY FillStartIs
<1>4. q >= s /\ Middle(at, n) = s .. q - 1
  BY <1>1, <1>2, <1>3 DEF FillUnderflows, Middle
<1>5. oe # 0 => q \in 0 .. m - 1
  <2>1. SUFFICES ASSUME oe # 0 PROVE q \in 0 .. m - 1
    OBVIOUS
  <2>2. e < m * ByteBits
    BY <1>1, <2>1, EndInBuffer
  <2>3. QED
    BY <2>2, RangeInBuffer
<1>6. ASSUME NEW p \in Nat, p < m * ByteBits
      PROVE  /\ IndexOf(p) \in 0 .. m - 1 /\ OffsetOf(p) \in Byte
             /\ IndexOf(p) \in Nat /\ OffsetOf(p) \in 0 .. ByteBits - 1
             /\ p \in at .. at + n - 1 <=>
                  /\ i < IndexOf(p) \/ (i = IndexOf(p) /\ o <= OffsetOf(p))
                  /\ IndexOf(p) < q \/ (IndexOf(p) = q /\ OffsetOf(p) < oe)
  <2>1. /\ IndexOf(p) \in 0 .. m - 1 /\ OffsetOf(p) \in Byte
        /\ IndexOf(p) \in Nat /\ OffsetOf(p) \in 0 .. ByteBits - 1
    BY <1>6, RangeInBuffer, PositionSplits DEF Byte
  <2>2. p < at <=> IndexOf(p) < i \/ (IndexOf(p) = i /\ OffsetOf(p) < o)
    BY PositionOrder
  <2>3. p < e <=> IndexOf(p) < q \/ (IndexOf(p) = q /\ OffsetOf(p) < oe)
    BY PositionOrder
  <2>4. p \in at .. at + n - 1 <=> ~(p < at) /\ p < e
    BY <1>1
  <2>5. QED
    BY <1>2, <2>1, <2>2, <2>3, <2>4
<1>7. ASSUME oe \in {0, o + 1}
      PROVE  Sets(m, buffer, FillSet(buffer, at, n), at .. at + n - 1, at .. at + n - 1)
  <2> DEFINE begun == IF o = 0 THEN buffer ELSE [buffer EXCEPT ![i] = @ \cup Shl(Byte, o)]
             filled == [j \in DOMAIN buffer |-> IF j \in s .. q - 1 THEN Byte ELSE begun[j]]
             r == IF oe = 0 THEN filled ELSE [filled EXCEPT ![q] = @ \cup Low(o + 1)]
  <2>1. r = FillSet(buffer, at, n)
    BY <1>1, <1>4 DEF FillSet, Fill
  <2>2. begun \in Buffer(m)
    BY <1>2 DEF Buffer, Bytes, Shl
  <2>3. /\ filled \in Buffer(m)
        /\ \A j \in 0 .. m - 1 : filled[j] = IF j \in s .. q - 1 THEN Byte ELSE begun[j]
    <3>1. DOMAIN buffer = 0 .. m - 1 /\ Byte \in Bytes
      BY DEF Buffer, Bytes
    <3>2. \A j \in 0 .. m - 1 : begun[j] \in Bytes
      BY <2>2 DEF Buffer
    <3> HIDE DEF begun
    <3>3. QED
      BY <3>1, <3>2 DEF Buffer
  <2>4. ASSUME NEW j \in 0 .. m - 1, NEW k \in Byte
        PROVE  k \in begun[j] <=> k \in buffer[j] \/ (o # 0 /\ j = i /\ k >= o)
    <3>1. k \in Shl(Byte, o) <=> k >= o
      <4>1. Byte \in Bytes /\ o \in 0 .. ByteBits /\ k \in 0 .. ByteBits - 1
        BY <1>2 DEF Bytes, Byte
      <4>2. k \in Shl(Byte, o) <=> k - o \in Byte
        BY <4>1, ShiftedBits
      <4>3. QED
        BY <1>2, <4>1, <4>2 DEF Byte
    <3>2. QED
      BY <1>2, <3>1 DEF Buffer
  <2> HIDE DEF begun, filled
  <2>5. r \in Buffer(m)
    BY <1>2, <1>5, <2>3 DEF Buffer, Bytes, Low, Shr
  <2>6. ASSUME NEW j \in 0 .. m - 1, NEW k \in Byte
        PROVE  k \in r[j] <=> k \in filled[j] \/ (oe # 0 /\ j = q /\ k < oe)
    <3>1. oe # 0 => (k \in Low(o + 1) <=> k < oe)
      <4>1. SUFFICES ASSUME oe # 0 PROVE k \in Low(o + 1) <=> k < oe
        OBVIOUS
      <4>2. oe = o + 1 /\ o + 1 \in 0 .. ByteBits /\ Byte \in Bytes
        BY <1>2, <1>7, <4>1 DEF Bytes
      <4>3. QED
        BY <4>2, ShiftedBits
    <3>2. QED
      BY <1>5, <2>3, <3>1 DEF Buffer
  <2> HIDE DEF r
  <2>7. ASSUME NEW p \in Nat, p < m * ByteBits
        PROVE  IsOne(r, p) <=> p \in at .. at + n - 1 \/ IsOne(buffer, p)
    <3>1. PICK j \in 0 .. m - 1, k \in Byte : j = IndexOf(p) /\ k = OffsetOf(p)
      BY <1>6, <2>7
    <3>2. j \in Nat /\ k \in 0 .. ByteBits - 1
      BY DEF Byte
    <3>3. p \in at .. at + n - 1 <=>
            (i < j \/ (i = j /\ o <= k)) /\ (j < q \/ (j = q /\ k < oe))
      BY <1>6, <2>7, <3>1
    <3>4. k \in filled[j] <=> (s <= j /\ j < q) \/ k \in begun[j]
      BY <1>2, <1>3, <2>3, <3>2
    <3>5. k \in r[j] <=> \/ k \in buffer[j]
                         \/ o # 0 /\ j = i /\ k >= o
                         \/ s <= j /\ j < q
                         \/ oe # 0 /\ j = q /\ k < oe
      BY <2>4, <2>6, <3>4
    <3>6. IsOne(r, p) <=> k \in r[j]
      BY <3>1 DEF IsOne
    <3>7. IsOne(buffer, p) <=> k \in buffer[j]
      BY <3>1 DEF IsOne
    <3>8. p \in at .. at + n - 1 <=> \/ o # 0 /\ j = i /\ k >= o
                                     \/ s <= j /\ j < q
                                     \/ oe # 0 /\ j = q /\ k < oe
      <4>1. /\ i \in Int /\ q \in Int /\ o \in 0 .. ByteBits - 1
            /\ oe \in 0 .. ByteBits - 1 /\ q >= s
        BY <1>2, <1>4 DEF Byte
      <4>2. CASE o = 0
        BY <1>3, <3>2, <3>3, <4>1, <4>2, SMTT(60)
      <4>3. CASE o # 0
        BY <1>3, <3>2, <3>3, <4>1, <4>3, SMTT(60)
      <4>4. QED
        BY <4>2, <4>3
    <3>9. QED
      BY <3>5, <3>6, <3>7, <3>8
  <2>8. QED
    BY <2>1, <2>5, <2>7 DEF Sets
<1>8. ASSUME o = 0, oe = 0
      PROVE  Sets(m, buffer, FillClear(buffer, at, n), at .. at + n - 1, {})
  <2> DEFINE r == [j \in DOMAIN buffer |-> IF j \in s .. q - 1 THEN {} ELSE buffer[j]]
  <2>1. r = FillClear(buffer, at, n)
    BY <1>1, <1>4, <1>8 DEF FillClear, Fill
  <2>2. /\ r \in Buffer(m)
        /\ \A j \in 0 .. m - 1 : r[j] = IF j \in s .. q - 1 THEN {} ELSE buffer[j]
    BY DEF Buffer, Bytes
  <2> HIDE DEF r
  <2>3. ASSUME NEW p \in Nat, p < m * ByteBits
        PROVE  IsOne(r, p) <=> p \notin at .. at + n - 1 /\ IsOne(buffer, p)
    <3>1. PICK j \in 0 .. m - 1, k \in Byte : j = IndexOf(p) /\ k = OffsetOf(p)
      BY <1>6, <2>3
    <3>2. j \in Nat /\ k \in 0 .. ByteBits - 1
      BY DEF Byte
    <3>3. p \in at .. at + n - 1 <=>
            (i < j \/ (i = j /\ o <= k)) /\ (j < q \/ (j = q /\ k < oe))
      BY <1>6, <2>3, <3>1
    <3>4. p \in at .. at + n - 1 <=> j \in s .. q - 1
      BY <1>2, <1>3, <1>8, <3>2, <3>3
    <3>5. k \in r[j] <=> j \notin s .. q - 1 /\ k \in buffer[j]
      BY <2>2
    <3>6. QED
      BY <3>1, <3>4, <3>5 DEF IsOne
  <2>4. QED
    BY <2>1, <2>2, <2>3 DEF Sets
<1>9. QED
  BY <1>1, <1>7, <1>8

-----------------------------------------------------------------------------
(* The array. *)

Room(m, buffer, capacity, size) ==
  /\ m \in Nat /\ capacity = m * ByteBits
  /\ buffer \in Buffer(m)
  /\ size \in Nat /\ size <= capacity

Fits == sound => \E m \in Nat : Room(m, _buffer, _capacity, _num_bits)

(* The action that WritesExactly says every step is. *)
Exact ==
  sound' =>
    LET common == Bits(_num_bits) \cap Bits(_num_bits')
    IN /\ call'.ok => _num_bits' = call'.size
       /\ ~call'.ok => _num_bits' = _num_bits
       /\ Ones' \cap call'.range = call'.ones
       /\ (Ones' \cap common) \ call'.range = (Ones \cap common) \ call'.range

(* What a call has to do to the bits for its step to be exact. *)
Follows(new, size, range, ones) ==
  /\ ones \subseteq range /\ range \subseteq Bits(size)
  /\ \A p \in Bits(size) : p \in range => (IsOne(new, p) <=> p \in ones)
  /\ \A p \in Bits(size) \cap Bits(_num_bits) :
       p \notin range => (IsOne(new, p) <=> IsOne(_buffer, p))

LEMMA StepExact ==
  ASSUME NEW m, NEW size \in Nat, NEW range, NEW ones, NEW ok,
         _num_bits' = size,
         call' = [size |-> size, range |-> range, ones |-> ones, ok |-> ok],
         ok \/ size = _num_bits,
         sound' => Room(m, _buffer', _capacity', size),
         sound' => Follows(_buffer', size, range, ones)
  PROVE  Fits' /\ Exact
<1>1. Fits'
  BY DEF Fits, Room
<1>2. Exact
  <2> SUFFICES ASSUME sound' PROVE Exact
    BY DEF Exact
  <2>1. call'.size = size /\ call'.range = range /\ call'.ones = ones /\ call'.ok = ok
    OBVIOUS
  <2>2. Ones' = {p \in Bits(size) : IsOne(_buffer', p)}
    BY DEF Ones, Bits
  <2>3. Ones' \cap range = ones
    BY <2>2 DEF Follows
  <2>4. (Ones' \cap (Bits(_num_bits) \cap Bits(size))) \ range
          = (Ones \cap (Bits(_num_bits) \cap Bits(size))) \ range
    BY <2>2 DEF Follows, Ones
  <2>5. Bits(_num_bits)' = Bits(size)
    BY DEF Bits
  <2>6. QED
    BY <2>1, <2>3, <2>4 DEF Exact, Bits
<1>3. QED
  BY <1>1, <1>2

(* A call that leaves the bits alone, and the size if it fails. *)
LEMMA StepKeeps ==
  ASSUME NEW m \in Nat, Room(m, _buffer, _capacity, _num_bits),
         NEW size \in Nat, size <= _capacity, NEW ok, ok \/ size = _num_bits,
         NEW safe, Return(size, {}, {}, ok, safe), UNCHANGED <<_buffer, _capacity>>
  PROVE  Fits' /\ Exact
<1>1. /\ _num_bits' = size
      /\ call' = [size |-> size, range |-> {}, ones |-> {}, ok |-> ok]
      /\ _buffer' = _buffer /\ _capacity' = _capacity
  BY DEF Return
<1>2. Room(m, _buffer', _capacity', size)
  BY <1>1 DEF Room
<1>3. Follows(_buffer', size, {}, {})
  BY <1>1 DEF Follows
<1>4. QED
  BY <1>1, <1>2, <1>3, StepExact

(* A call that writes a range in the bytes there are. *)
LEMMA StepSets ==
  ASSUME NEW m \in Nat, Room(m, _buffer, _capacity, _num_bits),
         NEW new, NEW range, NEW ones, NEW safe,
         safe => Sets(m, _buffer, new, range, ones),
         range \subseteq Bits(_num_bits), ones \subseteq range,
         Write(new, range, ones, safe)
  PROVE  Fits' /\ Exact
<1>1. /\ _num_bits' = _num_bits /\ _num_bits \in Nat
      /\ call' = [size |-> _num_bits, range |-> range, ones |-> ones, ok |-> TRUE]
      /\ _buffer' = new /\ _capacity' = _capacity
      /\ sound' => safe
  BY DEF Write, Return, Room
<1>2. safe => Room(m, new, _capacity, _num_bits)
  BY DEF Room, Sets
<1>3. safe => Follows(new, _num_bits, range, ones)
  <2>1. \A p \in Bits(_num_bits) : p \in Nat /\ p < m * ByteBits
    BY ByteAssumption DEF Room, Bits
  <2>2. QED
    BY <2>1 DEF Follows, Sets
<1>4. QED
  BY <1>1, <1>2, <1>3, StepExact

(* New memory: enough whole bytes, and the bits of the old ones. *)
LEMMA EnoughBytes ==
  ASSUME NEW n \in Nat
  PROVE  /\ BytesFor(n) \in Nat /\ n <= BytesFor(n) * ByteBits
         /\ \A p \in Nat : p < n => IndexOf(p) < BytesFor(n)
         /\ \A m \in Nat : n <= m * ByteBits => BytesFor(n) <= m
<1> DEFINE c == BytesFor(n)
<1>1. ByteBits \in Nat \ {0}
  BY ByteAssumption
<1>2. PICK t \in Nat : t = n + ByteBits - 1
  BY <1>1
<1>3. /\ IndexOf(t) \in Nat /\ OffsetOf(t) \in 0 .. ByteBits - 1
      /\ ByteBits * IndexOf(t) \in Int
      /\ t = ByteBits * IndexOf(t) + OffsetOf(t)
  BY PositionSplits DEF Byte
<1>4. c = IndexOf(t)
  BY <1>2 DEF BytesFor, IndexOf
<1> HIDE DEF c
<1>5. c \in Nat /\ ByteBits * c \in Int /\ c * ByteBits = ByteBits * c
  BY <1>1, <1>3, <1>4
<1>6. n <= c * ByteBits
  BY <1>1, <1>2, <1>3, <1>4, <1>5
<1>7. ASSUME NEW p \in Nat, p < n PROVE IndexOf(p) < c
  <2>1. p < c * ByteBits
    BY <1>5, <1>6, <1>7
  <2>2. IndexOf(p) \in 0 .. c - 1
    BY <1>5, <2>1, RangeInBuffer
  <2>3. QED
    BY <1>5, <2>2
<1>8. ASSUME NEW m \in Nat, n <= m * ByteBits PROVE c <= m
  <2>1. m * ByteBits = ByteBits * m /\ ByteBits * m \in Int
    BY <1>1
  <2>2. SUFFICES ASSUME m < c PROVE FALSE
    BY <1>5
  <2>3. ByteBits * c >= ByteBits * m + ByteBits
    BY <1>1, <1>5, <2>2, ProductGrows
  <2>4. QED
    BY <1>1, <1>2, <1>3, <1>4, <1>8, <2>1, <2>3
<1>9. QED
  BY <1>5, <1>6, <1>7, <1>8 DEF c

(* A buffer that agrees with the old one on the bits both have room for. *)
Keeps(new) == \A p \in Bits(_num_bits) : \A m \in Nat :
                new \in Buffer(m) /\ p < m * ByteBits
                  => (IsOne(new, p) <=> IsOne(_buffer, p))

LEMMA ReservedKeeps ==
  ASSUME NEW m \in Nat, Room(m, _buffer, _capacity, _num_bits),
         NEW n \in Nat, NEW new \in Reserved(n)
  PROVE  /\ Room(BytesFor(n), new, Capacity(n), n)
         /\ Keeps(new)
<1> DEFINE c == BytesFor(n)
           d == BytesFor(_num_bits)
<1>1. /\ _num_bits \in Nat /\ _num_bits <= m * ByteBits
      /\ _buffer \in Buffer(m) /\ _capacity = m * ByteBits
  BY DEF Room
<1>2. /\ c \in Nat /\ n <= c * ByteBits /\ d \in Nat /\ d <= m
      /\ \A p \in Nat : p < _num_bits => IndexOf(p) < d
  BY <1>1, EnoughBytes
<1>3. PICK fresh \in [Indices(n) -> Samples] :
        new = [i \in Indices(n) |-> IF i < d THEN _buffer[i] ELSE fresh[i]]
  BY DEF Reserved
<1>4. Indices(n) = 0 .. c - 1
  BY DEF Indices
<1> HIDE DEF c, d
<1>5. new \in Buffer(c)
  <2>1. ASSUME NEW i \in 0 .. c - 1
        PROVE  (IF i < d THEN _buffer[i] ELSE fresh[i]) \in Bytes
    <3>1. CASE i < d
      <4>1. i \in 0 .. m - 1
        BY <1>2, <3>1
      <4>2. QED
        BY <1>1, <3>1, <4>1 DEF Buffer
    <3>2. CASE ~(i < d)
      BY <1>3, <1>4, <3>2, BitsAssumption
    <3>3. QED
      BY <3>1, <3>2
  <2>2. QED
    BY <1>3, <1>4, <2>1 DEF Buffer
<1>6. ASSUME NEW p \in Bits(_num_bits), NEW k \in Nat,
             new \in Buffer(k), p < k * ByteBits
      PROVE  IsOne(new, p) <=> IsOne(_buffer, p)
  <2>1. p \in Nat /\ p < _num_bits
    BY <1>1 DEF Bits
  <2>2. IndexOf(p) < d
    BY <1>2, <2>1
  <2>3. IndexOf(p) \in DOMAIN new
    BY <1>6, <2>1, RangeInBuffer DEF Buffer
  <2>4. new[IndexOf(p)] = _buffer[IndexOf(p)]
    BY <1>3, <2>2, <2>3
  <2>5. QED
    BY <2>4 DEF IsOne
<1>7. Capacity(n) = c * ByteBits
  BY DEF Capacity, c
<1>8. QED
  BY <1>2, <1>5, <1>6, <1>7 DEF Room, Keeps, c

LEMMA BitsWithin ==
  ASSUME NEW m \in Nat, Room(m, _buffer, _capacity, _num_bits)
  PROVE  /\ _num_bits \in Nat /\ ByteBits \in Nat \ {0} /\ _capacity \in Nat
         /\ _buffer \in Buffer(m)
         /\ _num_bits <= m * ByteBits /\ m * ByteBits \in Nat
         /\ \A p \in Bits(_num_bits) : p \in Nat /\ p < _num_bits /\ p < m * ByteBits
BY ByteAssumption DEF Room, Bits

-----------------------------------------------------------------------------
(* The calls. *)

LEMMA ReserveExact ==
  ASSUME NEW m \in Nat, Room(m, _buffer, _capacity, _num_bits),
         NEW n \in Nat, Reserve(n)
  PROVE  Fits' /\ Exact
<1>1. _num_bits \in Nat /\ _num_bits <= _capacity
  BY DEF Room
<1>2. CASE NoMemory
  BY <1>1, <1>2, StepKeeps DEF NoMemory
<1>3. CASE Undefined
  BY <1>3 DEF Undefined, Fits, Exact
<1>4. ASSUME NEW new \in Reserved(n), _buffer' = new, _capacity' = Capacity(n),
             Return(_num_bits, {}, {}, TRUE, Capacity(n) >= _num_bits)
      PROVE  Fits' /\ Exact
  <2>1. /\ _num_bits' = _num_bits
        /\ call' = [size |-> _num_bits, range |-> {}, ones |-> {}, ok |-> TRUE]
        /\ sound' => Capacity(n) >= _num_bits
    BY <1>4 DEF Return
  <2>2. Room(BytesFor(n), new, Capacity(n), n) /\ Keeps(new)
    BY ReservedKeeps
  <2>3. sound' => Room(BytesFor(n), new, Capacity(n), _num_bits)
    BY <1>1, <2>1, <2>2, EnoughBytes, ByteAssumption DEF Room
  <2>4. sound' => Follows(new, _num_bits, {}, {})
    <3>1. SUFFICES ASSUME sound', NEW p \in Bits(_num_bits)
                   PROVE  IsOne(new, p) <=> IsOne(_buffer, p)
      BY DEF Follows
    <3>2. /\ BytesFor(n) \in Nat /\ new \in Buffer(BytesFor(n))
          /\ BytesFor(n) * ByteBits \in Nat
          /\ _num_bits <= BytesFor(n) * ByteBits
      BY <2>3, <3>1, ByteAssumption DEF Room
    <3>3. p < BytesFor(n) * ByteBits
      BY <1>1, <3>2 DEF Bits
    <3>4. QED
      BY <2>2, <3>2, <3>3 DEF Keeps
  <2>5. QED
    BY <1>1, <1>4, <2>1, <2>3, <2>4, StepExact
<1>5. QED
  BY <1>2, <1>3, <1>4 DEF Reserve

LEMMA ResizeExact ==
  ASSUME NEW m \in Nat, Room(m, _buffer, _capacity, _num_bits),
         NEW n \in Nat, ResizeUninit(n)
  PROVE  Fits' /\ Exact
<1>1. _num_bits \in Nat /\ _num_bits <= _capacity /\ _capacity \in Nat
  BY ByteAssumption DEF Room
<1>2. CASE NoMemory
  BY <1>1, <1>2, StepKeeps DEF NoMemory
<1>3. CASE Undefined
  BY <1>3 DEF Undefined, Fits, Exact
<1>4. CASE /\ ~AutoResizes(n) /\ Return(n, {}, {}, TRUE, TRUE)
           /\ UNCHANGED <<_buffer, _capacity>>
  <2>1. n <= _capacity
    BY <1>1, <1>4 DEF AutoResizes
  <2>2. QED
    BY <1>4, <2>1, StepKeeps
<1>5. ASSUME NEW new \in Reserved(n), _buffer' = new, _capacity' = Capacity(n),
             Return(n, {}, {}, TRUE, TRUE)
      PROVE  Fits' /\ Exact
  <2>1. /\ _num_bits' = n
        /\ call' = [size |-> n, range |-> {}, ones |-> {}, ok |-> TRUE]
    BY <1>5 DEF Return
  <2>2. Room(BytesFor(n), new, Capacity(n), n) /\ Keeps(new)
    BY ReservedKeeps
  <2>3. Follows(new, n, {}, {})
    <3>1. SUFFICES ASSUME NEW p \in Bits(_num_bits), p \in Bits(n)
                   PROVE  IsOne(new, p) <=> IsOne(_buffer, p)
      BY DEF Follows
    <3>2. /\ BytesFor(n) \in Nat /\ new \in Buffer(BytesFor(n))
          /\ BytesFor(n) * ByteBits \in Nat
          /\ n <= BytesFor(n) * ByteBits
      BY <2>2, ByteAssumption DEF Room
    <3>3. p < BytesFor(n) * ByteBits
      BY <3>1, <3>2 DEF Bits
    <3>4. QED
      BY <2>2, <3>2, <3>3 DEF Keeps
  <2>4. QED
    BY <1>5, <2>1, <2>2, <2>3, StepExact
<1>6. QED
  BY <1>2, <1>3, <1>4, <1>5 DEF ResizeUninit

(* A push that finds room or memory writes behind the old bits. *)
LEMMA PushExact ==
  ASSUME NEW m \in Nat, Room(m, _buffer, _capacity, _num_bits),
         NEW n \in Nat, NEW ones, ones \subseteq Run(_num_bits, n),
         NEW old \in Growth(_num_bits + n), NEW new,
         \A k \in Nat : old \in Buffer(k) /\ _num_bits + n <= k * ByteBits
                          => Sets(k, old, new, Run(_num_bits, n), ones),
         _buffer' = new,
         _capacity' = IF _num_bits + n > _capacity THEN Capacity(_num_bits + n)
                      ELSE _capacity,
         Return(_num_bits + n, Run(_num_bits, n), ones, TRUE, TRUE)
  PROVE  Fits' /\ Exact
<1> DEFINE size == _num_bits + n
           range == Run(_num_bits, n)
<1>1. /\ _num_bits \in Nat /\ _num_bits <= _capacity /\ _capacity \in Nat
      /\ size \in Nat
  BY ByteAssumption DEF Room
<1>2. PICK k \in Nat : /\ Room(k, old, _capacity', size)
                       /\ Keeps(old)
  <2>1. CASE size > _capacity
    <3>1. old \in Reserved(size)
      BY <2>1 DEF Growth
    <3>2. Room(BytesFor(size), old, Capacity(size), size) /\ Keeps(old)
      BY <1>1, <3>1, ReservedKeeps
    <3>3. BytesFor(size) \in Nat
      BY <3>2 DEF Room
    <3>4. QED
      BY <2>1, <3>2, <3>3
  <2>2. CASE ~(size > _capacity)
    <3>1. old = _buffer /\ _capacity' = _capacity
      BY <2>2 DEF Growth
    <3>2. Room(m, old, _capacity', size)
      BY <1>1, <2>2, <3>1 DEF Room
    <3>3. Keeps(old)
      BY <3>1 DEF Keeps
    <3>4. QED
      BY <3>2, <3>3
  <2>3. QED
    BY <2>1, <2>2
<1>3. /\ old \in Buffer(k) /\ size <= k * ByteBits /\ _capacity' = k * ByteBits
      /\ k * ByteBits \in Nat
  BY <1>2, ByteAssumption DEF Room
<1>4. Sets(k, old, new, range, ones)
  BY <1>3
<1>5. Room(k, new, _capacity', size)
  BY <1>2, <1>4 DEF Room, Sets
<1>6. Follows(new, size, range, ones)
  <2>1. range \subseteq Bits(size)
    BY <1>1 DEF Run, Bits
  <2>2. \A p \in Bits(size) : p \in Nat /\ p < k * ByteBits
    BY <1>1, <1>3 DEF Bits
  <2>3. \A p \in Bits(size) : p \in range => (IsOne(new, p) <=> p \in ones)
    BY <1>4, <2>2 DEF Sets
  <2>4. ASSUME NEW p \in Bits(size) \cap Bits(_num_bits), p \notin range
        PROVE  IsOne(new, p) <=> IsOne(_buffer, p)
    <3>1. IsOne(new, p) <=> IsOne(old, p)
      BY <1>4, <2>2, <2>4 DEF Sets
    <3>2. IsOne(old, p) <=> IsOne(_buffer, p)
      BY <1>2, <1>3, <2>2 DEF Keeps
    <3>3. QED
      BY <3>1, <3>2
  <2>5. QED
    BY <2>1, <2>3, <2>4 DEF Follows
<1>7. /\ _num_bits' = size
      /\ call' = [size |-> size, range |-> range, ones |-> ones, ok |-> TRUE]
  BY DEF Return
<1> HIDE DEF size, range
<1>8. QED
  BY <1>1, <1>5, <1>6, <1>7, StepExact

LEMMA PushBackExact ==
  ASSUME NEW m \in Nat, Room(m, _buffer, _capacity, _num_bits),
         NEW bit \in BOOLEAN, PushBack(bit)
  PROVE  Fits' /\ Exact
<1> DEFINE ones == IF bit THEN {_num_bits} ELSE {}
           new(old) == IF bit THEN SetBit(old, _num_bits) ELSE ClearBit(old, _num_bits)
<1>1. /\ _num_bits \in Nat /\ _num_bits <= _capacity
      /\ Run(_num_bits, 1) = {_num_bits} /\ ByteBits \in Nat
  BY ByteAssumption DEF Room, Run
<1>2. CASE NoMemory
  BY <1>1, <1>2, StepKeeps DEF NoMemory
<1>3. ASSUME NEW old \in Growth(_num_bits + 1), _buffer' = new(old),
             _capacity' = IF _num_bits + 1 > _capacity THEN Capacity(_num_bits + 1)
                          ELSE _capacity,
             Return(_num_bits + 1, Run(_num_bits, 1), ones, TRUE, TRUE)
      PROVE  Fits' /\ Exact
  <2>1. ASSUME NEW k \in Nat, old \in Buffer(k), _num_bits + 1 <= k * ByteBits
        PROVE  Sets(k, old, new(old), Run(_num_bits, 1), ones)
    <3>1. _num_bits < k * ByteBits
      BY <1>1, <2>1
    <3>2. /\ Sets(k, old, SetBit(old, _num_bits), {_num_bits}, {_num_bits})
          /\ Sets(k, old, ClearBit(old, _num_bits), {_num_bits}, {})
      BY <1>1, <2>1, <3>1, SetBitSets
    <3>3. QED
      BY <1>1, <3>2
  <2>2. ones \subseteq Run(_num_bits, 1)
    BY <1>1
  <2> HIDE DEF ones, new
  <2>3. QED
    BY <1>3, <2>1, <2>2, PushExact
<1>4. QED
  BY <1>2, <1>3 DEF PushBack, Push

(* A whole byte is written into a byte and what is left of the next. *)
LEMMA WholeByte ==
  ASSUME NEW k \in Nat, NEW old \in Buffer(k), NEW at \in Nat, NEW b \in Bytes,
         at + ByteBits <= k * ByteBits
  PROVE  Sets(k, old, SetByte(old, at, b, ByteBits),
              Run(at, ByteBits), Written(at, b, ByteBits))
<1>1. ByteBits \in Nat \ {0} /\ ByteBits \in 0 .. ByteBits /\ ByteBits \in 1 .. ByteBits
  BY ByteAssumption
<1>2. \A j \in Byte : j \in Low(ByteBits)
  <2>1. Byte \in Bytes /\ \A j \in Byte : j < ByteBits
    BY <1>1 DEF Byte, Bytes
  <2>2. QED
    BY <1>1, <2>1, ShiftedBits
<1>3. b \subseteq Low(ByteBits)
  BY <1>2 DEF Bytes
<1>4. Sets(k, old, SetByte(old, at, b, ByteBits), at .. at + ByteBits - 1,
           {j \in at .. at + ByteBits - 1 : j - at \in b})
  BY <1>1, <1>3, SetByteSets
<1>5. QED
  BY <1>4 DEF Run, Written

LEMMA PushByteExact ==
  ASSUME NEW m \in Nat, Room(m, _buffer, _capacity, _num_bits),
         NEW b \in Samples, PushBackByte(b)
  PROVE  Fits' /\ Exact
<1> DEFINE n == ByteBits
           ones == Written(_num_bits, b, n)
           new(old) == SetByte(old, _num_bits, b, n)
<1>1. /\ _num_bits \in Nat /\ _num_bits <= _capacity
      /\ n \in Nat /\ b \in Bytes /\ ones \subseteq Run(_num_bits, n)
  BY ByteAssumption, BitsAssumption DEF Room, Written
<1>2. CASE NoMemory
  BY <1>1, <1>2, StepKeeps DEF NoMemory
<1>3. ASSUME NEW old \in Growth(_num_bits + n), _buffer' = new(old),
             _capacity' = IF _num_bits + n > _capacity THEN Capacity(_num_bits + n)
                          ELSE _capacity,
             Return(_num_bits + n, Run(_num_bits, n), ones, TRUE, TRUE)
      PROVE  Fits' /\ Exact
  <2>1. ASSUME NEW k \in Nat, old \in Buffer(k), _num_bits + n <= k * ByteBits
        PROVE  Sets(k, old, new(old), Run(_num_bits, n), ones)
    BY <1>1, <2>1, WholeByte
  <2> HIDE DEF n, ones, new
  <2>2. QED
    BY <1>1, <1>3, <2>1, PushExact
<1>4. QED
  BY <1>2, <1>3 DEF PushBackByte, Push

LEMMA PushBytesExact ==
  ASSUME NEW m \in Nat, Room(m, _buffer, _capacity, _num_bits),
         NEW b \in Samples, NEW c \in Samples, PushBackBytes(b, c)
  PROVE  Fits' /\ Exact
<1> DEFINE n == 2 * ByteBits
           next == _num_bits + ByteBits
           first == Written(_num_bits, b, ByteBits)
           second == Written(next, c, ByteBits)
           ones == first \cup second
           between(old) == SetByte(old, _num_bits, b, ByteBits)
           new(old) == SetByte(between(old), next, c, ByteBits)
<1>1. /\ _num_bits \in Nat /\ _num_bits <= _capacity
      /\ ByteBits \in Nat /\ n \in Nat /\ next \in Nat /\ b \in Bytes /\ c \in Bytes
  BY ByteAssumption, BitsAssumption DEF Room
<1>2. /\ Run(_num_bits, n) = Run(_num_bits, ByteBits) \cup Run(next, ByteBits)
      /\ Run(_num_bits, ByteBits) \cap Run(next, ByteBits) = {}
  BY <1>1 DEF Run
<1>3. first \subseteq Run(_num_bits, ByteBits) /\ second \subseteq Run(next, ByteBits)
  BY DEF Written
<1>4. CASE NoMemory
  BY <1>1, <1>4, StepKeeps DEF NoMemory
<1>5. ASSUME NEW old \in Growth(_num_bits + n), _buffer' = new(old),
             _capacity' = IF _num_bits + n > _capacity THEN Capacity(_num_bits + n)
                          ELSE _capacity,
             Return(_num_bits + n, Run(_num_bits, n), ones, TRUE, TRUE)
      PROVE  Fits' /\ Exact
  <2>1. ASSUME NEW k \in Nat, old \in Buffer(k), _num_bits + n <= k * ByteBits
        PROVE  Sets(k, old, new(old), Run(_num_bits, n), ones)
    <3>1. k * ByteBits \in Nat
      BY <1>1
    <3>2. _num_bits + ByteBits <= k * ByteBits /\ next + ByteBits <= k * ByteBits
      BY <1>1, <2>1, <3>1
    <3>3. Sets(k, old, between(old), Run(_num_bits, ByteBits), first)
      BY <1>1, <2>1, <3>2, WholeByte
    <3>4. between(old) \in Buffer(k)
      BY <3>3 DEF Sets
    <3> HIDE DEF between, first, next
    <3>5. Sets(k, between(old), new(old), Run(next, ByteBits), second)
      BY <1>1, <3>2, <3>4, WholeByte
    <3> HIDE DEF new, second
    <3>6. Sets(k, old, new(old), Run(_num_bits, ByteBits) \cup Run(next, ByteBits),
               first \cup second)
      BY <1>2, <1>3, <3>3, <3>5, SetsTwice
    <3>7. QED
      BY <1>2, <3>6
  <2>2. ones \subseteq Run(_num_bits, n)
    BY <1>2, <1>3
  <2> HIDE DEF n, ones, new
  <2>3. QED
    BY <1>1, <1>5, <2>1, <2>2, PushExact
<1>6. QED
  BY <1>4, <1>5 DEF PushBackBytes, Push

LEMMA PopExact ==
  ASSUME NEW m \in Nat, Room(m, _buffer, _capacity, _num_bits),
         NEW n \in Nat, Pop(n)
  PROVE  Fits' /\ Exact
<1>1. _num_bits \in Nat /\ _num_bits <= _capacity /\ _capacity \in Nat /\ n <= _num_bits
  BY ByteAssumption DEF Room, Pop
<1>2. _num_bits - n \in Nat /\ _num_bits - n <= _capacity
  BY <1>1
<1>3. QED
  BY <1>2, StepKeeps DEF Pop

LEMMA SetOrClearExact ==
  ASSUME NEW m \in Nat, Room(m, _buffer, _capacity, _num_bits),
         NEW at \in Bits(_num_bits), NEW bit \in BOOLEAN, SetOrClear(at, bit)
  PROVE  Fits' /\ Exact
<1> DEFINE new == IF bit THEN SetBit(_buffer, at) ELSE ClearBit(_buffer, at)
           ones == IF bit THEN {at} ELSE {}
<1>1. at \in Nat /\ at < m * ByteBits /\ _buffer \in Buffer(m)
  BY BitsWithin
<1>2. /\ Sets(m, _buffer, SetBit(_buffer, at), {at}, {at})
      /\ Sets(m, _buffer, ClearBit(_buffer, at), {at}, {})
  BY <1>1, SetBitSets
<1>3. Sets(m, _buffer, new, {at}, ones)
  BY <1>2
<1>4. ones \subseteq {at} /\ {at} \subseteq Bits(_num_bits)
  OBVIOUS
<1>5. Write(new, {at}, ones, TRUE)
  BY DEF SetOrClear
<1> HIDE DEF new, ones
<1>6. QED
  BY <1>3, <1>4, <1>5, StepSets

LEMMA RunWithin ==
  ASSUME NEW m \in Nat, Room(m, _buffer, _capacity, _num_bits),
         NEW at \in Nat, NEW n \in Nat, at + n <= _num_bits
  PROVE  Run(at, n) \subseteq Bits(_num_bits) /\ at + n <= m * ByteBits
BY BitsWithin DEF Run, Bits

(* set_byte of no bits, inside a byte. *)
LEMMA SetNothing ==
  ASSUME NEW m \in Nat, NEW buffer \in Buffer(m), NEW at \in Nat, at <= m * ByteBits,
         OffsetOf(at) # 0
  PROVE  SetByte(buffer, at, {}, 0) = buffer
<1>1. /\ ByteBits \in Nat \ {0} /\ IndexOf(at) \in Nat /\ ByteBits * IndexOf(at) \in Int
      /\ OffsetOf(at) \in 1 .. ByteBits - 1 /\ OffsetOf(at) - 1 \in Byte
      /\ at = ByteBits * IndexOf(at) + OffsetOf(at)
  <2>1. /\ IndexOf(at) \in Nat /\ OffsetOf(at) \in Byte /\ ByteBits * IndexOf(at) \in Int
        /\ at = ByteBits * IndexOf(at) + OffsetOf(at)
    BY PositionSplits
  <2>2. \A o \in Byte : o # 0 => o \in 1 .. ByteBits - 1 /\ o - 1 \in Byte
    BY ByteAssumption DEF Byte
  <2>3. QED
    BY <2>1, <2>2, ByteAssumption
<1>2. IndexOf(at - 1) = IndexOf(at)
  <2>1. PICK o : o = OffsetOf(at) - 1
    OBVIOUS
  <2>2. PICK i : i = IndexOf(at)
    OBVIOUS
  <2>3. i \in Nat /\ o \in Byte /\ at - 1 = ByteBits * i + o
    BY <1>1, <2>1, <2>2
  <2>4. IndexOf(ByteBits * i + o) = i
    BY <2>3, PositionOf, Zenon
  <2>5. QED
    BY <2>2, <2>3, <2>4, Zenon
<1>3. ~Crosses(at, 0)
  <2>1. at + 0 - 1 = at - 1
    OBVIOUS
  <2>2. QED
    BY <1>2, <2>1 DEF Crosses
<1>4. Low(0) = {} /\ Shl({}, OffsetOf(at)) = {}
  BY <1>1 DEF Low, Shr, Shl, Byte
<1>5. buffer = [buffer EXCEPT ![IndexOf(at)] =
                  (@ \cap Not(Shl(Low(0), OffsetOf(at)))) \cup Shl({}, OffsetOf(at))]
  BY <1>4 DEF Not, Buffer, Bytes
<1>6. QED
  BY <1>3, <1>5 DEF SetByte

LEMMA PutByteExact ==
  ASSUME NEW m \in Nat, Room(m, _buffer, _capacity, _num_bits),
         NEW at \in 0 .. _num_bits, NEW n \in 0 .. ByteBits, NEW b \in Bytes,
         PutByte(at, b, n)
  PROVE  Fits' /\ Exact
<1> DEFINE new == SetByte(_buffer, at, b, n)
<1>1. CASE n = 0 /\ OffsetOf(at) = 0
  BY <1>1 DEF PutByte, Undefined, Fits, Exact
<1>2. CASE ~(n = 0 /\ OffsetOf(at) = 0)
  <2>1. /\ at \in Nat /\ n \in Nat /\ _buffer \in Buffer(m) /\ at + n <= _num_bits
        /\ Write(new, Run(at, n), Written(at, b, n), b \subseteq Low(n))
    BY <1>2, BitsWithin DEF PutByte
  <2>2. Run(at, n) \subseteq Bits(_num_bits) /\ at + n <= m * ByteBits
    BY <2>1, RunWithin
  <2>3. ASSUME b \subseteq Low(n)
        PROVE  Sets(m, _buffer, new, Run(at, n), Written(at, b, n))
    <3>1. CASE n = 0
      <4>1. b = {}
        BY <2>3, <3>1, BitsWithin DEF Low, Shr, Byte
      <4>2. new = _buffer
        BY <1>2, <2>1, <2>2, <3>1, <4>1, SetNothing
      <4>3. \A p \in Run(at, n) : FALSE
        BY <2>1, <3>1 DEF Run
      <4> HIDE DEF new
      <4>4. QED
        BY <2>1, <4>2, <4>3 DEF Sets
    <3>2. CASE n # 0
      <4>1. n \in 1 .. ByteBits
        BY <3>2
      <4>2. QED
        BY <2>1, <2>2, <2>3, <4>1, SetByteSets DEF Run, Written
    <3>3. QED
      BY <3>1, <3>2
  <2>4. Written(at, b, n) \subseteq Run(at, n)
    BY DEF Written
  <2> HIDE DEF new
  <2>5. QED
    BY <2>1, <2>2, <2>3, <2>4, StepSets
<1>3. QED
  BY <1>1, <1>2

LEMMA AbortExact ==
  ASSUME Abort
  PROVE  Fits' /\ Exact
BY DEF Abort, Fits, Exact

LEMMA FillSetExact ==
  ASSUME NEW m \in Nat, Room(m, _buffer, _capacity, _num_bits),
         NEW at \in Nat, NEW n \in Nat, FillSetCall(at, n)
  PROVE  Fits' /\ Exact
<1> DEFINE new == FillSet(_buffer, at, n)
<1>1. CASE FillUnderflows(at, n)
  BY <1>1, AbortExact DEF FillSetCall
<1>2. CASE ~FillUnderflows(at, n)
  <2>1. /\ at \in Bits(_num_bits) /\ _buffer \in Buffer(m) /\ at + n <= _num_bits
        /\ Write(new, Run(at, n), Run(at, n), FillSetSafe(at, n))
    BY <1>2, BitsWithin DEF FillSetCall, Bits
  <2>2. /\ Run(at, n) \subseteq Bits(_num_bits) /\ at + n <= m * ByteBits
        /\ at < m * ByteBits
    BY <2>1, RunWithin, BitsWithin
  <2>3. ASSUME FillSetSafe(at, n) PROVE Sets(m, _buffer, new, Run(at, n), Run(at, n))
    BY <1>2, <2>1, <2>2, <2>3, FillSets DEF Run, FillSetSafe
  <2> HIDE DEF new
  <2>4. QED
    BY <2>1, <2>2, <2>3, StepSets
<1>3. QED
  BY <1>1, <1>2

LEMMA FillClearExact ==
  ASSUME NEW m \in Nat, Room(m, _buffer, _capacity, _num_bits),
         NEW at \in Nat, NEW n \in Nat, FillClearCall(at, n)
  PROVE  Fits' /\ Exact
<1> DEFINE new == FillClear(_buffer, at, n)
<1>1. CASE FillUnderflows(at, n) \/ at + n = _num_bits
  BY <1>1, AbortExact DEF FillClearCall
<1>2. CASE ~(FillUnderflows(at, n) \/ at + n = _num_bits)
  <2>1. /\ at \in Bits(_num_bits) /\ _buffer \in Buffer(m) /\ at + n <= _num_bits
        /\ Write(new, Run(at, n), {}, FillClearSafe(at, n))
    BY <1>2, BitsWithin DEF FillClearCall, Bits
  <2>2. /\ Run(at, n) \subseteq Bits(_num_bits) /\ at + n <= m * ByteBits
        /\ at < m * ByteBits
    BY <2>1, RunWithin, BitsWithin
  <2>3. ASSUME FillClearSafe(at, n) PROVE Sets(m, _buffer, new, Run(at, n), {})
    BY <1>2, <2>1, <2>2, <2>3, FillSets DEF Run, FillClearSafe
  <2> HIDE DEF new
  <2>4. QED
    BY <2>1, <2>2, <2>3, StepSets
<1>3. QED
  BY <1>1, <1>2

-----------------------------------------------------------------------------
(* The specification. *)

LEMMA InitFits == Init => Fits
<1>1. SUFFICES ASSUME Init PROVE Fits
  OBVIOUS
<1>2. <<>> \in Buffer(0)
  BY DEF Buffer
<1>3. 0 * ByteBits = 0
  BY ByteAssumption
<1>4. Room(0, <<>>, 0, 0)
  BY <1>2, <1>3 DEF Room
<1>5. QED
  BY <1>1, <1>4 DEF Init, Fits

LEMMA NextExact ==
  ASSUME Fits, [Next]_vars
  PROVE  Fits' /\ [Exact]_vars
<1>1. CASE UNCHANGED vars
  BY <1>1 DEF vars, Fits, Room
<1>2. CASE Next
  <2>1. PICK m \in Nat : Room(m, _buffer, _capacity, _num_bits)
    BY <1>2 DEF Next, Fits, Room
  <2>2. _num_bits \in Nat /\ MaxBits \in Nat /\ ByteBits \in Nat
    BY <2>1, BitsWithin, BitsAssumption
  <2>3. ASSUME NEW n \in 0 .. MaxBits, Reserve(n) \/ ResizeUninit(n)
        PROVE  Fits' /\ Exact
    BY <2>1, <2>2, <2>3, ReserveExact, ResizeExact
  <2>4. ASSUME NEW bit \in BOOLEAN,
               PushBack(bit) \/ \E at \in Bits(_num_bits) : SetOrClear(at, bit)
        PROVE  Fits' /\ Exact
    BY <2>1, <2>4, PushBackExact, SetOrClearExact
  <2>5. ASSUME NEW b \in Samples,
               PushBackByte(b) \/ \E c \in Samples : PushBackBytes(b, c)
        PROVE  Fits' /\ Exact
    BY <2>1, <2>5, PushByteExact, PushBytesExact
  <2>6. ASSUME NEW at \in 0 .. _num_bits, NEW n \in 0 .. ByteBits, NEW b \in Bytes,
               PutByte(at, b, n)
        PROVE  Fits' /\ Exact
    BY <2>1, <2>6, PutByteExact
  <2>7. ASSUME Pop(1) \/ Pop(ByteBits) PROVE Fits' /\ Exact
    BY <2>1, <2>2, <2>7, PopExact
  <2>8. ASSUME NEW at \in Bits(MaxBits + 1), NEW n \in Bits(MaxBits + 1),
               FillSetCall(at, n) \/ FillClearCall(at, n)
        PROVE  Fits' /\ Exact
    <3>1. at \in Nat /\ n \in Nat
      BY <2>2 DEF Bits
    <3>2. QED
      BY <2>1, <2>8, <3>1, FillSetExact, FillClearExact
  <2>9. QED
    BY <1>2, <2>3, <2>4, <2>5, <2>6, <2>7, <2>8 DEF Next, Operation
<1>3. QED
  BY <1>1, <1>2

(* The invariant: whole bytes, as many as the capacity says, that have     *)
(* room for the bits, whatever was pushed, popped, resized or refused.     *)
THEOREM BitsFit == Spec => []Fits
<1>1. Fits /\ [Next]_vars => Fits'
  BY NextExact
<1>2. QED
  BY InitFits, <1>1, PTL DEF Spec

(* get_byte returns the bits of the array from any position, also over the *)
(* end of a byte, as get_bytes and the check in _set_byte rely on.         *)
THEOREM ReadsAreExact == Spec => []ReadsExact
<1>1. Fits => ReadsExact
  <2> SUFFICES ASSUME Fits, sound PROVE ReadsExact
    BY DEF ReadsExact
  <2>1. PICK m \in Nat : Room(m, _buffer, _capacity, _num_bits)
    BY DEF Fits, Room
  <2>2. /\ _num_bits \in Nat /\ _buffer \in Buffer(m) /\ ByteBits \in Nat \ {0}
        /\ _num_bits <= _capacity /\ _capacity = m * ByteBits
        /\ m * ByteBits \in Nat
    BY <2>1, ByteAssumption DEF Room
  <2>3. DOMAIN _buffer = Bits(_capacity \div ByteBits)
    <3>1. 0 \in Byte /\ m * ByteBits = ByteBits * m + 0
      BY <2>2 DEF Byte
    <3>2. _capacity \div ByteBits = m
      BY <2>2, <3>1, PositionOf DEF IndexOf
    <3>3. QED
      BY <2>2, <3>2 DEF Buffer, Bits
  <2>4. ASSUME NEW at \in Bits(_num_bits), NEW n \in 1 .. ByteBits, at + n <= _num_bits
        PROVE  GetByte(_buffer, at, n) = {j \in Bits(n) : at + j \in Ones}
    <3>1. at \in Nat /\ n \in Nat /\ at + n <= m * ByteBits
      BY <2>2, <2>4 DEF Bits
    <3>2. GetByte(_buffer, at, n) = {j \in 0 .. n - 1 : IsOne(_buffer, at + j)}
      BY <2>2, <3>1, GetByteReads
    <3>3. \A j \in 0 .. n - 1 : at + j \in Ones <=> IsOne(_buffer, at + j)
      BY <2>2, <2>4, <3>1 DEF Ones, Bits
    <3>4. QED
      BY <3>2, <3>3 DEF Bits
  <2>5. QED
    BY <2>2, <2>3, <2>4 DEF ReadsExact
<1>2. QED
  BY <1>1, BitsFit, PTL

(* A call changes the bits of its range, to the values it says, and no     *)
(* other bit: across bytes, into new memory, and not when memory is        *)
(* refused.                                                                *)
THEOREM WritesAreExact == Spec => WritesExactly
<1>1. Fits /\ [Next]_vars => [Exact]_vars
  BY NextExact
<1>2. Spec => [][Exact]_vars
  BY <1>1, BitsFit, PTL DEF Spec
<1>3. QED
  BY <1>2 DEF WritesExactly, Exact
=============================================================================
