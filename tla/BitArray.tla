------------------------------ MODULE BitArray ------------------------------
(***************************************************************************)
(* peff::BitArray (containers/bitarray.h).  Every call is one step; memory *)
(* comes with any content, and may not come.  call records the last call:  *)
(* the size it leaves, the bits it writes and which of them become 1.      *)
(*                                                                         *)
(* Some calls do not do what they say; sound is a history variable, TRUE   *)
(* as long as clients avoid them, and nothing follows such a call.  Where  *)
(* the code shows undefined behaviour pc becomes "undefined": reserve(0)   *)
(* frees the buffer and keeps the pointer to it, and set_byte of no bits at*)
(* the start of a byte clears it, shifts by more than the width, and writes*)
(* the next byte, which may be behind the buffer.                          *)
(***************************************************************************)
EXTENDS BitBytes, FiniteSets

CONSTANTS MaxBits,    \* a bound on the number of bits
          Samples,    \* the bytes that new memory holds and that are pushed
          NoCall

ASSUME BitsAssumption == MaxBits \in Nat /\ Samples \subseteq Bytes

VARIABLES _num_bits, _capacity,
          _buffer,     \* its bytes, numbered from 0
          pc,          \* "idle", "aborted" or "undefined"
          call, sound

vars == <<_num_bits, _capacity, _buffer, pc, call, sound>>

Indices(n) == 0 .. BytesFor(n) - 1

Init ==
  /\ _num_bits = 0 /\ _capacity = 0 /\ _buffer = <<>>
  /\ pc = "idle" /\ call = NoCall /\ sound = TRUE

Bits(n) == 0 .. n - 1
Run(at, n) == at .. at + n - 1
Written(at, b, n) == {j \in Run(at, n) : j - at \in b}

Return(size, range, ones, ok, safe) ==
  /\ pc' = "idle"
  /\ _num_bits' = size /\ size <= MaxBits
  /\ call' = [size |-> size, range |-> range, ones |-> ones, ok |-> ok]
  /\ sound' = (sound /\ safe)

(* The buffer after reserve(n) found memory: as many bytes as the new and  *)
(* the old size have in common are copied.                                 *)
Reserved(n) ==
  {[i \in Indices(n) |-> IF i < BytesFor(_num_bits) THEN _buffer[i] ELSE new[i]] :
     new \in [Indices(n) -> Samples]}

(* The buffer and the capacity that a call for n bits continues with:      *)
(* _auto_resize_capacity, which also shrinks, and _resize_or_expand_uninit.*)
Growth(n) == IF n > _capacity THEN Reserved(n) ELSE {_buffer}
AutoResizes(n) == n > _capacity \/ n < _capacity \div 2
Capacity(n) == BytesFor(n) * ByteBits

NoMemory == Return(_num_bits, {}, {}, FALSE, TRUE) /\ UNCHANGED <<_buffer, _capacity>>

Undefined ==
  /\ pc' = "undefined" /\ sound' = FALSE
  /\ UNCHANGED <<_num_bits, _capacity, _buffer, call>>

Reserve(n) ==
  \/ n > 0 /\ NoMemory
  \/ /\ n > 0 \/ _capacity = 0
     /\ _buffer' \in Reserved(n) /\ _capacity' = Capacity(n)
     /\ Return(_num_bits, {}, {}, TRUE, Capacity(n) >= _num_bits)
  \/ n = 0 /\ _capacity > 0 /\ Undefined

(* resize_uninit, and the pops that resize the capacity. *)
ResizeUninit(n) ==
  \/ ~AutoResizes(n) /\ Return(n, {}, {}, TRUE, TRUE) /\ UNCHANGED <<_buffer, _capacity>>
  \/ AutoResizes(n) /\ n > 0
     /\ \/ NoMemory
        \/ /\ _buffer' \in Reserved(n) /\ _capacity' = Capacity(n)
           /\ Return(n, {}, {}, TRUE, TRUE)
  \/ AutoResizes(n) /\ n = 0 /\ Undefined

(* push_back, push_back_byte, push_back_bytes. *)
Push(n, ones, Write(_)) ==
  \/ _num_bits + n > _capacity /\ NoMemory
  \/ \E buffer \in Growth(_num_bits + n) :
       /\ _buffer' = Write(buffer)
       /\ _capacity' = IF _num_bits + n > _capacity THEN Capacity(_num_bits + n)
                       ELSE _capacity
       /\ Return(_num_bits + n, Run(_num_bits, n), ones, TRUE, TRUE)

PushBack(bit) ==
  Push(1, IF bit THEN {_num_bits} ELSE {},
       LAMBDA buffer : IF bit THEN SetBit(buffer, _num_bits) ELSE ClearBit(buffer, _num_bits))

PushBackByte(b) ==
  Push(ByteBits, Written(_num_bits, b, ByteBits),
       LAMBDA buffer : SetByte(buffer, _num_bits, b, ByteBits))

PushBackBytes(b, c) ==
  Push(2 * ByteBits,
       Written(_num_bits, b, ByteBits) \cup Written(_num_bits + ByteBits, c, ByteBits),
       LAMBDA buffer : SetByte(SetByte(buffer, _num_bits, b, ByteBits),
                               _num_bits + ByteBits, c, ByteBits))

(* pop_back and pop_byte. *)
Pop(n) ==
  /\ n <= _num_bits
  /\ Return(_num_bits - n, {}, {}, TRUE, TRUE) /\ UNCHANGED <<_buffer, _capacity>>

Write(buffer, range, ones, safe) ==
  /\ _buffer' = buffer /\ UNCHANGED _capacity
  /\ Return(_num_bits, range, ones, TRUE, safe)

SetOrClear(at, bit) ==
  /\ at < _num_bits
  /\ Write(IF bit THEN SetBit(_buffer, at) ELSE ClearBit(_buffer, at),
           {at}, IF bit THEN {at} ELSE {}, TRUE)

(* set_byte with more bits in b than it is told to write damages others.   *)
PutByte(at, b, n) ==
  /\ at + n <= _num_bits
  /\ IF n = 0 /\ OffsetOf(at) = 0 THEN Undefined
     ELSE Write(SetByte(_buffer, at, b, n), Run(at, n), Written(at, b, n), b \subseteq Low(n))

(* The ranges that fill_set and fill_clear fill exactly. *)
FillSetSafe(at, n) == OffsetOf(at + n) \in {0, OffsetOf(at) + 1}
FillClearSafe(at, n) == OffsetOf(at) = 0 /\ OffsetOf(at + n) = 0

Abort == pc' = "aborted" /\ sound' = FALSE
         /\ UNCHANGED <<_num_bits, _capacity, _buffer, call>>

FillSetCall(at, n) ==
  /\ at < _num_bits /\ at + n <= _num_bits
  /\ IF FillUnderflows(at, n) THEN Abort
     ELSE Write(FillSet(_buffer, at, n), Run(at, n), Run(at, n), FillSetSafe(at, n))

(* The assertion excludes a range that ends where the array does. *)
FillClearCall(at, n) ==
  /\ at < _num_bits /\ at + n <= _num_bits
  /\ IF FillUnderflows(at, n) \/ at + n = _num_bits THEN Abort
     ELSE Write(FillClear(_buffer, at, n), Run(at, n), {}, FillClearSafe(at, n))

Operation ==
  \/ \E n \in 0 .. MaxBits : Reserve(n) \/ ResizeUninit(n)
  \/ \E bit \in BOOLEAN :
       PushBack(bit) \/ \E at \in Bits(_num_bits) : SetOrClear(at, bit)
  \/ \E b \in Samples : PushBackByte(b) \/ \E c \in Samples : PushBackBytes(b, c)
  \/ \E at \in 0 .. _num_bits, n \in 0 .. ByteBits, b \in Bytes : PutByte(at, b, n)
  \/ Pop(1) \/ Pop(ByteBits)
  \/ \E at, n \in Bits(MaxBits + 1) : FillSetCall(at, n) \/ FillClearCall(at, n)

Next == pc = "idle" /\ sound /\ Operation

Spec == Init /\ [][Next]_vars
-----------------------------------------------------------------------------
(* Properties. *)

Ones == {i \in Bits(_num_bits) : IsOne(_buffer, i)}

(* A call writes exactly the bits it says, to the values it says, and no   *)
(* other bit of the array changes: not at a byte boundary, not in a new    *)
(* buffer, not when memory is refused.                                     *)
WritesExactly ==
  [][sound' =>
       LET common == Bits(_num_bits) \cap Bits(_num_bits')
       IN /\ call'.ok => _num_bits' = call'.size
          /\ ~call'.ok => _num_bits' = _num_bits
          /\ Ones' \cap call'.range = call'.ones
          /\ (Ones' \cap common) \ call'.range = (Ones \cap common) \ call'.range]_vars

(* The buffer has room for the bits, and get_byte returns them from any    *)
(* position, as get_bytes and the check in _set_byte rely on.              *)
ReadsExact ==
  sound =>
    /\ _num_bits <= _capacity
    /\ DOMAIN _buffer = Bits(_capacity \div ByteBits)
    /\ \A at \in Bits(_num_bits), n \in 1 .. ByteBits :
         at + n <= _num_bits =>
           GetByte(_buffer, at, n) = {j \in Bits(n) : at + j \in Ones}
=============================================================================
