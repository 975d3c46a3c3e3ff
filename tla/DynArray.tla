------------------------------ MODULE DynArray ------------------------------
(***************************************************************************)
(* peff::DynArray (containers/dynarray.h): a block of slots, numbered from *)
(* 0, of which the first _length hold elements.  Every call is one step;   *)
(* allocations may fail.  An element is a value that names one object.     *)
(*                                                                         *)
(* A slot is Raw when no object lives in it, Blank when a default          *)
(* constructed one does, Moved when what lives there has been moved from.  *)
(* A Moved object has handed over what it owned: an insertion ends its life*)
(* by constructing over it, without a destructor, and that is no loss here.*)
(* Every other object must be destroyed.  For trivial types Raw is any     *)
(* content, and what lies behind the last element is forgotten.            *)
(*                                                                         *)
(* Not every call the interface offers keeps the elements whole; sound is  *)
(* a history variable, TRUE as long as clients avoid those that do not.    *)
(***************************************************************************)
EXTENDS Integers, SequencesExt

CONSTANTS Values, Raw, Moved, Blank, NoCall,
          MaxLength   \* a bound on _length

ASSUME SlotAssumption ==
  /\ {Raw, Moved, Blank} \cap Values = {}
  /\ Raw # Moved /\ Raw # Blank /\ Moved # Blank
  /\ MaxLength \in Nat

VARIABLES
  kind,     \* what the compiler knows of the elements: "trivial",
            \* "assignable", or "rebuilt": they have no move assignment
  array,    \* the fields, and whether an object was used wrongly or lost
  pc,       \* "idle", or "aborted" by an assertion
  call,     \* the last call that returned
  sound

vars == <<kind, array, pc, call, sound>>

trivial == kind = "trivial"
Slots == Values \cup {Raw, Moved, Blank}
Owners == Values \cup {Blank}

(* _data is the slots of the block, null says that there is none. *)
Empty == [_length |-> 0, _capacity |-> 0, _data |-> <<>>, null |-> TRUE,
          fault |-> FALSE]
Range0(first, last) == first .. last - 1

-----------------------------------------------------------------------------
(* Single objects.  The first conjunct of each fault is what the step      *)
(* must not meet; an access outside the block is one for every type.       *)

Fault(a, wrong) == [a EXCEPT !.fault = @ \/ wrong]

Outside(a, I) == ~(I \subseteq Range0(0, a._capacity))

(* New objects in I: an owner that is still there is lost. *)
Construct(a, I, value) ==
  LET owned == ~trivial /\ \E i \in I : a._data[i] \in Owners
  IN IF Outside(a, I) THEN Fault(a, TRUE)
     ELSE Fault([a EXCEPT !._data = [i \in DOMAIN @ |->
                                       IF i \in I THEN value ELSE @[i]]], owned)

Destroy(a, I) ==
  IF trivial THEN a
  ELSE IF Outside(a, I) THEN Fault(a, TRUE)
  ELSE Fault([a EXCEPT !._data = [i \in DOMAIN @ |->
                                    IF i \in I THEN Raw ELSE @[i]]],
             \E i \in I : a._data[i] = Raw)

(* construct_at(&_data[to], std::move(_data[from])). *)
MoveConstruct(a, to, from) ==
  Fault([a EXCEPT !._data = [@ EXCEPT ![to] = a._data[from], ![from] = Moved]],
        a._data[from] = Raw \/ a._data[to] \in Owners)

(* move_assign_or_move_construct.  Without a move assignment the target is *)
(* destroyed and then constructed from itself.                             *)
MoveAssign(a, to, from) ==
  IF kind = "rebuilt" THEN Fault(a, TRUE)
  ELSE Fault([a EXCEPT !._data = [@ EXCEPT ![to] = a._data[from],
                                           ![from] = Moved]],
             Raw \in {a._data[to], a._data[from]})

-----------------------------------------------------------------------------
(* Ranges of objects, one after the other: from the first to the last, or  *)
(* from the last to the first.                                             *)

Nth(m, n, upwards) == IF upwards THEN m - 1 ELSE n - m

Shift(a, to, from, n, Move(_, _, _), upwards) ==
  LET moved[m \in 0 .. n] ==
        IF m = 0 THEN a
        ELSE Move(moved[m - 1], to + Nth(m, n, upwards), from + Nth(m, n, upwards))
  IN IF n > 0 /\ Outside(a, Range0(to, to + n) \cup Range0(from, from + n))
     THEN Fault(a, TRUE)
     ELSE IF trivial   \* memmove
     THEN [a EXCEPT !._data = [i \in DOMAIN @ |->
                                 IF i \in Range0(to, to + n) THEN @[i - to + from]
                                 ELSE @[i]]]
     ELSE moved[n]

(* _move_data: from the last element to the first where the ranges overlap,*)
(* which is right for a shift upwards and wrong for one downwards.         *)
MoveData(a, to, from, n) == Shift(a, to, from, n, MoveAssign, to + n <= from)

(* The downward shifts that do not lose elements. *)
ShiftSafe(to, from, n) ==
  trivial \/ n = 0 \/ (kind = "assignable" /\ to + n <= from)

(* move_data_uninit. *)
MoveDataUninit(a, to, from, n) ==
  Shift(a, to, from, n, MoveConstruct, to + n < from)

(* _clear: the elements are destroyed, the block is released.  A block of  *)
(* no bytes is forgotten instead.                                          *)
Clear(a) ==
  LET b == Destroy(a, Range0(0, a._length))
      lost == ~trivial /\ \E i \in DOMAIN b._data : b._data[i] \in Owners
      leaked == b._capacity = 0 /\ ~b.null
  IN [Empty EXCEPT !.fault = b.fault \/ lost \/ leaked]

GrownCapacity(length, old) ==
  IF old = 0 \/ old + old \div 2 < length THEN length ELSE old + old \div 2

(* The first n elements move to a new block, in which the slots up to      *)
(* length become rest, and the old block is cleared; trivial elements move *)
(* with realloc.                                                           *)
Relocate(a, n, length, capacity, rest) ==
  LET unborn == ~trivial /\ \E i \in Range0(0, n) : a._data[i] = Raw
      left == [a EXCEPT !._data = [i \in DOMAIN @ |->
                                     IF i < n THEN Moved ELSE @[i]]]
  IN [_length |-> length, _capacity |-> capacity, null |-> FALSE,
      _data |-> [i \in Range0(0, capacity) |->
                   IF i < n THEN a._data[i]
                   ELSE IF i < length THEN rest ELSE Raw],
      fault |-> a.fault \/ unborn \/ (~trivial /\ Clear(left).fault)]

(* _grow_capacity. *)
Grow(a, length, capacity, construct) ==
  Relocate(a, a._length, length, capacity,
           IF construct /\ ~trivial THEN Blank ELSE Raw)

(* _shrink and _shrink_capacity: the tail is destroyed before the elements *)
(* move, and once more, with them, by _clear.                              *)
Shrink(a, length) == Destroy(a, Range0(length, a._length))
ShrinkCapacity(a, length) ==
  Relocate(IF trivial THEN a ELSE Shrink(a, length), length, length, length, Raw)

(* Whether _shrink fails its assertion, and whether _shrink_capacity keeps *)
(* the objects whole.                                                      *)
ShrinkAborts(a, length) == ~trivial /\ length = a._length
ShrinkSafe(length) == trivial /\ length > 0

-----------------------------------------------------------------------------
(* Outcomes of a call. *)

Forget(a) ==
  IF trivial THEN [a EXCEPT !._data = [i \in DOMAIN @ |->
                                         IF i < a._length THEN @[i] ELSE Raw]]
  ELSE a

Done(what, a, ok, safe) ==
  /\ array' = Forget(a) /\ call' = [what |-> what, ok |-> ok]
  /\ sound' = (sound /\ safe)
  /\ UNCHANGED <<kind, pc>>

NoMemory(what) == Done(what, array, FALSE, TRUE)

Abort == /\ pc' = "aborted" /\ sound' = FALSE
         /\ UNCHANGED <<kind, array, call>>

Idle == pc = "idle"
Fits(n) == n <= array._capacity

(* The first block of objects is asked for with realloc_in_place(nullptr,  *)
(* 0, ...), which some allocators refuse and others do not survive (an     *)
(* assertion in BufferAlloc).                                              *)
FirstBlockAborts(n) == ~Fits(n) /\ array.null /\ ~trivial /\ Abort

Init ==
  /\ kind \in {"trivial", "assignable", "rebuilt"}
  /\ array = Empty /\ pc = "idle" /\ call = NoCall /\ sound = TRUE

-----------------------------------------------------------------------------
(* Insertion. *)

Grown(n, construct) ==
  IF Fits(n) THEN array
  ELSE Grow(array, n, GrownCapacity(n, array._capacity), construct)

(* _insert_range. *)
OpenGap(index, n, construct) ==
  LET old == array._length
      shifted == MoveDataUninit(Grown(old + n, construct),
                                index + n, index, old - index)
      built == IF construct /\ ~trivial
               THEN Construct(shifted, Range0(index, index + n), Blank)
               ELSE shifted
  IN [built EXCEPT !._length = old + n]

(* insert, push_front and push_back. *)
Insert(index, value) ==
  LET what == <<"insert", index, value>>
  IN /\ Idle /\ index <= array._length /\ array._length < MaxLength
     /\ \/ Done(what, Construct(OpenGap(index, 1, FALSE), {index}, value), TRUE, TRUE)
        \/ ~Fits(array._length + 1) /\ NoMemory(what)
        \/ FirstBlockAborts(array._length + 1)

(* insert_range_init and insert_range_uninit, which construct both: the gap*)
(* and, where the block grows, the slots behind the elements before that.  *)
(* The objects in those are then constructed over: sound calls fit.        *)
InsertRange(index, n) ==
  LET what == <<"insert_range", index, n>>
  IN /\ Idle /\ index <= array._length /\ array._length + n <= MaxLength
     /\ \/ Done(what, OpenGap(index, n, TRUE), TRUE, trivial \/ Fits(array._length + n))
        \/ ~Fits(array._length + n) /\ NoMemory(what)
        \/ FirstBlockAborts(array._length + n)

-----------------------------------------------------------------------------
(* Removal. *)

(* What erase_range and erase_range_and_shrink do first. *)
CloseGap_WrongEnd(first, last) ==
  LET post == array._length - last
      a == IF post < last - first THEN Destroy(array, Range0(first, last - post))
           ELSE array
  IN MoveData(a, first, last, post)
CloseGap(first, last) ==
  LET post == array._length - last
      a == IF post < last - first THEN Destroy(array, Range0(first + post, last))
           ELSE array
  IN MoveData(a, first, last, post)
CloseGapSafe(first, last) == ShiftSafe(first, last, array._length - last)

MayErase(first, last) ==
  Idle /\ first < array._length /\ first <= last /\ last <= array._length

EraseRange(first, last) ==
  /\ MayErase(first, last)
  /\ Done(<<"erase_range", first, last>>,
          [CloseGap(first, last) EXCEPT !._length = @ - (last - first)],
          TRUE, CloseGapSafe(first, last))

(* Without memory for the smaller block the elements have moved all the    *)
(* same, and the length is still the old one.                              *)
EraseRangeAndShrink(first, last) ==
  LET what == <<"erase_range", first, last>>
      length == array._length - (last - first)
      closed == CloseGap(first, last)
  IN /\ MayErase(first, last)
     /\ \/ Done(what, closed, FALSE, trivial /\ first = last)
        \/ IF ShrinkAborts(array, length) THEN Abort
           ELSE Done(what, ShrinkCapacity(closed, length), TRUE,
                     CloseGapSafe(first, last) /\ ShrinkSafe(length))

PopFront ==
  LET length == array._length - 1
      shifted == MoveData(array, 0, 1, length)
  IN /\ MayErase(0, 1)
     /\ Done(<<"erase_range", 0, 1>>, [Shrink(shifted, length) EXCEPT !._length = length],
             TRUE, ShiftSafe(0, 1, length))

(* Without memory the elements are moved back. *)
Restore_FrontLost(shifted, length, front) == MoveData(shifted, 1, 0, length)
Restore(shifted, length, front) ==
  Construct(MoveData(shifted, 1, 0, length), {0}, front)

PopFrontAndShrink ==
  LET what == <<"erase_range", 0, 1>>
      length == array._length - 1
      taken == IF trivial THEN array ELSE [array EXCEPT !._data[0] = Moved]
      shifted == MoveData(taken, 0, 1, length)
  IN /\ MayErase(0, 1)
     /\ \/ Done(what, Restore(shifted, length, array._data[0]), FALSE,
                ShiftSafe(0, 1, length))
        \/ Done(what, ShrinkCapacity(shifted, length), TRUE,
                ShiftSafe(0, 1, length) /\ ShrinkSafe(length))

-----------------------------------------------------------------------------
(* Other lengths. *)

Truncated(length) ==
  IF length < array._length THEN [Shrink(array, length) EXCEPT !._length = length]
  ELSE array

(* resize and resize_uninit; shrinking, they are pop_back and clear too.   *)
(* Clients grow an array of objects with resize_uninit only as build does. *)
Resize(length, construct) ==
  LET what == <<"resize", length>>
      new == Range0(array._length, length)
      extended == IF construct /\ ~trivial THEN Construct(array, new, Blank) ELSE array
  IN /\ Idle
     /\ \/ length <= array._length /\ Done(what, Truncated(length), TRUE, TRUE)
        \/ /\ length > array._length /\ (construct \/ trivial)
           /\ \/ Fits(length)
                 /\ Done(what, [extended EXCEPT !._length = length], TRUE, TRUE)
              \/ ~Fits(length) /\ Done(what, Grown(length, construct), TRUE, TRUE)
              \/ ~Fits(length) /\ NoMemory(what)
              \/ FirstBlockAborts(length)

(* resize_and_shrink and resize_and_shrink_uninit.  To grow within the     *)
(* capacity they call _shrink_capacity with the larger length.             *)
ResizeAndShrink(length, construct) ==
  LET what == <<"resize", length>>
  IN /\ Idle
     /\ \/ length = array._length /\ Done(what, array, TRUE, TRUE)
        \/ length > array._length /\ ~Fits(length) /\ (construct \/ trivial)
           /\ \/ NoMemory(what)
              \/ Done(what, Grow(array, length, length, construct), TRUE, TRUE)
              \/ FirstBlockAborts(length)
        \/ length > array._length /\ Fits(length) /\ Abort
        \/ length < array._length
           /\ (NoMemory(what) \/ Done(what, ShrinkCapacity(array, length), TRUE,
                                      ShrinkSafe(length)))

(* extract_range. *)
ExtractRange(first, last) ==
  LET length == last - first
      moved == IF first > 0 /\ length \notin {0, array._length}
               THEN MoveData(array, 0, first, length) ELSE array
  IN /\ Idle /\ first <= last /\ last <= array._length
     /\ Done(<<"extract_range", first, last>>,
             IF length = array._length THEN array
             ELSE [Shrink(moved, length) EXCEPT !._length = length],
             TRUE, first = 0 \/ ShiftSafe(0, first, length))

(* extract_range_and_shrink keeps the first elements, not those asked for. *)
ExtractRangeAndShrink(first, last) ==
  LET what == <<"extract_range", first, last>>
      length == last - first
  IN /\ Idle /\ first <= last /\ last <= array._length
     /\ \/ length = array._length /\ Done(what, array, TRUE, TRUE)
        \/ length # array._length
           /\ (NoMemory(what) \/ Done(what, ShrinkCapacity(array, length), TRUE,
                                      first = 0 /\ ShrinkSafe(length)))

(* shrink_to_fit tests for a length greater than the capacity. *)
ShrinkToFit == Idle /\ Done(<<"shrink_to_fit">>, array, TRUE, TRUE)

(* build and build_and_shrink. *)
Build(values) ==
  LET what == <<"build", values>>
      n == Len(values)
      cleared == Truncated(0)
      opened == IF Fits(n) THEN [cleared EXCEPT !._length = n]
                ELSE Grow(cleared, n, GrownCapacity(n, array._capacity), FALSE)
      built[m \in 0 .. n] == IF m = 0 THEN opened
                             ELSE Construct(built[m - 1], {m - 1}, values[m])
  IN /\ Idle
     /\ \/ Done(what, built[n], TRUE, TRUE)
        \/ ~Fits(n) /\ Done(what, cleared, FALSE, TRUE)
        \/ FirstBlockAborts(n)

(* clear_and_shrink, and what the destructor does. *)
ClearAndShrink == Idle /\ Done(<<"resize", 0>>, Clear(array), TRUE, TRUE)

-----------------------------------------------------------------------------
Elements == [m \in 1 .. array._length |-> array._data[m - 1]]
Fresh == Values \ Range(Elements)

Next ==
  \/ \E first, last \in 0 .. MaxLength :
       \/ EraseRange(first, last) \/ EraseRangeAndShrink(first, last)
       \/ ExtractRange(first, last) \/ ExtractRangeAndShrink(first, last)
  \/ \E index \in 0 .. MaxLength :
       \/ \E value \in Fresh : Insert(index, value)
       \/ \E n \in 1 .. 2 : InsertRange(index, n)
  \/ \E length \in 0 .. MaxLength, construct \in BOOLEAN :
       Resize(length, construct) \/ ResizeAndShrink(length, construct)
  \/ \E v, w \in Values : Build(<<>>) \/ Build(<<v>>) \/ (v # w /\ Build(<<v, w>>))
  \/ PopFront \/ PopFrontAndShrink \/ ShrinkToFit \/ ClearAndShrink

Spec == Init /\ [][Next]_vars
-----------------------------------------------------------------------------
(* Properties. *)

(* As long as clients keep to the sound calls, every element is an object, *)
(* behind the last one there are only moved-from objects, no step destroyed*)
(* an object twice, constructed over one that was not moved from, left one *)
(* in a released block, or left the block, and the block is the one that   *)
(* _capacity speaks of.                                                    *)
Lifetimes ==
  sound =>
    /\ ~array.fault /\ array._length <= array._capacity
    /\ array.null <=> array._capacity = 0
    /\ DOMAIN array._data = Range0(0, array._capacity)
    /\ ~trivial => \A i \in DOMAIN array._data :
                     IF i < array._length THEN array._data[i] # Raw
                     ELSE array._data[i] \in {Raw, Moved}

Promise == INSTANCE ElementSequence WITH elements <- Elements

(* The array is a sequence: each call changes it as it says, whatever      *)
(* moves of elements, reallocations and restorations that takes, and a     *)
(* call that finds no memory changes nothing.                              *)
SequenceSpec ==
  Promise!Init /\ [][sound' => Promise!Next]_<<Elements, call>>
=============================================================================
