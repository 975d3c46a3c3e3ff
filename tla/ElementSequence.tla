-------------------------- MODULE ElementSequence --------------------------
(***************************************************************************)
(* What a DynArray (containers/dynarray.h) promises its clients: a         *)
(* sequence.  call is the last call that returned and whether it succeeded;*)
(* a call that fails changes nothing, but build, which clears first.       *)
(* Positions count from 0.                                                 *)
(***************************************************************************)
EXTENDS Naturals, Sequences, SequencesExt

CONSTANT NoCall

VARIABLES elements, call

Prefix(n) == SubSeq(elements, 1, n)
Suffix(n) == SubSeq(elements, n + 1, Len(elements))

Init == elements = <<>> /\ call = NoCall

Kept == elements' = elements

Insert(index, value) == elements' = Prefix(index) \o <<value>> \o Suffix(index)

(* A gap of n elements, of which nothing is said but that they are there. *)
InsertRange(index, n) ==
  /\ Len(elements') = Len(elements) + n
  /\ IsPrefix(Prefix(index), elements') /\ IsSuffix(Suffix(index), elements')

EraseRange(first, last) == elements' = Prefix(first) \o Suffix(last)
ExtractRange(first, last) == elements' = SubSeq(elements, first + 1, last)

Resize(n) ==
  IF n <= Len(elements) THEN elements' = Prefix(n)
  ELSE Len(elements') = n /\ IsPrefix(elements, elements')

Take(c) ==
  \/ c[1] = "insert" /\ Insert(c[2], c[3])
  \/ c[1] = "insert_range" /\ InsertRange(c[2], c[3])
  \/ c[1] = "erase_range" /\ EraseRange(c[2], c[3])
  \/ c[1] = "extract_range" /\ ExtractRange(c[2], c[3])
  \/ c[1] = "resize" /\ Resize(c[2])
  \/ c[1] = "build" /\ elements' = c[2]
  \/ c[1] = "shrink_to_fit" /\ Kept

Next ==
  \/ call'.ok /\ Take(call'.what)
  \/ ~call'.ok /\ IF call'.what[1] = "build" THEN elements' = <<>> ELSE Kept

Spec == Init /\ [][Next]_<<elements, call>>
=============================================================================
