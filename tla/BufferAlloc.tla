----------------------------- MODULE BufferAlloc -----------------------------
(***************************************************************************)
(* peff::BufferAlloc (advutils/buffer_alloc.h, .cc): an allocator over one *)
(* caller-supplied buffer.  Each block is followed by its own descriptor,  *)
(* an intrusive node of the tree alloc_descs, keyed by the block's         *)
(* address.  alloc and realloc share a first-fit search whose loop is one  *)
(* step per iteration here; every other operation is one step.             *)
(*                                                                         *)
(* Pointers are offsets from the start of the buffer.  The tree is its set *)
(* of nodes (module RBTree models the tree itself).  Asserts are enabled,  *)
(* as in a build without NDEBUG.                                           *)
(***************************************************************************)
EXTENDS Integers, FiniteSets

CONSTANTS
  Base,          \* (uintptr_t)buffer
  BufferSize,    \* buffer_size
  DescSize,      \* sizeof(AllocDesc)
  DescAlign,     \* alignof(AllocDesc)
  Sizes,         \* the sizes clients ask for
  Alignments,    \* the alignments clients ask for
  Resizes,       \* the pairs <<size, new_size>> clients reallocate with
  NullPtr        \* the null pointer

ASSUME BufferAssumption ==
  /\ Base \in Nat /\ BufferSize \in Nat
  /\ DescSize \in Nat \ {0} /\ DescAlign \in Nat \ {0}
  /\ Sizes \subseteq Nat /\ Alignments \subseteq Nat \ {0}
  /\ Resizes \subseteq Sizes \X Sizes
ASSUME NullAssumption == NullPtr \notin Nat

VARIABLES
  alloc_descs,   \* the nodes of the tree of descriptors
  status,        \* "running", or how the object or the program ended
  op,            \* the call in progress: "idle", "alloc" or "realloc"
  req,           \* the size and alignment it asks for
  old,           \* realloc: the descriptor taken out of the tree, as a set
  off,           \* the offset the search has reached
  ret,           \* what the last completed call returned
  written        \* the offsets the last step wrote in the buffer

vars == <<alloc_descs, status, op, req, old, off, ret, written>>

AllocDesc == [rb_value : Nat, size : Nat, alignment : Nat \ {0},
              desc_base : Nat]

-----------------------------------------------------------------------------
(* Sizes and places. *)

RoundUp(n, a) == IF n % a # 0 THEN n + (a - (n % a)) ELSE n

(* calc_alloc_size: the descriptor's offset in the block, the block's size. *)
DescOff_OneShort(size, alignment) ==
  RoundUp(RoundUp(size, alignment), DescAlign) - 1
DescOff(size, alignment) == RoundUp(RoundUp(size, alignment), DescAlign)
ActualSize(size, alignment) == DescOff(size, alignment) + DescSize

(* One past the last byte of a block, its descriptor included. *)
End(d) == d.desc_base + DescSize
Extent(d) == d.rb_value .. (End(d) - 1)
Bytes(from, n) == from .. (from + n - 1)

(* d is the node tree.get_max_lteq(at) returns. *)
IsMaxLteq(tree, at, d) ==
  /\ d \in tree /\ d.rb_value <= at
  /\ \A e \in tree : e.rb_value <= at => e.rb_value <= d.rb_value

(* The node get_max_lteq(at) finds, if any, ends at or before off. *)
EndsBefore_NoDesc(at) ==
  \/ \A d \in alloc_descs : d.rb_value > at
  \/ \E d \in alloc_descs : /\ IsMaxLteq(alloc_descs, at, d)
                            /\ d.desc_base <= off
EndsBefore(at) ==
  \/ \A d \in alloc_descs : d.rb_value > at
  \/ \E d \in alloc_descs : IsMaxLteq(alloc_descs, at, d) /\ End(d) <= off

-----------------------------------------------------------------------------
Idle == op' = "idle" /\ req' = [size |-> 0, alignment |-> 1]
        /\ old' = {} /\ off' = 0

Init ==
  /\ alloc_descs = {} /\ status = "running" /\ op = "idle"
  /\ req = [size |-> 0, alignment |-> 1] /\ old = {} /\ off = 0
  /\ ret = NullPtr /\ written = {}

CanCall == status = "running" /\ op = "idle"

(* alloc: the search starts at the bottom of the buffer. *)
AllocBegin(size, alignment) ==
  /\ CanCall
  /\ op' = "alloc" /\ req' = [size |-> size, alignment |-> alignment]
  /\ off' = 0 /\ written' = {}
  /\ UNCHANGED <<alloc_descs, status, old, ret>>

(* realloc: the old descriptor leaves the tree before the search, so its   *)
(* bytes may be part of the new place.                                     *)
ReallocBegin(d, new_size, new_alignment) ==
  /\ CanCall /\ d \in alloc_descs /\ <<d.size, new_size>> \in Resizes
  /\ op' = "realloc"
  /\ req' = [size |-> new_size, alignment |-> new_alignment]
  /\ old' = {d} /\ alloc_descs' = alloc_descs \ {d}
  /\ off' = 0 /\ written' = {}
  /\ UNCHANGED <<status, ret>>

-----------------------------------------------------------------------------
(* The search loop of alloc and realloc. *)
Actual == ActualSize(req.size, req.alignment)
Searching == op # "idle" /\ off + Actual <= BufferSize
IsAligned == (Base + off) % req.alignment = 0

MoveTo(new_off) ==
  /\ off' = new_off /\ written' = {}
  /\ UNCHANGED <<alloc_descs, status, op, req, old, ret>>

AlignUp ==
  /\ Searching /\ ~IsAligned
  /\ MoveTo(off + (req.alignment - ((Base + off) % req.alignment)))

SkipBottom ==
  /\ Searching /\ IsAligned
  /\ \E d \in alloc_descs : /\ IsMaxLteq(alloc_descs, off, d) /\ End(d) > off
                            /\ MoveTo(End(d))

SkipTop_BlockSize ==
  /\ Searching /\ IsAligned /\ EndsBefore(off)
  /\ \E d \in alloc_descs : /\ IsMaxLteq(alloc_descs, off + Actual, d)
                            /\ End(d) > off /\ MoveTo(off + Actual)
SkipTop_Stuck ==
  /\ Searching /\ IsAligned /\ EndsBefore(off)
  /\ \E d \in alloc_descs : /\ IsMaxLteq(alloc_descs, off + Actual, d)
                            /\ End(d) > off /\ MoveTo(off)
SkipTop ==
  /\ Searching /\ IsAligned /\ EndsBefore(off)
  /\ \E d \in alloc_descs : /\ IsMaxLteq(alloc_descs, off + Actual, d)
                            /\ End(d) > off /\ MoveTo(End(d))

Found_BottomOnly == Searching /\ IsAligned /\ EndsBefore(off)
Found_Unaligned == Searching /\ EndsBefore(off) /\ EndsBefore(off + Actual)
Found == /\ Searching /\ IsAligned
         /\ EndsBefore(off) /\ EndsBefore(off + Actual)

(* The descriptor constructed behind the block the search found. *)
NewDesc == [rb_value |-> off, size |-> req.size, alignment |-> req.alignment,
            desc_base |-> off + DescOff(req.size, req.alignment)]

AllocSucceeds ==
  /\ op = "alloc" /\ Found
  /\ alloc_descs' = alloc_descs \cup {NewDesc}
  /\ written' = Bytes(NewDesc.desc_base, DescSize)
  /\ ret' = off /\ Idle /\ UNCHANGED status

(* realloc moves size bytes, the OLD size, and then constructs the new     *)
(* descriptor.                                                             *)
ReallocSucceeds ==
  /\ op = "realloc" /\ Found
  /\ alloc_descs' = alloc_descs \cup {NewDesc}
  /\ \E d \in old : written' = Bytes(off, d.size)
                               \cup Bytes(NewDesc.desc_base, DescSize)
  /\ ret' = off /\ Idle /\ UNCHANGED status

(* The end of the buffer: nullptr, and realloc puts the old block back.    *)
Exhausted_DropsOld ==
  /\ op # "idle" /\ off + Actual > BufferSize
  /\ ret' = NullPtr /\ written' = {}
  /\ Idle /\ UNCHANGED <<alloc_descs, status>>
Exhausted ==
  /\ op # "idle" /\ off + Actual > BufferSize
  /\ alloc_descs' = alloc_descs \cup old
  /\ ret' = NullPtr /\ written' = {}
  /\ Idle /\ UNCHANGED status

Search == \/ AlignUp \/ SkipBottom \/ SkipTop
          \/ AllocSucceeds \/ ReallocSucceeds \/ Exhausted

-----------------------------------------------------------------------------
Stay == UNCHANGED <<alloc_descs, op, req, old, off>>

(* realloc_in_place refuses, and the scope guard re-inserts the descriptor. *)
RefusesInPlace(d, new_size, new_alignment) ==
  LET end == d.rb_value + ActualSize(new_size, new_alignment)
      others == alloc_descs \ {d}
  IN \/ new_alignment < d.alignment
     \/ \E t \in others : IsMaxLteq(others, end, t) /\ t.desc_base >= end

(* Otherwise it constructs a descriptor desc_off DESCRIPTORS behind ptr,   *)
(* inserts it under the key ptr and leaves the scope guard armed: the      *)
(* guard inserts the old one, whose key is now present, and insert asserts.*)
ReallocInPlace(d, new_size, new_alignment) ==
  /\ CanCall /\ d \in alloc_descs /\ <<d.size, new_size>> \in Resizes
  /\ Stay
  /\ \/ /\ RefusesInPlace(d, new_size, new_alignment)
        /\ ret' = NullPtr /\ written' = {} /\ UNCHANGED status
     \/ /\ ~RefusesInPlace(d, new_size, new_alignment)
        /\ UNCHANGED ret
        /\ written' = Bytes(d.rb_value
                  + DescOff(new_size, new_alignment) * DescSize, DescSize)
        /\ status' = "assert_failed"

(* release: the block must be known under the size and alignment given. *)
Release(ptr, size, alignment) ==
  /\ CanCall
  /\ written' = {} /\ UNCHANGED <<op, req, old, off, ret>>
  /\ \/ \E d \in alloc_descs : /\ d.rb_value = ptr
                               /\ d.size = size /\ d.alignment = alignment
                               /\ alloc_descs' = alloc_descs \ {d}
                               /\ UNCHANGED status
     \/ /\ ~\E d \in alloc_descs : /\ d.rb_value = ptr
                                   /\ d.size = size /\ d.alignment = alignment
        /\ status' = "terminated" /\ UNCHANGED alloc_descs

(* The destructor frees the nodes left in the tree through g_void_alloc,   *)
(* which terminates.                                                       *)
Destroy ==
  /\ CanCall
  /\ status' = IF alloc_descs = {} THEN "destroyed" ELSE "terminated"
  /\ written' = {} /\ Stay /\ UNCHANGED ret

Next ==
  \/ \E size \in Sizes, alignment \in Alignments :
       \/ AllocBegin(size, alignment)
       \/ \E d \in alloc_descs : \/ ReallocBegin(d, size, alignment)
                                 \/ ReallocInPlace(d, size, alignment)
       \/ \E ptr \in 0 .. BufferSize : Release(ptr, size, alignment)
  \/ Search
  \/ Destroy

Spec == Init /\ [][Next]_vars
(* The search is straight-line code of one thread: it keeps running. *)
FairSpec == Spec /\ WF_vars(Search)

-----------------------------------------------------------------------------
(* Properties. *)

(* Descriptors, requests and offsets have their types: an offset computed  *)
(* from a descriptor is never negative.                                    *)
TypeOK ==
  /\ alloc_descs \subseteq AllocDesc /\ old \subseteq AllocDesc
  /\ status \in {"running", "assert_failed", "terminated", "destroyed"}
  /\ op \in {"idle", "alloc", "realloc"}
  /\ req \in [size : Nat, alignment : Nat \ {0}]
  /\ off \in Nat /\ ret \in Nat \cup {NullPtr}
  /\ written \subseteq Int

(* Two blocks, descriptors included, share no byte. *)
Disjoint(d, e) == End(d) <= e.rb_value \/ End(e) <= d.rb_value

(* No two live blocks overlap, the one being reallocated included, nor does *)
(* one reach the other's descriptor: a client's write can never hit a node *)
(* of the tree, and a refused realloc can put its block back.              *)
NoOverlap == \A d, e \in alloc_descs \cup old : d # e => Disjoint(d, e)

(* A block and its descriptor lie inside the buffer, the descriptor behind *)
(* the user's bytes (assert at buffer_alloc.cc:87), the address aligned.   *)
WellPlaced(d) == /\ d.rb_value + d.size <= d.desc_base
                 /\ End(d) <= BufferSize
                 /\ (Base + d.rb_value) % d.alignment = 0
AllPlaced == \A d \in alloc_descs \cup old : WellPlaced(d)

(* The pending request would fit at o.  A block that starts exactly where  *)
(* the new one would end counts as in the way.                             *)
Fits(o) == /\ (Base + o) % req.alignment = 0 /\ o + Actual <= BufferSize
           /\ \A d \in alloc_descs : End(d) <= o \/ d.rb_value > o + Actual

(* The search is exact: a call returns nullptr only if no offset of the    *)
(* buffer fits the request, and otherwise the lowest offset that does,     *)
(* although the loop jumps over whole blocks.                              *)
SearchIsExact ==
  [][(op # "idle" /\ op' = "idle") =>
       \/ ret' = NullPtr /\ \A o \in 0 .. BufferSize : ~Fits(o)
       \/ ret' \in Nat /\ Fits(ret') /\ \A o \in 0 .. (ret' - 1) : ~Fits(o)]_vars

(* While the program runs, a call writes only in the block it returns: the *)
(* bytes of every block live before and after a step, descriptor included, *)
(* keep their value.                                                       *)
NoStrayWrite ==
  [][status' = "running" =>
       \A d \in alloc_descs \cap alloc_descs' :
         written' \cap Extent(d) = {}]_vars

(* Every search ends. *)
SearchEnds == op # "idle" ~> op = "idle"

(* The allocator is a BlockArena: the block being reallocated stays live   *)
(* until the call that replaces it returns.                                *)
Block(d) == [ptr |-> d.rb_value, size |-> d.size, alignment |-> d.alignment]
Arena == INSTANCE BlockArena WITH
           blocks <- {Block(d) : d \in alloc_descs \cup old},
           open <- status = "running"
ArenaSpec == Arena!Spec
=============================================================================
