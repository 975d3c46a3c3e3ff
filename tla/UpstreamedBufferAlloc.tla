----------------------- MODULE UpstreamedBufferAlloc -----------------------
(***************************************************************************)
(* peff::UpstreamedBufferAlloc (advutils/buffer_alloc.h, .cc) composed     *)
(* with the BufferAlloc it allocates from first and the upstream allocator *)
(* it falls back to.  Behind the client's bytes of each block it keeps a   *)
(* marker that names the allocator the block came from; release and        *)
(* realloc believe it, and tell that allocator a size worked out from the  *)
(* client's.  So this module has memory: what the bytes of the buffer and  *)
(* of the upstream blocks hold.  A call is one step; where BufferAlloc's   *)
(* search ends is taken from module BufferAlloc (Fits, SearchIsExact).     *)
(* Clients number the bytes of a block from 1 and write them all.          *)
(***************************************************************************)
EXTENDS Integers

CONSTANTS Base, BufferSize, DescSize, DescAlign, Alignments, NullPtr,
          Sizes,       \* the sizes clients ask for
          Word,        \* sizeof(uintptr_t), which is also its alignment
          UpstreamSize \* the room for one block upstream

ASSUME WordAssumption ==
  /\ Word \in Nat \ {0} /\ UpstreamSize \in Nat
  /\ Base \in Nat /\ BufferSize \in Nat
  /\ DescSize \in Nat \ {0} /\ DescAlign \in Nat \ {0}
  /\ Sizes \subseteq Nat /\ Alignments \subseteq Nat \ {0}

VARIABLES alloc_descs,      \* buffer_alloc's descriptors
          upstream_blocks,  \* what upstream handed out, as [ptr, size]
          memory,           \* what each byte holds
          held,             \* the client's blocks, as [ptr, size, alignment]
          status,           \* "running" or "crashed"
          sound             \* history: no call yet that is known to go wrong

vars == <<alloc_descs, upstream_blocks, memory, held, status, sound>>

Buf(tree, request, at) ==
  INSTANCE BufferAlloc WITH alloc_descs <- tree, req <- request, off <- at,
    status <- "running", op <- "idle", old <- {}, ret <- NullPtr, written <- {},
    Resizes <- {}

Request(size, align) == [size |-> size, alignment |-> align]

(* Where BufferAlloc's search for a request ends, if anywhere. *)
Place(tree, request) ==
  LET fits == {at \in 0 .. BufferSize : Buf(tree, request, at)!Fits(at)}
  IN {at \in fits : \A o \in fits : at <= o}

(* Upstream has two places, behind the buffer. *)
UpstreamPlaces == {BufferSize, BufferSize + UpstreamSize}
Addresses == 0 .. BufferSize + 2 * UpstreamSize - 1
Bytes(ptr, size) == ptr .. ptr + size - 1

(* What a byte holds: 0 is anything, n > 0 the client's byte n. *)
Unknown == 0
BufferMarker == -1
UpstreamMarker == -2
Client(i) == i + 1

MarkerPos(size) == IF size % Word # 0 THEN size + (Word - (size % Word)) ELSE size
Total(size) == size + MarkerPos(size) + Word

-----------------------------------------------------------------------------
(* Effects on memory. *)
Set(mem, ptr, size, value) ==
  [a \in Addresses |-> IF a \in Bytes(ptr, size) THEN value ELSE mem[a]]
Mark(mem, ptr, size, marker) == Set(mem, ptr + MarkerPos(size), Word, marker)
Memmove_OneShort(mem, to, from, size) ==
  [a \in Addresses |-> IF a \in Bytes(to, size - 1) THEN mem[from + (a - to)] ELSE mem[a]]
Memmove(mem, to, from, size) ==
  [a \in Addresses |-> IF a \in Bytes(to, size) THEN mem[from + (a - to)] ELSE mem[a]]

(* The marker of the block h after it was reallocated to ptr. *)
Remark_OldPos(mem, h, ptr, new_size, marker) == Mark(mem, ptr, h.size, marker)
Remark(mem, h, ptr, new_size, marker) == Mark(mem, ptr, new_size, marker)

(* The client writes the bytes of its block from number n on. *)
ClientFills(mem, ptr, n, size) ==
  [a \in Addresses |-> IF a \in Bytes(ptr + n, size - n) THEN Client(a - ptr) ELSE mem[a]]

(* What a free byte holds is never read again: it is forgotten. *)
Forget(mem, live) ==
  [a \in Addresses |->
     IF \E h \in live : a \in Bytes(h.ptr, Total(h.size)) THEN mem[a] ELSE Unknown]

-----------------------------------------------------------------------------
Init ==
  /\ alloc_descs = {} /\ upstream_blocks = {} /\ held = {}
  /\ memory = [a \in Addresses |-> Unknown]
  /\ status = "running" /\ sound = TRUE

Handle(ptr, size, align) == [ptr |-> ptr, size |-> size, alignment |-> align]

(* The marker found behind the client's bytes, and whether the allocator   *)
(* it names knows the block by the size and alignment it will be told.     *)
MarkerOf(h) ==
  LET word == {memory[a] : a \in Bytes(h.ptr + MarkerPos(h.size), Word)}
  IN IF \E m \in {BufferMarker, UpstreamMarker} : word = {m}
     THEN CHOOSE m \in word : TRUE ELSE Unknown
InBuffer(h) == {d \in alloc_descs : /\ d.rb_value = h.ptr /\ d.size = Total(h.size)
                                    /\ d.alignment = h.alignment}
Upstream(h) == {u \in upstream_blocks : u.ptr = h.ptr /\ u.size = Total(h.size)}
Known(h) == \/ MarkerOf(h) = BufferMarker /\ InBuffer(h) # {}
            \/ MarkerOf(h) = UpstreamMarker /\ Upstream(h) # {}

Crash(safe) == /\ status' = "crashed" /\ sound' = safe
               /\ UNCHANGED <<alloc_descs, upstream_blocks, memory, held>>

Keep(mem, live) == held' = live /\ memory' = Forget(mem, live) /\ UNCHANGED status

-----------------------------------------------------------------------------
(* A free place upstream that holds total bytes. *)
UpstreamFree(total) ==
  {p \in UpstreamPlaces : total <= UpstreamSize /\ \A u \in upstream_blocks : u.ptr # p}

AllocBuffer(size, align) ==
  \E at \in Place(alloc_descs, Request(Total(size), align)) :
    LET h == Handle(at, size, align)
        buf == Buf(alloc_descs, Request(Total(size), align), at)!NewDesc
    IN /\ alloc_descs' = alloc_descs \cup {buf}
       /\ Keep(ClientFills(Mark(memory, at, size, BufferMarker), at, 0, size), held \cup {h})
       /\ UNCHANGED <<upstream_blocks, sound>>

AllocUpstream(size, align) ==
  /\ Place(alloc_descs, Request(Total(size), align)) = {}
  /\ \E p \in UpstreamFree(Total(size)) :
       /\ upstream_blocks' = upstream_blocks \cup {[ptr |-> p, size |-> Total(size)]}
       /\ Keep(ClientFills(Mark(memory, p, size, UpstreamMarker), p, 0, size),
               held \cup {Handle(p, size, align)})
  /\ UNCHANGED <<alloc_descs, sound>>

(* realloc of a block of the buffer that the buffer can satisfy.           *)
(* BufferAlloc::realloc moves the block and writes the new descriptor;     *)
(* then the bytes are moved once more from where the block used to be.     *)
(* That is harmless when the block stays, or grows and moves clear of its  *)
(* old place.                                                              *)
MovesClear(h, d) ==
  /\ h.ptr # d.rb_value => /\ Total(h.size) <= d.size
                           /\ \A a \in Bytes(h.ptr, Total(h.size)) :
                                a < d.rb_value \/ a >= d.desc_base + DescSize

ReallocBuffer(h, new_size, align) ==
  /\ MarkerOf(h) = BufferMarker
  /\ LET tree == alloc_descs \ InBuffer(h)
         request == Request(Total(new_size), align)
     IN \E at \in Place(tree, request) :
          LET desc == Buf(tree, request, at)!NewDesc
              moved == Set(Memmove(memory, at, h.ptr, Total(h.size)),
                           desc.desc_base, DescSize, Unknown)
              again == Memmove(moved, at, h.ptr, h.size)
          IN /\ alloc_descs' = tree \cup {desc}
             /\ Keep(ClientFills(Remark(again, h, at, new_size, BufferMarker),
                                 at, h.size, new_size),
                     (held \ {h}) \cup {Handle(at, new_size, align)})
             /\ sound' = MovesClear(h, desc)
  /\ UNCHANGED upstream_blocks

(* Otherwise the block moves upstream.  The size asked for there counts    *)
(* the marker's offset in the OLD block, so it is the size the block will  *)
(* be released with only if the offsets agree.                             *)
MoveUpstream(h, new_size, align) ==
  LET asked == new_size + MarkerPos(h.size) + Word
  IN \E p \in UpstreamFree(asked) :
       IF ~Known(h) THEN Crash(sound)
       ELSE /\ alloc_descs' = alloc_descs \ InBuffer(h)
            /\ upstream_blocks' = (upstream_blocks \ Upstream(h))
                                     \cup {[ptr |-> p, size |-> asked]}
            /\ Keep(ClientFills(Remark(Memmove(memory, p, h.ptr, h.size),
                                       h, p, new_size, UpstreamMarker), p, h.size, new_size),
                    (held \ {h}) \cup {Handle(p, new_size, align)})
            /\ sound' = (MarkerPos(h.size) = MarkerPos(new_size))

Realloc(h, new_size, align) ==
  \/ ReallocBuffer(h, new_size, align)
  \/ /\ MarkerOf(h) = BufferMarker =>
          Place(alloc_descs \ InBuffer(h), Request(Total(new_size), align)) = {}
     /\ MoveUpstream(h, new_size, align)

(* realloc_in_place asks the buffer, whose own realloc_in_place asserts    *)
(* unless it refuses, and then moves the block upstream all the same.      *)
RefusedInPlace(h, new_size, align) ==
  \E d \in InBuffer(h) :
    Buf(alloc_descs, Request(0, align), 0)!RefusesInPlace(d, Total(new_size), align)

ReallocInPlace(h, new_size, align) ==
  IF MarkerOf(h) = BufferMarker /\ ~RefusedInPlace(h, new_size, align)
  THEN Crash(FALSE) ELSE MoveUpstream(h, new_size, align)

Release(h) ==
  IF ~Known(h) THEN Crash(sound)
  ELSE /\ alloc_descs' = alloc_descs \ InBuffer(h)
       /\ upstream_blocks' = upstream_blocks \ Upstream(h)
       /\ Keep(memory, held \ {h}) /\ UNCHANGED sound

(* A request that both allocators refuse changes nothing.  No run is       *)
(* followed past a call known to go wrong.                                 *)
Operation ==
  \E size \in Sizes, align \in Alignments :
    \/ AllocBuffer(size, align) \/ AllocUpstream(size, align)
    \/ \E h \in held : Realloc(h, size, align) \/ ReallocInPlace(h, size, align)

Next == status = "running" /\ sound /\ (Operation \/ \E h \in held : Release(h))

Spec == Init /\ [][Next]_vars
-----------------------------------------------------------------------------
(* Properties. *)

(* Whatever the order of calls, the marker of every block still names the  *)
(* allocator the block came from, and that allocator knows it by the size  *)
(* and alignment release will tell it: BufferAlloc::release terminates     *)
(* otherwise (buffer_alloc.cc:211-220).                                    *)
BlocksGoHome == sound => status = "running" /\ \A h \in held : Known(h)

(* The client's bytes survive reallocation within the buffer, from the     *)
(* buffer to upstream and from one upstream block to another, and no       *)
(* marker, descriptor or copy of another block is written over them.       *)
ContentsKept ==
  sound => \A h \in held : \A i \in 0 .. h.size - 1 : memory[h.ptr + i] = Client(i)
=============================================================================
