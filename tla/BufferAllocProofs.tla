------------------------- MODULE BufferAllocProofs -------------------------
(***************************************************************************)
(* Theorems about BufferAlloc for every buffer, every size and alignment   *)
(* of the descriptors and every set of requests.                           *)
(***************************************************************************)
EXTENDS BufferAlloc, TLAPS

(* Rounding up yields a natural number that is not smaller. *)
LEMMA RoundUpGrows ==
  ASSUME NEW n \in Nat, NEW a \in Nat \ {0}
  PROVE  RoundUp(n, a) \in Nat /\ RoundUp(n, a) >= n
<1>1. n % a \in 0 .. (a - 1)
  OBVIOUS
<1>2. QED
  BY <1>1 DEF RoundUp

(* The descriptor starts behind the user's bytes. *)
LEMMA DescOffGrows ==
  ASSUME NEW size \in Nat, NEW alignment \in Nat \ {0}
  PROVE  /\ DescOff(size, alignment) \in Nat
         /\ DescOff(size, alignment) >= size
<1>1. /\ RoundUp(size, alignment) \in Nat
      /\ RoundUp(size, alignment) >= size
  BY RoundUpGrows
<1>2. /\ RoundUp(RoundUp(size, alignment), DescAlign) \in Nat
      /\ RoundUp(RoundUp(size, alignment), DescAlign)
           >= RoundUp(size, alignment)
  BY <1>1, RoundUpGrows, BufferAssumption
<1>3. QED
  BY <1>1, <1>2 DEF DescOff

(* What the search establishes when its loop reaches the label succeeded:  *)
(* the new block is well formed and keeps clear of every node of the tree. *)
LEMMA FoundIsFree ==
  ASSUME TypeOK, NoOverlap, AllPlaced, Found
  PROVE  /\ NewDesc \in AllocDesc
         /\ WellPlaced(NewDesc)
         /\ End(NewDesc) = off + Actual
         /\ \A e \in alloc_descs : Disjoint(NewDesc, e)
<1>1. /\ req.size \in Nat /\ req.alignment \in Nat \ {0} /\ off \in Nat
      /\ DescSize \in Nat \ {0} /\ BufferSize \in Nat
  BY BufferAssumption DEF TypeOK
<1>2. /\ DescOff(req.size, req.alignment) \in Nat
      /\ DescOff(req.size, req.alignment) >= req.size
  BY <1>1, DescOffGrows
<1>3. NewDesc \in AllocDesc
  BY <1>1, <1>2 DEF NewDesc, AllocDesc
<1>4. End(NewDesc) = off + Actual
  BY <1>1, <1>2 DEF End, NewDesc, Actual, ActualSize
<1>5. WellPlaced(NewDesc)
  <2>1. End(NewDesc) <= BufferSize
    BY <1>4 DEF Found, Searching
  <2>2. (Base + NewDesc.rb_value) % NewDesc.alignment = 0
    BY DEF Found, IsAligned, NewDesc
  <2>3. NewDesc.rb_value + NewDesc.size <= NewDesc.desc_base
    BY <1>1, <1>2 DEF NewDesc
  <2>4. QED
    BY <2>1, <2>2, <2>3 DEF WellPlaced
<1>6. ASSUME NEW e \in alloc_descs
      PROVE  Disjoint(NewDesc, e)
  <2>1. e \in AllocDesc /\ e.rb_value \in Nat /\ e.desc_base \in Nat
    BY DEF TypeOK, AllocDesc
  <2>2. Actual \in Nat
    BY <1>1, <1>2 DEF Actual, ActualSize
  <2>3. CASE e.rb_value > off + Actual
    BY <1>1, <1>4, <2>1, <2>2, <2>3 DEF Disjoint
  <2>4. CASE e.rb_value <= off + Actual
    <3>1. PICK d \in alloc_descs :
             IsMaxLteq(alloc_descs, off + Actual, d) /\ End(d) <= off
      BY <1>1, <2>1, <2>2, <2>4 DEF Found, EndsBefore
    <3>2. d \in AllocDesc /\ d.rb_value \in Nat /\ d.desc_base \in Nat
          /\ d.size \in Nat
      BY DEF TypeOK, AllocDesc
    <3>3. e.rb_value <= d.rb_value
      BY <2>4, <3>1 DEF IsMaxLteq
    <3>4. d.rb_value < End(d)
      BY <1>1, <3>2 DEF AllPlaced, WellPlaced, End
    <3>5. End(e) <= off
      <4>1. CASE e = d
        BY <3>1, <4>1
      <4>2. CASE e # d
        <5>1. Disjoint(d, e)
          BY <4>2 DEF NoOverlap
        <5>2. End(e) <= d.rb_value
          BY <1>1, <2>1, <3>2, <3>3, <3>4, <5>1 DEF Disjoint, End
        <5>3. QED
          BY <1>1, <2>1, <3>1, <3>2, <3>4, <5>2 DEF End
      <4>3. QED
        BY <4>1, <4>2
    <3>6. NewDesc.rb_value = off
      BY DEF NewDesc
    <3>7. QED
      BY <3>5, <3>6 DEF Disjoint
  <2>5. QED
    BY <1>1, <2>1, <2>2, <2>3, <2>4
<1>7. QED
  BY <1>3, <1>4, <1>5, <1>6

-----------------------------------------------------------------------------
(* The inductive invariant. *)
IInv == TypeOK /\ NoOverlap /\ AllPlaced

(* The blocks in sight are those of the tree and the one a realloc has in  *)
(* hand: a step that adds none keeps both placement invariants.            *)
LEMMA NoNewBlock ==
  ASSUME IInv, alloc_descs' \cup old' \subseteq alloc_descs \cup old
  PROVE  NoOverlap' /\ AllPlaced'
<1>1. \A d, e \in alloc_descs' \cup old' : d # e => Disjoint(d, e)
  BY DEF IInv, NoOverlap
<1>2. \A d \in alloc_descs' \cup old' : WellPlaced(d)
  BY DEF IInv, AllPlaced
<1>3. QED
  BY <1>1, <1>2 DEF NoOverlap, AllPlaced, Disjoint, WellPlaced, End

(* A search that succeeds replaces the block in hand by one that is free.  *)
LEMMA NewBlock ==
  ASSUME IInv, Found, alloc_descs' = alloc_descs \cup {NewDesc}, old' = {}
  PROVE  NoOverlap' /\ AllPlaced'
<1>1. /\ NewDesc \in AllocDesc /\ WellPlaced(NewDesc)
      /\ \A e \in alloc_descs : Disjoint(NewDesc, e)
  BY FoundIsFree DEF IInv
<1>2. \A d, e \in alloc_descs' \cup old' : d # e => Disjoint(d, e)
  BY <1>1 DEF IInv, NoOverlap, Disjoint
<1>3. \A d \in alloc_descs' \cup old' : WellPlaced(d)
  BY <1>1 DEF IInv, AllPlaced
<1>4. QED
  BY <1>2, <1>3 DEF NoOverlap, AllPlaced, Disjoint, WellPlaced, End

(* A range of bytes is a set of integers. *)
LEMMA BytesAreInts ==
  \A from, n : Bytes(from, n) \subseteq Int
BY DEF Bytes

LEMMA InitIInv == Init => IInv
<1>1. SUFFICES ASSUME Init PROVE IInv
  OBVIOUS
<1>2. TypeOK
  BY <1>1 DEF Init, TypeOK
<1>3. NoOverlap /\ AllPlaced
  BY <1>1 DEF Init, NoOverlap, AllPlaced
<1>4. QED
  BY <1>2, <1>3 DEF IInv

LEMMA NextIInv == IInv /\ [Next]_vars => IInv'
<1>1. SUFFICES ASSUME IInv, [Next]_vars PROVE IInv'
  OBVIOUS
<1> USE BufferAssumption DEF IInv
<1>2. ASSUME NEW size \in Sizes, NEW alignment \in Alignments,
             AllocBegin(size, alignment)
      PROVE  IInv'
  <2>1. TypeOK'
    BY <1>1, <1>2 DEF TypeOK, AllocBegin, CanCall
  <2>2. QED
    BY <1>1, <1>2, <2>1, NoNewBlock DEF AllocBegin
<1>3. ASSUME NEW size \in Sizes, NEW alignment \in Alignments,
             NEW d \in alloc_descs, ReallocBegin(d, size, alignment)
      PROVE  IInv'
  <2>1. TypeOK'
    BY <1>1, <1>3 DEF TypeOK, ReallocBegin, CanCall
  <2>2. QED
    BY <1>1, <1>3, <2>1, NoNewBlock DEF ReallocBegin
<1>4. ASSUME NEW size \in Sizes, NEW alignment \in Alignments,
             NEW d \in alloc_descs, ReallocInPlace(d, size, alignment)
      PROVE  IInv'
  <2>1. TypeOK'
    <3>1. written' \subseteq Int
      BY <1>4, BytesAreInts DEF ReallocInPlace
    <3>2. /\ status' \in {"running", "assert_failed"}
          /\ ret' \in Nat \cup {NullPtr}
      BY <1>1, <1>4 DEF TypeOK, ReallocInPlace, CanCall
    <3>3. QED
      BY <1>1, <1>4, <3>1, <3>2 DEF TypeOK, ReallocInPlace, Stay
  <2>2. QED
    BY <1>1, <1>4, <2>1, NoNewBlock DEF ReallocInPlace, Stay
<1>5. ASSUME NEW size \in Sizes, NEW alignment \in Alignments,
             NEW ptr \in 0 .. BufferSize, Release(ptr, size, alignment)
      PROVE  IInv'
  <2>1. TypeOK'
    BY <1>1, <1>5 DEF TypeOK, Release, CanCall
  <2>2. QED
    BY <1>1, <1>5, <2>1, NoNewBlock DEF Release
<1>6. ASSUME Search
      PROVE  IInv'
  <2>1. ASSUME NEW new_off \in Nat, MoveTo(new_off)
        PROVE  IInv'
    <3>1. TypeOK'
      BY <1>1, <2>1 DEF TypeOK, MoveTo
    <3>2. QED
      BY <1>1, <2>1, <3>1, NoNewBlock DEF MoveTo
  <2>2. \A d \in alloc_descs : End(d) \in Nat
    BY <1>1 DEF TypeOK, AllocDesc, End
  <2>3. CASE AlignUp
    <3>1. /\ req.alignment \in Nat \ {0} /\ off \in Nat
          /\ Base + off \in Nat
      BY <1>1 DEF TypeOK
    <3>2. (Base + off) % req.alignment \in 0 .. (req.alignment - 1)
      BY <3>1
    <3>3. off + (req.alignment - ((Base + off) % req.alignment)) \in Nat
      BY <3>1, <3>2
    <3>4. QED
      BY <2>1, <2>3, <3>3 DEF AlignUp
  <2>4. CASE SkipBottom
    BY <2>1, <2>2, <2>4 DEF SkipBottom
  <2>5. CASE SkipTop
    BY <2>1, <2>2, <2>5 DEF SkipTop
  <2>6. ASSUME AllocSucceeds \/ ReallocSucceeds
        PROVE  IInv'
    <3>1. Found /\ alloc_descs' = alloc_descs \cup {NewDesc} /\ old' = {}
      BY <2>6 DEF AllocSucceeds, ReallocSucceeds, Idle
    <3>2. NewDesc \in AllocDesc
      BY <1>1, <3>1, FoundIsFree
    <3>3. ret' = off /\ written' \subseteq Int
      BY <2>6, BytesAreInts DEF AllocSucceeds, ReallocSucceeds
    <3>4. TypeOK'
      BY <1>1, <2>6, <3>1, <3>2, <3>3
      DEF TypeOK, AllocSucceeds, ReallocSucceeds, Idle
    <3>5. QED
      BY <1>1, <3>1, <3>4, NewBlock
  <2>7. CASE Exhausted
    <3>1. TypeOK'
      BY <1>1, <2>7 DEF TypeOK, Exhausted, Idle
    <3>2. QED
      BY <1>1, <2>7, <3>1, NoNewBlock DEF Exhausted, Idle
  <2>8. QED
    BY <1>6, <2>3, <2>4, <2>5, <2>6, <2>7 DEF Search
<1>7. CASE Destroy
  <2>1. TypeOK'
    BY <1>1, <1>7 DEF TypeOK, Destroy, CanCall, Stay
  <2>2. QED
    BY <1>1, <1>7, <2>1, NoNewBlock DEF Destroy, Stay
<1>8. CASE UNCHANGED vars
  <2>1. TypeOK'
    BY <1>1, <1>8 DEF TypeOK, vars
  <2>2. QED
    BY <1>1, <1>8, <2>1, NoNewBlock DEF vars
<1>9. QED
  BY <1>1, <1>2, <1>3, <1>4, <1>5, <1>6, <1>7, <1>8 DEF Next

LEMMA Inductive == Spec => []IInv
  BY InitIInv, NextIInv, PTL DEF Spec

(* Every variable keeps its type, for every buffer and set of requests.    *)
THEOREM TypeSafe == Spec => []TypeOK
<1>1. IInv => TypeOK
  BY DEF IInv
<1>2. QED
  BY <1>1, Inductive, PTL

(* No two live blocks share a byte and no block reaches a descriptor: the  *)
(* first-fit search of alloc and realloc never hands out memory in use.    *)
THEOREM BlocksDisjoint == Spec => []NoOverlap
<1>1. IInv => NoOverlap
  BY DEF IInv
<1>2. QED
  BY <1>1, Inductive, PTL

(* Every block lies in the buffer, aligned, its descriptor behind it.      *)
THEOREM BlocksPlaced == Spec => []AllPlaced
<1>1. IInv => AllPlaced
  BY DEF IInv
<1>2. QED
  BY <1>1, Inductive, PTL

-----------------------------------------------------------------------------
(* Clients that only grow their blocks: what realloc moves, the old size,  *)
(* then fits in the new block.                                             *)
MovesWithin == op = "realloc" => \A d \in old : d.size <= req.size

LEMMA Moves ==
  ASSUME \A p \in Resizes : p[1] <= p[2]
  PROVE  Spec => []MovesWithin
<1>1. Init => MovesWithin
  BY DEF Init, MovesWithin
<1>2. MovesWithin /\ [Next]_vars => MovesWithin'
  <2>1. SUFFICES ASSUME MovesWithin, [Next]_vars PROVE MovesWithin'
    OBVIOUS
  <2>2. ASSUME NEW size \in Sizes, NEW alignment \in Alignments,
               NEW d \in alloc_descs, ReallocBegin(d, size, alignment)
        PROVE  MovesWithin'
    <3>1. d.size <= size
      BY <2>2 DEF ReallocBegin
    <3>2. QED
      BY <2>2, <3>1 DEF ReallocBegin, MovesWithin
  <2>3. ASSUME \/ op' \in {"idle", "alloc"}
               \/ UNCHANGED <<op, req, old>>
        PROVE  MovesWithin'
    BY <2>1, <2>3 DEF MovesWithin
  <2>4. QED
    BY <2>1, <2>2, <2>3
    DEF Next, vars, AllocBegin, ReallocInPlace, Stay, Release, Destroy, Search,
        AlignUp, SkipBottom, SkipTop, MoveTo, AllocSucceeds, ReallocSucceeds,
        Exhausted, Idle
<1>3. QED
  BY <1>1, <1>2, PTL DEF Spec

(* If clients only grow their blocks, no call writes in a live block other *)
(* than the one it returns.                                                *)
THEOREM WritesStayHome ==
  ASSUME \A p \in Resizes : p[1] <= p[2]
  PROVE  Spec => NoStrayWrite
<1> DEFINE Clear == status' = "running" =>
                      \A d \in alloc_descs \cap alloc_descs' :
                        written' \cap Extent(d) = {}
<1>1. IInv /\ MovesWithin /\ [Next]_vars => [Clear]_vars
  <2>1. SUFFICES ASSUME IInv, MovesWithin, Next PROVE Clear
    OBVIOUS
  <2>2. CASE AllocSucceeds \/ ReallocSucceeds
    <3> SUFFICES ASSUME NEW e \in alloc_descs
                 PROVE  written' \cap Extent(e) = {}
      OBVIOUS
    <3>1. Found
      BY <2>2 DEF AllocSucceeds, ReallocSucceeds
    <3>2. /\ NewDesc \in AllocDesc /\ WellPlaced(NewDesc)
          /\ Disjoint(NewDesc, e)
      BY <2>1, <3>1, FoundIsFree DEF IInv
    <3>3. /\ NewDesc.rb_value = off /\ NewDesc.size = req.size
          /\ off \in Nat /\ req.size \in Nat /\ NewDesc.desc_base \in Nat
          /\ off + req.size <= NewDesc.desc_base
          /\ e.rb_value \in Nat /\ e.desc_base \in Nat
          /\ DescSize \in Nat \ {0}
      BY <2>1, <3>2, BufferAssumption
      DEF IInv, TypeOK, AllocDesc, NewDesc, WellPlaced
    <3>4. \A x \in Extent(e) : /\ x \in Int
                               /\ \/ x < off
                                  \/ x >= NewDesc.desc_base + DescSize
      BY <3>2, <3>3 DEF Extent, Disjoint, End
    <3>5. \A x \in Bytes(NewDesc.desc_base, DescSize) :
             x \in Int /\ off <= x /\ x < NewDesc.desc_base + DescSize
      BY <3>3 DEF Bytes
    <3>6. CASE AllocSucceeds
      <4>1. written' = Bytes(NewDesc.desc_base, DescSize)
        BY <3>6 DEF AllocSucceeds
      <4>2. QED
        BY <3>3, <3>4, <3>5, <4>1
    <3>7. CASE ReallocSucceeds
      <4>1. PICK d \in old : written' = Bytes(off, d.size)
                               \cup Bytes(NewDesc.desc_base, DescSize)
        BY <3>7 DEF ReallocSucceeds
      <4>2. d.size \in Nat /\ d.size <= req.size
        BY <2>1, <3>7 DEF IInv, TypeOK, AllocDesc, ReallocSucceeds, MovesWithin
      <4>3. \A x \in Bytes(off, d.size) :
               x \in Int /\ off <= x /\ x < NewDesc.desc_base + DescSize
        BY <3>3, <4>2 DEF Bytes
      <4>4. QED
        BY <3>3, <3>4, <3>5, <4>1, <4>3
    <3>8. QED
      BY <2>2, <3>6, <3>7
  <2>3. CASE written' = {} \/ status' # "running"
    BY <2>3
  <2>4. QED
    BY <2>1, <2>2, <2>3
    DEF Next, AllocBegin, ReallocBegin, ReallocInPlace, Release, Destroy, Search,
        AlignUp, SkipBottom, SkipTop, MoveTo, Exhausted
<1>2. QED
  BY <1>1, Inductive, Moves, PTL DEF Spec, NoStrayWrite

-----------------------------------------------------------------------------
(* Refinement. *)
Blocks == {Block(d) : d \in alloc_descs \cup old}

(* Disjoint blocks are apart for the client, and have different addresses. *)
LEMMA DisjointApart ==
  ASSUME NEW d \in AllocDesc, NEW e \in AllocDesc,
         WellPlaced(d), WellPlaced(e), Disjoint(d, e)
  PROVE  Arena!Apart(Block(d), Block(e))
BY BufferAssumption
DEF AllocDesc, WellPlaced, Disjoint, End, Arena!Apart, Block

(* A block that is well placed here is well placed for the client. *)
LEMMA PlacedForClient ==
  ASSUME NEW d \in AllocDesc, WellPlaced(d)
  PROVE  Block(d) \in Arena!Block /\ Arena!Placed(Block(d))
BY BufferAssumption
DEF AllocDesc, WellPlaced, End, Arena!Block, Arena!Placed, Block

(* Different descriptors in sight are different blocks of the client. *)
LEMMA BlockInjective ==
  ASSUME IInv, NEW d \in alloc_descs \cup old, NEW e \in alloc_descs \cup old,
         d # e
  PROVE  Block(d) # Block(e)
<1>1. Disjoint(d, e) /\ WellPlaced(d) /\ WellPlaced(e)
      /\ d \in AllocDesc /\ e \in AllocDesc
  BY DEF IInv, NoOverlap, AllPlaced, TypeOK
<1>2. d.rb_value # e.rb_value
  BY <1>1, BufferAssumption DEF AllocDesc, WellPlaced, Disjoint, End
<1>3. QED
  BY <1>2 DEF Block

(* A realloc in progress has one block in hand, out of the tree; any other *)
(* call has none.  A call only progresses while the program runs.          *)
InHand == /\ op = "realloc" => \E d \in old : old = {d} /\ d \notin alloc_descs
          /\ op # "realloc" => old = {}
          /\ op # "idle" => status = "running"

LEMMA HandInv == Spec => []InHand
<1>1. Init => InHand
  BY DEF Init, InHand
<1>2. InHand /\ [Next]_vars => InHand'
  <2>1. SUFFICES ASSUME InHand, [Next]_vars PROVE InHand'
    OBVIOUS
  <2>2. ASSUME NEW size \in Sizes, NEW alignment \in Alignments,
               NEW d \in alloc_descs, ReallocBegin(d, size, alignment)
        PROVE  InHand'
    BY <2>2 DEF ReallocBegin, CanCall, InHand
  <2>3. ASSUME op' = "idle", old' = {}
        PROVE  InHand'
    BY <2>3 DEF InHand
  <2>4. ASSUME op' = "alloc", old' = {}, status' = "running"
        PROVE  InHand'
    BY <2>4 DEF InHand
  <2>5. ASSUME UNCHANGED <<alloc_descs, status, op, old>>
        PROVE  InHand'
    BY <2>1, <2>5 DEF InHand
  <2>6. ASSUME NEW size \in Sizes, NEW alignment \in Alignments,
               AllocBegin(size, alignment)
        PROVE  InHand'
    BY <2>1, <2>4, <2>6 DEF AllocBegin, CanCall, InHand
  <2>7. ASSUME CanCall, UNCHANGED <<op, old>>
        PROVE  InHand'
    BY <2>1, <2>3, <2>7 DEF InHand, CanCall
  <2>8. QED
    BY <2>1, <2>2, <2>3, <2>5, <2>6, <2>7
    DEF Next, vars, ReallocInPlace, Stay, Release, Destroy, Search,
        AlignUp, SkipBottom, SkipTop, MoveTo, AllocSucceeds, ReallocSucceeds,
        Exhausted, Idle
<1>3. QED
  BY <1>1, <1>2, PTL DEF Spec

(* Every step of the allocator is a step of the arena it promises, or      *)
(* leaves the arena as it is.                                              *)
LEMMA StepSimulation ==
  IInv /\ InHand /\ [Next]_vars
    => [Arena!Next]_<<Blocks, ret, status = "running">>
<1>1. SUFFICES ASSUME IInv, InHand, [Next]_vars
               PROVE  [Arena!Next]_<<Blocks, ret, status = "running">>
  OBVIOUS
<1> USE DEF Blocks
<1>2. ASSUME Found, alloc_descs' = alloc_descs \cup {NewDesc}, old' = {},
             ret' = off, UNCHANGED status, status = "running",
             \/ old = {}
             \/ \E d \in old : old = {d} /\ d \notin alloc_descs
      PROVE  Arena!Next
  <2>1. /\ NewDesc \in AllocDesc /\ WellPlaced(NewDesc)
        /\ \A e \in alloc_descs : Disjoint(NewDesc, e)
    BY <1>1, <1>2, FoundIsFree DEF IInv
  <2> DEFINE b == Block(NewDesc)
  <2>2. b \in Arena!Block /\ Arena!Placed(b) /\ b.ptr = off
    BY <2>1, PlacedForClient DEF Block, NewDesc
  <2>3. \A e \in alloc_descs : Arena!Apart(b, Block(e))
    BY <1>1, <2>1, DisjointApart DEF IInv, TypeOK, AllPlaced
  <2>4. Blocks' = {Block(d) : d \in alloc_descs} \cup {b} /\ b \in Blocks'
    BY <1>2 DEF Block
  <2>5. CASE old = {}
    <3>1. Blocks = {Block(d) : d \in alloc_descs}
      BY <2>5
    <3>2. Arena!Alloc(b)
      BY <1>2, <2>2, <2>3, <2>4, <3>1 DEF Arena!Alloc
    <3>3. QED
      BY <1>2, <2>4, <3>2 DEF Arena!Next
  <2>6. CASE \E d \in old : old = {d} /\ d \notin alloc_descs
    <3>1. PICK d \in old : old = {d} /\ d \notin alloc_descs
      BY <2>6
    <3>2. Blocks \ {Block(d)} = {Block(e) : e \in alloc_descs}
      <4>1. \A e \in alloc_descs : Block(e) # Block(d)
        BY <1>1, <3>1, BlockInjective
      <4>2. QED
        BY <3>1, <4>1
    <3>3. Arena!Realloc(Block(d), b)
      BY <1>2, <2>2, <2>3, <2>4, <3>2 DEF Arena!Realloc
    <3>4. QED
      BY <1>2, <2>4, <3>1, <3>3 DEF Arena!Next
  <2>7. QED
    BY <1>2, <2>5, <2>6
<1>3. CASE AllocSucceeds \/ ReallocSucceeds
  <2>1. /\ Found /\ alloc_descs' = alloc_descs \cup {NewDesc} /\ old' = {}
        /\ ret' = off /\ UNCHANGED status
    BY <1>3 DEF AllocSucceeds, ReallocSucceeds, Idle
  <2>2. /\ status = "running"
        /\ old = {} \/ \E d \in old : old = {d} /\ d \notin alloc_descs
    BY <1>1, <1>3 DEF AllocSucceeds, ReallocSucceeds, InHand
  <2>3. QED
    BY <1>2, <2>1, <2>2
<1>4. CASE Exhausted
  <2>1. status = "running" /\ ret' = NullPtr /\ UNCHANGED status
        /\ alloc_descs' \cup old' = alloc_descs \cup old
    BY <1>1, <1>4 DEF Exhausted, InHand, Idle
  <2>2. Blocks' = Blocks
    BY <2>1 DEF Block
  <2>3. Arena!Refuse
    BY <2>1, <2>2 DEF Arena!Refuse
  <2>4. QED
    BY <2>1, <2>3 DEF Arena!Next
<1>5. ASSUME NEW size \in Sizes, NEW alignment \in Alignments,
             NEW ptr \in 0 .. BufferSize, Release(ptr, size, alignment)
      PROVE  Arena!Next
  <2>1. old = {} /\ status = "running" /\ UNCHANGED <<old, ret>>
    BY <1>1, <1>5 DEF Release, CanCall, InHand
  <2>2. CASE \E d \in alloc_descs : /\ alloc_descs' = alloc_descs \ {d}
                                   /\ UNCHANGED status
    <3>1. PICK d \in alloc_descs : /\ alloc_descs' = alloc_descs \ {d}
                                  /\ UNCHANGED status
      BY <2>2
    <3>2. Blocks' = Blocks \ {Block(d)} /\ Block(d) \in Blocks
      <4>1. \A e \in alloc_descs \ {d} : Block(e) # Block(d)
        BY <1>1, BlockInjective
      <4>2. QED
        BY <2>1, <3>1, <4>1 DEF Block
    <3>3. Arena!Release(Block(d))
      BY <2>1, <3>2 DEF Arena!Release
    <3>4. QED
      BY <2>1, <3>1, <3>2, <3>3 DEF Arena!Next
  <2>3. CASE status' = "terminated" /\ UNCHANGED alloc_descs
    <3>1. Blocks' = Blocks
      BY <2>1, <2>3 DEF Block
    <3>2. QED
      BY <2>1, <2>3, <3>1 DEF Arena!Next
  <2>4. QED
    BY <1>5, <2>2, <2>3 DEF Release
<1>6. ASSUME CanCall, UNCHANGED <<alloc_descs, old>>,
             \/ ret' = NullPtr /\ UNCHANGED status
             \/ status' # "running" /\ UNCHANGED ret
      PROVE  Arena!Next
  <2>1. Blocks' = Blocks
    BY <1>6 DEF Block
  <2>2. QED
    BY <1>6, <2>1 DEF CanCall, Arena!Next, Arena!Refuse
<1>7. ASSUME UNCHANGED <<alloc_descs, old, ret, status>>
      PROVE  UNCHANGED <<Blocks, ret, status = "running">>
  BY <1>7 DEF Block
<1>8. ASSUME NEW size \in Sizes, NEW alignment \in Alignments,
             NEW d \in alloc_descs, ReallocBegin(d, size, alignment)
      PROVE  UNCHANGED <<Blocks, ret, status = "running">>
  <2>1. alloc_descs' \cup old' = alloc_descs \cup old
        /\ UNCHANGED <<ret, status>>
    BY <1>1, <1>8 DEF ReallocBegin, CanCall, InHand
  <2>2. QED
    BY <2>1 DEF Block
<1>9. ASSUME NEW size \in Sizes, NEW alignment \in Alignments,
             AllocBegin(size, alignment)
      PROVE  UNCHANGED <<Blocks, ret, status = "running">>
  BY <1>7, <1>9 DEF AllocBegin
<1>10. ASSUME NEW size \in Sizes, NEW alignment \in Alignments,
              NEW d \in alloc_descs, ReallocInPlace(d, size, alignment)
       PROVE  Arena!Next
  BY <1>6, <1>10 DEF ReallocInPlace, Stay
<1>11. CASE Destroy
  BY <1>6, <1>11 DEF Destroy, Stay
<1>12. CASE AlignUp \/ SkipBottom \/ SkipTop
  <2>1. UNCHANGED <<alloc_descs, old, ret, status>>
    BY <1>12 DEF AlignUp, SkipBottom, SkipTop, MoveTo
  <2>2. QED
    BY <1>7, <2>1
<1>13. CASE UNCHANGED vars
  BY <1>7, <1>13 DEF vars
<1>14. QED
  BY <1>1, <1>3, <1>4, <1>5, <1>8, <1>9, <1>10, <1>11, <1>12, <1>13
  DEF Next, Search

(* The allocator implements the arena: what a client can see of it, the    *)
(* blocks it holds and what its calls return, is what BlockArena allows.   *)
THEOREM ImplementsArena == Spec => ArenaSpec
<1>1. Init => Arena!Init
  BY DEF Init, Arena!Init
<1>2. IInv /\ InHand /\ [Next]_vars
        => [Arena!Next]_<<Blocks, ret, status = "running">>
  BY StepSimulation
<1>3. QED
  BY <1>1, <1>2, Inductive, HandInv, PTL
  DEF Spec, ArenaSpec, Arena!Spec, Blocks

-----------------------------------------------------------------------------
(***************************************************************************)
(* The search of alloc and realloc is exact, for every buffer and every    *)
(* set of requests: although it jumps over whole blocks and looks up only  *)
(* two descriptors per place, it passes over no place that fits.           *)
(***************************************************************************)

(* Nothing below the offset the search has reached fits the request. *)
NothingBelow == op # "idle" => \A o \in 0 .. (off - 1) : ~Fits(o)

SearchInv == IInv /\ NothingBelow

(* A larger quotient is a product larger by at least the divisor. *)
LEMMA ProductGrows ==
  ASSUME NEW a \in Nat \ {0}, NEW p \in Int, NEW q \in Int, p < q
  PROVE  a * q >= a * p + a
<1>1. q - p - 1 \in Nat
  OBVIOUS
<1>2. a * (q - p - 1) >= 0
  BY <1>1
<1>3. a * (q - p - 1) = a * q - a * p - a
  OBVIOUS
<1>4. a * q \in Int /\ a * p \in Int
  OBVIOUS
<1>5. QED
  BY <1>2, <1>3, <1>4

(* Between an address and the next multiple of a there is no other. *)
LEMMA NoneBeforeNext ==
  ASSUME NEW a \in Nat \ {0}, NEW n \in Nat, NEW k \in Nat,
         k < a - (n % a), n % a # 0
  PROVE  (n + k) % a # 0
<1>1. n % a \in 1 .. (a - 1)
  OBVIOUS
<1>2. n = a * (n \div a) + (n % a) /\ n \div a \in Int
  OBVIOUS
<1>3. n + k = a * ((n + k) \div a) + ((n + k) % a) /\ (n + k) \div a \in Int
  OBVIOUS
<1>4. SUFFICES ASSUME NEW q \in Int, q = n \div a,
                      NEW m \in Int, m = (n + k) \div a,
                      (n + k) % a = 0
               PROVE  FALSE
  BY <1>2, <1>3
<1>5. a * m = a * q + (n % a) + k /\ a * q \in Int /\ a * m \in Int
  BY <1>1, <1>2, <1>3, <1>4
<1>6. CASE m <= q
  <2>1. m = q \/ a * q >= a * m + a
    BY <1>6, ProductGrows
  <2>2. QED
    BY <1>1, <1>5, <2>1
<1>7. CASE m > q
  <2>1. a * m >= a * q + a
    BY <1>7, ProductGrows
  <2>2. QED
    BY <1>1, <1>5, <2>1
<1>8. QED
  BY <1>6, <1>7

(* What the steps of the search need to know of the numbers they work on. *)
LEMMA Numbers ==
  ASSUME IInv
  PROVE  /\ off \in Nat /\ Base \in Nat /\ BufferSize \in Nat
         /\ req.alignment \in Nat \ {0} /\ Actual \in Nat
         /\ \A d \in alloc_descs : d.rb_value \in Nat /\ End(d) \in Nat
<1>1. DescOff(req.size, req.alignment) \in Nat
  BY DescOffGrows DEF IInv, TypeOK
<1>2. QED
  BY <1>1, BufferAssumption
  DEF IInv, TypeOK, AllocDesc, Actual, ActualSize, End

(* The places a step of the loop jumps over do not fit: they are misaligned,*)
(* or they lie in the block the step jumps behind, or run into it.          *)
LEMMA AlignUpSkipsNone ==
  ASSUME IInv, ~IsAligned,
         NEW o \in Nat, off <= o,
         o < off + (req.alignment - ((Base + off) % req.alignment))
  PROVE  ~Fits(o)
<1> DEFINE n == Base + off
           k == o - off
<1>1. /\ n \in Nat /\ k \in Nat /\ req.alignment \in Nat \ {0}
      /\ n % req.alignment \in Int
  BY Numbers
<1>2. k < req.alignment - (n % req.alignment)
  BY <1>1, Numbers
<1>3. n % req.alignment # 0
  BY DEF IsAligned
<1>4. (n + k) % req.alignment # 0
  BY <1>1, <1>2, <1>3, NoneBeforeNext
<1>5. n + k = Base + o
  BY Numbers
<1>6. QED
  BY <1>4, <1>5 DEF Fits

LEMMA SkipsOnlyTheBlock ==
  ASSUME IInv, NEW d \in alloc_descs, d.rb_value <= off + Actual,
         NEW o \in Nat, off <= o, o < End(d)
  PROVE  ~Fits(o)
<1>1. d.rb_value <= o + Actual /\ End(d) > o
  BY Numbers
<1>2. QED
  BY <1>1, Numbers DEF Fits

(* The place the loop ends with fits. *)
LEMMA FoundFits ==
  ASSUME IInv, Found
  PROVE  Fits(off)
<1>1. off + Actual <= BufferSize /\ (Base + off) % req.alignment = 0
  BY DEF Found, Searching, IsAligned
<1>2. ASSUME NEW e \in alloc_descs, e.rb_value <= off + Actual
      PROVE  End(e) <= off
  <2>1. /\ NewDesc.rb_value = off /\ End(NewDesc) = off + Actual
        /\ Disjoint(NewDesc, e)
    BY FoundIsFree DEF IInv, NewDesc
  <2>2. CASE End(e) <= off
    BY <2>2
  <2>3. CASE off + Actual <= e.rb_value
    <3>1. PICK d \in alloc_descs :
             IsMaxLteq(alloc_descs, off + Actual, d) /\ End(d) <= off
      BY <1>2, Numbers DEF Found, EndsBefore
    <3>2. e.rb_value <= d.rb_value
      BY <1>2, <3>1 DEF IsMaxLteq
    <3>3. d.rb_value < End(d)
      BY BufferAssumption
      DEF IInv, TypeOK, AllocDesc, AllPlaced, WellPlaced, End
    <3>4. QED
      BY <2>3, <3>1, <3>2, <3>3, Numbers
  <2>4. QED
    BY <2>1, <2>2, <2>3 DEF Disjoint
<1>3. QED
  BY <1>1, <1>2, Numbers DEF Fits

-----------------------------------------------------------------------------
(* A step of the loop that passes over no fitting place keeps the invariant.*)
LEMMA MoveKeeps ==
  ASSUME SearchInv, NEW new_off \in Nat, MoveTo(new_off), op # "idle",
         \A o \in Nat : off <= o /\ o < new_off => ~Fits(o)
  PROVE  NothingBelow'
<1>1. \A o \in 0 .. (new_off - 1) : ~Fits(o)
  <2>1. TAKE o \in 0 .. (new_off - 1)
  <2>2. CASE o < off
    BY <2>2, Numbers DEF SearchInv, NothingBelow
  <2>3. CASE o >= off
    BY <2>3
  <2>4. QED
    BY <2>2, <2>3, Numbers DEF SearchInv
<1>2. QED
  BY <1>1 DEF MoveTo, NothingBelow, Fits, Actual, ActualSize, DescOff, RoundUp, End

LEMMA NextNothingBelow == SearchInv /\ [Next]_vars => NothingBelow'
<1>1. SUFFICES ASSUME SearchInv, [Next]_vars PROVE NothingBelow'
  OBVIOUS
<1> USE DEF SearchInv
<1>2. CASE AlignUp
  <2> DEFINE new_off == off + (req.alignment - ((Base + off) % req.alignment))
  <2>1. new_off \in Nat
    <3>1. (Base + off) % req.alignment \in 0 .. (req.alignment - 1)
      BY <1>1, Numbers
    <3>2. QED
      BY <1>1, <3>1, Numbers
  <2>2. \A o \in Nat : off <= o /\ o < new_off => ~Fits(o)
    BY <1>1, <1>2, AlignUpSkipsNone DEF AlignUp
  <2>3. MoveTo(new_off) /\ op # "idle"
    BY <1>2 DEF AlignUp, Searching
  <2>4. QED
    BY <1>1, <2>1, <2>2, <2>3, MoveKeeps
<1>3. CASE SkipBottom \/ SkipTop
  <2>1. PICK d \in alloc_descs : d.rb_value <= off + Actual /\ MoveTo(End(d))
    BY <1>1, <1>3, Numbers DEF SkipBottom, SkipTop, IsMaxLteq
  <2>2. \A o \in Nat : off <= o /\ o < End(d) => ~Fits(o)
    BY <1>1, <2>1, SkipsOnlyTheBlock
  <2>3. op # "idle"
    BY <1>3 DEF SkipBottom, SkipTop, Searching
  <2>4. QED
    BY <1>1, <2>1, <2>2, <2>3, MoveKeeps, Numbers
<1>4. ASSUME op' = "idle" \/ off' = 0
      PROVE  NothingBelow'
  BY <1>4 DEF NothingBelow
<1>5. CASE op = "idle" /\ op' = op
  BY <1>5 DEF NothingBelow
<1>6. CASE UNCHANGED vars
  BY <1>1, <1>6
  DEF vars, NothingBelow, Fits, Actual, ActualSize, DescOff, RoundUp, End
<1>7. CASE Search
  BY <1>2, <1>3, <1>4, <1>7
  DEF Search, AllocSucceeds, ReallocSucceeds, Exhausted, Idle
<1>8. CASE Next /\ ~Search
  BY <1>4, <1>5, <1>8
  DEF Next, AllocBegin, ReallocBegin, ReallocInPlace, Release, Destroy, Stay,
      CanCall
<1>9. QED
  BY <1>1, <1>6, <1>7, <1>8

LEMMA SearchInductive == Spec => []SearchInv
<1>1. Init => SearchInv
  BY InitIInv DEF Init, SearchInv, NothingBelow
<1>2. SearchInv /\ [Next]_vars => SearchInv'
  BY NextIInv, NextNothingBelow DEF SearchInv
<1>3. QED
  BY <1>1, <1>2, PTL DEF Spec

(* The search returns the lowest place that fits, and nullptr only if there *)
(* is none: the jumps of the loop in alloc and realloc lose no place.      *)
THEOREM SearchFindsLowest == Spec => SearchIsExact
<1> DEFINE Exact ==
      (op # "idle" /\ op' = "idle") =>
         \/ ret' = NullPtr /\ \A o \in 0 .. BufferSize : ~Fits(o)
         \/ ret' \in Nat /\ Fits(ret') /\ \A o \in 0 .. (ret' - 1) : ~Fits(o)
<1>1. SearchInv /\ [Next]_vars => [Exact]_vars
  <2>1. SUFFICES ASSUME SearchInv, Next, op # "idle", op' = "idle"
                 PROVE  \/ ret' = NullPtr /\ \A o \in 0 .. BufferSize : ~Fits(o)
                        \/ /\ ret' \in Nat /\ Fits(ret')
                           /\ \A o \in 0 .. (ret' - 1) : ~Fits(o)
    OBVIOUS
  <2>2. CASE AllocSucceeds \/ ReallocSucceeds
    <3>1. ret' = off /\ Found
      BY <2>2 DEF AllocSucceeds, ReallocSucceeds
    <3>2. QED
      BY <2>1, <3>1, FoundFits, Numbers DEF SearchInv, NothingBelow
  <2>3. CASE Exhausted
    <3>1. ret' = NullPtr /\ off + Actual > BufferSize
      BY <2>3 DEF Exhausted
    <3>2. ASSUME NEW o \in 0 .. BufferSize
          PROVE  ~Fits(o)
      <4>1. CASE o < off
        BY <2>1, <4>1, Numbers DEF SearchInv, NothingBelow
      <4>2. CASE o >= off
        BY <2>1, <3>1, <4>2, Numbers DEF SearchInv, Fits
      <4>3. QED
        BY <2>1, <4>1, <4>2, Numbers DEF SearchInv
    <3>3. QED
      BY <3>1, <3>2
  <2>4. CASE ~(AllocSucceeds \/ ReallocSucceeds \/ Exhausted)
    BY <2>1, <2>4
    DEF Next, AllocBegin, ReallocBegin, ReallocInPlace, Release, Destroy, Stay,
        CanCall, Search, AlignUp, SkipBottom, SkipTop, MoveTo
  <2>5. QED
    BY <2>2, <2>3, <2>4
<1>2. QED
  BY <1>1, SearchInductive, PTL DEF SearchIsExact, Spec
=============================================================================
