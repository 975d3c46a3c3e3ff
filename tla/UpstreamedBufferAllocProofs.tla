-------------------- MODULE UpstreamedBufferAllocProofs --------------------
(***************************************************************************)
(* Theorems about UpstreamedBufferAlloc, for buffers, words, descriptors   *)
(* and requests of any size: while no call known to go wrong was made,     *)
(* markers name the allocators that know the blocks, and the client's      *)
(* bytes are what it wrote.                                                *)
(***************************************************************************)
EXTENDS UpstreamedBufferAlloc, TLAPS

-----------------------------------------------------------------------------
(* The inductive invariant. *)

Block == [ptr : Nat, size : Nat, alignment : Nat \ {0}]

(* The bytes that belong to a block: the client's, the gap, the marker.    *)
Region(h) == Bytes(h.ptr, Total(h.size))

Marked(h, marker) ==
  \A a \in Bytes(h.ptr + MarkerPos(h.size), Word) : memory[a] = marker
Describes(d, h) == /\ d.rb_value = h.ptr /\ d.size = Total(h.size)
                   /\ d.alignment = h.alignment
Backs(u, h) == u.ptr = h.ptr /\ u.size = Total(h.size)

(* The block's marker says where it is, and its bytes are the client's.    *)
Home(h) == \/ Marked(h, BufferMarker) /\ \E d \in alloc_descs : Describes(d, h)
           \/ Marked(h, UpstreamMarker) /\ \E u \in upstream_blocks : Backs(u, h)
Filled(h) == \A i \in 0 .. h.size - 1 : memory[h.ptr + i] = Client(i)

(* What the allocators know lies where it may. *)
InPlace(d) == /\ d.rb_value \in Nat /\ d.size \in Nat /\ d.desc_base \in Nat
              /\ d.rb_value + d.size <= d.desc_base
              /\ d.desc_base + DescSize <= BufferSize
Upstanding(u) == u.ptr \in UpstreamPlaces /\ u.size \in 0 .. UpstreamSize

Tidy == /\ \A d \in alloc_descs : InPlace(d)
        /\ \A u \in upstream_blocks : Upstanding(u)
        /\ held \subseteq Block

Apart == \A h, k \in held : h # k => Region(h) \cap Region(k) = {}

UInv == /\ Tidy
        /\ sound => /\ status = "running" /\ Apart
                    /\ \A h \in held : Home(h) /\ Filled(h)

-----------------------------------------------------------------------------
(* Sizes and places. *)

LEMMA MarkerBehind ==
  ASSUME NEW size \in Nat
  PROVE  /\ MarkerPos(size) \in Nat /\ size <= MarkerPos(size)
         /\ Total(size) \in Nat /\ MarkerPos(size) + Word <= Total(size)
         /\ size < Total(size) /\ Word \in Nat
<1>1. Word \in Nat \ {0} /\ size % Word \in 0 .. Word - 1
  BY WordAssumption
<1>2. MarkerPos(size) \in Nat /\ size <= MarkerPos(size)
  BY <1>1 DEF MarkerPos
<1>3. QED
  BY <1>1, <1>2 DEF Total

LEMMA RoundUpGrows ==
  ASSUME NEW t, NEW r, NEW o, NEW n \in Nat, NEW a \in Nat \ {0}
  PROVE  /\ Buf(t, r, o)!RoundUp(n, a) \in Nat
         /\ Buf(t, r, o)!RoundUp(n, a) >= n
<1>1. n % a \in 0 .. a - 1
  OBVIOUS
<1>2. QED
  BY <1>1 DEF Buf!RoundUp

(* The descriptor written at a place that fits, and the others. *)
Descriptor(d, tree, size, align, at) ==
  /\ at \in Nat /\ InPlace(d) /\ d.rb_value = at /\ d.size = size
  /\ d.alignment = align
  /\ \A e \in tree : \/ e.desc_base + DescSize <= at
                     \/ e.rb_value > d.desc_base + DescSize

LEMMA PlaceFits ==
  ASSUME NEW tree, NEW size \in Nat, NEW align \in Nat \ {0},
         NEW at \in Place(tree, Request(size, align)),
         NEW d, d = Buf(tree, Request(size, align), at)!NewDesc
  PROVE  Descriptor(d, tree, size, align, at)
<1>1. PICK r : r = Request(size, align)
  OBVIOUS
<1>2. r.size = size /\ r.alignment = align
  BY <1>1 DEF Request
<1>3. at \in 0 .. BufferSize /\ Buf(tree, r, at)!Fits(at)
  BY <1>1 DEF Place
<1>4. PICK n : n = Buf(tree, r, at)!DescOff(size, align)
  OBVIOUS
<1>5. n \in Nat /\ n >= size
  <2>1. PICK m : m = Buf(tree, r, at)!RoundUp(size, align)
    OBVIOUS
  <2>2. m \in Nat /\ m >= size
    BY <2>1, RoundUpGrows
  <2>3. n = Buf(tree, r, at)!RoundUp(m, DescAlign)
    BY <1>4, <2>1 DEF Buf!DescOff
  <2>4. n \in Nat /\ n >= m
    BY <2>2, <2>3, RoundUpGrows, WordAssumption
  <2>5. QED
    BY <2>2, <2>4
<1>6. Buf(tree, r, at)!Actual = n + DescSize
  BY <1>2, <1>4 DEF Buf!Actual, Buf!ActualSize
<1>7. /\ at + (n + DescSize) <= BufferSize
      /\ \A e \in tree : \/ e.desc_base + DescSize <= at
                         \/ e.rb_value > at + (n + DescSize)
  BY <1>3, <1>6 DEF Buf!Fits, Buf!End
<1>8. /\ d.rb_value = at /\ d.size = size /\ d.alignment = align
      /\ d.desc_base = at + n
  BY <1>1, <1>2, <1>4 DEF Buf!NewDesc
<1>9. at \in Nat /\ BufferSize \in Nat /\ DescSize \in Nat
  BY <1>3, WordAssumption
<1>10. at + (n + DescSize) = d.desc_base + DescSize
  BY <1>5, <1>8, <1>9
<1>11. InPlace(d)
  BY <1>5, <1>7, <1>8, <1>9, <1>10 DEF InPlace
<1>12. QED
  BY <1>7, <1>8, <1>9, <1>10, <1>11 DEF Descriptor

(* The bytes of a block at home: before its descriptor, or in its place    *)
(* upstream.                                                               *)
LEMMA HomeIs ==
  ASSUME Tidy, NEW h \in held, Home(h)
  PROVE  /\ Region(h) \subseteq Addresses
         /\ \/ \E d \in alloc_descs :
                 Describes(d, h) /\ Region(h) \subseteq d.rb_value .. d.desc_base - 1
            \/ /\ \E u \in upstream_blocks : Backs(u, h)
               /\ Region(h) \subseteq h.ptr .. h.ptr + UpstreamSize - 1
<1>1. h.ptr \in Nat /\ h.size \in Nat
  BY DEF Tidy, Block
<1>2. PICK n : n = Total(h.size)
  OBVIOUS
<1>3. n \in Nat /\ Region(h) = h.ptr .. h.ptr + n - 1
  BY <1>1, <1>2, MarkerBehind DEF Region, Bytes
<1>4. BufferSize \in Nat /\ UpstreamSize \in Nat /\ DescSize \in Nat
  BY WordAssumption
<1>5. ASSUME NEW d \in alloc_descs, Describes(d, h)
      PROVE  /\ Region(h) \subseteq Addresses
             /\ Region(h) \subseteq d.rb_value .. d.desc_base - 1
  <2>1. /\ d.rb_value = h.ptr /\ d.size = n /\ d.desc_base \in Nat
        /\ d.rb_value + d.size <= d.desc_base
        /\ d.desc_base + DescSize <= BufferSize
    BY <1>2, <1>5 DEF Describes, Tidy, InPlace
  <2>2. h.ptr + n <= d.desc_base /\ d.desc_base <= BufferSize
    BY <1>1, <1>3, <1>4, <2>1
  <2>3. h.ptr .. h.ptr + n - 1 \subseteq d.rb_value .. d.desc_base - 1
    BY <1>1, <1>3, <2>1, <2>2
  <2>4. d.rb_value .. d.desc_base - 1 \subseteq Addresses
    BY <1>1, <1>4, <2>1, <2>2 DEF Addresses
  <2>5. QED
    BY <1>3, <2>3, <2>4
<1>6. ASSUME NEW u \in upstream_blocks, Backs(u, h)
      PROVE  /\ Region(h) \subseteq Addresses
             /\ Region(h) \subseteq h.ptr .. h.ptr + UpstreamSize - 1
  <2>1. n \in 0 .. UpstreamSize /\ h.ptr \in UpstreamPlaces
    BY <1>2, <1>6 DEF Backs, Tidy, Upstanding
  <2>2. h.ptr = BufferSize \/ h.ptr = BufferSize + UpstreamSize
    BY <2>1 DEF UpstreamPlaces
  <2>3. h.ptr .. h.ptr + n - 1 \subseteq h.ptr .. h.ptr + UpstreamSize - 1
    BY <1>1, <1>3, <1>4, <2>1
  <2>4. h.ptr + UpstreamSize <= BufferSize + 2 * UpstreamSize
    BY <1>1, <1>4, <2>2
  <2>5. h.ptr .. h.ptr + UpstreamSize - 1 \subseteq Addresses
    BY <1>1, <1>4, <2>4 DEF Addresses
  <2>6. QED
    BY <1>3, <2>3, <2>5
<1>7. QED
  BY <1>5, <1>6 DEF Home

(* A free place, of either allocator, is apart from every block at home.   *)
LEMMA BufferFree ==
  ASSUME Tidy, NEW h \in held, Home(h),
         NEW tree, \A d \in alloc_descs : Describes(d, h) => d \in tree,
         NEW size, NEW align, NEW at, NEW e, Descriptor(e, tree, size, align, at)
  PROVE  Region(h) \cap (at .. e.desc_base + DescSize - 1) = {}
<1>1. /\ BufferSize \in Nat /\ DescSize \in Nat \ {0} /\ UpstreamSize \in Nat
      /\ at \in Nat /\ e.desc_base \in Nat
      /\ e.desc_base + DescSize <= BufferSize
  BY WordAssumption DEF Descriptor, InPlace
<1>2. ASSUME NEW d \in alloc_descs, Describes(d, h),
             Region(h) \subseteq d.rb_value .. d.desc_base - 1
      PROVE  Region(h) \cap (at .. e.desc_base + DescSize - 1) = {}
  <2>1. /\ d.desc_base + DescSize <= at \/ d.rb_value > e.desc_base + DescSize
        /\ d.desc_base \in Nat /\ d.rb_value \in Nat
    BY <1>2 DEF Descriptor, Tidy, InPlace
  <2>2. (d.rb_value .. d.desc_base - 1) \cap (at .. e.desc_base + DescSize - 1) = {}
    BY <1>1, <2>1
  <2>3. QED
    BY <1>2, <2>2
<1>3. ASSUME NEW u \in upstream_blocks, Backs(u, h),
             Region(h) \subseteq h.ptr .. h.ptr + UpstreamSize - 1
      PROVE  Region(h) \cap (at .. e.desc_base + DescSize - 1) = {}
  <2>1. h.ptr = BufferSize \/ h.ptr = BufferSize + UpstreamSize
    BY <1>3 DEF Backs, Tidy, Upstanding, UpstreamPlaces
  <2>2. (h.ptr .. h.ptr + UpstreamSize - 1)
           \cap (at .. e.desc_base + DescSize - 1) = {}
    BY <1>1, <2>1
  <2>3. QED
    BY <1>3, <2>2
<1>4. QED
  BY <1>2, <1>3, HomeIs

LEMMA UpstreamApart ==
  ASSUME Tidy, NEW h \in held, Home(h), NEW total, NEW p \in UpstreamFree(total)
  PROVE  Region(h) \cap (p .. p + UpstreamSize - 1) = {}
<1>1. BufferSize \in Nat /\ DescSize \in Nat /\ UpstreamSize \in Nat
  BY WordAssumption
<1>2. /\ p = BufferSize \/ p = BufferSize + UpstreamSize
      /\ \A u \in upstream_blocks : u.ptr # p
  BY DEF UpstreamFree, UpstreamPlaces
<1>3. ASSUME NEW d \in alloc_descs, Describes(d, h),
             Region(h) \subseteq d.rb_value .. d.desc_base - 1
      PROVE  Region(h) \cap (p .. p + UpstreamSize - 1) = {}
  <2>1. /\ d.desc_base + DescSize <= BufferSize
        /\ d.desc_base \in Nat /\ d.rb_value \in Nat
    BY DEF Tidy, InPlace
  <2>2. (d.rb_value .. d.desc_base - 1) \cap (p .. p + UpstreamSize - 1) = {}
    BY <1>1, <1>2, <2>1
  <2>3. QED
    BY <1>3, <2>2
<1>4. ASSUME NEW u \in upstream_blocks, Backs(u, h),
             Region(h) \subseteq h.ptr .. h.ptr + UpstreamSize - 1
      PROVE  Region(h) \cap (p .. p + UpstreamSize - 1) = {}
  <2>1. /\ h.ptr = BufferSize \/ h.ptr = BufferSize + UpstreamSize
        /\ h.ptr # p
    BY <1>2, <1>4 DEF Backs, Tidy, Upstanding, UpstreamPlaces
  <2>2. (h.ptr .. h.ptr + UpstreamSize - 1) \cap (p .. p + UpstreamSize - 1) = {}
    BY <1>1, <1>2, <2>1
  <2>3. QED
    BY <1>4, <2>2
<1>5. QED
  BY <1>3, <1>4, HomeIs

-----------------------------------------------------------------------------
(* Effects on memory. *)

(* full is mem with the marker and all bytes of a new block written.       *)
Finished(full, mem, at, size, marker) ==
  /\ \A i \in 0 .. size - 1 : full[at + i] = Client(i)
  /\ \A a \in Bytes(at + MarkerPos(size), Word) : full[a] = marker
  /\ \A a \in Addresses \ Bytes(at, Total(size)) : full[a] = mem[a]

(* The marker is written and the client fills its block from byte n on;    *)
(* below n it finds its bytes in mem already.                              *)
LEMMA FinishFills ==
  ASSUME NEW mem, NEW at \in Nat, NEW size \in Nat, NEW n \in Nat, NEW marker,
         Bytes(at, Total(size)) \subseteq Addresses,
         \A i \in 0 .. n - 1 : i < size => mem[at + i] = Client(i),
         NEW full,
         full = ClientFills(Mark(mem, at, size, marker), at, n, size)
  PROVE  Finished(full, mem, at, size, marker)
<1>1. PICK pos : pos = MarkerPos(size)
  OBVIOUS
<1>2. PICK total : total = Total(size)
  OBVIOUS
<1>3. /\ pos \in Nat /\ size <= pos /\ total \in Nat /\ pos + Word <= total
      /\ Word \in Nat
  BY <1>1, <1>2, MarkerBehind
<1>4. ASSUME NEW a \in Addresses
      PROVE  full[a] = IF a \in at + n .. (at + n) + (size - n) - 1
                         THEN Client(a - at)
                       ELSE IF a \in at + pos .. (at + pos) + Word - 1
                         THEN marker
                       ELSE mem[a]
  BY <1>1 DEF ClientFills, Mark, Set, Bytes
<1>5. ASSUME NEW i \in 0 .. size - 1
      PROVE  full[at + i] = Client(i)
  <2>1. at + i \in Addresses
    <3>1. at + i \in at .. at + total - 1
      BY <1>3
    <3>2. QED
      BY <1>2, <3>1 DEF Bytes
  <2>2. CASE i < n
    <3>1. /\ at + i \notin at + n .. (at + n) + (size - n) - 1
          /\ at + i \notin at + pos .. (at + pos) + Word - 1
      BY <1>3, <2>2
    <3>2. full[at + i] = mem[at + i]
      BY <1>4, <2>1, <3>1
    <3>3. i \in 0 .. n - 1 /\ i < size
      BY <2>2
    <3>4. QED
      BY <3>2, <3>3
  <2>3. CASE ~(i < n)
    <3>1. at + i \in at + n .. (at + n) + (size - n) - 1
      BY <2>3
    <3>2. (at + i) - at = i
      OBVIOUS
    <3>3. QED
      BY <1>4, <2>1, <3>1, <3>2
  <2>4. QED
    BY <2>2, <2>3
<1>6. ASSUME NEW a \in Bytes(at + MarkerPos(size), Word)
      PROVE  full[a] = marker
  <2>1. a \in at + pos .. (at + pos) + Word - 1
    BY <1>1 DEF Bytes
  <2>2. /\ a \in at .. at + total - 1
        /\ a \notin at + n .. (at + n) + (size - n) - 1
    BY <1>3, <2>1
  <2>3. a \in Addresses
    BY <1>2, <2>2 DEF Bytes
  <2>4. QED
    BY <1>4, <2>1, <2>2, <2>3
<1>7. ASSUME NEW a \in Addresses \ Bytes(at, Total(size))
      PROVE  full[a] = mem[a]
  <2>1. a \notin at .. at + total - 1 /\ a \in Int
    BY <1>2, WordAssumption DEF Bytes, Addresses
  <2>2. /\ a \notin at + n .. (at + n) + (size - n) - 1
        /\ a \notin at + pos .. (at + pos) + Word - 1
    BY <1>3, <2>1
  <2>3. QED
    BY <1>4, <2>2
<1>8. QED
  BY <1>5, <1>6, <1>7 DEF Finished

-----------------------------------------------------------------------------
(* What a step leaves alone, and what it adds. *)

LEMMA RegionHolds ==
  ASSUME NEW h \in Block
  PROVE  /\ \A i \in 0 .. h.size - 1 : h.ptr + i \in Region(h)
         /\ Bytes(h.ptr + MarkerPos(h.size), Word) \subseteq Region(h)
<1>1. h.ptr \in Nat /\ h.size \in Nat
  BY DEF Block
<1>2. PICK pos : pos = MarkerPos(h.size)
  OBVIOUS
<1>3. PICK total : total = Total(h.size)
  OBVIOUS
<1>4. /\ pos \in Nat /\ h.size < total /\ total \in Nat /\ pos + Word <= total
      /\ Word \in Nat
  BY <1>1, <1>2, <1>3, MarkerBehind
<1>5. /\ \A i \in 0 .. h.size - 1 : h.ptr + i \in h.ptr .. h.ptr + total - 1
      /\ (h.ptr + pos) .. (h.ptr + pos) + Word - 1
            \subseteq h.ptr .. h.ptr + total - 1
  BY <1>1, <1>4
<1>6. QED
  BY <1>2, <1>3, <1>5 DEF Region, Bytes

LEMMA Remembers ==
  ASSUME NEW mem, NEW live, NEW h \in live, Region(h) \subseteq Addresses
  PROVE  \A a \in Region(h) : Forget(mem, live)[a] = mem[a]
BY DEF Forget, Region

LEMMA OldStays ==
  ASSUME Tidy, NEW h \in held, Home(h), Filled(h),
         NEW mem, \A a \in Region(h) : mem[a] = memory[a],
         h \in held', memory' = Forget(mem, held'),
         \A d \in alloc_descs : Describes(d, h) => d \in alloc_descs',
         \A u \in upstream_blocks : Backs(u, h) => u \in upstream_blocks'
  PROVE  Home(h)' /\ Filled(h)'
<1>1. h \in Block
  BY DEF Tidy
<1>2. \A a \in Region(h) : memory'[a] = memory[a]
  BY HomeIs, Remembers
<1>3. Filled(h)'
  BY <1>1, <1>2, RegionHolds DEF Filled
<1>4. /\ Marked(h, BufferMarker) => Marked(h, BufferMarker)'
      /\ Marked(h, UpstreamMarker) => Marked(h, UpstreamMarker)'
  BY <1>1, <1>2, RegionHolds DEF Marked
<1>5. QED
  BY <1>3, <1>4 DEF Home

LEMMA NewStays ==
  ASSUME NEW h \in Block, Region(h) \subseteq Addresses,
         h \in held', NEW mem, memory' = Forget(mem, held'),
         \A i \in 0 .. h.size - 1 : mem[h.ptr + i] = Client(i),
         NEW marker,
         \A a \in Bytes(h.ptr + MarkerPos(h.size), Word) : mem[a] = marker,
         \/ marker = BufferMarker /\ \E d \in alloc_descs' : Describes(d, h)
         \/ marker = UpstreamMarker /\ \E u \in upstream_blocks' : Backs(u, h)
  PROVE  Home(h)' /\ Filled(h)'
<1>1. \A a \in Region(h) : memory'[a] = mem[a]
  BY Remembers
<1>2. Filled(h)'
  BY <1>1, RegionHolds DEF Filled
<1>3. Marked(h, marker)'
  BY <1>1, RegionHolds DEF Marked
<1>4. QED
  BY <1>2, <1>3 DEF Home

(* The blocks of live stay where they are; n is new.                       *)
Remaining(live, mem) ==
  \A h \in live :
    /\ \A a \in Region(h) : mem[a] = memory[a]
    /\ \A d \in alloc_descs : Describes(d, h) => d \in alloc_descs'
    /\ \A u \in upstream_blocks : Backs(u, h) => u \in upstream_blocks'

(* The allocator that the marker names knows the block.                    *)
Backed(h, marker) ==
  \/ marker = BufferMarker /\ \E d \in alloc_descs : Describes(d, h)
  \/ marker = UpstreamMarker /\ \E u \in upstream_blocks : Backs(u, h)

LEMMA Arrives ==
  ASSUME UInv, sound, Tidy', status' = status,
         NEW live \in SUBSET held, NEW n \in Block, held' = live \cup {n},
         NEW mem, NEW full, NEW marker, Remaining(live, mem),
         Finished(full, mem, n.ptr, n.size, marker),
         memory' = Forget(full, held'), Backed(n, marker)',
         Region(n) \subseteq Addresses,
         \A h \in live : Region(h) \cap Region(n) = {}
  PROVE  UInv'
<1>1. Home(n)' /\ Filled(n)'
  BY NewStays DEF Finished, Backed
<1>2. ASSUME NEW h \in live PROVE Home(h)' /\ Filled(h)'
  <2>1. Tidy /\ Home(h) /\ Filled(h)
    BY DEF UInv
  <2>2. \A a \in Region(h) : full[a] = memory[a]
    <3>1. Region(h) \subseteq Addresses \ Region(n)
      BY <2>1, HomeIs
    <3>2. \A a \in Addresses \ Region(n) : full[a] = mem[a]
      BY DEF Finished, Region
    <3>3. QED
      BY <3>1, <3>2 DEF Remaining
  <2>3. QED
    BY <2>1, <2>2, OldStays DEF Remaining
<1>3. Apart'
  BY DEF UInv, Apart, Region
<1>4. status' = "running"
  BY DEF UInv
<1>5. QED
  BY <1>1, <1>2, <1>3, <1>4 DEF UInv

LEMMA InitUInv == Init => UInv
BY DEF Init, UInv, Tidy, Apart

(* Different blocks at home have different addresses.                      *)
LEMMA AddressesDiffer ==
  ASSUME UInv, sound, NEW h \in held, NEW k \in held, h # k
  PROVE  h.ptr # k.ptr
<1>1. h \in Block /\ k \in Block /\ Region(h) \cap Region(k) = {}
  BY DEF UInv, Tidy, Apart
<1>2. ASSUME NEW b \in Block PROVE b.ptr \in Region(b)
  <2>1. PICK n : n = Total(b.size)
    OBVIOUS
  <2>2. b.ptr \in Nat /\ b.size \in Nat
    BY DEF Block
  <2>3. n \in Nat /\ 0 < n
    BY <2>1, <2>2, MarkerBehind
  <2>4. b.ptr \in b.ptr .. b.ptr + n - 1
    BY <2>2, <2>3
  <2>5. QED
    BY <2>1, <2>4 DEF Region, Bytes
<1>3. QED
  BY <1>1, <1>2

(* The markers can be believed. *)
LEMMA HomeIsKnown ==
  ASSUME NEW h \in Block, Home(h)
  PROVE  /\ Known(h)
         /\ MarkerOf(h) = BufferMarker => InBuffer(h) # {}
<1> DEFINE word == {memory[a] : a \in Bytes(h.ptr + MarkerPos(h.size), Word)}
<1>1. h.ptr + MarkerPos(h.size) \in Bytes(h.ptr + MarkerPos(h.size), Word)
  <2>1. PICK a : a = h.ptr + MarkerPos(h.size)
    OBVIOUS
  <2>2. a \in Nat
    BY <2>1, MarkerBehind DEF Block
  <2>3. a \in a .. a + Word - 1
    BY <2>2, WordAssumption
  <2>4. QED
    BY <2>1, <2>3 DEF Bytes
<1>2. ASSUME NEW m \in {BufferMarker, UpstreamMarker}, Marked(h, m)
      PROVE  MarkerOf(h) = m
  <2>1. word = {m}
    BY <1>1, <1>2 DEF Marked
  <2>2. MarkerOf(h) = CHOOSE o \in word : TRUE
    BY <2>1 DEF MarkerOf
  <2>3. QED
    BY <2>1, <2>2
<1>3. BufferMarker # UpstreamMarker
  BY DEF BufferMarker, UpstreamMarker
<1>4. CASE Marked(h, BufferMarker) /\ \E d \in alloc_descs : Describes(d, h)
  <2>1. MarkerOf(h) = BufferMarker /\ InBuffer(h) # {}
    BY <1>2, <1>4 DEF InBuffer, Describes
  <2>2. QED
    BY <2>1 DEF Known
<1>5. CASE Marked(h, UpstreamMarker) /\ \E u \in upstream_blocks : Backs(u, h)
  <2>1. MarkerOf(h) = UpstreamMarker /\ Upstream(h) # {}
    BY <1>2, <1>5 DEF Upstream, Backs
  <2>2. QED
    BY <1>3, <2>1 DEF Known
<1>6. QED
  BY <1>4, <1>5 DEF Home

-----------------------------------------------------------------------------
(* The operations keep the invariant. *)

LEMMA HandleIs ==
  ASSUME NEW ptr \in Nat, NEW size \in Nat, NEW align \in Nat \ {0},
         NEW n, n = Handle(ptr, size, align)
  PROVE  /\ n \in Block /\ n.ptr = ptr /\ n.size = size /\ n.alignment = align
         /\ Region(n) = Bytes(ptr, Total(size))
BY DEF Handle, Block, Region

LEMMA NewInBuffer ==
  ASSUME NEW tree, NEW size \in Nat, NEW align \in Nat \ {0}, NEW at, NEW d,
         Descriptor(d, tree, Total(size), align, at)
  PROVE  /\ Bytes(at, Total(size)) \subseteq at .. d.desc_base + DescSize - 1
         /\ Bytes(at, Total(size)) \subseteq Addresses
         /\ at + Total(size) <= d.desc_base
<1>1. PICK total : total = Total(size)
  OBVIOUS
<1>2. total \in Nat
  BY <1>1, MarkerBehind
<1>3. /\ at \in Nat /\ d.desc_base \in Nat /\ at + total <= d.desc_base
      /\ d.desc_base + DescSize <= BufferSize
  BY <1>1 DEF Descriptor, InPlace
<1>4. BufferSize \in Nat /\ DescSize \in Nat /\ UpstreamSize \in Nat
  BY WordAssumption
<1>5. /\ at .. at + total - 1 \subseteq at .. d.desc_base + DescSize - 1
      /\ at .. d.desc_base + DescSize - 1 \subseteq Addresses
  BY <1>2, <1>3, <1>4 DEF Addresses
<1>6. QED
  BY <1>1, <1>3, <1>5 DEF Bytes

LEMMA NewUpstream ==
  ASSUME NEW size \in Nat, NEW p \in UpstreamFree(Total(size))
  PROVE  /\ p \in Nat /\ p \in UpstreamPlaces
         /\ Total(size) \in 0 .. UpstreamSize
         /\ Bytes(p, Total(size)) \subseteq p .. p + UpstreamSize - 1
         /\ Bytes(p, Total(size)) \subseteq Addresses
<1>1. PICK total : total = Total(size)
  OBVIOUS
<1>2. total \in Nat /\ BufferSize \in Nat /\ UpstreamSize \in Nat
  BY <1>1, MarkerBehind, WordAssumption
<1>3. total <= UpstreamSize /\ p \in UpstreamPlaces
  BY <1>1 DEF UpstreamFree
<1>4. p = BufferSize \/ p = BufferSize + UpstreamSize
  BY <1>3 DEF UpstreamPlaces
<1>5. /\ p .. p + total - 1 \subseteq p .. p + UpstreamSize - 1
      /\ p .. p + UpstreamSize - 1 \subseteq Addresses
  BY <1>2, <1>3, <1>4 DEF Addresses
<1>6. QED
  BY <1>1, <1>2, <1>3, <1>4, <1>5 DEF Bytes

LEMMA AllocBufferKeeps ==
  ASSUME UInv, sound, NEW size \in Sizes, NEW align \in Alignments,
         AllocBuffer(size, align)
  PROVE  UInv'
<1>1. size \in Nat /\ align \in Nat \ {0} /\ Total(size) \in Nat
  BY WordAssumption, MarkerBehind
<1>2. PICK at \in Place(alloc_descs, Request(Total(size), align)) :
        LET h == Handle(at, size, align)
            buf == Buf(alloc_descs, Request(Total(size), align), at)!NewDesc
        IN /\ alloc_descs' = alloc_descs \cup {buf}
           /\ Keep(ClientFills(Mark(memory, at, size, BufferMarker),
                               at, 0, size), held \cup {h})
           /\ UNCHANGED <<upstream_blocks, sound>>
  BY DEF AllocBuffer
<1>3. PICK d : d = Buf(alloc_descs, Request(Total(size), align), at)!NewDesc
  OBVIOUS
<1>4. PICK n : n = Handle(at, size, align)
  OBVIOUS
<1>5. PICK mem : mem = ClientFills(Mark(memory, at, size, BufferMarker),
                                   at, 0, size)
  OBVIOUS
<1>6. /\ alloc_descs' = alloc_descs \cup {d}
      /\ held' = held \cup {n} /\ memory' = Forget(mem, held')
      /\ UNCHANGED <<upstream_blocks, sound, status>>
  BY <1>2, <1>3, <1>4, <1>5 DEF Keep
<1>7. Descriptor(d, alloc_descs, Total(size), align, at)
  BY <1>1, <1>3, PlaceFits
<1>8. at \in Nat /\ InPlace(d)
  BY <1>7 DEF Descriptor
<1>9. /\ n \in Block /\ n.ptr = at /\ n.size = size /\ n.alignment = align
      /\ Region(n) = Bytes(at, Total(size))
  BY <1>1, <1>4, <1>8, HandleIs
<1>10. /\ Region(n) \subseteq at .. d.desc_base + DescSize - 1
       /\ Region(n) \subseteq Addresses
  BY <1>1, <1>7, <1>9, NewInBuffer
<1>11. Finished(mem, memory, at, size, BufferMarker)
  <2>1. \A i \in 0 .. 0 - 1 : i < size => memory[at + i] = Client(i)
    OBVIOUS
  <2>2. Bytes(at, Total(size)) \subseteq Addresses /\ 0 \in Nat
    BY <1>9, <1>10
  <2>3. QED
    BY ONLY <1>1, <1>5, <1>8, <2>1, <2>2, FinishFills, ZenonT(30)
<1>12. ASSUME NEW h \in held
       PROVE  Region(h) \cap Region(n) = {}
  <2>1. Tidy /\ Home(h)
    BY DEF UInv
  <2>2. Region(h) \cap (at .. d.desc_base + DescSize - 1) = {}
    BY <1>7, <2>1, BufferFree
  <2>3. QED
    BY <1>10, <2>2
<1>13. Remaining(held, memory)
  BY <1>6 DEF Remaining
<1>14. Backed(n, BufferMarker)'
  BY <1>6, <1>7, <1>9 DEF Backed, Describes, Descriptor
<1>15. Tidy'
  BY <1>6, <1>8, <1>9 DEF UInv, Tidy, InPlace, Upstanding
<1>16. QED
  BY <1>6, <1>9, <1>10, <1>11, <1>12, <1>13, <1>14, <1>15, Arrives

LEMMA AllocUpstreamKeeps ==
  ASSUME UInv, sound, NEW size \in Sizes, NEW align \in Alignments,
         AllocUpstream(size, align)
  PROVE  UInv'
<1>1. size \in Nat /\ align \in Nat \ {0} /\ Total(size) \in Nat
  BY WordAssumption, MarkerBehind
<1>2. PICK p \in UpstreamFree(Total(size)) :
        /\ upstream_blocks' = upstream_blocks
                                \cup {[ptr |-> p, size |-> Total(size)]}
        /\ Keep(ClientFills(Mark(memory, p, size, UpstreamMarker),
                            p, 0, size),
                held \cup {Handle(p, size, align)})
  BY DEF AllocUpstream
<1>3. PICK u : u = [ptr |-> p, size |-> Total(size)]
  OBVIOUS
<1>4. PICK n : n = Handle(p, size, align)
  OBVIOUS
<1>5. PICK mem : mem = ClientFills(Mark(memory, p, size, UpstreamMarker),
                                   p, 0, size)
  OBVIOUS
<1>6. /\ upstream_blocks' = upstream_blocks \cup {u}
      /\ held' = held \cup {n} /\ memory' = Forget(mem, held')
      /\ UNCHANGED <<alloc_descs, sound, status>>
  BY <1>2, <1>3, <1>4, <1>5 DEF Keep, AllocUpstream
<1>7. /\ p \in Nat /\ p \in UpstreamPlaces
      /\ Total(size) \in 0 .. UpstreamSize
      /\ Bytes(p, Total(size)) \subseteq p .. p + UpstreamSize - 1
      /\ Bytes(p, Total(size)) \subseteq Addresses
  BY <1>1, NewUpstream
<1>8. /\ n \in Block /\ n.ptr = p /\ n.size = size /\ n.alignment = align
      /\ Region(n) = Bytes(p, Total(size))
  BY <1>1, <1>4, <1>7, HandleIs
<1>9. Finished(mem, memory, p, size, UpstreamMarker)
  <2>1. \A i \in 0 .. 0 - 1 : i < size => memory[p + i] = Client(i)
    OBVIOUS
  <2>2. 0 \in Nat
    OBVIOUS
  <2>3. QED
    BY ONLY <1>1, <1>5, <1>7, <2>1, <2>2, FinishFills, ZenonT(30)
<1>10. ASSUME NEW h \in held
       PROVE  Region(h) \cap Region(n) = {}
  <2>1. Tidy /\ Home(h)
    BY DEF UInv
  <2>2. Region(h) \cap (p .. p + UpstreamSize - 1) = {}
    BY <1>2, <2>1, UpstreamApart
  <2>3. QED
    BY <1>7, <1>8, <2>2
<1>11. Remaining(held, memory)
  BY <1>6 DEF Remaining
<1>12. Backs(u, n) /\ Upstanding(u)
  BY <1>3, <1>7, <1>8 DEF Backs, Upstanding
<1>13. Tidy' /\ Backed(n, UpstreamMarker)'
  BY <1>6, <1>8, <1>12 DEF UInv, Tidy, InPlace, Upstanding, Backed, Backs
<1>14. Region(n) \subseteq Addresses
  BY <1>7, <1>8
<1>15. QED
  BY <1>6, <1>8, <1>9, <1>10, <1>11, <1>13, <1>14, Arrives

LEMMA ReleaseKeeps ==
  ASSUME UInv, sound, status = "running", NEW h \in held, Release(h)
  PROVE  UInv'
<1>1. h \in Block /\ Home(h)
  BY DEF UInv, Tidy
<1>2. /\ alloc_descs' = alloc_descs \ InBuffer(h)
      /\ upstream_blocks' = upstream_blocks \ Upstream(h)
      /\ held' = held \ {h} /\ memory' = Forget(memory, held')
      /\ UNCHANGED <<sound, status>>
  BY <1>1, HomeIsKnown DEF Release, Keep
<1>3. ASSUME NEW k \in held, k # h
      PROVE  Home(k)' /\ Filled(k)'
  <2>1. k.ptr # h.ptr /\ Home(k) /\ Filled(k) /\ Tidy /\ k \in held'
    BY <1>2, <1>3, AddressesDiffer DEF UInv
  <2>2. /\ \A d \in alloc_descs : Describes(d, k) => d \in alloc_descs'
        /\ \A u \in upstream_blocks : Backs(u, k) => u \in upstream_blocks'
    BY <1>2, <2>1 DEF Describes, Backs, InBuffer, Upstream
  <2>3. QED
    BY <1>2, <2>1, <2>2, OldStays
<1>4. Tidy' /\ Apart'
  BY <1>2 DEF UInv, Tidy, InPlace, Upstanding, Apart, Region
<1>5. QED
  BY <1>2, <1>3, <1>4 DEF UInv

(* One block moves; the others stay, and what the allocators know of them. *)
LEMMA OthersKnown ==
  ASSUME UInv, sound, NEW h \in held, NEW k \in held, k # h
  PROVE  /\ \A d \in alloc_descs : Describes(d, k) => d \in alloc_descs \ InBuffer(h)
         /\ \A u \in upstream_blocks :
              Backs(u, k) => u \in upstream_blocks \ Upstream(h)
BY AddressesDiffer DEF Describes, Backs, InBuffer, Upstream

(* A step that goes wrong, after which only Tidy matters. *)
LEMMA Unsound == Tidy' /\ sound' = FALSE => UInv'
BY DEF UInv

LEMMA MoveUpstreamKeeps ==
  ASSUME UInv, sound, status = "running", NEW h \in held,
         NEW new_size \in Sizes, NEW align \in Alignments,
         MoveUpstream(h, new_size, align)
  PROVE  UInv'
<1>1. /\ h \in Block /\ Home(h) /\ Filled(h) /\ Tidy
      /\ h.ptr \in Nat /\ h.size \in Nat
      /\ new_size \in Nat /\ align \in Nat \ {0}
  BY WordAssumption DEF UInv, Tidy, Block
<1>2. PICK asked : asked = new_size + MarkerPos(h.size) + Word
  OBVIOUS
<1>3. /\ asked \in Nat /\ h.size <= asked
      /\ MarkerPos(h.size) = MarkerPos(new_size) => asked = Total(new_size)
  <2>1. /\ MarkerPos(h.size) \in Nat /\ h.size <= MarkerPos(h.size)
        /\ Word \in Nat
    BY <1>1, MarkerBehind
  <2>2. QED
    BY <1>1, <1>2, <2>1 DEF Total
<1>4. PICK p \in UpstreamFree(asked) :
        /\ alloc_descs' = alloc_descs \ InBuffer(h)
        /\ upstream_blocks' = (upstream_blocks \ Upstream(h))
                                 \cup {[ptr |-> p, size |-> asked]}
        /\ Keep(ClientFills(Remark(Memmove(memory, p, h.ptr, h.size),
                                   h, p, new_size, UpstreamMarker),
                            p, h.size, new_size),
                (held \ {h}) \cup {Handle(p, new_size, align)})
        /\ sound' = (MarkerPos(h.size) = MarkerPos(new_size))
  BY <1>1, <1>2, HomeIsKnown DEF MoveUpstream
<1>5. PICK u : u = [ptr |-> p, size |-> asked]
  OBVIOUS
<1>6. PICK n : n = Handle(p, new_size, align)
  OBVIOUS
<1>7. PICK mem : mem = Memmove(memory, p, h.ptr, h.size)
  OBVIOUS
<1>8. PICK full : full = ClientFills(Mark(mem, p, new_size, UpstreamMarker),
                                     p, h.size, new_size)
  OBVIOUS
<1>9. /\ alloc_descs' = alloc_descs \ InBuffer(h)
      /\ upstream_blocks' = (upstream_blocks \ Upstream(h)) \cup {u}
      /\ held' = (held \ {h}) \cup {n} /\ memory' = Forget(full, held')
      /\ sound' = (MarkerPos(h.size) = MarkerPos(new_size))
      /\ status' = status
  BY <1>4, <1>5, <1>6, <1>7, <1>8 DEF Keep, Remark
<1>10. p \in Nat /\ p \in UpstreamPlaces /\ asked <= UpstreamSize
  BY WordAssumption DEF UpstreamFree, UpstreamPlaces
<1>11. /\ n \in Block /\ n.ptr = p /\ n.size = new_size
       /\ Region(n) = Bytes(p, Total(new_size))
  BY <1>1, <1>6, <1>10, HandleIs
<1>12. Upstanding(u) /\ u.ptr = p /\ u.size = asked
  BY <1>3, <1>5, <1>10, WordAssumption DEF Upstanding
<1>13. Tidy'
  BY <1>9, <1>11, <1>12 DEF UInv, Tidy, InPlace, Upstanding
<1>14. CASE MarkerPos(h.size) # MarkerPos(new_size)
  BY <1>9, <1>13, <1>14, Unsound
<1>15. CASE MarkerPos(h.size) = MarkerPos(new_size)
  <2>1. asked = Total(new_size) /\ p \in UpstreamFree(Total(new_size))
    BY <1>3, <1>15
  <2>2. /\ Bytes(p, Total(new_size)) \subseteq p .. p + UpstreamSize - 1
        /\ Bytes(p, Total(new_size)) \subseteq Addresses
    BY <1>1, <2>1, NewUpstream
  <2>3. Bytes(p, h.size) \subseteq Bytes(p, Total(new_size))
    <3>1. p .. p + h.size - 1 \subseteq p .. p + asked - 1
      BY <1>1, <1>3, <1>10
    <3>2. QED
      BY <2>1, <3>1 DEF Bytes
  <2>4. ASSUME NEW i \in 0 .. h.size - 1
        PROVE  mem[p + i] = Client(i)
    <3>1. p + i \in Bytes(p, h.size) /\ (p + i) - p = i
      BY <1>1, <1>10 DEF Bytes
    <3>2. mem[p + i] = memory[h.ptr + i]
      BY <1>7, <2>2, <2>3, <3>1 DEF Memmove
    <3>3. QED
      BY <1>1, <3>2 DEF Filled
  <2>5. Finished(full, mem, p, new_size, UpstreamMarker)
    <3>1. /\ Bytes(p, Total(new_size)) \subseteq Addresses
          /\ \A i \in 0 .. h.size - 1 : i < new_size => mem[p + i] = Client(i)
      BY <2>2, <2>4
    <3>2. new_size \in Nat /\ h.size \in Nat /\ p \in Nat
      BY <1>1, <1>10
    <3>3. QED
      BY ONLY <1>8, <3>1, <3>2, FinishFills, ZenonT(30)
  <2>6. ASSUME NEW k \in held \ {h}
        PROVE  /\ Region(k) \cap Region(n) = {}
               /\ \A a \in Region(k) : mem[a] = memory[a]
    <3>1. Home(k)
      BY DEF UInv
    <3>2. Region(k) \cap (p .. p + UpstreamSize - 1) = {}
      BY <1>1, <3>1, UpstreamApart
    <3>3. Region(k) \cap Region(n) = {} /\ Region(k) \cap Bytes(p, h.size) = {}
      BY <1>11, <2>2, <2>3, <3>2
    <3>4. Region(k) \subseteq Addresses
      BY <1>1, <3>1, HomeIs
    <3>5. QED
      BY <1>7, <3>3, <3>4 DEF Memmove
  <2>7. Remaining(held \ {h}, mem)
    BY <1>9, <2>6, OthersKnown DEF Remaining
  <2>8. Backed(n, UpstreamMarker)'
    BY <1>9, <1>11, <1>12, <2>1 DEF Backed, Backs
  <2>9. Region(n) \subseteq Addresses /\ held \ {h} \in SUBSET held
    BY <1>11, <2>2
  <2>10. QED
    BY <1>9, <1>11, <1>13, <2>5, <2>6, <2>7, <2>8, <2>9, Arrives
<1>16. QED
  BY <1>14, <1>15

(* again is mem with size bytes moved, and no others changed but those of  *)
(* the old block's total and of the descriptor at base.                    *)
Moved(again, mem, at, from, size, total, base) ==
  /\ \A a \in Addresses :
       a \notin Bytes(at, total) /\ a \notin Bytes(base, DescSize)
         => again[a] = mem[a]
  /\ \A i \in 0 .. size - 1 :
       /\ at + i \in Addresses /\ from + i \in Addresses
       /\ from + i \notin Bytes(base, DescSize)
       /\ from = at \/ from + i \notin Bytes(at, total)
       => again[at + i] = mem[from + i]

(* Two moves of a block, with its new descriptor written between them.     *)
LEMMA MovedTwice ==
  ASSUME NEW mem, NEW at \in Nat, NEW from \in Nat, NEW size \in Nat,
         NEW total \in Nat, size <= total, NEW base \in Nat,
         NEW moved, moved = Set(Memmove(mem, at, from, total), base, DescSize,
                                Unknown),
         NEW again, again = Memmove(moved, at, from, size)
  PROVE  Moved(again, mem, at, from, size, total, base)
<1>1. PICK first : first = Memmove(mem, at, from, total)
  OBVIOUS
<1>2. ASSUME NEW a \in Addresses
      PROVE  /\ again[a] = IF a \in at .. at + size - 1
                             THEN moved[from + (a - at)] ELSE moved[a]
             /\ moved[a] = IF a \in base .. base + DescSize - 1
                             THEN Unknown ELSE first[a]
             /\ first[a] = IF a \in at .. at + total - 1
                             THEN mem[from + (a - at)] ELSE mem[a]
  BY <1>1 DEF Set, Memmove, Bytes
<1>3. ASSUME NEW a \in Addresses,
             a \notin Bytes(at, total), a \notin Bytes(base, DescSize)
      PROVE  again[a] = mem[a]
  <2>1. /\ a \notin at .. at + total - 1
        /\ a \notin base .. base + DescSize - 1 /\ a \in Int
    BY <1>3, WordAssumption DEF Bytes, Addresses
  <2>2. a \notin at .. at + size - 1
    BY <2>1
  <2>3. QED
    BY <1>2, <2>1, <2>2
<1>4. ASSUME NEW i \in 0 .. size - 1,
             at + i \in Addresses, from + i \in Addresses,
             from + i \notin Bytes(base, DescSize),
             from = at \/ from + i \notin Bytes(at, total)
      PROVE  again[at + i] = mem[from + i]
  <2>1. /\ at + i \in at .. at + size - 1 /\ (at + i) - at = i
        /\ at + i \in at .. at + total - 1
    OBVIOUS
  <2>2. again[at + i] = moved[from + i]
    BY <1>2, <1>4, <2>1
  <2>3. moved[from + i] = first[from + i]
    BY <1>2, <1>4 DEF Bytes
  <2>4. first[from + i] = mem[from + i]
    <3>1. CASE from = at
      BY <1>2, <1>4, <2>1, <3>1
    <3>2. CASE from + i \notin Bytes(at, total)
      BY <1>2, <1>4, <3>2 DEF Bytes
    <3>3. QED
      BY <1>4, <3>1, <3>2
  <2>5. QED
    BY <2>2, <2>3, <2>4
<1>5. QED
  BY <1>3, <1>4 DEF Moved

LEMMA ReallocBufferKeeps ==
  ASSUME UInv, sound, status = "running", NEW h \in held,
         NEW new_size \in Sizes, NEW align \in Alignments,
         ReallocBuffer(h, new_size, align)
  PROVE  UInv'
<1>1. /\ h \in Block /\ Home(h) /\ Filled(h) /\ Tidy /\ Apart
      /\ h.ptr \in Nat /\ h.size \in Nat
      /\ new_size \in Nat /\ align \in Nat \ {0}
  BY WordAssumption DEF UInv, Tidy, Block
<1>2. /\ Total(h.size) \in Nat /\ Total(new_size) \in Nat
      /\ h.size < Total(h.size) /\ new_size < Total(new_size)
  BY <1>1, MarkerBehind
<1>3. PICK tree : tree = alloc_descs \ InBuffer(h)
  OBVIOUS
<1>4. PICK r : r = Request(Total(new_size), align)
  OBVIOUS
<1>5. PICK at \in Place(tree, r) :
        LET desc == Buf(tree, r, at)!NewDesc
            moved == Set(Memmove(memory, at, h.ptr, Total(h.size)),
                         desc.desc_base, DescSize, Unknown)
            again == Memmove(moved, at, h.ptr, h.size)
        IN /\ alloc_descs' = tree \cup {desc}
           /\ Keep(ClientFills(Remark(again, h, at, new_size, BufferMarker),
                               at, h.size, new_size),
                   (held \ {h}) \cup {Handle(at, new_size, align)})
           /\ sound' = MovesClear(h, desc)
  BY <1>3, <1>4 DEF ReallocBuffer
<1>6. PICK d : d = Buf(tree, r, at)!NewDesc
  OBVIOUS
<1>7. PICK moved : moved = Set(Memmove(memory, at, h.ptr, Total(h.size)),
                               d.desc_base, DescSize, Unknown)
  OBVIOUS
<1>8. PICK again : again = Memmove(moved, at, h.ptr, h.size)
  OBVIOUS
<1>9. PICK n : n = Handle(at, new_size, align)
  OBVIOUS
<1>10. PICK full : full = ClientFills(Mark(again, at, new_size, BufferMarker),
                                      at, h.size, new_size)
  OBVIOUS
<1>11. /\ alloc_descs' = tree \cup {d}
       /\ held' = (held \ {h}) \cup {n} /\ memory' = Forget(full, held')
       /\ sound' = MovesClear(h, d)
       /\ UNCHANGED <<upstream_blocks, status>>
  BY <1>5, <1>6, <1>7, <1>8, <1>9, <1>10 DEF Keep, Remark, ReallocBuffer
<1>12. Descriptor(d, tree, Total(new_size), align, at)
  BY <1>1, <1>2, <1>4, <1>6, PlaceFits
<1>13. /\ at \in Nat /\ InPlace(d) /\ d.desc_base \in Nat
       /\ d.rb_value = at /\ d.size = Total(new_size) /\ d.alignment = align
  BY <1>12 DEF Descriptor, InPlace
<1>14. /\ n \in Block /\ n.ptr = at /\ n.size = new_size
       /\ n.alignment = align /\ Region(n) = Bytes(at, Total(new_size))
  BY <1>1, <1>9, <1>13, HandleIs
<1>15. /\ Region(n) \subseteq at .. d.desc_base + DescSize - 1
       /\ Region(n) \subseteq Addresses
       /\ at + Total(new_size) <= d.desc_base
  BY <1>1, <1>12, <1>14, NewInBuffer
<1>16. Tidy'
  BY <1>1, <1>3, <1>11, <1>13, <1>14 DEF Tidy, InPlace, Upstanding
<1>17. CASE ~MovesClear(h, d)
  BY <1>11, <1>16, <1>17, Unsound DEF MovesClear
<1>18. CASE MovesClear(h, d)
  <2>1. Moved(again, memory, at, h.ptr, h.size, Total(h.size), d.desc_base)
    <3>1. h.size <= Total(h.size)
      BY <1>1, <1>2
    <3>2. QED
      BY ONLY <1>1, <1>2, <1>7, <1>8, <1>13, <3>1, MovedTwice, ZenonT(30)
  <2>2. /\ Region(h) = Bytes(h.ptr, Total(h.size))
        /\ Region(h) \subseteq Addresses
    BY <1>1, HomeIs DEF Region
  <2>3. h.ptr # at => /\ Total(h.size) <= Total(new_size)
                      /\ \A a \in Region(h) :
                           a < at \/ a >= d.desc_base + DescSize
    BY <1>13, <1>18, <2>2 DEF MovesClear
  <2>4. h.ptr # at =>
          Bytes(at, Total(h.size)) \subseteq at .. d.desc_base + DescSize - 1
    <3>1. DescSize \in Nat
      BY WordAssumption
    <3>2. h.ptr # at => at + Total(h.size) <= d.desc_base
      BY <1>2, <1>13, <1>15, <2>3
    <3>3. QED
      BY <1>2, <1>13, <3>1, <3>2 DEF Bytes
  <2>5. Bytes(d.desc_base, DescSize) \subseteq at .. d.desc_base + DescSize - 1
    BY <1>2, <1>13, <1>15, WordAssumption DEF Bytes
  <2>6. ASSUME NEW i \in 0 .. h.size - 1, i < new_size
        PROVE  again[at + i] = Client(i)
    <3>1. at + i \in Region(n)
      <4>1. i \in 0 .. new_size - 1
        BY <1>1, <2>6
      <4>2. \A o \in 0 .. n.size - 1 : n.ptr + o \in Region(n)
        BY <1>14, RegionHolds
      <4>3. QED
        BY <1>14, <4>1, <4>2
    <3>2. h.ptr + i \in Region(h)
      BY <1>1, RegionHolds
    <3>3. /\ h.ptr + i \notin Bytes(d.desc_base, DescSize)
          /\ h.ptr = at \/ h.ptr + i \notin Bytes(at, Total(h.size))
      <4>1. CASE h.ptr = at
        <5>1. at + i < d.desc_base
          BY <1>1, <1>2, <1>13, <1>15, <2>6
        <5>2. QED
          BY <1>13, <4>1, <5>1 DEF Bytes
      <4>2. CASE h.ptr # at
        <5>1. h.ptr + i < at \/ h.ptr + i >= d.desc_base + DescSize
          BY <2>3, <3>2, <4>2
        <5>2. h.ptr + i \notin at .. d.desc_base + DescSize - 1
          BY <1>1, <1>13, <5>1, WordAssumption
        <5>3. QED
          BY <2>4, <2>5, <4>2, <5>2
      <4>3. QED
        BY <4>1, <4>2
    <3>4. again[at + i] = memory[h.ptr + i]
      BY <1>15, <2>1, <2>2, <3>1, <3>2, <3>3 DEF Moved
    <3>5. QED
      BY <1>1, <3>4 DEF Filled
  <2>7. Finished(full, again, at, new_size, BufferMarker)
    <3>1. /\ Bytes(at, Total(new_size)) \subseteq Addresses
          /\ \A i \in 0 .. h.size - 1 : i < new_size => again[at + i] = Client(i)
      BY <1>14, <1>15, <2>6
    <3>2. new_size \in Nat /\ h.size \in Nat /\ at \in Nat
      BY <1>1, <1>13
    <3>3. QED
      BY ONLY <1>10, <3>1, <3>2, FinishFills, ZenonT(30)
  <2>8. ASSUME NEW k \in held \ {h}
        PROVE  /\ Region(k) \cap Region(n) = {}
               /\ \A a \in Region(k) : again[a] = memory[a]
    <3>1. Home(k) /\ Region(k) \subseteq Addresses
      BY <1>1, HomeIs DEF UInv
    <3>2. \A e \in alloc_descs : Describes(e, k) => e \in tree
      BY <1>3, OthersKnown
    <3>3. Region(k) \cap (at .. d.desc_base + DescSize - 1) = {}
      BY <1>1, <1>12, <3>1, <3>2, BufferFree
    <3>4. Region(k) \cap Bytes(at, Total(h.size)) = {}
      <4>1. CASE h.ptr = at
        BY <1>1, <2>2, <4>1 DEF Apart
      <4>2. CASE h.ptr # at
        BY <2>4, <3>3, <4>2
      <4>3. QED
        BY <4>1, <4>2
    <3>5. QED
      BY <1>15, <2>1, <2>5, <3>1, <3>3, <3>4 DEF Moved
  <2>9. Remaining(held \ {h}, again)
    BY <1>3, <1>11, <2>8, OthersKnown DEF Remaining
  <2>10. Backed(n, BufferMarker)'
    BY <1>11, <1>13, <1>14 DEF Backed, Describes
  <2>11. held \ {h} \in SUBSET held
    OBVIOUS
  <2>12. QED
    BY <1>11, <1>14, <1>15, <1>16, <2>7, <2>8, <2>9, <2>10, <2>11, Arrives
<1>19. QED
  BY <1>17, <1>18

LEMMA ReallocInPlaceKeeps ==
  ASSUME UInv, sound, status = "running", NEW h \in held,
         NEW new_size \in Sizes, NEW align \in Alignments,
         ReallocInPlace(h, new_size, align)
  PROVE  UInv'
<1>1. CASE Crash(FALSE)
  <2>1. Tidy'
    BY <1>1 DEF Crash, UInv, Tidy, InPlace, Upstanding
  <2>2. QED
    BY <1>1, <2>1, Unsound DEF Crash
<1>2. CASE MoveUpstream(h, new_size, align)
  BY <1>2, MoveUpstreamKeeps
<1>3. QED
  BY <1>1, <1>2 DEF ReallocInPlace

LEMMA NextUInv == UInv /\ [Next]_vars => UInv'
<1> SUFFICES ASSUME UInv, [Next]_vars PROVE UInv'
  OBVIOUS
<1>1. CASE UNCHANGED vars
  BY <1>1 DEF vars, UInv, Tidy, InPlace, Upstanding, Apart, Region, Home,
              Filled, Marked
<1>2. ASSUME status = "running", sound, NEW size \in Sizes,
             NEW align \in Alignments,
             \/ AllocBuffer(size, align) \/ AllocUpstream(size, align)
             \/ \E h \in held : \/ Realloc(h, size, align)
                                \/ ReallocInPlace(h, size, align)
      PROVE  UInv'
  <2>1. CASE AllocBuffer(size, align) \/ AllocUpstream(size, align)
    BY <1>2, <2>1, AllocBufferKeeps, AllocUpstreamKeeps
  <2>2. ASSUME NEW h \in held,
               \/ Realloc(h, size, align) \/ ReallocInPlace(h, size, align)
        PROVE  UInv'
    BY <1>2, <2>2, ReallocBufferKeeps, MoveUpstreamKeeps,
       ReallocInPlaceKeeps DEF Realloc
  <2>3. QED
    BY <1>2, <2>1, <2>2
<1>3. ASSUME status = "running", sound, NEW h \in held, Release(h)
      PROVE  UInv'
  BY <1>3, ReleaseKeeps
<1>4. QED
  BY <1>1, <1>2, <1>3 DEF Next, Operation

-----------------------------------------------------------------------------
(* The theorems. *)

LEMMA Inductive == Spec => []UInv
BY InitUInv, NextUInv, PTL DEF Spec

(* While no call known to go wrong was made, the marker behind each block  *)
(* names the allocator it came from, and that allocator knows it by the    *)
(* size and alignment it will be told: release terminates the program if   *)
(* it does not.  For buffers, descriptors, words and requests of any size. *)
THEOREM BlocksStayHome == Spec => []BlocksGoHome
<1>1. UInv => BlocksGoHome
  BY HomeIsKnown DEF UInv, Tidy, BlocksGoHome
<1>2. QED
  BY <1>1, Inductive, PTL

(* Every byte of every block is what its client wrote: no move loses one,  *)
(* and no marker, descriptor or copy of another block is written over it.  *)
THEOREM ContentsStay == Spec => []ContentsKept
<1>1. UInv => ContentsKept
  BY DEF UInv, Filled, ContentsKept
<1>2. QED
  BY <1>1, Inductive, PTL
=============================================================================
