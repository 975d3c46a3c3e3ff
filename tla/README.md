# Specifications of peff

TLA+ specifications, TLC model checks and TLAPS proofs for PEFF, the
"Portable Extended Freestanding Foundations" library: allocators, reference
counted pointers and containers for C++ programs that do without exceptions.
Paths below are relative to the repository; `containers/`, `advutils/` and
`base/` are directories of `peff/`.

The library has no processes of its own and no I/O.  What makes it hard is
long sequences of legal calls on linked structures, allocations that may fail
between any two steps, re-entrance (a destructor destroys handles, which may
destroy more objects), index arithmetic on raw memory, and, in one place, real
concurrency: atomic reference counts.

## Inventory

| component | state | operations | what makes it correct |
|---|---|---|---|
| `BufferAlloc` (`advutils/buffer_alloc.*`) | one buffer; a tree of descriptors, each stored behind the block it describes | `alloc`, `realloc`, `realloc_in_place`, `release` | blocks disjoint, aligned, inside the buffer; the search finds a place if there is one, and ends; a refusal changes nothing |
| `UpstreamedBufferAlloc` (same files) | a `BufferAlloc` in front of another allocator; a marker behind each block names its owner | the same | each block goes back where it came from |
| `RBTree` (`containers/rbtree.*`) | root, links, colours, cached first and last node, size | `insert`, `remove`, `clear`, `get`, `get_max_lteq`, iterators | balanced search tree; caches and queries exact; its memory freed once |
| `Map`, `Set` (`containers/map.h`, `set.h`) | an `RBTree` | forwarders | those of the tree |
| `SharedPtr`, `WeakPtr` (`advutils/shared_ptr.h`) | a control block per object: two atomic counters and a plain flag | copy, move, assign, `reset`, `lock`, `make_shared` | one destruction, one release, nothing used afterwards, nothing leaked |
| `UniquePtr` (`advutils/unique_ptr.h`) | one pointer | move, `reset` | one owner |
| `List` (`containers/list.h`) | header; nodes with two links, which clients may own | push, pop, insert, remove, detach, `clear`, iterators | links spell the same sequence from both ends |
| `HashSet`, `HashMap` (`containers/hashset.h`, `hashmap.h`) | an array of `List`s, a size | `insert`, `remove`, `get`, `clear`, iterators | each element in the bucket of its hash, through every resize |
| `DynArray`, `String`, `BinaryHeap` (`containers/`) | a block of slots, length, capacity | insert, erase, resize, shrink | every element constructed once, destroyed once, kept in order |
| `RadixTree` (`containers/radix_tree.h`) | a trie over the bits of a key that grows in height | insert, lookup, iterators, destruction | a finite set of keys in order, rolled back whole when memory is refused |
| `BitArray`, `BitSet` (`containers/bitarray.h`, `bitset.h`) | bytes, a length in bits, a capacity | push, pop, resize, set, clear, fill, get and set a byte at any bit | a call changes the bits of its range and no others |
| `example/lzwhat` | the input, a bit stream, a ring of the last output | compress, decompress, numbers of variable length | what comes out is what went in; both loops end |
| `Alloc`, `StdAlloc`, `VoidAlloc`, `NullAlloc`, `RcObjectPtr` (`base/`) | reference counts | the interface every container allocates through | counts equal the number of holders |
| `ScopeGuard`, `Deallocable`, `Option`, `Result`, hashes, comparators | none that outlives a call | - | - |

How they interact.  Every container holds a reference to an `Alloc`, asks it
for nodes or arrays and must survive a null answer.  `BufferAlloc` *is* an
`Alloc`, keeps an `RBTree` of descriptors, and builds the tree's nodes itself,
inside the memory it hands out, so that a byte written out of place damages
the tree.  `HashSet` is a `DynArray` of `List`s and moves nodes between lists.
`Map` and `Set` wrap `RBTree`; `HashMap` wraps `HashSet`.  `SharedPtr`'s
control blocks come from an `Alloc` too and call back into the object's
destructor.  `example/lzwhat` is a compressor whose stream is a `BitArray` and
whose output is a `DynArray`.

## Modules

| module | models | kind |
|---|---|---|
| `BlockArena` | what a client of a buffer allocator is promised | abstract |
| `BufferAlloc` | `advutils/buffer_alloc.cc`, `BufferAlloc` | detailed |
| `UpstreamedBufferAlloc` | the same file, `UpstreamedBufferAlloc`, over `BufferAlloc` | composition |
| `OrderedSet` | what `Set`, `HashSet` and `RadixTree` promise | abstract |
| `RBTree` | `containers/rbtree.h`, `rbtree.cc` | detailed |
| `SharedPtr` | `advutils/shared_ptr.h` | detailed |
| `ListLinks` | `_prepend`, `_append`, `_remove` of `containers/list.h` as functions of a chain | operators |
| `List` | `containers/list.h` over `ListLinks` | detailed |
| `HashSet` | `containers/hashset.h`, composed of the chains of `ListLinks` | composition |
| `ElementSequence` | what `DynArray` promises | abstract |
| `DynArray` | `containers/dynarray.h`, `base/misc.h` | detailed |
| `RadixTree` | `containers/radix_tree.h`, `utils/bitops.h` | detailed |
| `RadixTreeWord` | the same with keys whose bits are counted rightly | restriction |
| `BitBytes` | the byte arithmetic of `containers/bitarray.h` and `bitset.h` | operators |
| `BitArray` | `containers/bitarray.h` over `BitBytes` | detailed |
| `Lzwhat` | `example/lzwhat/main.cc` | detailed |
| `MC...` | values for the constants, views, symmetry | instances |
| `BufferAllocProofs`, `UpstreamedBufferAllocProofs`, `RBTreeProofs`, `SharedPtrProofs`, `ListHashSetProofs`, `BitArrayProofs`, `DynArrayProofs`, `RadixTreeProofs` | theorems and their lemmas | proofs |

Some modules hold operators named `Definition_Something` next to a definition:
a slip somebody could make there.  Nothing uses them; substituted for the
definition they show that a property really depends on it.

Conventions common to all of them.  Fields keep their C++ names.  Asserts are
enabled, as in a build without `NDEBUG`: an assertion that fails, a call of
`std::terminate` and an access to freed memory are terminal states, never
hidden by a guard.  A call is one step unless it has a loop that touches linked
state (then one step per iteration) or unless threads interleave (then one step
per access).  An allocation that may fail is a disjunction.  Addresses are
natural numbers: `size_t` does not wrap around.

Several containers offer calls that do not do what they say.  They are modelled
as they are, and a history variable (`sound`, `list_sound`, `honest`) records that
no such call has been made; the properties speak of the histories in which it is
TRUE, and each such call is named under Findings.  The definitions named
`...Safe`, and `AttachIsClean`, say exactly which calls those are.

### BufferAlloc

A pointer is an offset from `buffer`; `Base` is the buffer's address, which
matters for alignment.  `alloc_descs` is the set of descriptors, as the tree's
nodes; `IsMaxLteq` is `get_max_lteq` on it, justified by `QueriesExact` of
`RBTree`.  `ActualSize` is `calc_alloc_size`: the user's bytes, rounded up to
the descriptor's alignment, and the descriptor.  `alloc` and `realloc` share a
search whose iterations are `AlignUp`, `SkipBottom`, `SkipTop` and which ends
with `Found` or `Exhausted`; `realloc` takes the old descriptor out first
(`old`) and may place the block over itself.  `written` records the bytes a
step writes.  `ReallocInPlace` is translated with its scope guard, which is
never released: if the call is not refused, the guard's insertion hits
the assertion of `RBTree::insert`.  The model follows the code in refusing a
hole that a block fits exactly when another block comes next (the top check
looks one byte too far).  `Resizes` names the pairs of sizes clients reallocate
with: the run and the theorem `WritesStayHome` take clients that never shrink a
block, because the code moves the *old* number of bytes.

### UpstreamedBufferAlloc

Here memory has contents, byte by byte: the client's bytes, the marker behind
them, descriptors.  A call is one step; where the search of `BufferAlloc` ends
is the lowest place that fits, which is `SearchIsExact` of that module, and the
descriptor it writes is `NewDesc`, taken by `INSTANCE`.  The upstream allocator
has two places and may be full.  `sound` turns FALSE when a call damages what
follows: a `realloc` within the buffer copies the client's bytes a second time,
from where the first copy already took them (`MovesClear` says when that is
harmless), and a block that moves upstream is asked for with the marker offset
of its old size.  `realloc_in_place` may move a block, as in the code.

### RBTree

A node is named by its `rb_value`.  The code writes each case twice; here a
side is a parameter and `Rotate`, `Straighten`, `RotateUp`, `Repair` take it.
`_insert_fix_up` and the loop of `_remove_fix_up` run one iteration per step
(`pc`, `x`, `par` are the program counter and the loop's registers), as does
`_delete_node_tree` (`ClearDescend`, `ClearDelete`).  Descents from the root
are recursive functions.  The comparator is the infallible `<` on keys.
`TreeShape` holds within the loops too.

### SharedPtr

Every access to a control block is a step.  A call is a stack of frames, so that
destroying an object, which destroys the handles in it, nests.  Handles are
local to a thread or members of an object (`In`).  Clients synchronise the
handles themselves, as with any C++ object, and hand copies to other threads;
what is left to go wrong is the counters.  `Sources` keeps the right-hand side
of an assignment local: with a member on the right (`p = p->next`) `operator=`
reads a handle after destroying the object it is in.

### ListLinks, List

A chain is a header and the links of all nodes.  `Attach` is `_prepend`
(direction `"prev"`) and `_append` (`"next"`); it leaves one link of the new
node as it was, like the code.  `Unlink` is `_remove`, after which the node
keeps both.  `items` is a history variable: the sequence the calls ask for.
`list_live` tells which nodes are constructed, and each operation names the
nodes it touches.  The stale link is harmless exactly when it already has the
right value (`AttachIsClean`): a fresh node at an end, or a node put back where
it was. Clients attach any node that is not in the list anywhere (`MayAttach`);
the call is made as the code makes it, turns `list_sound` FALSE if the stale
link was wrong, and then nothing follows.  The callers in the repository make no
such call; `insert_front` and `insert_back` of a new node inside a list are two.
Names that other containers have too begin with `list` or `List`, because
`ListHashSetProofs` extends both modules.

### HashSet

Buckets are chains over the links of all nodes; `_insert` is split where
`_check_and_resize_buckets` begins, and the loop that moves the nodes is one
step per node.  `honest` turns FALSE once a client inserted
an element that was present (which `_insert` counts again, and whose rollback
removes whatever node is first in the bucket) or called `clear` (which keeps
`_size`).  The structural properties hold in any case; the count and
`SetSpec` for honest clients.  `begin_reversed` always fails the assertion of
`DynArray::at`.

### ElementSequence, DynArray

A slot is `Raw`, `Moved`, `Blank` (default constructed) or holds a value that
names one object.  `Blank` objects and values are `Owners`, which must be
destroyed; a `Moved` object has handed over what it owned, and insertions end
its life by constructing over it, without a destructor (`dynarray.h:395`).
`kind` is what `if constexpr` knows of the elements: trivial (moved with
`memmove` and `realloc`), assignable, or "rebuilt" by destruction and
construction because they have no move assignment.  A loop over elements is a
recursive function of the round (`moved` in `Shift`, `built` in `Build`), so
that the order in which elements move, and an object constructed over another,
destroyed twice or lost, show as `fault`.  `sound` excludes the calls that lose
objects: downward shifts that overlap (`ShiftSafe`), blocks that shrink with
elements in them (`ShrinkSafe`), `extract_range_and_shrink`, and an
`insert_range` of objects for which the block grows: `_expand_to` constructs the
new elements, `_insert_range` constructs others over them.  The first block of
objects is asked for with `realloc_in_place` of a null pointer, which may end
the program (`FirstBlockAborts`).  `resize_and_shrink` within the capacity
aborts, `shrink_to_fit` does nothing.

### RadixTree

A node is named by its height and the bits above it.  `insert` runs the loops of
`_grow_height_then_grow_node` and `_grow_node` an iteration at a time, with
memory refused at any node; the guard of the inner loop is `Rollback`, and when
the guard of the outer one reads nodes it has just freed, `pc` is `"undefined"`
and nothing follows.  `contents` is the set of keys whose own leaf, the one
their bits spell, holds their value; `Lookup` is `_lookup`, which looks at the
lowest bits only, as many as the tree is high, and `LookupFinds` (with
`WalksInOrder` it is `QueriesExact`) compares the two for keys no longer than
the tree is high.  Of a longer key that is absent, `at` returns the value of the
key with the same low bits.

The height of a key is computed with `count_leading_zero`.  As gcc and clang
build it for x86, that counts in a word of 32 bits whatever the key's type is;
`KeyBits` is the width of keys and `ClzBits` that of the word.  For 64-bit keys
`ClzBits` is half of `KeyBits`, the tree is too low for its keys and an
insertion takes another key for its own: TLC refutes `KeyExists` of keys of
three bits of which two are counted.  `RadixTreeWord` takes the two as equal:
this is so for 32-bit keys, which the repository uses, and for all widths where
the portable loop of `bitops.h` is compiled (not on x86).  The passing run and
all theorems are about `RadixTreeWord`.  Not modelled are keys of 8 and 16 bits
on x86, whose heights wrap around (with MSVC they are right), and signed keys.
MSVC truncates 64-bit keys as well, but counts in 64 bits.

Iteration takes the left value of the next leaf for present without looking:
`WalksInOrder` says what the walk of the leaves does in every tree and what
iterators do in those in which the value is there (`NoGaps`).
In others, an iterator stands on a value that is not there.

### BitBytes, BitArray

A byte is the set of its bits that are one, a byte's width a constant, so that
masks and shifts are set operations.  Memory comes with any content of
`Samples`.  `call` records the range a call writes and the bits that become
one; `WritesExactly` compares every bit of the array before and after.
`fill_set` and `fill_clear` are exact only for the ranges of `FillSetSafe` and
`FillClearSafe`; when the number of whole bytes underflows, or an assertion
fails, the program stops.  `reserve(0)` leaves a pointer to a freed
buffer, and `set_byte` of no bits at the start of a byte shifts by more than a
byte's width; both are undefined behaviour, after which nothing follows.

### Lzwhat

The compressor and the decompressor take one token per step.  The stream is a
sequence of bits, which is what `BitArray` is shown to keep.  Bytes have eight
bits and groups of numbers seven, as in the code; a number is the set of the
positions of its ones, since 64 bits are beyond TLC's integers.  Only the window
and the look-ahead are narrower.  Distances fit in one group, as they do in the
code for a window of up to 127 bytes.  `VarintExact` is about longer numbers
too: of the numbers in `Samples`, those of one group come back for every content
of the bits that nobody writes, and each other one is lost for some content.
For a lucky content it may come back: 2^48 + 64 does if the group holds 64.

## What the runs show

| run | instance | result |
|---|---|---|
| `buffer_alloc` | buffer of 12 bytes at an odd address, descriptors of 2, sizes 0, 1, 4, alignments 1, 3 | blocks disjoint and well placed; the search returns the lowest place or there is none; it ends; no call writes in another block; implements `BlockArena` |
| `upstreamed_buffer_alloc` | buffer of 20 bytes, words of 2, sizes 1 to 3, two upstream blocks | every marker names the allocator that knows the block; contents survive every move |
| `rbtree` | all trees of up to 10 nodes | shape, order, balance (in the loops too), caches, queries, iterator steps, deletion; implements `OrderedSet` |
| `shared_ptr_sequential` | one thread, two objects, five handles, two of them members | counts exact, no use after free, nothing dangles or leaks |
| `shared_ptr_threads` | two threads, two objects, five `SharedPtr`s | the same in every interleaving, and every call ends |
| `shared_ptr_weak_race` | two threads, one object, a `WeakPtr` | **violated**: both threads destroy the object |
| `list` | four nodes | until a client attaches a node whose stale link is wrong: links spell the items, iterators visit them, no freed node touched |
| `hash_set` | four elements with one collision, one to four buckets | buckets well formed and nodes placed in every step of a resize, iteration and size, implements `OrderedSet` |
| `dyn_array` | three values, up to four elements, three kinds of types | for sound calls: no object destroyed twice or lost; implements `ElementSequence` |
| `radix_tree` | eleven keys of one to four bits, at most four at once | paths spell keys through growth and rollback, walks in order, lookups find the keys, destructor frees all; implements `OrderedSet` |
| `bit_array` | bytes of three bits, up to seven bits | reads and writes exact over the ends of bytes and buffers |
| `lzwhat` | all inputs of up to nine letters of two, window and look-ahead of 4 | round trip, ring exact, of sampled numbers up to 64 bits just those of one group come back, both loops end |

### Bounds

* Buffer: 12 bytes hold three to six blocks of the sizes chosen, enough for a
  hole between two blocks, a hole too small, a hole with a wrong alignment and
  a `realloc` whose new place overlaps the old.  Size 0 and a misaligned base
  are the numeric edges.  Everything but `SearchEnds` is proved without bounds.
* Upstream: 20 bytes hold two blocks with markers and descriptors; sizes 1 to 3
  with words of 2 give marker offsets that agree and that do not.  Both
  invariants are proved without bounds.
* Trees: ten nodes reach every case of the removal loop and its iteration
  twice, and a successor that is far from the node removed.  Everything the run
  checks is proved for any finite set of keys.
* Handles: two handles per thread and a member handle are the fewest that
  show assignment over the last owner, destruction that nests and a hand-over.
  Each object is made once.  The invariants are proved for any number of
  threads, handles, objects and members.
* Lists: four nodes have an interior on both sides of a removed node, and leave
  one to be attached in it with a stale link.  Proved
  for any finite number.
* Hash table: `MaxSize` bounds `_size`, which duplicates drive up to six, so
  the table grows to four buckets and shrinks again; honest clients see it grow
  and shrink between one and two.  Proved for tables of any size.
* Dynamic array: with `MaxLength` 4 the capacity grows by half to values that
  are not the length, a shift has an element before and behind it, and ranges
  shifted down both overlap and do not.  Proved for arrays of any length.
* Radix tree: keys of four bits put up to three roots above the first; four
  keys leave leaves with one and two values and inner nodes with one and two
  children.  Proved, as far as `RadixTreeWord` goes, for any keys.
* Bits: three bits to the byte and seven bits are three bytes, the last one
  partly used; a range of one to three bits begins anywhere.  Proved for any
  width and size.
* Compressor: nine letters pass through the ring of four slots more than twice,
  and every distance and length a window of four allows occurs.  A match ends
  before the look-ahead begins (`main.cc:407`).  The numbers of `Samples` lie
  around each power of two at which the encoding changes.

`call` is left out of the views: no property reads it before a step.

### Fairness

Only steps inside a call are fair: `WF(Search)` for the allocator's loop and
weak fairness of each thread's frames in `SharedPtr`; `Lzwhat` is one thread
that runs two loops, `WF_vars(Next)`.  All of it is straight-line code of a
thread that has started a call; nothing in it blocks.  No client is obliged to
call anything.

## Findings

`shared_ptr_weak_race` contradicts an assertion of the code.  Others were met
while modelling and are described at the definition concerned; the models do
what the code does there, and the properties make no claim about what follows:

* `BufferAlloc`: a `realloc_in_place` that is not refused asserts
  (`buffer_alloc.cc:177`); a shrinking `realloc` copies the old size (150); an
  exact fit before another block is refused (62; `example/maptest/main.cc:317`
  sizes its buffer to the byte).
* `UpstreamedBufferAlloc`: the second copy (312), the marker offset of the old
  size (322, 361).
* `RBTree::insert` of a present key asserts (`rbtree.h:497`) where its doc
  comment (492) says it returns false.
* `SharedPtr`: an assignment whose right-hand side is a member of the object
  that it drops (`p = p->next`) reads a destroyed handle (`shared_ptr.h:145`).
* `List`: a stale link after `push_*` of a detached node (`list.h:70`), by which
  `pop_front` of a list that is not empty may assert (98), and after
  `insert_front` and `insert_back` of a new one inside the list (139, 147).
* `HashSet`: the rollback and the count of `_insert` (`hashset.h:214`, 219),
  `clear` (352), `begin_reversed` (569).
* `DynArray`: overlapping shifts in the wrong order (`dynarray.h:67`), elements
  without a move assignment constructed from themselves (`base/misc.h:80`), the
  tail destroyed twice (145, 264), a shift not undone (321-323),
  `extract_range_and_shrink` keeps the first elements (348), `shrink_to_fit`
  tests the wrong way round (546), `resize_and_shrink` (462), a block of no bytes
  forgotten (302), objects of a growing `insert_range` constructed twice and
  destroyed once (128-133, 395, 402), `realloc_in_place` of a null pointer for
  the first block of objects, which `BufferAlloc` asserts on (197).
* `RadixTree`: leading zeros of 8-, 16- and 64-bit keys counted wrongly on x86
  (`bitops.h:45`, 74, 128, 132), a lookup that ignores the upper bits of a key
  longer than the tree is high (`radix_tree.h:234`), guards that read freed
  nodes (103, 159), a present key terminates (150), an empty tree asserts when
  destroyed (364), `operator++` (511) and `operator--` (538), a count that never
  grows (109).
* `BitArray`: masks of `fill_set` and `fill_clear` (`bitarray.h:260`, 276, 284),
  an underflow (249, 273), a range that ends with the array (267), `reserve(0)`
  (146), `set_byte` of no bits (295), blocks released with the size of their
  bits, not of their capacity (115, 142).
* `lzwhat`: prefixes written lowest bit first and read highest first
  (`main.cc:33`), the seventh group over the prefix (139), and the last byte of
  long numbers (168, 190, 228).

## What is proved

All theorems hold for every value of the constants that the named assumptions
of the modules allow; TLC evaluates those in the runs.

`BufferAllocProofs`:

* `TypeSafe`, `BlocksDisjoint`, `BlocksPlaced`: `TypeOK`, `NoOverlap`,
  `AllPlaced` are invariants.  The inductive invariant `IInv` is their
  conjunction: disjointness needs that ends lie behind starts (placement), and
  placement of the block being reallocated, which is out of the tree while
  `realloc` searches, is why both speak of `alloc_descs \cup old`.  The heart
  is `FoundIsFree`: the code looks up only two descriptors, the last at or
  below the start and the last at or below the end of the new block; because
  the others are disjoint and ordered, that is enough.
* `WritesStayHome`: if no client shrinks a block, `NoStrayWrite` holds.  Its
  lemma is that during a `realloc` the old size is at most the requested one.
* `ImplementsArena`: `BufferAlloc` implements `BlockArena` under the refinement
  that shows a block being reallocated as live until the call returns; search
  steps stutter.  `HandInv` says that such a block is not in the tree.
* `SearchFindsLowest`: `SearchIsExact` holds.  The invariant is `NothingBelow`:
  no place below the search's offset fits.  It is inductive because a jump over
  a block, or to the next aligned address, passes over places that overlap that
  block or are not aligned.

`UpstreamedBufferAllocProofs`: `BlocksStayHome` and `ContentsStay`, the two
invariants of the run.  `UInv` says that as long as `sound` holds the regions
of live blocks are disjoint, markers included, that each marker agrees with
what one of the two allocators recorded, and that the client's bytes are there.
`PlaceFits` shows that the place `BufferAlloc` hands out lies inside the buffer
and apart from all other blocks; `FinishFills` that writing marker and contents
touches no byte of another block; `MovedTwice` that the second copy of
`realloc` is harmless when `MovesClear` says so.

`RBTreeProofs`: `ShapeKept`, `BalanceKept`, `QueriesRight`, `ImplementsSet`,
all that the `rbtree` run checks, for any finite set of keys.

* A well-formed tree (`WellFormed`) is one for which labels exist: `sub` gives
  each node the set of nodes below it, so that "the keys on the left are
  smaller" needs no recursion.  Each change of links (`Rotate`, attaching a
  leaf, splicing a node out, putting the successor in its place) has a lemma
  `...Is` that says which links it changes and a lemma `...Keeps` with the
  labels afterwards.
* Black heights are a label of each node as well (`bh`), with a debt of one at
  the place the removal loop works on (`Owing`) and a red pair at the place the
  insertion loop works on (`Growing`).  A rotation of the code always exchanges
  the colours of the two nodes it turns; `TurnLevel` and `TurnApart` are about
  that pair of operations, and the cases of both loops are combinations of them
  with a recolouring.
* `IInv` has one disjunct per loop the program may be in: `AtRest`,
  `Inserting`, `Removing`, `Deleting`.  The last one says that the deletion has
  freed what comes before its position in the order it deletes in (`Gone`),
  which is why it never follows a link of a freed node.
* The model's descents are recursive functions over the tree.  That one has the
  value it should (`OutermostIs`, `GetIs`, `ClimbIs`, `GetMaxLteqIs`,
  `HeightsAre`) is shown by a least node, in the order of `sub`, for which it
  has not (`Smallest`, `LeastBad`); `WalkExists` shows that a function with the
  defining equation exists at all.
* `ImplementsSet`: the tree implements `OrderedSet`.  Loops are stutters,
  because a call's effect is visible where it links or unlinks the node, except
  for `clear`, which is visible at once.

`SharedPtrProofs`: `SharedPtrInvariant` and its consequences
`CountsExactHolds`, `NoFaultHolds`, `NoDanglingHolds`, `NoLeakHolds`, for every
interleaving.  They assume `Contract`, of the client: programs with weak
handles have one thread (the finding `shared_ptr_weak_race` is what happens
otherwise), and the right-hand side of an assignment is a local handle, as in
`Sources`.  That a counter is the number of handles at rest plus the frames
that will decrement it (`Counted`) is not inductive alone: a counter at zero
must also mean that exactly one frame of one thread has the duty to destroy the
object, and one to release the control block (`Owners`, `Lives`), and a handle
between two steps of its assignment must be named by no other frame (`Calls`).
That a set of frames is finite follows from the set of threads being so.

`ListHashSetProofs`, of the hash table: `BucketsStayWellFormed`,
`NodesStayPlaced`, `IterationStaysExact` and `ImplementsSet`, all that the
`hash_set` run checks. `HInv` says that the links spell each chain of both
arrays, the old and the new one of a resize, and that each node is in the bucket
of its hash (`Filed`); that every node is in exactly one of the arrays
(`Placed`); and how far the loop of the resize is (`Control`).  It uses the
lemmas about lists. `SizeInv` adds the count, for honest clients.  Iteration is
proved by ranks: `Rank` is a node's place in the order of buckets and chains,
and each step of the iterator goes from the node of one rank to that of the
next.

`ListHashSetProofs`, of lists: `LinksSpell`, `NeverFaults` and `IteratorsVisit`,
the three properties of the `list` run, for any finite set of nodes.  `LInv`
says that as long as `list_sound` holds the links spell `items`, whose nodes are
distinct and live, and that nothing has gone wrong.  `AttachSpells` and
`UnlinkSpells` are the lemmas about the link surgery: if the links spell a
sequence, afterwards they spell it with the node inserted or taken out.  `clear`
follows `next` to the end; that this reaches each item is a statement about a
recursive function, proved from a least counterexample (`LeastOf`) instead of by
induction.

`BitArrayProofs`: `BitsFit`, `ReadsAreExact` and `WritesAreExact`, the
properties of the `bit_array` run, for bytes of any width.  A position is split
in a byte and a bit (`PositionSplits`); `RangeByte` says which bits of which
two bytes a range of at most one byte is.  With it `GetByteReads` and
`SetByteSets` show, bit by bit, that masks and shifts take and put exactly the
range; `FillSets` that `fill_set` and `fill_clear` do for the ranges called
safe.  `Fits`, the inductive invariant, says that the buffer is whole bytes, as
many as `_capacity` says, with room for the bits; `ReservedKeeps` is about new
memory.

`DynArrayProofs`: `LifetimesTheorem` and `SequenceTheorem`, the two properties
of the `dyn_array` run, for arrays of any length and all three kinds of element
types.

* The invariant, `Sane`, says of the histories of sound calls that the array is
  `Whole`: the block has the size `_capacity` says (`Sized`), and each slot
  holds an object if and only if it is an element or was moved from (`Tidy`).
  That is stronger than `Lifetimes`, which does not bound what a slot can be.
* Each helper has a lemma `...Is` that says what it makes of a well-sized block
  and which slots it must find alive or free for that (`ConstructIs`,
  `DestroyIs`, `MoveConstructIs`, `MoveAssignIs`, `RelocateIs`, `GrowIs`).
* The loops are the hard part.  `Shifted` is the block a shift should leave,
  `Partly` the one it should have left after `m` rounds.  `PartlyIs` says that
  one more round, in the direction the code goes, leads from the one to the
  next; this is where a range that overlaps its target in the wrong direction
  would fail.  `ShiftByConstruction` and `ShiftByAssignment` conclude that the
  recursive function of the model agrees with `Partly`: in a least round where
  they differ (`Agree`, `SmallestOf`) both come from equal blocks.  `BuiltIs`
  does the same for the loop of `build`.
* Of each call a lemma says what it leaves in the slots (`InsertedIs`,
  `ErasedIs`, `ExtractedIs`, `RestoredIs`, ...), and one, `...Does`, that this
  is a step of `ElementSequence` and keeps the array whole.  `RestoredIs` shows
  that `pop_front_and_shrink`, when it finds no memory, puts every element back
  where it was, `FailureIs` that nothing a client sees has changed then.

`RadixTreeProofs`: `PathsTheorem`, `DestructorTheorem`, `ImplementsSet`, and
`QueriesTheorem` from `LookupTheorem` and `WalksTheorem`, for trees of any
height and any keys of the width `count_leading_zero` counts in.  That
assumption, `WordAssumption`, is what makes `HeightOf` a bound on a key's bits;
without it `KeyExists`, the second half of `LookupFinds`, fails.

* `k >> n` is a recursive function of `n`; `ShiftedNext`, `ShiftedTwice` and
  `ShiftedBit` are what the rest uses of it, and no power of two is needed:
  the parent of a node, the node `n` levels up (`Up`) and the node that a key
  passes at a height (`Path`) are all shifts.
* `IInv` says that the nodes are a `Tree`: names spell paths, links agree in
  both directions and lead to nodes.  During an insertion it says more
  (`Growing`): the nodes the insertion would take away again (`NewHeights`,
  read off `insertion_flags`) are a `Chain` on the path of the key that ends
  where the loop stands, empty of values, and without them every leaf holds a
  value (`Useful`).  That is what makes the rollback exact; it is not
  inductive without the chain, because unlinking a node in the middle of a path
  would lose the nodes below it.  `LinkedChain`, `FollowedChain`,
  `UnlinkedChain` and `LeftChain` are the steps of the two loops.
* The destructor frees nodes while it reads `p` and child links of others.
  `Dying` says which links are dangling: of the nodes that are left, only those
  above `node` may have lost a child, the left one, and a node reached from its
  right child has.  `OutermostIs` and `WayDown` are about the walk down,
  `FinishedIs` and `TopIs` give the recursive function of the walk up as a run
  of right children (`Run`), `FreedRun` and `RunIsAll` say what is left after
  the run is freed: the same with the next node, or nothing.
* `LookupTheorem` and `ImplementsSet`: a lookup of a key that is no longer than
  the tree is high goes to the leaf that the bits of the key spell (`LookupIs`),
  and `contents` is what the leaves hold (`ContentsIs`), so that re-rooting,
  growing and rolling back do not show (`SameKeys`) and storing the value shows
  the key at once.
* `WalksTheorem` has four recursive functions to see through.  `LoopExists`
  gives each a value, because every turn of a loop comes nearer to its end;
  `DownIs` and `ClimbIs` say where the walks of `NextLeaf` stop, and
  `LeavingIs` that the walks in a row from a leaf lead to the first one beyond
  the node where its path and the next one part (`Parting`).  Two leaves are in
  the order of the bits where they part (`PartedAhead`, `AheadParted`), hence
  `NextLeafOrder` and `LastLeaf`.  Iterators add the two values of a leaf
  (`AdvanceNext`); what they have passed (`Passed`) grows by one key with every
  step until it is everything (`PassedNext`, `VisitedAll`).  The invariant it
  needs besides `IInv` is `ValuesAreKeys`: no leaf has a value nobody inserted.

Only model-checked: liveness (`SearchEnds`, `CallsEnd`, `Finishes`), which is
out of the prover's reach, and everything about `Lzwhat`: what its codecs
compute is arithmetic on sequences of bits and calls for induction over data
that an argument from a least counterexample does not replace easily.

## Not modelled

Moves of whole containers, `replace_allocator` and the reference counts of
allocators (`RcObjectPtr`), which go together; the fallible instantiations of
`RBTree` and `HashSet`, of which the repository has one, a `FallibleHashSet`
whose hasher always fails (`example/maptest/main.cc:123`); `String`,
`HashMap`, `Map` and `Set`, which forward; `BinaryHeap`, which indexes its array
from one; `UniquePtr`, `Option`, `Result`, hash functions; wrap-around of
`size_t`; exceptions thrown by element types or iterators; `shared_from_this`
and pointer casts.  `PROJECT.json` lists every component with its reason.

## Plan

Left, in this order: `RcObjectPtr` with the moves of containers; the fallible
comparators.
