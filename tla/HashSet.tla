------------------------------ MODULE HashSet ------------------------------
(***************************************************************************)
(* peff::HashSetImpl (containers/hashset.h) with an infallible hasher and  *)
(* comparison: an array of buckets, each a List.  A node is named by its   *)
(* element, which no two nodes share.  The loop that moves the nodes into  *)
(* the buckets of another array is one step per iteration; allocations may *)
(* fail.  hash(k) % n picks the bucket, numbered from 1 here.              *)
(*                                                                         *)
(* In the code the guard that moves the nodes back (hashset.h:94-106) is   *)
(* released on every path on which a node was moved: it never runs.        *)
(***************************************************************************)
EXTENDS ListLinks, SequencesExt

CONSTANTS
  Hash,      \* the elements' hash codes
  MaxSize,   \* a bound on _size
  NoCall     \* no call was made yet

ASSUME HashAssumption ==
  Hash \in [Nodes -> Nat] /\ MaxSize \in Nat

VARIABLES
  _buckets, new_buckets,   \* the headers of the lists
  _size,
  links, live,             \* the nodes' links, and which are allocated
  pc,                      \* "idle", "check", "rehash" or "aborted"
  arg,                     \* the insertion in progress
  i, j,                    \* the loop's bucket and node
  call,                    \* the last call that returned
  honest                   \* whether clients never inserted an element
                           \* that was present and never cleared the set

args == <<arg, i, j>>
vars == <<_buckets, new_buckets, _size, links, live, pc, args, call, honest>>

NoArg == [key |-> Null, force |-> FALSE, fresh |-> FALSE]

-----------------------------------------------------------------------------
Slot(k, n) == (Hash[k] % n) + 1

AsChain(head) == [head |-> head, links |-> links]

(* The nodes a bucket's list leads to, in their order. *)
Word(head) ==
  LET nth[m \in 1 .. head._length] ==
        IF m = 1 THEN head._first
        ELSE IF nth[m - 1] = Null THEN Null ELSE links.next[nth[m - 1]]
  IN [m \in 1 .. head._length |-> nth[m]]
Elements(heads) == UNION {ToSet(Word(heads[n])) : n \in DOMAIN heads}

(* _get_bucket_slot in the bucket that _get and _insert pick. *)
Find(k) ==
  IF _buckets = <<>> THEN Null
  ELSE IF k \in ToSet(Word(_buckets[Slot(k, Len(_buckets))])) THEN k ELSE Null

(* Whether _size calls for more buckets, for fewer, or for neither. *)
CheckCapacity(n) ==
  IF 2 * n < _size THEN 1 ELSE IF n > _size /\ n > 1 THEN -1 ELSE 0
NewCount(n) == IF CheckCapacity(n) = 1 THEN 2 * n ELSE n \div 2

-----------------------------------------------------------------------------
Init ==
  /\ _buckets = <<>> /\ new_buckets = <<>> /\ _size = 0
  /\ links = NoLinks /\ live = {}
  /\ pc = "idle" /\ arg = NoArg /\ i = 1 /\ j = Null
  /\ call = NoCall /\ honest = TRUE

Return == pc' = "idle" /\ arg' = NoArg /\ i' = 1 /\ j' = Null

MayInsert(k) == pc = "idle" /\ _size < MaxSize

Inited == IF _buckets = <<>> THEN <<EmptyHead>> ELSE _buckets

(* No memory for the first bucket, or for the node. *)
InsertNoMemory(k) ==
  /\ MayInsert(k) /\ Find(k) = Null
  /\ _buckets' = Inited \/ UNCHANGED _buckets
  /\ call' = <<"insert", k>>
  /\ UNCHANGED <<new_buckets, _size, links, live, pc, args, honest>>

InsertFresh(k, force) ==
  LET n == Slot(k, Len(Inited))
      head == Inited[n]
      pushed == Attach([head |-> head, links |-> Fresh(links, k)],
                       "prev", head._first, k)
  IN /\ MayInsert(k) /\ Find(k) = Null
     /\ _buckets' = [Inited EXCEPT ![n] = pushed.head]
     /\ links' = pushed.links /\ live' = live \cup {k}
     /\ pc' = "check" /\ arg' = [key |-> k, force |-> force, fresh |-> TRUE]
     /\ UNCHANGED <<new_buckets, _size, i, j, call, honest>>

(* The element is assigned to the equal one, and the insertion goes on. *)
InsertPresent(k, force) ==
  /\ MayInsert(k) /\ Find(k) # Null
  /\ pc' = "check" /\ arg' = [key |-> k, force |-> force, fresh |-> FALSE]
  /\ honest' = FALSE
  /\ UNCHANGED <<_buckets, new_buckets, _size, links, live, i, j, call>>

InsertReturns == /\ _size' = _size + 1 /\ call' = <<"insert", arg.key>> /\ Return

NoResize ==
  /\ pc = "check" /\ CheckCapacity(Len(_buckets)) = 0
  /\ InsertReturns /\ UNCHANGED <<_buckets, new_buckets, links, live, honest>>

(* node leaves bucket n of heads and is deleted. *)
Delete(n, node) ==
  LET left == Unlink(AsChain(_buckets[n]), node)
  IN /\ _buckets' = [_buckets EXCEPT ![n] = left.head]
     /\ links' = Fresh(left.links, node) /\ live' = live \ {node}

(* No memory for the new buckets: an insertion that insists on them takes  *)
(* the first node of the bucket out again and fails.                       *)
ResizeNoMemory ==
  LET n == Slot(arg.key, Len(_buckets))
  IN /\ pc = "check" /\ CheckCapacity(Len(_buckets)) # 0
     /\ \/ /\ arg.force
           /\ Delete(n, _buckets[n]._first)
           /\ call' = <<"insert", arg.key>> /\ Return /\ UNCHANGED _size
        \/ ~arg.force /\ InsertReturns /\ UNCHANGED <<_buckets, links, live>>
     /\ UNCHANGED <<new_buckets, honest>>

ResizeBegin ==
  /\ pc = "check" /\ CheckCapacity(Len(_buckets)) # 0
  /\ new_buckets' = [n \in 1 .. NewCount(Len(_buckets)) |-> EmptyHead]
  /\ pc' = "rehash" /\ i' = 1 /\ j' = _buckets[1]._first
  /\ UNCHANGED <<_buckets, _size, links, live, arg, call, honest>>

(* One node moves to the front of its new bucket; left is what detaching   *)
(* it leaves of the old one, next the node of the next iteration.          *)
Move(node, left, next) ==
  LET n == Slot(node, Len(new_buckets))
      pushed == Attach([head |-> new_buckets[n], links |-> left.links],
                       "prev", new_buckets[n]._first, node)
  IN /\ pc = "rehash" /\ j # Null
     /\ _buckets' = [_buckets EXCEPT ![i] = left.head]
     /\ new_buckets' = [new_buckets EXCEPT ![n] = pushed.head]
     /\ links' = pushed.links /\ j' = next
     /\ UNCHANGED <<_size, live, pc, arg, i, call, honest>>

MoveNode_Last ==
  LET last == _buckets[i]._last
      left == Unlink(AsChain(_buckets[i]), last)
  IN Move(last, left, left.head._last)
MoveNode_Attached == Move(j, AsChain(_buckets[i]), links.next[j])
MoveNode_NextAfter == Move(j, Unlink(AsChain(_buckets[i]), j),
                           new_buckets[Slot(j, Len(new_buckets))]._first)
MoveNode == Move(j, Unlink(AsChain(_buckets[i]), j), links.next[j])

NextBucket ==
  /\ pc = "rehash" /\ j = Null /\ i < Len(_buckets)
  /\ i' = i + 1 /\ j' = _buckets[i + 1]._first
  /\ UNCHANGED <<_buckets, new_buckets, _size, links, live, pc, arg,
                 call, honest>>

(* The new array replaces the old one, whose lists are destroyed with      *)
(* every node they still hold.                                             *)
ResizeDone ==
  /\ pc = "rehash" /\ j = Null /\ i = Len(_buckets)
  /\ _buckets' = new_buckets /\ new_buckets' = <<>>
  /\ live' = live \ Elements(_buckets)
  /\ InsertReturns /\ UNCHANGED <<links, honest>>

RemoveElement(k) ==
  /\ pc = "idle" /\ Find(k) # Null /\ call' = <<"remove", k>>
  /\ Delete(Slot(k, Len(_buckets)), k) /\ _size' = _size - 1
  /\ UNCHANGED <<new_buckets, pc, args, honest>>

(* clear and clear_and_shrink destroy the buckets and leave _size alone. *)
Clear ==
  /\ pc = "idle" /\ call' = <<"clear">> /\ honest' = FALSE
  /\ live' = live \ Elements(_buckets) /\ _buckets' = <<>>
  /\ UNCHANGED <<new_buckets, _size, links, pc, args>>

(* begin_reversed, and operator-- of an end iterator, ask for the bucket   *)
(* behind the last one: at(_buckets.size()) asserts.                       *)
BeginReversed ==
  /\ pc = "idle" /\ pc' = "aborted"
  /\ UNCHANGED <<_buckets, new_buckets, _size, links, live, args, call, honest>>

Next ==
  \/ \E k \in Nodes :
       \/ InsertNoMemory(k) \/ RemoveElement(k)
       \/ \E force \in BOOLEAN : InsertFresh(k, force) \/ InsertPresent(k, force)
  \/ Clear \/ BeginReversed
  \/ NoResize \/ ResizeNoMemory \/ ResizeBegin
  \/ MoveNode \/ NextBucket \/ ResizeDone

Spec == Init /\ [][Next]_vars
-----------------------------------------------------------------------------
(* Forward iterators: a bucket and a node of it, Null at the end. *)

FirstFrom(n) ==
  LET later == {m \in n .. Len(_buckets) : _buckets[m]._first # Null}
      m == CHOOSE m \in later : \A o \in later : m <= o
  IN IF later = {} THEN [bucket |-> Null, node |-> Null]
     ELSE [bucket |-> m, node |-> _buckets[m]._first]

Begin == FirstFrom(1)
Advance_Skips(it) ==
  IF links.next[it.node] # Null THEN [it EXCEPT !.node = links.next[@]]
  ELSE FirstFrom(it.bucket + 2)
Advance(it) ==
  IF links.next[it.node] # Null THEN [it EXCEPT !.node = links.next[@]]
  ELSE FirstFrom(it.bucket + 1)

-----------------------------------------------------------------------------
(* Properties. *)

(* Buckets, nodes and registers have their types; _size, which is          *)
(* unsigned, never falls below the number of elements.                     *)
TypeOK ==
  /\ _buckets \in Seq(Header) /\ new_buckets \in Seq(Header)
  /\ _size \in 0 .. MaxSize /\ links \in Links /\ live \subseteq Nodes
  /\ pc \in {"idle", "check", "rehash", "aborted"}
  /\ arg \in [key : Nodes \cup {Null}, force : BOOLEAN, fresh : BOOLEAN]
  /\ i \in Nat \ {0} /\ j \in Nodes \cup {Null}
  /\ pc = "idle" => _size >= Cardinality(live)

ListsOf(heads) ==
  \A n \in DOMAIN heads :
    /\ Spells(AsChain(heads[n]), Word(heads[n]))
    /\ \A k \in ToSet(Word(heads[n])) : Slot(k, Len(heads)) = n

(* In every state, within a resize too, each bucket of either array is a   *)
(* well-formed list of nodes that hash to it: the prev link that _prepend  *)
(* never sets is always null already.                                      *)
BucketsWellFormed == TypeOK /\ ListsOf(_buckets) /\ ListsOf(new_buckets)

(* Every allocated node is in exactly one bucket of exactly one array:     *)
(* moving the nodes loses none, duplicates none and frees none.            *)
NodesPlaced ==
  /\ Elements(_buckets) \cap Elements(new_buckets) = {}
  /\ Elements(_buckets) \cup Elements(new_buckets) = live

(* Between calls the size is the number of elements, as long as no client  *)
(* inserts an element that is present, which is counted again (219), or    *)
(* clears the set, which keeps the count (352).                            *)
SizeExact == honest => _size = Cardinality(live)

(* An iterator from begin() visits every element exactly once, over all    *)
(* buckets, the empty ones included, and size() says how many there are.   *)
IterationExact ==
  pc = "idle" =>
    LET N == Cardinality(Nodes)
        walk[n \in 0 .. N] ==
          IF n = 0 THEN Begin
          ELSE IF walk[n - 1].node = Null THEN walk[n - 1]
          ELSE Advance(walk[n - 1])
    IN /\ SizeExact
       /\ \A k \in Nodes : Cardinality({n \in 0 .. N : walk[n].node = k})
                             = IF k \in live THEN 1 ELSE 0

(* What a client can see: an element being inserted shows when the call    *)
(* has succeeded.                                                          *)
contents == IF pc # "idle" /\ arg.fresh THEN live \ {arg.key} ELSE live
Set == INSTANCE OrderedSet WITH Keys <- Nodes, keys <- contents

(* The table is a set: an insertion that fails changes nothing, a resize   *)
(* changes nothing a client can see.  It holds for honest clients: when    *)
(* the resize after an insertion of a present element finds no memory,     *)
(* pop_front (214) deletes the first node of the bucket, whichever it is.  *)
SetSpec == Set!Init /\ [][honest' => Set!Next]_<<contents, call>>
=============================================================================
