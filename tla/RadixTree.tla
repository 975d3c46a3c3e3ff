----------------------------- MODULE RadixTree -----------------------------
(***************************************************************************)
(* peff::RadixTree (containers/radix_tree.h), whose public operations are  *)
(* insert, at, iteration and destruction.  A path from the root spells the *)
(* bits of a key; the two keys that differ in the last bit share a leaf,   *)
(* of height 1.  A node is named when it is allocated: by its height and   *)
(* the bits above it that it is meant for.                                 *)
(*                                                                         *)
(* An insertion runs loops with allocations that may fail; an iteration is *)
(* a step.  Left out: num_used_children, which only delete_tree reads, and *)
(* _num_nodes, which nothing ever increments; delete_tree and              *)
(* _lookup_upper_bound are private and never called.                       *)
(***************************************************************************)
EXTENDS Naturals, FiniteSets, Functions

CONSTANTS
  Keys,      \* the keys clients insert, of type K
  KeyBits,   \* sizeof(K) * 8
  ClzBits,   \* how many of its bits, the lowest, count_leading_zero looks at
  MaxKeys,   \* a bound on the number of keys in the tree
  Null, NoCall

ASSUME KeyAssumption == Keys \subseteq Nat /\ MaxKeys \in Nat
ASSUME WidthAssumption == ClzBits \in Nat \ {0} /\ KeyBits \in Nat /\ ClzBits <= KeyBits
ASSUME NullAssumption == Null \notin Nat \X Nat

VARIABLES
  _root, _height,
  nodes,            \* the allocated nodes
  pc,               \* "idle", "grow_height", "grow_node", "rollback",
                    \* "destroy", "gone", "aborted"; "undefined" after a
                    \* node was read that had been freed
  arg,              \* the key being inserted, and how its insertion began
  node, level, i,   \* the loops' registers
  insertion_flags,
  call

tree == <<_root, _height, nodes>>
regs == <<node, level, i, insertion_flags>>
vars == <<tree, pc, arg, regs, call>>

-----------------------------------------------------------------------------
(* k >> shift. *)
Shifted(k, shift) ==
  LET half[s \in 0 .. shift] == IF s = 0 THEN k ELSE half[s - 1] \div 2 IN half[shift]

Bit(k, shift) == Shifted(k, shift) % 2

(* Keys fit their type.  Of a key whose lowest ClzBits bits are all 0, but *)
(* not the key, __builtin_clz is undefined; there are none here.           *)
ASSUME KeysFit ==
  \A k \in Keys :
    /\ Shifted(k, KeyBits) = 0
    /\ k = 0 \/ \E b \in 0 .. ClzBits - 1 : Bit(k, b) = 1

(* As gcc and clang build it for x86: the count in a word of ClzBits bits, *)
(* which for 32-bit keys is the key and for 64-bit keys its lower half.    *)
count_leading_zero(k) ==
  IF k = 0 THEN KeyBits
  ELSE ClzBits - 1 - CHOOSE b \in 0 .. ClzBits - 1 :
                       Bit(k, b) = 1 /\ \A c \in b + 1 .. ClzBits - 1 : Bit(k, c) = 0

HeightOf(k) == IF k = 0 THEN 1 ELSE KeyBits - count_leading_zero(k)

(* _alloc_single_node. *)
NewNode(height, p, offset) ==
  [p |-> p, children |-> [o \in 0 .. 1 |-> Null],
   has_value |-> [o \in 0 .. 1 |-> FALSE], height |-> height, offset |-> offset]

With(n, record) == [m \in DOMAIN nodes \cup {n} |-> IF m = n THEN record ELSE nodes[m]]
Without(n, f) == [m \in DOMAIN f \ {n} |-> f[m]]

Child(n, o) == nodes[n].children[o]
IsLeaf(n) == Child(n, 0) = Null /\ Child(n, 1) = Null

(* _get_min_node (side 0) and _get_max_node (side 1): the node reached from*)
(* n by going to the given side where possible, else to the other.         *)
Outermost(n, side) ==
  LET far[m \in {m \in DOMAIN nodes : m[1] <= n[1]}] ==
        IF IsLeaf(m) THEN m
        ELSE IF Child(m, side) # Null THEN far[Child(m, side)]
        ELSE far[Child(m, 1 - side)]
  IN far[n]

(* The node at which _lookup stops.  It looks at the lowest _height bits   *)
(* of the key only.                                                        *)
Reached(k) ==
  LET from[h \in 1 .. _height] == [n \in DOMAIN nodes |->
        IF Child(n, Bit(k, h - 1)) = Null \/ h = 1 THEN [at |-> n, offset |-> Bit(k, h - 1)]
        ELSE from[h - 1][Child(n, Bit(k, h - 1))]]
  IN from[_height][_root]
Lookup(k) == _root # Null /\ nodes[Reached(k).at].has_value[Reached(k).offset]

(* The keys whose own leaf, the one their bits spell, holds their value. *)
contents ==
  {k \in Keys : LET leaf == <<1, Shifted(k, 1)>>
                IN leaf \in DOMAIN nodes /\ nodes[leaf].has_value[Bit(k, 0)]}

-----------------------------------------------------------------------------
NoArg == [key |-> 0, first |-> Null, planted |-> FALSE]

Init ==
  /\ _root = Null /\ _height = 0 /\ nodes = <<>>
  /\ pc = "idle" /\ arg = NoArg /\ call = NoCall
  /\ node = Null /\ level = 0 /\ i = 0 /\ insertion_flags = {}

Rest == arg' = NoArg /\ node' = Null /\ level' = 0 /\ i' = 0 /\ insertion_flags' = {}
Return == pc' = "idle" /\ Rest /\ call' = <<"insert", arg.key>>

(* _grow_node begins at the root. *)
GrowNodeFrom(root, height) ==
  /\ pc' = "grow_node" /\ node' = root /\ level' = height
  /\ i' = 0 /\ insertion_flags' = {}

(* _insert. *)
InsertRoot(k) ==
  LET root == <<HeightOf(k), 0>>
  IN /\ pc = "idle" /\ _root = Null /\ MaxKeys > 0
     /\ \/ /\ nodes' = With(root, NewNode(HeightOf(k), Null, 0))
           /\ _root' = root /\ _height' = HeightOf(k)
           /\ arg' = [NoArg EXCEPT !.key = k, !.planted = TRUE]
           /\ GrowNodeFrom(root, HeightOf(k)) /\ UNCHANGED call
        \/ call' = <<"insert", k>> /\ UNCHANGED <<tree, pc, arg, regs>>

InsertBegin(k) ==
  /\ pc = "idle" /\ _root # Null
  /\ Cardinality(contents) < MaxKeys \/ k \in contents
  /\ arg' = [NoArg EXCEPT !.key = k]
  /\ IF HeightOf(k) > _height THEN pc' = "grow_height" /\ UNCHANGED regs
     ELSE GrowNodeFrom(_root, _height)
  /\ UNCHANGED <<tree, call>>

(* One iteration of _grow_height_then_grow_node: a new root.  Without      *)
(* memory the guard frees the new nodes and follows the p links of the     *)
(* freed nodes.                                                            *)
Reroot_RightChild(root) ==
  [With(root, [NewNode(_height + 1, Null, 0) EXCEPT !.children[1] = _root])
     EXCEPT ![_root].p = root]
Reroot(root) ==
  [With(root, [NewNode(_height + 1, Null, 0) EXCEPT !.children[0] = _root])
     EXCEPT ![_root].p = root]

GrowHeight ==
  LET root == <<_height + 1, 0>>
  IN /\ pc = "grow_height" /\ _height < HeightOf(arg.key)
     /\ nodes' = Reroot(root) /\ _root' = root /\ _height' = _height + 1
     /\ arg' = [arg EXCEPT !.first = IF @ = Null THEN root ELSE @]
     /\ UNCHANGED <<pc, regs, call>>

GrowHeightNoMemory ==
  /\ pc = "grow_height" /\ _height < HeightOf(arg.key)
  /\ IF arg.first = Null THEN Return
     ELSE pc' = "undefined" /\ Rest /\ UNCHANGED call
  /\ UNCHANGED tree

GrowHeightDone ==
  /\ pc = "grow_height" /\ _height = HeightOf(arg.key)
  /\ GrowNodeFrom(_root, _height) /\ UNCHANGED <<tree, arg, call>>

(* The loop of _grow_node: the node for the next bit. *)
Offset == Bit(arg.key, level - 1)
Linked(new) ==
  [With(new, NewNode(level - 1, node, Offset)) EXCEPT ![node].children[Offset] = new]

GrowNode ==
  LET new == <<level - 1, Shifted(arg.key, level - 1)>>
  IN /\ pc = "grow_node" /\ level > 1
     /\ \/ Child(node, Offset) # Null /\ node' = Child(node, Offset)
           /\ UNCHANGED <<nodes, insertion_flags>>
        \/ Child(node, Offset) = Null /\ node' = new /\ nodes' = Linked(new)
           /\ insertion_flags' = insertion_flags \cup {i}
     /\ level' = level - 1 /\ i' = i + 1
     /\ UNCHANGED <<_root, _height, pc, arg, call>>

GrowNodeNoMemory ==
  /\ pc = "grow_node" /\ level > 1 /\ Child(node, Offset) = Null
  /\ pc' = "rollback" /\ UNCHANGED <<tree, arg, regs, call>>

(* The guard of _grow_node: back up the path, freeing the nodes that are   *)
(* new.                                                                    *)
Unlinked_Dangling == Without(node, nodes)
Unlinked == Without(node, [nodes EXCEPT ![nodes[node].p].children[nodes[node].offset] = Null])

Rollback ==
  /\ pc = "rollback" /\ i > 0
  /\ i' = i - 1 /\ node' = nodes[node].p
  /\ nodes' = IF i - 1 \in insertion_flags THEN Unlinked ELSE nodes
  /\ UNCHANGED <<_root, _height, pc, arg, level, insertion_flags, call>>

(* Then the guards of its caller. *)
RollbackDone ==
  /\ pc = "rollback" /\ i = 0
  /\ \/ /\ arg.planted /\ Return
        /\ nodes' = Without(_root, nodes) /\ _root' = Null /\ UNCHANGED _height
     \/ /\ ~arg.planted /\ arg.first = Null /\ Return /\ UNCHANGED tree
     \/ /\ arg.first # Null /\ pc' = "undefined" /\ Rest
        /\ UNCHANGED <<tree, call>>

(* A key that is present terminates the program. *)
Store ==
  /\ pc = "grow_node" /\ level = 1
  /\ IF nodes[node].has_value[Offset]
     THEN pc' = "aborted" /\ UNCHANGED <<tree, arg, regs, call>>
     ELSE /\ nodes' = [nodes EXCEPT ![node].has_value[Offset] = TRUE]
          /\ Return /\ UNCHANGED <<_root, _height>>

(* The destructor, which begins with an assertion on an empty tree.        *)
Destroy ==
  /\ pc = "idle"
  /\ IF _root = Null THEN pc' = "aborted" /\ UNCHANGED node
     ELSE pc' = "destroy" /\ node' = Outermost(_root, 0)
  /\ UNCHANGED <<tree, arg, level, i, insertion_flags, call>>

(* The node is freed when its right subtree is: the next one is its parent.*)
FromRight(n) == nodes[n].p # Null /\ Child(nodes[n].p, 1) = n
Finished ==   \* the node and the ancestors whose right subtree it ends
  LET up[n \in DOMAIN nodes] ==
        IF FromRight(n) THEN {n} \cup up[nodes[n].p] ELSE {n}
  IN up[node]
DestroyNext_LeavesAncestors ==
  LET top == CHOOSE n \in Finished : ~FromRight(n)
  IN /\ pc = "destroy" /\ node # Null
     /\ IF Child(node, 1) # Null
        THEN node' = Outermost(Child(node, 1), 0) /\ UNCHANGED nodes
        ELSE node' = nodes[top].p /\ nodes' = Without(node, nodes)
     /\ UNCHANGED <<_root, _height, pc, arg, level, i, insertion_flags, call>>
DestroyNext ==
  LET top == CHOOSE n \in Finished : ~FromRight(n)
  IN /\ pc = "destroy" /\ node # Null
     /\ IF Child(node, 1) # Null
        THEN node' = Outermost(Child(node, 1), 0) /\ UNCHANGED nodes
        ELSE /\ node' = nodes[top].p
             /\ nodes' = [m \in DOMAIN nodes \ Finished |-> nodes[m]]
     /\ UNCHANGED <<_root, _height, pc, arg, level, i, insertion_flags, call>>

DestroyDone ==
  /\ pc = "destroy" /\ node = Null
  /\ pc' = "gone" /\ _root' = Null /\ UNCHANGED <<_height, nodes, arg, regs, call>>

Loops == GrowHeight \/ GrowHeightDone \/ GrowNode \/ Rollback \/ RollbackDone
         \/ Store \/ DestroyNext \/ DestroyDone
NoMemory == GrowHeightNoMemory \/ GrowNodeNoMemory

Next ==
  \/ \E k \in Keys : InsertRoot(k) \/ InsertBegin(k)
  \/ Loops \/ NoMemory \/ Destroy

Spec == Init /\ [][Next]_vars
-----------------------------------------------------------------------------
(* get_next_node (side 1) and get_prev_node (side 0): walks of the inner   *)
(* nodes that stop at the first leaf.                                      *)
NextLeaf(n, side) ==
  LET down[m \in DOMAIN nodes] ==
        IF Child(m, 1 - side) = Null THEN m ELSE down[Child(m, 1 - side)]
      climb[m \in DOMAIN nodes] ==
        IF nodes[m].p = Null THEN Null
        ELSE IF Child(nodes[m].p, side) = m THEN climb[nodes[m].p]
        ELSE nodes[m].p
      step(m) == IF Child(m, side) # Null THEN down[Child(m, side)] ELSE climb[m]
      leaf[m \in DOMAIN nodes] ==
        IF step(m) = Null \/ IsLeaf(step(m)) THEN step(m) ELSE leaf[step(m)]
  IN leaf[n]

(* Iterators, by the side they move to: begin, begin_reversed, operator++. *)
(* The side of the next leaf is not tested.                                *)
Begin(side) ==
  LET n == Outermost(_root, 1 - side)
  IN [node |-> n, right |-> nodes[n].has_value[1 - side] <=> side = 0]
Advance_LeafOnly(it, side) ==
  [node |-> NextLeaf(it.node, side), right |-> side = 0]
Advance(it, side) ==
  IF it.right = (side = 0) /\ nodes[it.node].has_value[side]
  THEN [it EXCEPT !.right = (side = 1)]
  ELSE [node |-> NextLeaf(it.node, side), right |-> side = 0]

(* for (it = begin; ...; ++it): as many iterators as there are keys. *)
Iteration(side) ==
  LET it[m \in 1 .. Cardinality(contents)] ==
        IF m = 1 THEN Begin(side)
        ELSE IF it[m - 1].node = Null THEN it[m - 1]
        ELSE Advance(it[m - 1], side)
  IN it

ValueOf(it) == IF it.right THEN 1 ELSE 0
KeyAt(it) == 2 * it.node[2] + ValueOf(it)

-----------------------------------------------------------------------------
(* Properties. *)

(* In every state of an insertion, its rollback included, the links agree  *)
(* in both directions and spell the bits each node was allocated for: no   *)
(* node is lost, none is linked twice, values are in leaves.  Between      *)
(* calls every leaf holds a value.                                         *)
PathsSpellKeys ==
  pc \in {"idle", "grow_height", "grow_node", "rollback"} =>
    /\ _root = Null => nodes = <<>>
    /\ _root # Null => _root = <<_height, 0>>
    /\ \A n \in DOMAIN nodes :
         /\ nodes[n].height = n[1]
         /\ \A o \in 0 .. 1 :
              /\ nodes[n].has_value[o] => n[1] = 1
              /\ Child(n, o) # Null =>
                   /\ Child(n, o) \in DOMAIN nodes
                   /\ Child(n, o) = <<n[1] - 1, 2 * n[2] + o>>
         /\ IF n = _root THEN nodes[n].p = Null
            ELSE /\ nodes[n].p \in DOMAIN nodes
                 /\ Child(nodes[n].p, nodes[n].offset) = n
         /\ pc = "idle" /\ IsLeaf(n) => TRUE \in Range(nodes[n].has_value)

(* Keys whose last bit is side are present wherever their neighbour is,    *)
(* but perhaps at the leaf where an iteration towards side begins.         *)
NoGaps(side) ==
  \A n \in DOMAIN nodes :
    IsLeaf(n) /\ n # Outermost(_root, 1 - side) => nodes[n].has_value[1 - side]

(* Both walks visit every leaf in the order of the keys; iterators visit   *)
(* every key in order, in the trees whose leaves have the value that       *)
(* operator++ takes for granted.                                           *)
WalksInOrder ==
  pc = "idle" /\ _root # Null =>
    LET leaves == {n \in DOMAIN nodes : IsLeaf(n)}
        Before(a, b, side) == IF side = 1 THEN a < b ELSE a > b
    IN \A side \in 0 .. 1 :
         LET N == Cardinality(contents)
             walk == Iteration(side)
         IN /\ \A n \in leaves :
                 LET next == NextLeaf(n, side)
                 IN /\ next # Null => Before(n[2], next[2], side)
                    /\ next = Null <=> n = Outermost(_root, side)
                    /\ \A m \in leaves : Before(n[2], m[2], side) =>
                         next = m \/ Before(next[2], m[2], side)
            /\ NoGaps(side) =>
                 /\ walk[N].node # Null
                 /\ {KeyAt(walk[m]) : m \in 1 .. N} = contents
                 /\ \A m \in 2 .. N : Before(KeyAt(walk[m - 1]), KeyAt(walk[m]), side)
                 /\ Advance(walk[N], side).node = Null

(* The destructor walks links of nodes that are not freed yet, and frees   *)
(* them all.                                                               *)
DestructorExact ==
  /\ pc = "destroy" => node \in DOMAIN nodes \cup {Null}
  /\ pc = "gone" => nodes = <<>>

(* An insertion terminates the program (radix_tree.h:150) only for a key   *)
(* that is present.  It does so for others too if keys are wider than      *)
(* count_leading_zero looks at; RadixTreeWord excludes them.               *)
KeyExists == pc = "aborted" /\ node # Null => arg.key \in contents

(* Between calls a lookup finds every key the tree holds a value of, and of*)
(* the keys no longer than the tree is high, no other (of a longer key at()*)
(* returns the value of the key with the same low bits); an insertion, too,*)
(* takes no other key for its own.                                         *)
LookupFinds ==
  /\ pc = "idle" => \A k \in Keys :
       /\ k \in contents => HeightOf(k) <= _height /\ Lookup(k)
       /\ HeightOf(k) <= _height /\ Lookup(k) => k \in contents
  /\ KeyExists

(* What a client can ask is answered rightly, by lookups and by iterators. *)
QueriesExact == LookupFinds /\ WalksInOrder

Set == INSTANCE OrderedSet WITH keys <- contents

(* The values held are a set of keys, to which an insertion adds its own;  *)
(* re-rooting, new inner nodes and the rollback of an insertion that found *)
(* no memory do not show.                                                  *)
SetSpec ==
  Set!Init /\ [][pc' \notin {"destroy", "gone"} => Set!Next]_<<contents, call>>
=============================================================================
