------------------------------- MODULE RBTree -------------------------------
(***************************************************************************)
(* peff::RBTreeImpl (containers/rbtree.h, rbtree.cc) with an infallible    *)
(* comparator: the tree under Map, Set and BufferAlloc.  A node is named   *)
(* by its rb_value, which no two nodes of a tree share.  The loops that    *)
(* restore the balance and that delete a whole tree are one step per       *)
(* iteration; the descents from the root are recursive functions.          *)
(*                                                                         *)
(* The code writes each case twice, for the left and for the right; here a *)
(* side is a parameter.  A null dereference is an evaluation error, which  *)
(* TLC reports.                                                            *)
(***************************************************************************)
EXTENDS Integers, FiniteSets

CONSTANTS Keys,    \* the values nodes are made of
          Null,    \* the null pointer
          NoCall   \* no call was made yet

ASSUME KeysAssumption == Keys \subseteq Int /\ IsFiniteSet(Keys)
ASSUME NullAssumption == Null \notin Keys

VARIABLES
  tree,                \* _root and the links and colours of the nodes
  live,                \* the nodes that are allocated
  _cached_min_node, _cached_max_node, _num_nodes,
  pc,                  \* the loop in progress, "idle" or "aborted"
  x, par,              \* its registers: the node at hand and its parent
  call                 \* the last call, as <<operation, key>>

caches == <<_cached_min_node, _cached_max_node, _num_nodes>>
vars == <<tree, live, caches, pc, x, par, call>>

Sides == {"l", "r"}
Opposite(s) == IF s = "l" THEN "r" ELSE "l"
Tree == [root : Keys \cup {Null},
         p : [Keys -> Keys \cup {Null}],
         kid : [Sides -> [Keys -> Keys \cup {Null}]],
         color : [Keys -> {"red", "black"}]]

EmptyTree == [root |-> Null, p |-> [n \in Keys |-> Null],
              kid |-> [s \in Sides |-> [n \in Keys |-> Null]],
              color |-> [n \in Keys |-> "black"]]

-----------------------------------------------------------------------------
(* Nodes and descents. *)

IsRed(t, n) == n # Null /\ t.color[n] = "red"
IsBlack(t, n) == ~IsRed(t, n)
Paint(t, n, c) == IF n = Null THEN t ELSE [t EXCEPT !.color[n] = c]

(* The side of its parent n is linked on. *)
SideOf(t, n) == IF t.kid["l"][t.p[n]] = n THEN "l" ELSE "r"

(* _get_min_node and _get_max_node: follow one side to its end. *)
Outermost(t, s, node) ==
  LET down[n \in Keys] ==
        IF t.kid[s][n] = Null THEN n ELSE down[t.kid[s][n]]
  IN IF node = Null THEN Null ELSE down[node]

(* The child of n under which k belongs. *)
Toward(t, n, k) == IF n < k THEN t.kid["r"][n] ELSE t.kid["l"][n]

(* get *)
Get(t, k) ==
  LET find[n \in Keys \cup {Null}] ==
        IF n = Null \/ n = k THEN n ELSE find[Toward(t, n, k)]
  IN find[t.root]

(* get_max_lteq: the last node on the way that is smaller, or k itself. *)
GetMaxLteq_LastSeen(t, k) ==
  LET find[n \in Keys] ==
        IF n = k \/ Toward(t, n, k) = Null THEN n ELSE find[Toward(t, n, k)]
  IN IF t.root = Null THEN Null ELSE find[t.root]
GetMaxLteq(t, k) ==
  LET find[n \in Keys \cup {Null}] ==
        IF n = Null \/ n = k THEN n
        ELSE IF n < k THEN LET m == find[t.kid["r"][n]]
                           IN IF m = Null THEN n ELSE m
        ELSE find[t.kid["l"][n]]
  IN find[t.root]

(* _get_slot: the node whose child k becomes. *)
SlotParent(t, k) ==
  LET down[n \in Keys] ==
        IF Toward(t, n, k) = Null THEN n ELSE down[Toward(t, n, k)]
  IN IF t.root = Null THEN Null ELSE down[t.root]

(* _get_next_node ("r") and _get_prev_node ("l") without a limit. *)
Step(t, s, node) ==
  LET up[n \in Keys] ==
        IF t.p[n] # Null /\ n = t.kid[s][t.p[n]] THEN up[t.p[n]] ELSE t.p[n]
  IN IF t.kid[s][node] # Null
     THEN Outermost(t, Opposite(s), t.kid[s][node])
     ELSE up[node]

(* n's place under its parent, or the root, is taken by m. *)
Supplant(t, n, m) ==
  IF t.p[n] = Null THEN [t EXCEPT !.root = m]
  ELSE [t EXCEPT !.kid[SideOf(t, n)][t.p[n]] = m]

(* The link up of n, if n is not null, leads to q. *)
RelinkParent_Not(t, n, q) == t
RelinkParent(t, n, q) == IF n = Null THEN t ELSE [t EXCEPT !.p[n] = q]

(* m, if it is not null, becomes the child of n on side s. *)
Adopt(t, s, n, m) == RelinkParent([t EXCEPT !.kid[s][n] = m], m, n)

(* _l_rot ("l") and _r_rot ("r") at n; y takes n's place. *)
Rotate(t, s, n) ==
  LET y == t.kid[Opposite(s)][n]
      t1 == [Supplant(t, n, y) EXCEPT !.p[y] = t.p[n]]
  IN Adopt(Adopt(t1, Opposite(s), n, t.kid[s][y]), s, y, n)

-----------------------------------------------------------------------------
Init ==
  /\ tree = EmptyTree /\ live = {}
  /\ _cached_min_node = Null /\ _cached_max_node = Null /\ _num_nodes = 0
  /\ pc = "idle" /\ x = Null /\ par = Null /\ call = NoCall

Return == pc' = "idle" /\ x' = Null /\ par' = Null

(* The tail of _insert and _remove. *)
UpdateCaches(t, count) ==
  /\ _cached_min_node' = Outermost(t, "l", t.root)
  /\ _cached_max_node' = Outermost(t, "r", t.root)
  /\ _num_nodes' = count

(* insert(T &&) of a key that is present overwrites the equal value, and   *)
(* without memory for a node it returns nullptr.                           *)
InsertNothing(k) ==
  /\ pc = "idle" /\ call' = <<"insert", k>>
  /\ UNCHANGED <<tree, live, caches, pc, x, par>>

InsertRoot(k) ==
  /\ pc = "idle" /\ tree.root = Null
  /\ call' = <<"insert", k>> /\ live' = live \cup {k}
  /\ tree' = [tree EXCEPT !.root = k, !.color[k] = "black"]
  /\ UpdateCaches(tree', _num_nodes + 1)
  /\ UNCHANGED <<pc, x, par>>

SideFor(k, q) == IF k < q THEN "l" ELSE "r"

InsertLeaf(k) ==
  LET q == SlotParent(tree, k)
      s == SideFor(k, q)
  IN /\ pc = "idle" /\ tree.root # Null /\ Get(tree, k) = Null
     /\ call' = <<"insert", k>> /\ live' = live \cup {k}
     /\ tree' = [tree EXCEPT !.kid[s][q] = k, !.p[k] = q, !.color[k] = "red"]
     /\ pc' = "insert" /\ x' = k
     /\ UNCHANGED <<par, caches>>

(* insert of a node whose key is present: assert(slot) fails. *)
InsertNodePresent(k) ==
  /\ pc = "idle" /\ Get(tree, k) # Null
  /\ call' = <<"insert", k>> /\ pc' = "aborted"
  /\ UNCHANGED <<tree, live, caches, x, par>>

-----------------------------------------------------------------------------
(* _insert_fix_up *)
RedParent == tree.p[x] # Null /\ IsRed(tree, tree.p[x])

Recolor(p, gp, u) ==
  /\ IsRed(tree, u)
  /\ tree' = Paint(Paint(Paint(tree, p, "black"), u, "black"), gp, "red")

Straighten_Not(t, s, node) == t
Straighten(t, s, node) ==
  IF node = t.kid[Opposite(s)][t.p[node]] THEN Rotate(t, s, t.p[node]) ELSE t

RotateUp(s, gp, u) ==
  LET t == Rotate(Straighten(tree, s, x), Opposite(s), gp)
  IN /\ IsBlack(tree, u)
     /\ tree' = Paint(Paint(t, t.p[gp], "black"), gp, "red")

InsertFixUp ==
  LET p == tree.p[x]
      gp == tree.p[p]
      s == SideOf(tree, p)
      u == tree.kid[Opposite(s)][gp]
  IN /\ pc = "insert" /\ RedParent
     /\ Recolor(p, gp, u) \/ RotateUp(s, gp, u)
     /\ x' = gp
     /\ UNCHANGED <<live, caches, pc, par, call>>

InsertDone ==
  /\ pc = "insert" /\ ~RedParent
  /\ tree' = Paint(tree, tree.root, "black")
  /\ UpdateCaches(tree', _num_nodes + 1)
  /\ Return /\ UNCHANGED <<live, call>>

-----------------------------------------------------------------------------
(* _remove_fix_up, first half: n leaves the tree.  The result holds the    *)
(* tree, whether a black node was lost, and the loop's x and p.            *)
SpliceOut_DropsLeft(n) ==
  LET c == tree.kid["r"][n]
  IN [t |-> RelinkParent(Supplant(tree, n, c), c, tree.p[n]),
      lost |-> IsBlack(tree, n), x |-> c, par |-> tree.p[n]]
SpliceOut(n) ==
  LET c == IF tree.kid["l"][n] = Null THEN tree.kid["r"][n]
           ELSE tree.kid["l"][n]
  IN [t |-> RelinkParent(Supplant(tree, n, c), c, tree.p[n]),
      lost |-> IsBlack(tree, n), x |-> c, par |-> tree.p[n]]

(* n has two children: its successor y moves into its place and colour. *)
MoveSuccessor(n) ==
  LET y == Outermost(tree, "l", tree.kid["r"][n])
      c == tree.kid["r"][y]
      near == y = tree.kid["r"][n]
      t1 == Adopt(tree, "l", y, tree.kid["l"][n])
      t2 == IF near THEN t1
            ELSE Adopt(Adopt(t1, "l", tree.p[y], c), "r", y, tree.kid["r"][n])
  IN [t |-> [Supplant(t2, n, y) EXCEPT !.p[y] = tree.p[n],
                                       !.color[y] = tree.color[n]],
      lost |-> IsBlack(tree, y), x |-> c,
      par |-> IF near THEN y ELSE tree.p[y]]

(* The removed node's links are reset, or its memory released. *)
Forget(t, n) == [t EXCEPT !.p[n] = Null, !.kid["l"][n] = Null,
                          !.kid["r"][n] = Null, !.color[n] = "black"]

Remove(n) ==
  LET cut == IF tree.kid["l"][n] # Null /\ tree.kid["r"][n] # Null
             THEN MoveSuccessor(n) ELSE SpliceOut(n)
  IN /\ pc = "idle" /\ n \in live
     /\ call' = <<"remove", n>> /\ live' = live \ {n}
     /\ tree' = Forget(cut.t, n)
     /\ \/ /\ cut.lost
           /\ pc' = "remove" /\ x' = cut.x /\ par' = cut.par
           /\ UNCHANGED caches
        \/ /\ ~cut.lost
           /\ UpdateCaches(tree', _num_nodes - 1)
           /\ UNCHANGED <<pc, x, par>>

(* _remove_fix_up, second half: x's subtree is one black node short. *)
Short == x # tree.root /\ IsBlack(tree, x)

(* A red sibling is rotated away first. *)
BlackSibling(s) ==
  LET w == tree.kid[Opposite(s)][par]
  IN IF IsRed(tree, w)
     THEN Rotate(Paint(Paint(tree, w, "black"), par, "red"), s, par)
     ELSE tree

PushUp(s, t, w) ==
  /\ IsBlack(t, t.kid["l"][w]) /\ IsBlack(t, t.kid["r"][w])
  /\ tree' = Paint(t, w, "red")
  /\ x' = par /\ par' = t.p[par]
  /\ UNCHANGED <<live, caches, pc, call>>

Repaired(s, t, w) ==
  LET o == Opposite(s)
      near == t.kid[s][w]
      t1 == IF IsBlack(t, t.kid[o][w])
            THEN Rotate(Paint(Paint(t, near, "black"), w, "red"), o, w)
            ELSE t
      w1 == t1.kid[o][par]
      t2 == Paint(Paint(Paint(t1, w1, t1.color[par]), par, "black"),
                  t1.kid[o][w1], "black")
  IN Rotate(t2, s, par)

(* The last iteration repairs the tree and leaves the loop. *)
Repair(s, t, w) ==
  /\ IsRed(t, t.kid["l"][w]) \/ IsRed(t, t.kid["r"][w])
  /\ tree' = Paint(Repaired(s, t, w), x, "black")
  /\ UpdateCaches(tree', _num_nodes - 1)
  /\ Return /\ UNCHANGED <<live, call>>

RemoveFixUp ==
  LET s == IF x = tree.kid["l"][par] THEN "l" ELSE "r"
      t == BlackSibling(s)
      w == t.kid[Opposite(s)][par]
  IN /\ pc = "remove" /\ Short
     /\ PushUp(s, t, w) \/ Repair(s, t, w)

RemoveDone ==
  /\ pc = "remove" /\ ~Short
  /\ tree' = Paint(tree, x, "black")
  /\ UpdateCaches(tree', _num_nodes - 1)
  /\ Return /\ UNCHANGED <<live, call>>

-----------------------------------------------------------------------------
(* clear, and the destructor: _delete_node_tree, one node a step. *)
ClearBegin ==
  /\ pc = "idle" /\ call' = <<"clear">>
  /\ \/ /\ tree.root # Null
        /\ pc' = "clear" /\ x' = Outermost(tree, "l", tree.root)
        /\ UNCHANGED <<caches, par>>
     \/ /\ tree.root = Null
        /\ _cached_min_node' = Null /\ _cached_max_node' = Null
        /\ UNCHANGED <<_num_nodes, pc, x, par>>
  /\ UNCHANGED <<tree, live>>

ClearDescend ==
  /\ pc = "clear" /\ x # Null /\ tree.kid["r"][x] # Null
  /\ x' = Outermost(tree, "l", tree.kid["r"][x])
  /\ UNCHANGED <<tree, live, caches, pc, par, call>>

(* A right child is deleted and its parent, whose children are gone, next. *)
ClearDelete ==
  /\ pc \in {"clear", "climb"} /\ x # Null
  /\ pc = "clear" => tree.kid["r"][x] = Null
  /\ live' = live \ {x} /\ x' = tree.p[x]
  /\ pc' = IF tree.p[x] # Null /\ x = tree.kid["r"][tree.p[x]]
           THEN "climb" ELSE "clear"
  /\ UNCHANGED <<tree, caches, par, call>>

ClearDone ==
  /\ pc = "clear" /\ x = Null
  /\ tree' = EmptyTree
  /\ _cached_min_node' = Null /\ _cached_max_node' = Null /\ _num_nodes' = 0
  /\ Return /\ UNCHANGED <<live, call>>

-----------------------------------------------------------------------------
Loop == \/ InsertFixUp \/ InsertDone \/ RemoveFixUp \/ RemoveDone
        \/ ClearDescend \/ ClearDelete \/ ClearDone

Next == \/ \E k \in Keys : \/ InsertNothing(k) \/ InsertRoot(k)
                           \/ InsertLeaf(k) \/ InsertNodePresent(k)
                           \/ Remove(k)
        \/ ClearBegin
        \/ Loop

Spec == Init /\ [][Next]_vars

-----------------------------------------------------------------------------
(* Properties. *)

Clearing == pc \in {"clear", "climb"}

(* The nodes of the subtree of n. *)
Subtree(t, n) ==
  LET sub[m \in Keys \cup {Null}] ==
        IF m = Null THEN {} ELSE {m} \cup sub[t.kid["l"][m]]
                                     \cup sub[t.kid["r"][m]]
  IN sub[n]

(* The nodes, links, counters and registers have their types; above all,   *)
(* the unsigned _num_nodes never goes below zero.                          *)
TypeOK ==
  /\ tree \in Tree /\ live \subseteq Keys
  /\ {_cached_min_node, _cached_max_node, x, par} \subseteq Keys \cup {Null}
  /\ _num_nodes \in 0 .. Cardinality(Keys)
  /\ pc \in {"idle", "insert", "remove", "clear", "climb", "aborted"}

(* In every state of every loop the links up and down agree, and exactly   *)
(* the allocated nodes are in the tree: a rotation or a removal loses none. *)
LinksAgree ==
  ~Clearing =>
    /\ Subtree(tree, tree.root) = live
    /\ tree.root # Null => tree.p[tree.root] = Null
    /\ \A n \in live, s \in Sides :
         tree.kid[s][n] # Null => tree.p[tree.kid[s][n]] = n

(* In every state of every loop the tree is a search tree. *)
SearchOrder ==
  ~Clearing =>
    \A n \in live : /\ \A m \in Subtree(tree, tree.kid["l"][n]) : m < n
                    /\ \A m \in Subtree(tree, tree.kid["r"][n]) : n < m

(* The black nodes on the ways from n down, n being a child of q.  During a *)
(* removal the loop's x stands for one black node more than it has.        *)
BlackHeights(n, q) ==
  LET extra(m, r) == IF pc = "remove" /\ m = x /\ r = par THEN 1 ELSE 0
      h[e \in (Keys \cup {Null}) \X (Keys \cup {Null})] ==
        IF e[1] = Null THEN {extra(e[1], e[2])}
        ELSE LET below == h[<<tree.kid["l"][e[1]], e[1]>>]
                            \cup h[<<tree.kid["r"][e[1]], e[1]>>]
                 own == IF IsBlack(tree, e[1]) THEN 1 ELSE 0
             IN {own + extra(e[1], e[2]) + b : b \in below}
  IN h[<<n, q>>]

(* What _verify (rbtree.cc:243-278) demands between calls, and what the    *)
(* loops rely on while they run: all ways down have as many black nodes,   *)
(* counting x's debt, and of two red nodes in a row one is x.              *)
Balance ==
  ~Clearing =>
    /\ Cardinality(BlackHeights(tree.root, Null)) = 1
    /\ \A n \in live : IsRed(tree, n) /\ IsRed(tree, tree.p[n]) =>
                          pc # "idle" /\ x \in {n, tree.p[n]}
    /\ IsRed(tree, tree.root) => pc # "idle" /\ tree.root = x

IsMaxOf(m, S) == IF S = {} THEN m = Null ELSE m \in S /\ \A n \in S : n <= m
IsMinOf(m, S) == IF S = {} THEN m = Null ELSE m \in S /\ \A n \in S : n >= m

(* The cached ends and the size are those of the tree. *)
CachesExact == /\ IsMinOf(_cached_min_node, live)
               /\ IsMaxOf(_cached_max_node, live)
               /\ _num_nodes = Cardinality(live)

(* Between calls the caches are exact, and get_max_lteq, get and the steps *)
(* of an iterator in either direction are right, for every tree a sequence *)
(* of calls builds.                                                        *)
QueriesExact ==
  pc = "idle" =>
    /\ CachesExact
    /\ \A k \in Keys : /\ IsMaxOf(GetMaxLteq(tree, k), {n \in live : n <= k})
                       /\ Get(tree, k) = IF k \in live THEN k ELSE Null
    /\ \A n \in live : /\ IsMinOf(Step(tree, "r", n), {m \in live : m > n})
                       /\ IsMaxOf(Step(tree, "l", n), {m \in live : m < n})

(* While it deletes a tree, _delete_node_tree reads only nodes it has not  *)
(* deleted: the one at hand, its parent, and the way down to the next.     *)
RightSpine(n) ==
  LET down[m \in Keys \cup {Null}] ==
        IF m = Null THEN {} ELSE {m} \cup down[tree.kid["l"][m]]
  IN down[tree.kid["r"][n]]
ClearReadsLive ==
  Clearing /\ x # Null =>
    /\ {x, tree.p[x]} \subseteq live \cup {Null}
    /\ pc = "clear" => RightSpine(x) \subseteq live

(* The tree is a well-formed search tree in every state of every loop: no  *)
(* rotation, splice or deletion loses a node, leaves a link of its past or *)
(* reads a node that is gone.                                              *)
TreeShape == TypeOK /\ LinksAgree /\ SearchOrder /\ ClearReadsLive

(* The tree is an ordered set: each call makes its one change at once, and *)
(* the loops that follow change nothing a client can see.                  *)
Linked == {n \in Keys : \/ tree.root = n
                        \/ /\ tree.p[n] # Null
                           /\ \E s \in Sides : tree.kid[s][tree.p[n]] = n}
Set == INSTANCE OrderedSet WITH keys <- IF Clearing THEN {} ELSE Linked
SetSpec == Set!Spec
=============================================================================
