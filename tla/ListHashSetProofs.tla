------------------------- MODULE ListHashSetProofs --------------------------
(***************************************************************************)
(* Theorems about List for every finite set of nodes: after any sequence   *)
(* of calls the links spell the items from both ends, no call touches a    *)
(* deleted node, and iterators visit each item once.  And about HashSet,   *)
(* whose buckets are such lists, for every finite set of elements and      *)
(* every hash: within insertions and resizes too each bucket is a          *)
(* well-formed list of nodes that hash to it, every node is in one bucket, *)
(* and honest clients see a set.                                           *)
(*                                                                         *)
(* All rest on what the link surgery does to a chain that spells a         *)
(* sequence: _prepend and _append put a node whose own link is clean next  *)
(* to dest, _remove takes one out, and nothing else in the sequence        *)
(* changes.                                                                *)
(***************************************************************************)
EXTENDS HashSet, List, FiniteSetTheorems, TLAPS

-----------------------------------------------------------------------------
(* The surgery. *)

(* The q-th node of a sequence, Null beyond its ends. *)
At(s, q) == IF q \in 1 .. Len(s) THEN s[q] ELSE Null

Injective(s) == \A q, t \in 1 .. Len(s) : s[q] = s[t] => q = t

(* r is s with node before its q-th element; r is s without its q-th.      *)
Inserted(r, s, q, node) ==
  /\ r \in Seq(Nodes) /\ Len(r) = Len(s) + 1
  /\ \A t \in 1 .. Len(r) :
       r[t] = IF t < q THEN s[t] ELSE IF t = q THEN node ELSE s[t - 1]
Removed(r, s, q) ==
  /\ r \in Seq(Nodes) /\ Len(r) = Len(s) - 1
  /\ \A t \in 1 .. Len(r) : r[t] = IF t < q THEN s[t] ELSE s[t + 1]

(* A well-typed chain that spells a sequence of different nodes. *)
Chain(c, s) ==
  /\ c = [head |-> c.head, links |-> c.links]
  /\ c.head \in Header /\ c.links \in Links
  /\ s \in Seq(Nodes) /\ Injective(s) /\ Spells(c, s)

(* What Spells says of each node, and of the ends. *)
LEMMA SpellsAt ==
  ASSUME NEW c, NEW s \in Seq(Nodes)
  PROVE  Spells(c, s) <=>
           /\ c.head = [_first |-> At(s, 1), _last |-> At(s, Len(s)),
                        _length |-> Len(s)]
           /\ \A q \in 1 .. Len(s) : /\ c.links.prev[s[q]] = At(s, q - 1)
                                     /\ c.links.next[s[q]] = At(s, q + 1)
BY DEF Spells, At

(* Relink before dest, pointwise. *)
LEMMA RelinkPrev ==
  ASSUME NEW lk \in Links, NEW dest \in Nodes, NEW node \in Nodes,
         dest # node, lk.prev[dest] # node
  PROVE  LET near == lk.prev[dest]
             l == Relink(lk, "prev", dest, node)
         IN /\ l \in Links
            /\ \A x \in Nodes :
                 /\ l.prev[x] = IF x = dest THEN node ELSE lk.prev[x]
                 /\ l.next[x] = IF x = node THEN dest
                                ELSE IF x = near THEN node ELSE lk.next[x]
BY NodesAssumption DEF Relink, Links, Back

LEMMA RelinkNext ==
  ASSUME NEW lk \in Links, NEW dest \in Nodes, NEW node \in Nodes,
         dest # node, lk.next[dest] # node
  PROVE  LET near == lk.next[dest]
             l == Relink(lk, "next", dest, node)
         IN /\ l \in Links
            /\ \A x \in Nodes :
                 /\ l.next[x] = IF x = dest THEN node ELSE lk.next[x]
                 /\ l.prev[x] = IF x = node THEN dest
                                ELSE IF x = near THEN node ELSE lk.prev[x]
BY NodesAssumption DEF Relink, Links, Back

(* The elements of a sequence of different nodes are told apart by place.  *)
LEMMA AtInjective ==
  ASSUME NEW s \in Seq(Nodes), Injective(s),
         NEW t \in 1 .. Len(s), NEW k \in Int
  PROVE  s[t] = At(s, t) /\ s[t] # Null /\ (s[t] = At(s, k) <=> t = k)
<1>1. s[t] \in Nodes
  OBVIOUS
<1>2. QED
  BY <1>1, NodesAssumption DEF At, Injective

LEMMA InsertedAt ==
  ASSUME NEW s \in Seq(Nodes), NEW q \in 1 .. Len(s) + 1, NEW node \in Nodes,
         NEW r, Inserted(r, s, q, node)
  PROVE  \A k \in Int : At(r, k) = IF k < q THEN At(s, k) ELSE IF k = q THEN node
                                   ELSE At(s, k - 1)
<1> TAKE k \in Int
<1>1. /\ Len(s) \in Nat /\ Len(r) = Len(s) + 1
      /\ \A t \in 1 .. Len(r) :
           r[t] = IF t < q THEN s[t] ELSE IF t = q THEN node ELSE s[t - 1]
  BY DEF Inserted
<1>2. CASE k \in 1 .. Len(r)
  <2>1. At(r, k) = r[k]
    BY <1>2 DEF At
  <2>2. k < q => k \in 1 .. Len(s)
    BY <1>1, <1>2
  <2>3. k > q => k - 1 \in 1 .. Len(s)
    BY <1>1, <1>2
  <2>4. QED
    BY <1>1, <1>2, <2>1, <2>2, <2>3 DEF At
<1>3. CASE k \notin 1 .. Len(r)
  <2>1. At(r, k) = Null
    BY <1>3 DEF At
  <2>2. k < q => k \notin 1 .. Len(s)
    BY <1>1, <1>3
  <2>3. k # q /\ (k > q => k - 1 \notin 1 .. Len(s))
    BY <1>1, <1>3
  <2>4. QED
    BY <1>1, <2>1, <2>2, <2>3 DEF At
<1>4. QED
  BY <1>2, <1>3

(* Functions p and n link the elements of s to their neighbours; p2 and n2 *)
(* differ from them in the four links of a node put at place q.            *)
Neighbours(p, n, s) ==
  \A t \in 1 .. Len(s) : p[s[t]] = At(s, t - 1) /\ n[s[t]] = At(s, t + 1)
Spliced(p, n, p2, n2, s, q, node) ==
  \A x \in Nodes :
    /\ p2[x] = IF x = node THEN At(s, q - 1)
               ELSE IF x = At(s, q) THEN node ELSE p[x]
    /\ n2[x] = IF x = node THEN At(s, q)
               ELSE IF x = At(s, q - 1) THEN node ELSE n[x]

(* A node put between two neighbours, or at an end, with all four links    *)
(* set, leaves links that spell the longer sequence.                       *)
LEMMA SpliceIn ==
  ASSUME NEW s \in Seq(Nodes), Injective(s),
         NEW node \in Nodes, \A t \in 1 .. Len(s) : s[t] # node,
         NEW q \in 1 .. Len(s) + 1, NEW r, Inserted(r, s, q, node),
         NEW p, NEW n, NEW p2, NEW n2, Neighbours(p, n, s),
         Spliced(p, n, p2, n2, s, q, node)
  PROVE  Neighbours(p2, n2, r)
<1> SUFFICES ASSUME NEW t \in 1 .. Len(r)
             PROVE  p2[r[t]] = At(r, t - 1) /\ n2[r[t]] = At(r, t + 1)
  BY DEF Neighbours
<1>0. /\ \A k \in 1 .. Len(s) : p[s[k]] = At(s, k - 1) /\ n[s[k]] = At(s, k + 1)
      /\ \A x \in Nodes :
           /\ p2[x] = IF x = node THEN At(s, q - 1)
                      ELSE IF x = At(s, q) THEN node ELSE p[x]
           /\ n2[x] = IF x = node THEN At(s, q)
                      ELSE IF x = At(s, q - 1) THEN node ELSE n[x]
  BY DEF Neighbours, Spliced
<1>1. /\ Len(s) \in Nat /\ Len(r) = Len(s) + 1 /\ t \in Int /\ q \in Int
      /\ r[t] = IF t < q THEN s[t] ELSE IF t = q THEN node ELSE s[t - 1]
  BY DEF Inserted
<1>2. \A k \in Int : At(r, k) = IF k < q THEN At(s, k) ELSE IF k = q THEN node
                                ELSE At(s, k - 1)
  <2>1. s \in Seq(Nodes) /\ node \in Nodes /\ Inserted(r, s, q, node)
    OBVIOUS
  <2>2. q \in 1 .. Len(s) + 1
    OBVIOUS
  <2>3. QED
    BY ONLY <2>1, <2>2, InsertedAt
<1>3. \A m \in 1 .. Len(s), k \in Int : s[m] = At(s, k) <=> m = k
  BY AtInjective
<1>4. \A m \in 1 .. Len(s) : s[m] \in Nodes
  OBVIOUS
<1>5. CASE t = q
  BY <1>0, <1>1, <1>2, <1>5
<1>6. CASE t < q
  <2>1. t \in 1 .. Len(s) /\ r[t] = s[t]
    BY <1>1, <1>6
  <2>2. p2[r[t]] = At(s, t - 1)
    BY <1>0, <1>1, <1>3, <1>4, <1>6, <2>1
  <2>3. n2[r[t]] = IF t = q - 1 THEN node ELSE At(s, t + 1)
    BY <1>0, <1>1, <1>3, <1>4, <2>1
  <2>4. QED
    BY <1>1, <1>2, <1>6, <2>2, <2>3
<1>7. CASE t > q
  <2>1. t - 1 \in 1 .. Len(s) /\ r[t] = s[t - 1]
    BY <1>1, <1>7
  <2>2. p2[r[t]] = IF t - 1 = q THEN node ELSE At(s, t - 2)
    <3>1. p[s[t - 1]] = At(s, t - 2) /\ s[t - 1] \in Nodes /\ s[t - 1] # node
      BY <1>0, <1>1, <1>4, <2>1
    <3>2. s[t - 1] = At(s, q) <=> t - 1 = q
      BY <1>1, <1>3, <2>1
    <3>3. QED
      BY <1>0, <2>1, <3>1, <3>2
  <2>3. n2[r[t]] = At(s, t)
    BY <1>0, <1>1, <1>3, <1>4, <1>7, <2>1
  <2>4. QED
    BY <1>1, <1>2, <1>7, <2>2, <2>3
<1>8. QED
  BY <1>1, <1>5, <1>6, <1>7

(* h is the header old after a node was attached. *)
HeadAttached(h, old, dir, dest, node) ==
  /\ h \in Header /\ h._length = old._length + 1
  /\ h._first = IF dest = Null \/ (dir = "prev" /\ dest = old._first)
                THEN node ELSE old._first
  /\ h._last = IF dest = Null \/ (dir = "next" /\ dest = old._last)
               THEN node ELSE old._last

LEMMA AttachHead ==
  ASSUME NEW c, c.head \in Header, NEW dir \in Directions,
         NEW dest \in Nodes \cup {Null}, NEW node \in Nodes,
         dest = Null => c.head._first = Null /\ c.head._last = Null,
         dest # Null => c.head._first # Null /\ c.head._last # Null
  PROVE  HeadAttached(Attach(c, dir, dest, node).head, c.head, dir, dest, node)
<1> DEFINE h == Attach(c, dir, dest, node).head
           first == c.head._first
           last == c.head._last
<1>1. /\ h = [_first |-> h._first, _last |-> h._last, _length |-> h._length]
      /\ h._length = c.head._length + 1
      /\ h._first = IF first = Null \/ (dir = "prev" /\ dest = first)
                    THEN node ELSE first
      /\ h._last = IF last = Null \/ (dir = "next" /\ dest = last)
                   THEN node ELSE last
  BY DEF Attach, EndOf, Directions
<1>2. /\ first \in Nodes \cup {Null} /\ last \in Nodes \cup {Null}
      /\ c.head._length \in Int
  BY DEF Header
<1>3. h \in Header
  BY <1>1, <1>2 DEF Header
<1>4. QED
  BY <1>1, <1>2, <1>3, NodesAssumption DEF HeadAttached

LEMMA InsertedInjective ==
  ASSUME NEW s \in Seq(Nodes), Injective(s),
         NEW node \in Nodes, \A t \in 1 .. Len(s) : s[t] # node,
         NEW q \in 1 .. Len(s) + 1, NEW r, Inserted(r, s, q, node)
  PROVE  r \in Seq(Nodes) /\ Injective(r)
<1>1. /\ Len(s) \in Nat /\ Len(r) = Len(s) + 1 /\ r \in Seq(Nodes)
      /\ \A t \in 1 .. Len(r) :
           r[t] = IF t < q THEN s[t] ELSE IF t = q THEN node ELSE s[t - 1]
  BY DEF Inserted
<1>2. SUFFICES ASSUME NEW t \in 1 .. Len(r), NEW k \in 1 .. Len(r), t < k
               PROVE  r[t] # r[k]
  BY <1>1 DEF Injective
<1>3. t < q => t \in 1 .. Len(s)
  BY <1>1, <1>2
<1>4. k > q => k - 1 \in 1 .. Len(s)
  BY <1>1, <1>2
<1>5. (k < q => k \in 1 .. Len(s)) /\ (t > q => t - 1 \in 1 .. Len(s))
  BY <1>1, <1>2
<1>6. \A a, b \in 1 .. Len(s) : a < b => s[a] # s[b]
  BY <1>1 DEF Injective
<1>7. CASE k <= q
  BY <1>1, <1>2, <1>3, <1>5, <1>6, <1>7
<1>8. CASE k > q
  <2>1. r[k] = s[k - 1] /\ k - 1 \in 1 .. Len(s)
    BY <1>1, <1>2, <1>4, <1>8
  <2>2. CASE t = q
    BY <1>1, <2>1, <2>2
  <2>3. CASE t < q
    <3>1. r[t] = s[t] /\ t < k - 1
      BY <1>1, <1>2, <1>8, <2>3
    <3>2. QED
      BY <1>3, <1>6, <2>1, <2>3, <3>1
  <2>4. CASE t > q
    <3>1. r[t] = s[t - 1] /\ t - 1 < k - 1
      BY <1>1, <1>2, <2>4
    <3>2. QED
      BY <1>5, <1>6, <2>1, <2>4, <3>1
  <2>5. QED
    BY <1>1, <1>2, <2>2, <2>3, <2>4
<1>9. QED
  BY <1>1, <1>2, <1>7, <1>8

(* _prepend and _append put a clean node before or behind dest, and into   *)
(* an empty list: the chain then spells the sequence with the node in it.  *)
LEMMA AttachSpells ==
  ASSUME NEW c, NEW s, Chain(c, s), NEW dir \in Directions,
         NEW q \in 1 .. Len(s) + 1, NEW node \in Nodes,
         \A t \in 1 .. Len(s) : s[t] # node,
         NEW dest, dest = IF dir = "prev" THEN At(s, q) ELSE At(s, q - 1),
         dest = Null => Len(s) = 0,
         AttachIsClean(c, dir, dest, node),
         NEW r, Inserted(r, s, q, node)
  PROVE  Chain(Attach(c, dir, dest, node), r)
<1> DEFINE a == Attach(c, dir, dest, node)
           before == At(s, q - 1)
           after == At(s, q)
<1>1. /\ s \in Seq(Nodes) /\ Len(s) \in Nat /\ q \in Nat /\ Injective(s)
      /\ c.head \in Header /\ c.links \in Links
      /\ \A t \in 1 .. Len(s) : s[t] \in Nodes
      /\ Len(r) = Len(s) + 1
  BY DEF Chain, Inserted
<1>2. /\ c.head = [_first |-> At(s, 1), _last |-> At(s, Len(s)),
                   _length |-> Len(s)]
      /\ \A t \in 1 .. Len(s) : /\ c.links.prev[s[t]] = At(s, t - 1)
                                /\ c.links.next[s[t]] = At(s, t + 1)
  BY <1>1, SpellsAt DEF Chain
<1>3. /\ before \in Nodes \cup {Null} /\ before # node
      /\ after \in Nodes \cup {Null} /\ after # node
  BY <1>1, NodesAssumption DEF At
<1>4. /\ a.links = Relink(c.links, dir, dest, node)
      /\ a = [head |-> a.head, links |-> a.links]
  BY DEF Attach
<1>5. /\ a.links \in Links
      /\ \A x \in Nodes :
           /\ a.links.prev[x] = IF x = node THEN before
                                ELSE IF x = after THEN node ELSE c.links.prev[x]
           /\ a.links.next[x] = IF x = node THEN after
                                ELSE IF x = before THEN node ELSE c.links.next[x]
  <2>1. CASE dest = Null
    <3>1. before = Null /\ after = Null
      BY <1>1, <2>1 DEF At
    <3>2. c.links[dir][node] = Null
      BY <2>1 DEF AttachIsClean
    <3>3. a.links = [c.links EXCEPT ![Back(dir)][node] = Null]
      BY <1>4, <2>1 DEF Relink
    <3>4. CASE dir = "prev"
      BY <1>1, <3>1, <3>2, <3>3, <3>4, NodesAssumption DEF Links, Back
    <3>5. CASE dir = "next"
      BY <1>1, <3>1, <3>2, <3>3, <3>5, NodesAssumption DEF Links, Back
    <3>6. QED
      BY <3>4, <3>5 DEF Directions
  <2>2. CASE dest # Null /\ dir = "prev"
    <3>1. dest = after /\ q \in 1 .. Len(s) /\ dest = s[q] /\ dest \in Nodes
      BY <1>1, <2>2 DEF At
    <3>2. c.links.prev[dest] = before
      BY <1>2, <3>1
    <3>3. c.links.prev[node] = before
      BY <2>2, <3>2 DEF AttachIsClean
    <3>4. QED
      BY <1>1, <1>3, <1>4, <2>2, <3>1, <3>2, <3>3, RelinkPrev
  <2>3. CASE dest # Null /\ dir = "next"
    <3>1. /\ dest = before /\ q - 1 \in 1 .. Len(s)
          /\ dest = s[q - 1] /\ dest \in Nodes
      BY <1>1, <2>3 DEF At
    <3>2. c.links.next[dest] = after
      BY <1>1, <1>2, <3>1
    <3>3. c.links.next[node] = after
      BY <2>3, <3>2 DEF AttachIsClean
    <3>4. QED
      BY <1>1, <1>3, <1>4, <2>3, <3>1, <3>2, <3>3, RelinkNext
  <2>4. QED
    BY <2>1, <2>2, <2>3 DEF Directions
<1>6. \A t \in 1 .. Len(r) : /\ a.links.prev[r[t]] = At(r, t - 1)
                             /\ a.links.next[r[t]] = At(r, t + 1)
  <2>1. Neighbours(c.links.prev, c.links.next, s)
    BY <1>2 DEF Neighbours
  <2>2. Spliced(c.links.prev, c.links.next, a.links.prev, a.links.next, s, q, node)
    BY <1>5 DEF Spliced
  <2>3. Neighbours(a.links.prev, a.links.next, r)
    BY <1>1, <2>1, <2>2, SpliceIn
  <2>4. QED
    BY <2>3 DEF Neighbours
<1>7. /\ a.head \in Header /\ a.head._length = Len(r)
      /\ a.head._first = At(r, 1) /\ a.head._last = At(r, Len(r))
  <2>1. /\ At(r, 1) = IF q = 1 THEN node ELSE At(s, 1)
        /\ At(r, Len(r)) = IF q = Len(s) + 1 THEN node ELSE At(s, Len(s))
    <3>1. \A k \in Int : At(r, k) = IF k < q THEN At(s, k)
                                    ELSE IF k = q THEN node ELSE At(s, k - 1)
      BY <1>1, InsertedAt
    <3>2. QED
      BY <1>1, <3>1
  <2>2. /\ dest = Null => At(s, 1) = Null /\ At(s, Len(s)) = Null
        /\ dest # Null => /\ Len(s) > 0 /\ At(s, 1) # Null
                          /\ At(s, Len(s)) # Null
    BY <1>1, NodesAssumption DEF At
  <2>3. dest = Null => q = 1 /\ q = Len(s) + 1
    BY <1>1
  <2>4. dest # Null => /\ (dir = "prev" /\ dest = At(s, 1)) <=> q = 1
                       /\ (dir = "next" /\ dest = At(s, Len(s))) <=> q = Len(s) + 1
    <3>1. \A t, k \in 1 .. Len(s) : At(s, t) = At(s, k) <=> t = k
      BY <1>1 DEF At, Injective
    <3>2. CASE dest # Null /\ dir = "prev"
      <4>1. q \in 1 .. Len(s) /\ 1 \in 1 .. Len(s) /\ dest = At(s, q)
        BY <1>1, <3>2 DEF At
      <4>2. QED
        BY <1>1, <3>1, <3>2, <4>1
    <3>3. CASE dest # Null /\ dir = "next"
      <4>1. /\ q - 1 \in 1 .. Len(s) /\ Len(s) \in 1 .. Len(s)
            /\ dest = At(s, q - 1)
        BY <1>1, <3>3 DEF At
      <4>2. QED
        BY <1>1, <3>1, <3>3, <4>1
    <3>4. QED
      BY <3>2, <3>3 DEF Directions
  <2>5. dest \in Nodes \cup {Null}
    BY <1>3
  <2>6. /\ a.head \in Header /\ a.head._length = c.head._length + 1
        /\ a.head._first = IF dest = Null \/ (dir = "prev" /\ dest = c.head._first)
                           THEN node ELSE c.head._first
        /\ a.head._last = IF dest = Null \/ (dir = "next" /\ dest = c.head._last)
                          THEN node ELSE c.head._last
    <3>1. c.head._first = At(s, 1) /\ c.head._last = At(s, Len(s))
      BY <1>2
    <3>2. /\ dest = Null => c.head._first = Null /\ c.head._last = Null
          /\ dest # Null => c.head._first # Null /\ c.head._last # Null
      BY <2>2, <3>1
    <3>3. c.head \in Header
      BY <1>1
    <3>4. HeadAttached(a.head, c.head, dir, dest, node)
      BY <2>5, <3>2, <3>3, AttachHead
    <3>5. QED
      BY <3>4 DEF HeadAttached
  <2>7. QED
    BY <1>1, <1>2, <2>1, <2>3, <2>4, <2>6
<1>8. r \in Seq(Nodes) /\ Injective(r)
  BY <1>1, InsertedInjective
<1>9. a.head = [_first |-> At(r, 1), _last |-> At(r, Len(r)), _length |-> Len(r)]
  BY <1>7 DEF Header
<1>10. Spells(a, r)
  BY <1>6, <1>8, <1>9, SpellsAt
<1>11. QED
  BY <1>4, <1>5, <1>7, <1>8, <1>10 DEF Chain

-----------------------------------------------------------------------------
LEMMA RemovedAt ==
  ASSUME NEW s \in Seq(Nodes), NEW q \in 1 .. Len(s), NEW r, Removed(r, s, q)
  PROVE  \A k \in Int : At(r, k) = IF k < q THEN At(s, k) ELSE At(s, k + 1)
<1> TAKE k \in Int
<1>1. /\ Len(s) \in Nat /\ Len(r) = Len(s) - 1
      /\ \A t \in 1 .. Len(r) : r[t] = IF t < q THEN s[t] ELSE s[t + 1]
  BY DEF Removed
<1>2. CASE k < q
  <2>1. k \in 1 .. Len(s) <=> k \in 1 .. Len(r)
    BY <1>1, <1>2
  <2>2. QED
    BY <1>1, <1>2, <2>1 DEF At
<1>3. CASE k >= q
  <2>1. k + 1 \in 1 .. Len(s) <=> k \in 1 .. Len(r)
    BY <1>1, <1>3
  <2>2. QED
    BY <1>1, <1>3, <2>1 DEF At
<1>4. QED
  BY <1>2, <1>3

LEMMA RemovedInjective ==
  ASSUME NEW s \in Seq(Nodes), Injective(s), NEW q \in 1 .. Len(s),
         NEW r, Removed(r, s, q)
  PROVE  r \in Seq(Nodes) /\ Injective(r)
<1>1. /\ Len(s) \in Nat /\ Len(r) = Len(s) - 1 /\ r \in Seq(Nodes)
      /\ \A t \in 1 .. Len(r) : r[t] = IF t < q THEN s[t] ELSE s[t + 1]
  BY DEF Removed
<1> DEFINE place(t) == IF t < q THEN t ELSE t + 1
<1>2. \A t \in 1 .. Len(r) : place(t) \in 1 .. Len(s) /\ r[t] = s[place(t)]
  BY <1>1
<1>3. \A t, k \in 1 .. Len(r) : place(t) = place(k) => t = k
  BY <1>1
<1> HIDE DEF place
<1>4. QED
  BY <1>1, <1>2, <1>3 DEF Injective

(* Functions p2 and n2 differ from p and n where the two neighbours of the *)
(* q-th element come to know each other.                                   *)
Bridged(p, n, p2, n2, s, q) ==
  \A x \in Nodes :
    /\ p2[x] = IF x = At(s, q + 1) THEN At(s, q - 1) ELSE p[x]
    /\ n2[x] = IF x = At(s, q - 1) THEN At(s, q + 1) ELSE n[x]

LEMMA SpliceOut ==
  ASSUME NEW s \in Seq(Nodes), Injective(s), NEW q \in 1 .. Len(s),
         NEW r, Removed(r, s, q),
         NEW p, NEW n, NEW p2, NEW n2, Neighbours(p, n, s),
         Bridged(p, n, p2, n2, s, q)
  PROVE  Neighbours(p2, n2, r)
<1> SUFFICES ASSUME NEW t \in 1 .. Len(r)
             PROVE  p2[r[t]] = At(r, t - 1) /\ n2[r[t]] = At(r, t + 1)
  BY DEF Neighbours
<1>1. /\ Len(s) \in Nat /\ Len(r) = Len(s) - 1 /\ t \in Int /\ q \in Int
      /\ r[t] = IF t < q THEN s[t] ELSE s[t + 1]
  BY DEF Removed
<1>2. \A k \in Int : At(r, k) = IF k < q THEN At(s, k) ELSE At(s, k + 1)
  BY RemovedAt
<1>3. \A m \in 1 .. Len(s), k \in Int : s[m] = At(s, k) <=> m = k
  BY AtInjective
<1>4. ASSUME NEW m \in 1 .. Len(s)
      PROVE  /\ p2[s[m]] = IF m = q + 1 THEN At(s, q - 1) ELSE At(s, m - 1)
             /\ n2[s[m]] = IF m = q - 1 THEN At(s, q + 1) ELSE At(s, m + 1)
  <2>1. /\ s[m] \in Nodes /\ p[s[m]] = At(s, m - 1) /\ n[s[m]] = At(s, m + 1)
    BY DEF Neighbours
  <2>2. /\ s[m] = At(s, q + 1) <=> m = q + 1
        /\ s[m] = At(s, q - 1) <=> m = q - 1
    BY <1>1, <1>3
  <2>3. QED
    BY <2>1, <2>2 DEF Bridged
<1>5. CASE t < q
  <2>1. t \in 1 .. Len(s) /\ r[t] = s[t]
    BY <1>1, <1>5
  <2>2. /\ At(r, t - 1) = At(s, t - 1)
        /\ At(r, t + 1) = IF t = q - 1 THEN At(s, q + 1) ELSE At(s, t + 1)
    <3>1. At(r, t - 1) = At(s, t - 1)
      BY <1>1, <1>2, <1>5, SMTT(60)
    <3>2. At(r, t + 1) = IF t + 1 < q THEN At(s, t + 1) ELSE At(s, (t + 1) + 1)
      BY <1>1, <1>2, SMTT(60)
    <3>3. QED
      BY <1>1, <1>5, <3>1, <3>2
  <2>3. QED
    BY <1>1, <1>4, <1>5, <2>1, <2>2
<1>6. CASE t >= q
  <2>1. t + 1 \in 1 .. Len(s) /\ r[t] = s[t + 1]
    BY <1>1, <1>6
  <2>2. /\ p2[s[t + 1]] = IF t = q THEN At(s, q - 1) ELSE At(s, t)
        /\ n2[s[t + 1]] = At(s, t + 2)
    BY <1>1, <1>4, <1>6, <2>1, SMTT(60)
  <2>3. /\ At(r, t - 1) = IF t = q THEN At(s, q - 1) ELSE At(s, t)
        /\ At(r, t + 1) = At(s, t + 2)
    <3>1. PICK k \in Int : k = t - 1
      BY <1>1
    <3>2. PICK l \in Int : l = t + 1
      BY <1>1
    <3>3. /\ At(r, k) = IF k < q THEN At(s, k) ELSE At(s, k + 1)
          /\ At(r, l) = IF l < q THEN At(s, l) ELSE At(s, l + 1)
      BY <1>2
    <3>4. k + 1 = t /\ l + 1 = t + 2
      BY <1>1, <3>1, <3>2
    <3>5. QED
      BY <1>1, <1>6, <3>1, <3>2, <3>3, <3>4
  <2>4. QED
    BY <2>1, <2>2, <2>3
<1>7. QED
  BY <1>1, <1>5, <1>6

(* _remove leaves a chain that spells the sequence without the node. *)
LEMMA UnlinkSpells ==
  ASSUME NEW c, NEW s, Chain(c, s), NEW q \in 1 .. Len(s),
         NEW r, Removed(r, s, q)
  PROVE  Chain(Unlink(c, s[q]), r)
<1> DEFINE dest == s[q]
           u == Unlink(c, dest)
           before == At(s, q - 1)
           after == At(s, q + 1)
<1>1. /\ s \in Seq(Nodes) /\ Len(s) \in Nat /\ q \in Nat /\ Injective(s)
      /\ c.head \in Header /\ c.links \in Links
      /\ Len(r) = Len(s) - 1
  BY DEF Chain, Removed
<1>2. /\ c.head = [_first |-> At(s, 1), _last |-> At(s, Len(s)),
                   _length |-> Len(s)]
      /\ \A t \in 1 .. Len(s) : /\ c.links.prev[s[t]] = At(s, t - 1)
                                /\ c.links.next[s[t]] = At(s, t + 1)
  BY <1>1, SpellsAt DEF Chain
<1>3. /\ c.links.prev[dest] = before /\ c.links.next[dest] = after
      /\ before \in Nodes \cup {Null} /\ after \in Nodes \cup {Null}
  BY <1>1, <1>2 DEF At
<1>4. /\ u = [head |-> u.head, links |-> u.links]
      /\ u.head = [_first |-> IF dest = c.head._first THEN after
                              ELSE c.head._first,
                   _last |-> IF dest = c.head._last THEN before
                             ELSE c.head._last,
                   _length |-> c.head._length - 1]
  BY <1>3 DEF Unlink
<1>5. /\ u.links \in Links
      /\ \A x \in Nodes :
           /\ u.links.prev[x] = IF x = after THEN before ELSE c.links.prev[x]
           /\ u.links.next[x] = IF x = before THEN after ELSE c.links.next[x]
  BY <1>1, <1>3, NodesAssumption, ZenonT(40) DEF Unlink, Links
<1>6. Neighbours(u.links.prev, u.links.next, r)
  <2>1. Neighbours(c.links.prev, c.links.next, s)
    BY <1>2 DEF Neighbours
  <2>2. Bridged(c.links.prev, c.links.next, u.links.prev, u.links.next, s, q)
    BY <1>5 DEF Bridged
  <2>3. QED
    BY <1>1, <2>1, <2>2, SpliceOut
<1>7. u.head = [_first |-> At(r, 1), _last |-> At(r, Len(r)), _length |-> Len(r)]
  <2>1. \A k \in Int : At(r, k) = IF k < q THEN At(s, k) ELSE At(s, k + 1)
    BY <1>1, RemovedAt
  <2>2. /\ At(r, 1) = IF q = 1 THEN after ELSE At(s, 1)
        /\ At(r, Len(r)) = IF q = Len(s) THEN before ELSE At(s, Len(s))
    <3>1. /\ At(r, 1) = IF 1 < q THEN At(s, 1) ELSE At(s, 1 + 1)
          /\ At(r, Len(r)) = IF Len(r) < q THEN At(s, Len(r))
                             ELSE At(s, Len(r) + 1)
      BY <1>1, <2>1, SMTT(60)
    <3>2. Len(r) + 1 = Len(s) /\ (q = 1 => 1 + 1 = q + 1)
      BY <1>1
    <3>3. QED
      BY <1>1, <3>1, <3>2
  <2>3. \A k \in Int : dest = At(s, k) <=> q = k
    BY <1>1, AtInjective
  <2>4. (dest = c.head._first <=> q = 1) /\ (dest = c.head._last <=> q = Len(s))
    BY <1>1, <1>2, <2>3
  <2>5. QED
    BY <1>1, <1>2, <1>4, <2>2, <2>4
<1>8. u.head \in Header
  BY <1>1, <1>7 DEF Header, At, Removed
<1>9. r \in Seq(Nodes) /\ Injective(r)
  BY <1>1, RemovedInjective
<1>10. Spells(u, r)
  BY <1>6, <1>7, <1>9, SpellsAt DEF Neighbours
<1>11. QED
  BY <1>4, <1>5, <1>8, <1>9, <1>10 DEF Chain

(* Constructing a node that is not in the sequence does not disturb it. *)
LEMMA FreshSpells ==
  ASSUME NEW c, NEW s, Chain(c, s), NEW node \in Nodes,
         \A t \in 1 .. Len(s) : s[t] # node
  PROVE  /\ Chain([head |-> c.head, links |-> Fresh(c.links, node)], s)
         /\ Fresh(c.links, node).prev[node] = Null
         /\ Fresh(c.links, node).next[node] = Null
<1> DEFINE l == Fresh(c.links, node)
           f == [head |-> c.head, links |-> l]
<1>1. /\ s \in Seq(Nodes) /\ Injective(s) /\ Spells(c, s)
      /\ c.head \in Header /\ c.links \in Links
  BY DEF Chain
<1>2. /\ l \in Links
      /\ \A x \in Nodes :
           /\ l.prev[x] = IF x = node THEN Null ELSE c.links.prev[x]
           /\ l.next[x] = IF x = node THEN Null ELSE c.links.next[x]
  BY <1>1 DEF Fresh, Links
<1>3. f.head = c.head /\ f.links = l
  OBVIOUS
<1>4. Spells(f, s)
  <2>1. \A t \in 1 .. Len(s) : s[t] \in Nodes
    BY <1>1
  <2>2. /\ c.head = [_first |-> At(s, 1), _last |-> At(s, Len(s)),
                     _length |-> Len(s)]
        /\ \A t \in 1 .. Len(s) : /\ c.links.prev[s[t]] = At(s, t - 1)
                                  /\ c.links.next[s[t]] = At(s, t + 1)
    BY <1>1, SpellsAt
  <2> HIDE DEF f, l
  <2>3. QED
    BY <1>1, <1>2, <1>3, <2>1, <2>2, SpellsAt, ZenonT(40)
<1>5. QED
  BY <1>1, <1>2, <1>3, <1>4 DEF Chain

-----------------------------------------------------------------------------
(* A set of natural numbers has a least element. *)
LEMMA LeastOf ==
  ASSUME NEW T, T \subseteq Nat, T # {}
  PROVE  \E x \in T : \A y \in T : x <= y
<1> DEFINE less == {ss \in Nat \X Nat : ss[1] < ss[2]}
<1>1. less = OpToRel(<, Nat)
  BY DEF OpToRel
<1>2. IsWellFoundedOn(less, Nat)
  BY <1>1, NatLessThanWellFounded
<1>3. \A x, y \in Nat : <<y, x>> \in less <=> y < x
  OBVIOUS
<1> HIDE DEF less
<1>4. \E x \in T : \A y \in T : ~ (<<y, x>> \in less)
  BY <1>2, WFMin
<1>5. PICK x \in T : \A y \in T : ~ (<<y, x>> \in less)
  BY <1>4
<1>6. ASSUME NEW y \in T
      PROVE  x <= y
  <2>1. x \in Nat /\ y \in Nat
    OBVIOUS
  <2>2. ~ (y < x)
    BY <1>3, <1>5, <2>1
  <2>3. QED
    BY <2>1, <2>2
<1>7. QED
  BY <1>6

-----------------------------------------------------------------------------
(* What the calls do to the sequence of items. *)
LEMMA InsertAtInserts ==
  ASSUME NEW s \in Seq(Nodes), NEW q \in 1 .. Len(s) + 1, NEW node \in Nodes
  PROVE  Inserted(InsertAt(s, q, node), s, q, node)
<1> DEFINE left == SubSeq(s, 1, q - 1)
           right == SubSeq(s, q, Len(s))
           r == InsertAt(s, q, node)
<1>1. /\ Len(s) \in Nat /\ q \in Nat /\ \A t \in 1 .. Len(s) : s[t] \in Nodes
  OBVIOUS
<1>2. /\ left \in Seq(Nodes) /\ Len(left) = q - 1
      /\ \A t \in 1 .. q - 1 : left[t] = s[t]
  BY <1>1
<1>3. /\ right \in Seq(Nodes) /\ Len(right) = Len(s) - q + 1
      /\ \A t \in 1 .. Len(s) - q + 1 : right[t] = s[q + t - 1]
  BY <1>1
<1>4. r = (left \o <<node>>) \o right
  BY DEF InsertAt
<1> HIDE DEF left, right, r
<1>5. /\ left \o <<node>> \in Seq(Nodes) /\ Len(left \o <<node>>) = q
      /\ \A t \in 1 .. q : (left \o <<node>>)[t] = IF t < q THEN s[t] ELSE node
  BY <1>1, <1>2
<1>6. r \in Seq(Nodes) /\ Len(r) = Len(s) + 1
  BY <1>1, <1>3, <1>4, <1>5
<1>7. ASSUME NEW t \in 1 .. Len(r)
      PROVE  r[t] = IF t < q THEN s[t] ELSE IF t = q THEN node ELSE s[t - 1]
  <2>1. CASE t <= q
    BY <1>1, <1>3, <1>4, <1>5, <1>6, <2>1
  <2>2. CASE t > q
    <3>1. r[t] = right[t - q] /\ t - q \in 1 .. Len(s) - q + 1
      BY <1>1, <1>3, <1>4, <1>5, <1>6, <2>2
    <3>2. q + (t - q) - 1 = t - 1
      BY <1>1
    <3>3. QED
      BY <1>3, <2>2, <3>1, <3>2
  <2>3. QED
    BY <1>1, <2>1, <2>2
<1>8. QED
  BY <1>6, <1>7 DEF Inserted, r

LEMMA PushInserts ==
  ASSUME NEW s \in Seq(Nodes), NEW node \in Nodes
  PROVE  /\ Inserted(<<node>> \o s, s, 1, node)
         /\ Inserted(Append(s, node), s, Len(s) + 1, node)
BY DEF Inserted

LEMMA RemoveAtRemoves ==
  ASSUME NEW s \in Seq(Nodes), NEW q \in 1 .. Len(s)
  PROVE  Removed(RemoveAt(s, q), s, q)
<1> DEFINE left == SubSeq(s, 1, q - 1)
           right == SubSeq(s, q + 1, Len(s))
           r == RemoveAt(s, q)
<1>1. /\ Len(s) \in Nat /\ q \in Nat /\ \A t \in 1 .. Len(s) : s[t] \in Nodes
  OBVIOUS
<1>2. /\ left \in Seq(Nodes) /\ Len(left) = q - 1
      /\ \A t \in 1 .. q - 1 : left[t] = s[t]
  BY <1>1
<1>3. /\ right \in Seq(Nodes) /\ Len(right) = Len(s) - q
      /\ \A t \in 1 .. Len(s) - q : right[t] = s[q + t]
  BY <1>1
<1>4. r = left \o right
  BY DEF RemoveAt
<1> HIDE DEF left, right, r
<1>5. r \in Seq(Nodes) /\ Len(r) = Len(s) - 1
  <2>1. left \in Seq(Nodes) /\ right \in Seq(Nodes)
    BY <1>2, <1>3
  <2>2. r \in Seq(Nodes) /\ Len(r) = Len(left) + Len(right)
    BY <1>4, <2>1
  <2>3. Len(left) = q - 1 /\ Len(right) = Len(s) - q
    BY <1>2, <1>3
  <2>4. QED
    BY <1>1, <2>2, <2>3
<1>6. ASSUME NEW t \in 1 .. Len(r)
      PROVE  r[t] = IF t < q THEN s[t] ELSE s[t + 1]
  <2>1. CASE t < q
    BY <1>1, <1>2, <1>3, <1>4, <1>5, <2>1
  <2>2. CASE t >= q
    <3>1. r[t] = right[t - (q - 1)] /\ t - (q - 1) \in 1 .. Len(s) - q
      BY <1>1, <1>2, <1>3, <1>4, <1>5, <2>2
    <3>2. q + (t - (q - 1)) = t + 1
      BY <1>1
    <3>3. QED
      BY <1>3, <2>2, <3>1, <3>2
  <2>3. QED
    BY <1>1, <2>1, <2>2
<1>7. QED
  BY <1>5, <1>6 DEF Removed, r

-----------------------------------------------------------------------------
(* The inductive invariant: the chain spells the items, all of them live,  *)
(* and no call has gone wrong.                                             *)
LInv ==
  /\ Chain(chain, items)
  /\ list_live \subseteq Nodes /\ Linked \subseteq list_live
  /\ fault = "none"

(* What the invariant says of the state, item by item. *)
LEMMA LInvFacts ==
  ASSUME LInv
  PROVE  /\ items \in Seq(Nodes) /\ Len(items) \in Nat /\ Injective(items)
         /\ head \in Header /\ list_links \in Links
         /\ \A t \in 1 .. Len(items) : items[t] \in Nodes /\ items[t] \in list_live
         /\ head = [_first |-> At(items, 1), _last |-> At(items, Len(items)),
                    _length |-> Len(items)]
         /\ \A t \in 1 .. Len(items) :
              /\ list_links.prev[items[t]] = At(items, t - 1)
              /\ list_links.next[items[t]] = At(items, t + 1)
<1>1. /\ items \in Seq(Nodes) /\ Injective(items) /\ Spells(chain, items)
      /\ head \in Header /\ list_links \in Links
  BY DEF LInv, Chain, chain
<1>2. /\ Len(items) \in Nat /\ DOMAIN items = 1 .. Len(items)
      /\ \A t \in 1 .. Len(items) : items[t] \in Nodes
  BY <1>1
<1>3. \A t \in 1 .. Len(items) : items[t] \in list_live
  BY <1>2 DEF LInv, Linked, ToSet
<1>4. /\ head = [_first |-> At(items, 1), _last |-> At(items, Len(items)),
                 _length |-> Len(items)]
      /\ \A t \in 1 .. Len(items) :
           /\ list_links.prev[items[t]] = At(items, t - 1)
           /\ list_links.next[items[t]] = At(items, t + 1)
  <2>1. chain.head = head /\ chain.links = list_links
    BY DEF chain
  <2>2. Spells(chain, items) <=>
          /\ chain.head = [_first |-> At(items, 1),
                           _last |-> At(items, Len(items)),
                           _length |-> Len(items)]
          /\ \A t \in 1 .. Len(items) :
               /\ chain.links.prev[items[t]] = At(items, t - 1)
               /\ chain.links.next[items[t]] = At(items, t + 1)
    BY <1>1, SpellsAt
  <2>3. QED
    BY <1>1, <2>1, <2>2
<1>5. QED
  BY <1>1, <1>2, <1>3, <1>4

(* The nodes a call finds by following links are live, or there are none. *)
LEMMA ItemsLive ==
  ASSUME LInv
  PROVE  \A k \in Int : At(items, k) \in list_live \cup {Null}
BY LInvFacts DEF At

(* A node is an item exactly when it is found at its place. *)
LEMMA PlaceOf ==
  ASSUME LInv, NEW n \in Linked
  PROVE  Position(n) \in 1 .. Len(items) /\ items[Position(n)] = n
<1>1. \E q \in 1 .. Len(items) : items[q] = n
  BY LInvFacts DEF Linked, ToSet
<1>2. QED
  BY <1>1 DEF Position

(* A call that attaches a node to the chain the links make keeps the       *)
(* invariant, and touches live nodes only.                                 *)
LEMMA AttachKeepsLInv ==
  ASSUME LInv, NEW c, Chain(c, items), c.head = head,
         \A t \in 1 .. Len(items) : /\ c.links.prev[items[t]] = At(items, t - 1)
                                    /\ c.links.next[items[t]] = At(items, t + 1),
         NEW dir \in Directions, NEW q \in 1 .. Len(items) + 1,
         NEW n \in Nodes \ Linked,
         NEW dest, dest = IF dir = "prev" THEN At(items, q) ELSE At(items, q - 1),
         dest = Null => Len(items) = 0,
         AttachIsClean(c, dir, dest, n),
         n \in list_live', list_live \subseteq list_live', list_live' \subseteq Nodes,
         head' = Attach(c, dir, dest, n).head,
         list_links' = Attach(c, dir, dest, n).links,
         fault' = IF AttachTouches(c, dir, dest, n) \subseteq list_live'
                  THEN "none" ELSE "use_after_free",
         Inserted(items', items, q, n)
  PROVE  LInv'
<1>1. \A t \in 1 .. Len(items) : items[t] # n
  BY LInvFacts DEF Linked, ToSet
<1>2. Chain(Attach(c, dir, dest, n), items')
  BY <1>1, AttachSpells, LInvFacts
<1>3. Chain(chain', items')
  BY <1>2 DEF Chain, chain
<1>4. Linked' \subseteq list_live'
  <2>1. /\ items' \in Seq(Nodes) /\ Len(items') = Len(items) + 1
        /\ \A t \in 1 .. Len(items') :
             items'[t] = IF t < q THEN items[t] ELSE IF t = q THEN n ELSE items[t - 1]
    BY DEF Inserted
  <2>2. ASSUME NEW t \in 1 .. Len(items')
        PROVE  items'[t] \in list_live'
    <3>1. (t < q => t \in 1 .. Len(items)) /\ (t > q => t - 1 \in 1 .. Len(items))
      BY <2>1, LInvFacts
    <3>2. QED
      BY <2>1, <3>1, LInvFacts
  <2>3. QED
    BY <2>1, <2>2 DEF Linked, ToSet
<1>5. fault' = "none"
  <2>1. dest \in list_live \cup {Null}
    BY ItemsLive, LInvFacts
  <2>2. dest # Null => c.links[dir][dest] \in list_live \cup {Null}
    <3>1. CASE dest # Null /\ dir = "prev"
      <4>1. q \in 1 .. Len(items) /\ dest = items[q]
        BY <3>1 DEF At
      <4>2. c.links.prev[dest] = At(items, q - 1)
        BY <4>1
      <4>3. QED
        BY <3>1, <4>1, <4>2, ItemsLive
    <3>2. CASE dest # Null /\ dir = "next"
      <4>1. q - 1 \in 1 .. Len(items) /\ dest = items[q - 1]
        BY <3>2 DEF At
      <4>2. c.links.next[dest] = At(items, q)
        BY <4>1, LInvFacts
      <4>3. QED
        BY <3>2, <4>1, <4>2, ItemsLive
    <3>3. QED
      BY <3>1, <3>2 DEF Directions
  <2>3. AttachTouches(c, dir, dest, n) \subseteq list_live'
    BY <2>1, <2>2 DEF AttachTouches
  <2>4. QED
    BY <2>3
<1>6. QED
  BY <1>3, <1>4, <1>5 DEF LInv

(* So does a call that takes an item out; the node may be deleted then.    *)
LEMMA TakeOutKeepsLInv ==
  ASSUME LInv, NEW n \in Linked, TakeOut(n), list_live' \in {list_live, list_live \ {n}}
  PROVE  LInv'
<1> DEFINE q == Position(n)
<1>1. q \in 1 .. Len(items) /\ items[q] = n
  BY PlaceOf
<1>2. /\ head' = Unlink(chain, n).head /\ list_links' = Unlink(chain, n).links
      /\ fault' = IF UnlinkTouches(chain, n) \subseteq list_live
                  THEN "none" ELSE "use_after_free"
      /\ items' = RemoveAt(items, q)
  BY DEF TakeOut, Touch
<1> HIDE DEF q
<1>3. Removed(items', items, q)
  BY <1>1, <1>2, RemoveAtRemoves, LInvFacts
<1>4. Chain(chain', items')
  <2>1. Chain(Unlink(chain, n), items')
    BY <1>1, <1>3, UnlinkSpells DEF LInv
  <2>2. QED
    BY <1>2, <2>1 DEF Chain, chain
<1>5. Linked' \subseteq list_live'
  <2>1. /\ items' \in Seq(Nodes) /\ Len(items') = Len(items) - 1
        /\ \A t \in 1 .. Len(items') :
             items'[t] = IF t < q THEN items[t] ELSE items[t + 1]
    BY <1>3 DEF Removed
  <2>2. ASSUME NEW t \in 1 .. Len(items')
        PROVE  items'[t] \in list_live \ {n}
    <3>1. PICK k \in 1 .. Len(items) : k # q /\ items'[t] = items[k]
      BY <1>1, <2>1, LInvFacts
    <3>2. items[k] # items[q]
      BY <1>1, <3>1, LInvFacts DEF Injective
    <3>3. QED
      BY <1>1, <3>1, <3>2, LInvFacts
  <2>3. QED
    BY <2>1, <2>2 DEF Linked, ToSet
<1>6. fault' = "none"
  <2>1. /\ chain.links.prev[n] = At(items, q - 1)
        /\ chain.links.next[n] = At(items, q + 1)
    BY <1>1, LInvFacts DEF chain
  <2>2. n \in list_live
    BY DEF LInv
  <2>3. At(items, q - 1) \in list_live \cup {Null} /\ At(items, q + 1) \in list_live \cup {Null}
    BY <1>1, ItemsLive
  <2>4. UnlinkTouches(chain, n) \subseteq list_live
    BY <2>1, <2>2, <2>3 DEF UnlinkTouches
  <2>5. QED
    BY <1>2, <2>4
<1>7. QED
  BY <1>4, <1>5, <1>6 DEF LInv

(* There are no more items than nodes. *)
LEMMA ItemsFit ==
  ASSUME LInv
  PROVE  Cardinality(Nodes) \in Nat /\ Len(items) <= Cardinality(Nodes)
<1>1. items \in Injection(1 .. Len(items), Nodes)
  <2>1. items \in [1 .. Len(items) -> Nodes]
    BY LInvFacts
  <2>2. QED
    BY <2>1, LInvFacts DEF Injection, IsInjective, Injective
<1>2. Cardinality(1 .. Len(items)) = Len(items)
  <2>1. PICK n \in Nat : n = Len(items)
    BY LInvFacts
  <2>2. Cardinality(1 .. n) = IF 1 > n THEN 0 ELSE n - 1 + 1
    BY FS_Interval
  <2>3. QED
    BY <2>1, <2>2
<1>3. QED
  BY <1>1, <1>2, FS_Injection, FS_CardinalityType, NodesAssumption

(* Following next from the first node, clear meets the items in order and  *)
(* then the null pointer.                                                  *)
LEMMA NthIsItem ==
  ASSUME LInv
  PROVE  Nth = [q \in 0 .. Cardinality(Nodes) |-> At(items, q + 1)]
<1> DEFINE N == Cardinality(Nodes)
           walk(f) == [q \in 0 .. N |->
                         IF q = 0 THEN head._first
                         ELSE IF f[q - 1] = Null THEN Null
                         ELSE list_links.next[f[q - 1]]]
           g == [q \in 0 .. N |-> At(items, q + 1)]
<1>1. N \in Nat
  BY ItemsFit
<1>2. ASSUME NEW f, f = walk(f), NEW q \in 1 .. N, f[q - 1] = At(items, q)
      PROVE  f[q] = At(items, q + 1)
  <2>1. q \in 0 .. N /\ q # 0 /\ q \in Nat
    BY <1>1
  <2>2. walk(f)[q] = IF f[q - 1] = Null THEN Null ELSE list_links.next[f[q - 1]]
    BY <2>1
  <2>3. f[q] = IF f[q - 1] = Null THEN Null ELSE list_links.next[f[q - 1]]
    BY <1>2, <2>2
  <2>4. CASE q \in 1 .. Len(items)
    <3>1. f[q - 1] = items[q] /\ items[q] # Null
      BY <1>2, <2>4, LInvFacts, NodesAssumption DEF At
    <3>2. QED
      BY <2>3, <2>4, <3>1, LInvFacts
  <2>5. CASE q \notin 1 .. Len(items)
    <3>1. At(items, q) = Null /\ At(items, q + 1) = Null
      BY <2>1, <2>5, LInvFacts DEF At
    <3>2. f[q - 1] = Null
      BY <1>2, <3>1
    <3>3. QED
      BY ONLY <2>3, <3>1, <3>2
  <2>6. QED
    BY <2>4, <2>5
<1>3. head._first = At(items, 1)
  BY LInvFacts
<1>4. g = walk(g)
  <2>1. ASSUME NEW q \in 0 .. N
        PROVE  g[q] = walk(g)[q]
    <3>1. CASE q = 0
      BY <1>3, <3>1
    <3>2. CASE q # 0
      <4>1. q \in 1 .. N /\ q - 1 \in 0 .. N /\ (q - 1) + 1 = q
        BY <1>1, <3>2
      <4>2. g[q - 1] = At(items, q) /\ g[q] = At(items, q + 1)
        BY <4>1
      <4>3. walk(g)[q] = IF g[q - 1] = Null THEN Null ELSE list_links.next[g[q - 1]]
        BY <3>2
      <4>4. CASE q \in 1 .. Len(items)
        <5>1. g[q - 1] = items[q] /\ items[q] # Null
          BY <4>2, <4>4, LInvFacts, NodesAssumption DEF At
        <5>2. list_links.next[items[q]] = At(items, q + 1)
          BY <4>4, LInvFacts
        <5>3. QED
          BY <4>2, <4>3, <5>1, <5>2
      <4>5. CASE q \notin 1 .. Len(items)
        <5>1. At(items, q) = Null /\ At(items, q + 1) = Null
          BY <4>1, <4>5, LInvFacts DEF At
        <5>2. QED
          BY <4>2, <4>3, <5>1
      <4>6. QED
        BY <4>4, <4>5
    <3>3. QED
      BY <3>1, <3>2
  <2>2. QED
    BY <2>1
<1>5. Nth = walk(Nth)
  <2>1. Nth = CHOOSE f : f = walk(f)
    BY DEF Nth
  <2>2. \E f : f = walk(f)
    BY <1>4
  <2>3. QED
    BY <2>1, <2>2
<1>6. \A q \in 0 .. N : Nth[q] = At(items, q + 1)
  <2> DEFINE T == {q \in 0 .. N : Nth[q] # At(items, q + 1)}
  <2>1. SUFFICES ASSUME T # {} PROVE FALSE
    OBVIOUS
  <2>2. PICK q \in T : \A k \in T : q <= k
    <3>1. T \subseteq Nat
      BY <1>1
    <3> HIDE DEF T
    <3>2. QED
      BY <2>1, <3>1, LeastOf
  <2>3. q \in 0 .. N /\ Nth[q] # At(items, q + 1)
    OBVIOUS
  <2>4. q # 0
    <3>1. 0 \in 0 .. N /\ 0 + 1 = 1
      BY <1>1
    <3>2. walk(Nth)[0] = head._first
      BY <3>1
    <3>3. Nth[0] = At(items, 0 + 1)
      BY ONLY <1>3, <1>5, <3>1, <3>2
    <3>4. QED
      BY ONLY <2>3, <3>3
  <2>5. /\ q - 1 \in 0 .. N /\ q \in 1 .. N
        /\ q - 1 \notin T /\ (q - 1) + 1 = q
    BY <1>1, <2>2, <2>3, <2>4
  <2>6. Nth[q - 1] = At(items, q)
    BY <2>5
  <2>7. QED
    BY <1>2, <1>5, <2>3, <2>5, <2>6
<1>7. Nth = [q \in 0 .. N |-> Nth[q]]
  BY <1>5
<1>8. QED
  BY <1>6, <1>7

-----------------------------------------------------------------------------
LEMMA InitLInv == ListInit => LInv
<1>1. SUFFICES ASSUME ListInit PROVE LInv
  OBVIOUS
<1>2. /\ head = EmptyHead /\ list_links = NoLinks /\ items = <<>>
      /\ list_live = {} /\ fault = "none"
  BY <1>1 DEF ListInit
<1>3. EmptyHead \in Header /\ NoLinks \in Links
  BY DEF EmptyHead, Header, NoLinks, Links
<1>4. items \in Seq(Nodes) /\ Len(items) = 0 /\ Linked = {}
  BY <1>2 DEF Linked, ToSet
<1>5. Spells(chain, items)
  BY <1>2, <1>4 DEF Spells, chain, EmptyHead
<1>6. QED
  BY <1>2, <1>3, <1>4, <1>5 DEF LInv, Chain, chain, Injective

(* Attaching one of the client's nodes, at an end or next to another node. *)
LEMMA AttachToKeepsLInv ==
  ASSUME LInv, NEW dir \in Directions, NEW dest, NEW n \in Nodes,
         MayAttach(n), AttachTo(dir, dest, n), list_sound',
         NEW q \in 1 .. Len(items) + 1,
         dest = IF dir = "prev" THEN At(items, q) ELSE At(items, q - 1),
         dest = Null => Len(items) = 0,
         Inserted(items', items, q, n)
  PROVE  LInv'
<1> DEFINE c == chain
<1>1. /\ Chain(c, items) /\ c.head = head /\ c.links = list_links
      /\ list_live \subseteq Nodes /\ n \in list_live /\ n \notin Linked
      /\ AttachIsClean(c, dir, dest, n)
  BY DEF LInv, MayAttach, AttachTo, chain
<1>2. /\ list_live' = list_live
      /\ head' = Attach(c, dir, dest, n).head
      /\ list_links' = Attach(c, dir, dest, n).links
      /\ fault' = IF AttachTouches(c, dir, dest, n) \subseteq list_live'
                  THEN "none" ELSE "use_after_free"
  BY DEF AttachTo, Touch
<1> HIDE DEF c
<1>3. \A t \in 1 .. Len(items) : /\ c.links.prev[items[t]] = At(items, t - 1)
                                 /\ c.links.next[items[t]] = At(items, t + 1)
  BY <1>1, LInvFacts
<1>4. QED
  BY <1>1, <1>2, <1>3, AttachKeepsLInv

(* The two ends, as places to insert at. *)
LEMMA Ends ==
  ASSUME LInv, NEW dir \in Directions
  PROVE  LET q == IF dir = "prev" THEN 1 ELSE Len(items) + 1
             dest == head[EndOf(dir)]
         IN /\ q \in 1 .. Len(items) + 1
            /\ dest = IF dir = "prev" THEN At(items, q) ELSE At(items, q - 1)
            /\ dest = Null => Len(items) = 0
            /\ dest # Null => list_links[dir][dest] = Null /\ dest \in Linked
<1>1. /\ Len(items) \in Nat
      /\ head._first = At(items, 1) /\ head._last = At(items, Len(items))
      /\ \A t \in 1 .. Len(items) : items[t] \in Linked /\ items[t] # Null
  BY LInvFacts, NodesAssumption DEF Linked, ToSet
<1>2. /\ Len(items) > 0 => /\ list_links.prev[items[1]] = At(items, 0)
                           /\ list_links.next[items[Len(items)]]
                                = At(items, Len(items) + 1)
      /\ At(items, 0) = Null /\ At(items, Len(items) + 1) = Null
  <2>1. At(items, 0) = Null /\ At(items, Len(items) + 1) = Null
    BY <1>1 DEF At
  <2>2. CASE Len(items) > 0
    <3>1. 1 \in 1 .. Len(items) /\ Len(items) \in 1 .. Len(items) /\ 1 - 1 = 0
      BY <1>1, <2>2
    <3>2. /\ list_links.prev[items[1]] = At(items, 1 - 1)
          /\ list_links.next[items[Len(items)]] = At(items, Len(items) + 1)
      BY <3>1, LInvFacts
    <3>3. QED
      BY <2>1, <3>1, <3>2
  <2>3. QED
    BY <2>1, <2>2
<1>3. CASE dir = "prev"
  BY <1>1, <1>2, <1>3 DEF EndOf, At
<1>4. CASE dir = "next"
  BY <1>1, <1>2, <1>4 DEF EndOf, At
<1>5. QED
  BY <1>3, <1>4 DEF Directions

LEMMA NextLInv == LInv /\ [ListNext]_list_vars /\ list_sound' => LInv'
<1>1. SUFFICES ASSUME LInv, [ListNext]_list_vars, list_sound' PROVE LInv'
  OBVIOUS
<1>2. ASSUME NEW n \in Nodes, MakeNode(n)
      PROVE  LInv'
  <2>1. \A t \in 1 .. Len(items) : items[t] # n
    BY <1>1, <1>2, LInvFacts DEF MakeNode
  <2>2. Chain([head |-> chain.head, links |-> Fresh(chain.links, n)], items)
    BY <1>1, <2>1, FreshSpells DEF LInv
  <2>3. Chain(chain', items')
    BY <1>2, <2>2 DEF MakeNode, chain
  <2>4. QED
    BY <1>1, <1>2, <2>3 DEF MakeNode, LInv, Linked
<1>3. ASSUME NEW dir \in Directions, NEW n \in Nodes, Push(dir, n)
      PROVE  LInv'
  <2> DEFINE c == [head |-> head, links |-> Fresh(list_links, n)]
             dest == head[EndOf(dir)]
             q == IF dir = "prev" THEN 1 ELSE Len(items) + 1
  <2>1. /\ n \notin list_live /\ list_live' = list_live \cup {n}
        /\ fault' = IF AttachTouches(c, dir, dest, n) \subseteq list_live'
                    THEN "none" ELSE "use_after_free"
        /\ head' = Attach(c, dir, dest, n).head
        /\ list_links' = Attach(c, dir, dest, n).links
        /\ items' = IF dir = "prev" THEN <<n>> \o items ELSE Append(items, n)
    BY <1>3 DEF Push
  <2>2. /\ q \in 1 .. Len(items) + 1
        /\ dest = IF dir = "prev" THEN At(items, q) ELSE At(items, q - 1)
        /\ dest = Null => Len(items) = 0
        /\ dest # Null => list_links[dir][dest] = Null /\ dest \in Linked
    BY <1>1, Ends
  <2>3. Inserted(items', items, q, n)
    BY <1>1, <2>1, PushInserts, LInvFacts
  <2>4. \A t \in 1 .. Len(items) : items[t] # n
    BY <1>1, <2>1, LInvFacts
  <2>5. /\ Chain(c, items)
        /\ c.links.prev[n] = Null /\ c.links.next[n] = Null
    BY <1>1, <2>4, FreshSpells DEF LInv, chain
  <2>6. \A x \in Nodes \ {n} : /\ c.links.prev[x] = list_links.prev[x]
                               /\ c.links.next[x] = list_links.next[x]
    BY <1>1, LInvFacts DEF Fresh, Links
  <2>7. n \notin Linked /\ Linked \subseteq Nodes
    BY <1>1, <2>1 DEF LInv
  <2>8. AttachIsClean(c, dir, dest, n)
    <3>1. c.links[dir][n] = Null
      BY <2>5 DEF Directions
    <3>2. dest # Null => c.links[dir][dest] = Null
      BY <2>2, <2>6, <2>7 DEF Directions
    <3>3. QED
      BY <3>1, <3>2 DEF AttachIsClean
  <2>9. \A t \in 1 .. Len(items) : /\ c.links.prev[items[t]] = At(items, t - 1)
                                   /\ c.links.next[items[t]] = At(items, t + 1)
    BY <1>1, <2>4, <2>6, LInvFacts
  <2>10. c.head = head /\ list_live' \subseteq Nodes /\ list_live \subseteq list_live' /\ n \in list_live'
    BY <1>1, <2>1 DEF LInv
  <2> HIDE DEF c, dest, q
  <2>11. QED
    BY <1>1, <2>1, <2>2, <2>3, <2>5, <2>7, <2>8, <2>9, <2>10, AttachKeepsLInv
<1>4. ASSUME NEW dir \in Directions, NEW n \in Nodes, PushNode(dir, n)
      PROVE  LInv'
  <2> DEFINE dest == head[EndOf(dir)]
             q == IF dir = "prev" THEN 1 ELSE Len(items) + 1
  <2>1. /\ MayAttach(n) /\ AttachTo(dir, dest, n)
        /\ items' = IF dir = "prev" THEN <<n>> \o items ELSE Append(items, n)
    BY <1>4 DEF PushNode
  <2>2. /\ q \in 1 .. Len(items) + 1
        /\ dest = IF dir = "prev" THEN At(items, q) ELSE At(items, q - 1)
        /\ dest = Null => Len(items) = 0
    BY <1>1, Ends
  <2>3. Inserted(items', items, q, n)
    BY <1>1, <2>1, PushInserts, LInvFacts
  <2> HIDE DEF dest, q
  <2>4. QED
    BY <1>1, <2>1, <2>2, <2>3, AttachToKeepsLInv
<1>5. ASSUME NEW dir \in Directions, NEW dest \in Nodes, NEW n \in Nodes,
             InsertNode(dir, dest, n)
      PROVE  LInv'
  <2> DEFINE q == IF dir = "prev" THEN Position(dest) ELSE Position(dest) + 1
  <2>1. /\ dest \in Linked /\ MayAttach(n) /\ AttachTo(dir, dest, n)
        /\ items' = InsertAt(items, q, n)
    BY <1>5 DEF InsertNode
  <2>2. Position(dest) \in 1 .. Len(items) /\ items[Position(dest)] = dest
    BY <1>1, <2>1, PlaceOf
  <2>3. /\ q \in 1 .. Len(items) + 1
        /\ dest = IF dir = "prev" THEN At(items, q) ELSE At(items, q - 1)
    BY <1>1, <2>2, LInvFacts DEF At
  <2>4. dest # Null
    BY NodesAssumption
  <2> HIDE DEF q
  <2>5. Inserted(items', items, q, n)
    BY <1>1, <2>1, <2>3, InsertAtInserts, LInvFacts
  <2>6. QED
    BY <1>1, <2>1, <2>3, <2>4, <2>5, AttachToKeepsLInv
<1>6. ASSUME NEW n \in Nodes, Detach(n) \/ RemoveNode(n)
      PROVE  LInv'
  BY <1>1, <1>6, TakeOutKeepsLInv DEF Detach, RemoveNode
<1>7. ASSUME NEW n \in Nodes, DeleteNode(n)
      PROVE  LInv'
  BY <1>1, <1>7 DEF DeleteNode, LInv, Linked, chain
<1>8. ASSUME NEW dir \in Directions, Pop(dir)
      PROVE  LInv'
  <2> DEFINE dest == head[EndOf(dir)]
  <2>1. head._length = Len(items)
    BY <1>1, LInvFacts
  <2>2. dest # Null /\ dest \in Linked
    BY <1>1, <1>8, <2>1, Ends DEF Pop
  <2>3. TakeOut(dest) /\ list_live' = list_live \ {dest}
    BY <1>8, <2>2 DEF Pop
  <2>4. QED
    BY <1>1, <2>2, <2>3, TakeOutKeepsLInv
<1>9. CASE ListClear
  <2>1. /\ Nth = [q \in 0 .. Cardinality(Nodes) |-> At(items, q + 1)]
        /\ Cardinality(Nodes) \in Nat /\ Len(items) <= Cardinality(Nodes)
    BY <1>1, NthIsItem, ItemsFit
  <2>2. {Nth[q] : q \in DOMAIN Nth} \subseteq list_live \cup {Null}
    BY <1>1, <2>1, ItemsLive
  <2>3. Nth[Cardinality(Nodes)] = Null
    BY <1>1, <2>1, LInvFacts DEF At
  <2>4. /\ fault' = "none" /\ head' = EmptyHead /\ items' = <<>>
        /\ list_links' = list_links /\ list_live' \subseteq list_live
    BY <1>9, <2>2, <2>3 DEF ListClear
  <2>5. EmptyHead \in Header /\ list_links \in Links
    BY <1>1, LInvFacts DEF EmptyHead, Header
  <2>6. items' \in Seq(Nodes) /\ Len(items') = 0 /\ Linked' = {}
    BY <2>4 DEF Linked, ToSet
  <2>7. Spells(chain', items')
    BY <2>4, <2>6 DEF Spells, chain, EmptyHead
  <2>8. QED
    BY <1>1, <2>4, <2>5, <2>6, <2>7 DEF LInv, Chain, chain, Injective
<1>10. CASE UNCHANGED list_vars
  BY <1>1, <1>10 DEF list_vars, LInv, Linked, chain
<1>11. QED
  BY <1>1, <1>2, <1>3, <1>4, <1>5, <1>6, <1>7, <1>8, <1>9, <1>10 DEF ListNext

(* Nothing follows an unsound call, so a call after which all have been    *)
(* sound was made in such a state.                                         *)
LEMMA InductiveL == ListSpec => [](list_sound => LInv)
<1>1. (list_sound => LInv) /\ [ListNext]_list_vars => (list_sound => LInv)'
  <2>1. ListNext => list_sound
    BY Zenon DEF ListNext, MakeNode, Push, PushNode, InsertNode, MayAttach, Detach, RemoveNode,
                 DeleteNode, Pop, ListClear, CanCall
  <2>2. UNCHANGED list_vars => list_sound' = list_sound
    BY DEF list_vars
  <2>3. QED
    BY <2>1, <2>2, NextLInv
<1>2. QED
  BY InitLInv, <1>1, PTL DEF ListSpec

(* Whatever clients do with the nodes they own, as long as they attach none*)
(* where its stale link is wrong, links spell the items from either end    *)
(* after every call, for any number of nodes: what _prepend and _append    *)
(* leave unset, and what _remove leaves in the node, does no harm.         *)
THEOREM LinksSpell == ListSpec => []LinksSpellItems
<1>1. ASSUME list_sound => LInv PROVE LinksSpellItems
  <2> SUFFICES ASSUME LInv PROVE LinksSpellItems
    BY <1>1 DEF LinksSpellItems
  <2>1. items \in Surjection(1 .. Len(items), Linked)
        /\ items \in Injection(1 .. Len(items), Linked)
    <3>1. items \in [1 .. Len(items) -> Linked]
      BY LInvFacts DEF Linked, ToSet
    <3>2. \A n \in Linked : \E q \in 1 .. Len(items) : items[q] = n
      BY PlaceOf
    <3>3. QED
      BY <3>1, <3>2, LInvFacts
      DEF Surjection, Injection, IsInjective, Injective
  <2>2. Cardinality(Linked) = Len(items)
    <3>1. PICK n \in Nat : n = Len(items)
      BY LInvFacts
    <3>2. IsFiniteSet(1 .. n) /\ Cardinality(1 .. n) = n
      BY FS_Interval
    <3>3. QED
      BY <2>1, <3>1, <3>2, FS_Surjection
  <2>3. Spells(chain, items)
    BY DEF LInv, Chain
  <2>4. ListTypeOK
    BY LInvFacts DEF ListTypeOK, LInv
  <2>5. QED
    BY <2>2, <2>3, <2>4 DEF LinksSpellItems, LInv
<1>2. QED
  BY <1>1, InductiveL, PTL

(* No sound call follows a link to a deleted node, none asserts, and clear *)
(* frees each node once.                                                   *)
THEOREM NeverFaults == ListSpec => []NoFault
<1>1. (list_sound => LInv) => NoFault
  BY DEF LInv, NoFault
<1>2. QED
  BY <1>1, InductiveL, PTL

(* An iterator from either end visits every item once, in order, stops     *)
(* behind the last, and finds its way back.                                *)
THEOREM IteratorsVisit == ListSpec => []IteratorsVisitAll
<1>1. ASSUME list_sound => LInv PROVE IteratorsVisitAll
  <2> SUFFICES ASSUME LInv, NEW dir \in Directions
               PROVE  LET seen == IF dir = "next" THEN items ELSE Reverse(items)
                          at(q) == IF q <= Len(items) THEN seen[q] ELSE Null
                      IN /\ ListBegin(dir) = at(1)
                         /\ \A q \in 1 .. Len(items) :
                              /\ ListAdvance(dir, seen[q]) = at(q + 1)
                              /\ q > 1 => Retreat(dir, seen[q]) = at(q - 1)
    BY <1>1 DEF IteratorsVisitAll
  <2> DEFINE N == Len(items)
  <2>1. /\ N \in Nat /\ head._first = At(items, 1) /\ head._last = At(items, N)
        /\ \A t \in 1 .. N : /\ list_links.prev[items[t]] = At(items, t - 1)
                             /\ list_links.next[items[t]] = At(items, t + 1)
    BY <1>1, LInvFacts
  <2>2. CASE dir = "next"
    BY <2>1, <2>2 DEF ListBegin, ListAdvance, Retreat, EndOf, Back, At
  <2>3. CASE dir = "prev"
    <3> DEFINE back == Reverse(items)
               place(q) == N - q + 1
    <3>1. \A q \in 1 .. N : /\ back[q] = items[place(q)] /\ place(q) \in 1 .. N
                            /\ place(q) - 1 = place(q + 1)
                            /\ place(q) + 1 = place(q - 1)
      BY <2>1 DEF Reverse
    <3>2. \A q \in 1 .. N + 1 :
             At(items, place(q)) = IF q <= N THEN back[q] ELSE Null
      BY <2>1, <3>1 DEF At
    <3>3. ASSUME NEW q \in 1 .. N
          PROVE  /\ list_links.prev[back[q]] = IF q + 1 <= N THEN back[q + 1] ELSE Null
                 /\ q > 1 => list_links.next[back[q]] = back[q - 1]
      <4>1. /\ list_links.prev[items[place(q)]] = At(items, place(q + 1))
            /\ list_links.next[items[place(q)]] = At(items, place(q - 1))
        BY <2>1, <3>1
      <4>2. At(items, place(q + 1)) = IF q + 1 <= N THEN back[q + 1] ELSE Null
        BY <2>1, <3>2, SMTT(60)
      <4>3. q > 1 => At(items, place(q - 1)) = back[q - 1]
        BY <2>1, <3>2, SMTT(60)
      <4>4. QED
        BY <3>1, <4>1, <4>2, <4>3
    <3>4. head._last = IF 1 <= N THEN back[1] ELSE Null
      BY <2>1, <3>2
    <3>5. QED
      BY <2>1, <2>3, <3>3, <3>4 DEF ListBegin, ListAdvance, Retreat, EndOf, Back
  <2>4. QED
    BY <2>2, <2>3 DEF Directions
<1>2. QED
  BY <1>1, InductiveL, PTL

-----------------------------------------------------------------------------
(* What a list's links lead to, and the lists of an array of buckets. *)

(* Word, of any links: heads and links change together in a step. *)
Walk(header, lk) ==
  LET nth[m \in 1 .. header._length] ==
        IF m = 1 THEN header._first
        ELSE IF nth[m - 1] = Null THEN Null ELSE lk.next[nth[m - 1]]
  IN [m \in 1 .. header._length |-> nth[m]]

LEMMA WordIsWalk == \A header : Word(header) = Walk(header, links)
BY DEF Word, Walk

(* Following next from the first node yields what the list spells.  This   *)
(* is about a recursive function: the sequence spelled satisfies its       *)
(* equation, and a least place where the two differ cannot be.             *)
LEMMA WalkSpells ==
  ASSUME NEW c, NEW s, Chain(c, s)
  PROVE  Walk(c.head, c.links) = s
<1> DEFINE n == Len(s)
           NodeAt == CHOOSE nth : nth = [m \in 1 .. c.head._length |->
                    IF m = 1 THEN c.head._first
                    ELSE IF nth[m - 1] = Null THEN Null
                         ELSE c.links.next[nth[m - 1]]]
<1>1. /\ s \in Seq(Nodes) /\ n \in Nat
      /\ c.head._first = At(s, 1) /\ c.head._length = n
      /\ \A p \in 1 .. n : c.links.next[s[p]] = At(s, p + 1)
      /\ \A p \in 1 .. n : s[p] \in Nodes /\ s[p] # Null
  <2>1. s \in Seq(Nodes) /\ Spells(c, s)
    BY DEF Chain
  <2>2. /\ c.head = [_first |-> At(s, 1), _last |-> At(s, Len(s)),
                     _length |-> Len(s)]
        /\ \A p \in 1 .. Len(s) : c.links.next[s[p]] = At(s, p + 1)
    BY <2>1, SpellsAt
  <2>3. \A p \in 1 .. Len(s) : s[p] \in Nodes
    BY <2>1
  <2>4. QED
    BY <2>1, <2>2, <2>3, NodesAssumption
<1>2. Walk(c.head, c.links) = [m \in 1 .. n |-> NodeAt[m]]
  BY <1>1 DEF Walk
<1>3. s = [m \in 1 .. c.head._length |->
             IF m = 1 THEN c.head._first
             ELSE IF s[m - 1] = Null THEN Null ELSE c.links.next[s[m - 1]]]
  <2>1. ASSUME NEW m \in 1 .. n
        PROVE  s[m] = IF m = 1 THEN c.head._first
                      ELSE IF s[m - 1] = Null THEN Null
                           ELSE c.links.next[s[m - 1]]
    <3>1. CASE m = 1
      BY <1>1, <3>1 DEF At
    <3>2. CASE m # 1
      <4>1. m - 1 \in 1 .. n /\ (m - 1) + 1 = m
        BY <1>1, <3>2
      <4>2. c.links.next[s[m - 1]] = At(s, m) /\ s[m - 1] # Null
        BY <1>1, <4>1
      <4>3. QED
        BY <3>2, <4>2 DEF At
    <3>3. QED
      BY <3>1, <3>2
  <2>2. s = [m \in 1 .. n |-> s[m]]
    BY <1>1
  <2>3. QED
    BY <1>1, <2>1, <2>2
<1>4. NodeAt = [m \in 1 .. c.head._length |->
               IF m = 1 THEN c.head._first
               ELSE IF NodeAt[m - 1] = Null THEN Null
                    ELSE c.links.next[NodeAt[m - 1]]]
  BY <1>3
<1> HIDE DEF NodeAt, n
<1>5. ASSUME NEW m \in 1 .. n
      PROVE  NodeAt[m] = IF m = 1 THEN c.head._first
                      ELSE IF NodeAt[m - 1] = Null THEN Null
                           ELSE c.links.next[NodeAt[m - 1]]
  BY <1>1, <1>4
<1>6. ASSUME NEW m \in 1 .. n
      PROVE  s[m] = IF m = 1 THEN c.head._first
                    ELSE IF s[m - 1] = Null THEN Null
                         ELSE c.links.next[s[m - 1]]
  BY <1>1, <1>3
<1>7. \A m \in 1 .. n : NodeAt[m] = s[m]
  <2> DEFINE T == {m \in 1 .. n : NodeAt[m] # s[m]}
  <2>1. SUFFICES ASSUME T # {} PROVE FALSE
    OBVIOUS
  <2>2. PICK m \in T : \A k \in T : m <= k
    <3>1. T \subseteq Nat
      OBVIOUS
    <3>2. QED
      BY <2>1, <3>1, LeastOf
  <2>3. m \in 1 .. n /\ NodeAt[m] # s[m] /\ m - 1 \notin T
    BY <1>1, <2>2
  <2>4. m = 1 \/ m - 1 \in 1 .. n
    BY <1>1, <2>3
  <2>5. m = 1 \/ NodeAt[m - 1] = s[m - 1]
    BY <2>3, <2>4
  <2>6. QED
    BY <1>5, <1>6, <2>3, <2>5
<1>8. s = [m \in 1 .. n |-> s[m]]
  BY <1>1 DEF n
<1>9. QED
  BY <1>2, <1>7, <1>8

-----------------------------------------------------------------------------
(* The lists of an array: each a chain of nodes that hash to it.           *)
Inside(header, lk) == ToSet(Walk(header, lk))
Within(heads, lk) == UNION {Inside(heads[n], lk) : n \in 1 .. Len(heads)}

Filed(heads, lk) ==
  /\ heads \in Seq(Header) /\ lk \in Links
  /\ \A n \in 1 .. Len(heads) :
       /\ Chain([head |-> heads[n], links |-> lk], Walk(heads[n], lk))
       /\ \A k \in Inside(heads[n], lk) : Slot(k, Len(heads)) = n

(* Two assignments of links that give the nodes of S the same neighbours. *)
Agree(lk, lk2, S) ==
  \A x \in S : lk2.prev[x] = lk.prev[x] /\ lk2.next[x] = lk.next[x]

LEMMA WithinIs ==
  ASSUME NEW heads, NEW lk, NEW x
  PROVE  x \in Within(heads, lk) <=>
           \E n \in 1 .. Len(heads) : x \in Inside(heads[n], lk)
BY DEF Within

LEMMA ChainKept ==
  ASSUME NEW h, NEW lk, NEW s, Chain([head |-> h, links |-> lk], s),
         NEW lk2 \in Links, Agree(lk, lk2, ToSet(s))
  PROVE  Chain([head |-> h, links |-> lk2], s) /\ Walk(h, lk2) = s
<1>1. /\ s \in Seq(Nodes) /\ Injective(s) /\ h \in Header
      /\ Spells([head |-> h, links |-> lk], s)
  BY DEF Chain
<1>2. \A p \in 1 .. Len(s) : s[p] \in ToSet(s)
  BY <1>1 DEF ToSet
<1>3. Spells([head |-> h, links |-> lk2], s)
  BY <1>1, <1>2 DEF Spells, Agree
<1>4. Chain([head |-> h, links |-> lk2], s)
  BY <1>1, <1>3 DEF Chain
<1>5. QED
  BY <1>4, WalkSpells

(* Surgery on one list leaves the links of all other nodes alone. *)
LEMMA AttachKeeps ==
  ASSUME NEW c, NEW s, Chain(c, s), NEW node \in Nodes, node \notin ToSet(s)
  PROVE  Agree(c.links, Attach(c, "prev", c.head._first, node).links,
               Nodes \ (ToSet(s) \cup {node}))
<1> DEFINE dest == c.head._first
           l == Relink(c.links, "prev", dest, node)
<1>1. /\ s \in Seq(Nodes) /\ Spells(c, s) /\ c.links \in Links
  BY DEF Chain
<1>2. /\ dest = At(s, 1)
      /\ \A p \in 1 .. Len(s) : c.links.prev[s[p]] = At(s, p - 1)
  <2>1. /\ c.head = [_first |-> At(s, 1), _last |-> At(s, Len(s)),
                     _length |-> Len(s)]
        /\ \A p \in 1 .. Len(s) : c.links.prev[s[p]] = At(s, p - 1)
    BY <1>1, SpellsAt
  <2>2. QED
    BY <2>1
<1>3. Attach(c, "prev", dest, node).links = l
  BY DEF Attach
<1>4. CASE dest = Null
  <2>1. l = [c.links EXCEPT !.next[node] = Null]
    BY <1>4 DEF Relink, Back
  <2>2. QED
    BY <1>1, <1>3, <2>1 DEF Agree, Links
<1>5. CASE dest # Null
  <2>1. 1 \in 1 .. Len(s) /\ dest = s[1] /\ dest \in ToSet(s) /\ dest \in Nodes
    BY <1>1, <1>2, <1>5 DEF At, ToSet
  <2>2. c.links.prev[dest] = Null
    BY <1>2, <2>1 DEF At
  <2>3. dest # node /\ c.links.prev[dest] # node
    BY <2>1, <2>2, NodesAssumption
  <2>4. \A x \in Nodes :
          /\ l.prev[x] = IF x = dest THEN node ELSE c.links.prev[x]
          /\ l.next[x] = IF x = node THEN dest
                         ELSE IF x = Null THEN node ELSE c.links.next[x]
    BY <1>1, <2>1, <2>2, <2>3, RelinkPrev
  <2>5. QED
    BY <1>3, <2>1, <2>4, NodesAssumption DEF Agree
<1>6. QED
  BY <1>4, <1>5

LEMMA UnlinkKeeps ==
  ASSUME NEW c, NEW s, Chain(c, s), NEW p \in 1 .. Len(s)
  PROVE  Agree(c.links, Unlink(c, s[p]).links, Nodes \ ToSet(s))
<1> DEFINE u == Unlink(c, s[p])
           before == At(s, p - 1)
           after == At(s, p + 1)
<1>1. s \in Seq(Nodes) /\ Spells(c, s) /\ c.links \in Links
  BY DEF Chain
<1>2. c.links.prev[s[p]] = before /\ c.links.next[s[p]] = after
  BY <1>1, SpellsAt
<1>3. before \in ToSet(s) \cup {Null} /\ after \in ToSet(s) \cup {Null}
  BY <1>1 DEF At, ToSet
<1>4. before \in Nodes \cup {Null} /\ after \in Nodes \cup {Null}
  BY <1>1 DEF At
<1>5. \A x \in Nodes :
        /\ u.links.prev[x] = IF x = after THEN before ELSE c.links.prev[x]
        /\ u.links.next[x] = IF x = before THEN after ELSE c.links.next[x]
  BY <1>1, <1>2, <1>4, NodesAssumption, ZenonT(40) DEF Unlink, Links
<1>6. QED
  BY <1>3, <1>5, NodesAssumption DEF Agree

LEMMA OthersKept ==
  ASSUME NEW heads, NEW lk, Filed(heads, lk),
         NEW lk2 \in Links, Agree(lk, lk2, Within(heads, lk))
  PROVE  /\ Filed(heads, lk2) /\ Within(heads, lk2) = Within(heads, lk)
         /\ \A n \in 1 .. Len(heads) : Walk(heads[n], lk2) = Walk(heads[n], lk)
<1>1. ASSUME NEW n \in 1 .. Len(heads)
      PROVE  /\ Chain([head |-> heads[n], links |-> lk2], Walk(heads[n], lk))
             /\ Walk(heads[n], lk2) = Walk(heads[n], lk)
  <2>1. Agree(lk, lk2, ToSet(Walk(heads[n], lk)))
    BY DEF Agree, Within, Inside
  <2>2. QED
    BY <2>1, ChainKept DEF Filed
<1>2. \A n \in 1 .. Len(heads) : Inside(heads[n], lk2) = Inside(heads[n], lk)
  BY <1>1 DEF Inside
<1>3. QED
  BY <1>1, <1>2 DEF Filed, Within

(* hs and lk2 are what heads and lk become when the n-th list changes to r. *)
Changed(heads, lk, n, h2, lk2, r, hs) ==
  /\ Filed(hs, lk2) /\ Len(hs) = Len(heads) /\ Walk(hs[n], lk2) = r
  /\ \A m \in 1 .. Len(heads) : m # n =>
       hs[m] = heads[m] /\ Walk(hs[m], lk2) = Walk(heads[m], lk)
  /\ hs[n] = h2
  /\ Within(hs, lk2) = (Within(heads, lk) \ Inside(heads[n], lk)) \cup ToSet(r)

LEMMA OneChanged ==
  ASSUME NEW heads, NEW lk, Filed(heads, lk), NEW n \in 1 .. Len(heads),
         NEW h2, NEW lk2, NEW r, Chain([head |-> h2, links |-> lk2], r),
         \A k \in ToSet(r) : Slot(k, Len(heads)) = n,
         Agree(lk, lk2, Within(heads, lk) \ Inside(heads[n], lk)),
         NEW hs, hs = [heads EXCEPT ![n] = h2]
  PROVE  Changed(heads, lk, n, h2, lk2, r, hs)
<1>1. /\ heads \in Seq(Header) /\ h2 \in Header /\ lk2 \in Links
      /\ Len(heads) \in Nat
  BY DEF Filed, Chain
<1>2. /\ hs \in Seq(Header) /\ Len(hs) = Len(heads) /\ hs[n] = h2
      /\ \A m \in 1 .. Len(heads) : m # n => hs[m] = heads[m]
  BY <1>1
<1>3. Walk(hs[n], lk2) = r /\ Inside(hs[n], lk2) = ToSet(r)
  BY <1>2, WalkSpells DEF Inside
<1>4. ASSUME NEW m \in 1 .. Len(heads), m # n
      PROVE  Inside(heads[m], lk) \subseteq
               Within(heads, lk) \ Inside(heads[n], lk)
  BY <1>4 DEF Filed, Within
<1>5. ASSUME NEW m \in 1 .. Len(heads), m # n
      PROVE  /\ Chain([head |-> hs[m], links |-> lk2], Walk(heads[m], lk))
             /\ Walk(hs[m], lk2) = Walk(heads[m], lk)
             /\ Inside(hs[m], lk2) = Inside(heads[m], lk)
  <2>1. Agree(lk, lk2, ToSet(Walk(heads[m], lk)))
    BY <1>4, <1>5 DEF Agree, Inside
  <2>2. hs[m] = heads[m]
    BY <1>2, <1>5
  <2>3. QED
    BY <1>1, <2>1, <2>2, ChainKept DEF Filed, Inside
<1>6. Filed(hs, lk2)
  <2>1. SUFFICES ASSUME NEW m \in 1 .. Len(heads)
                 PROVE  /\ Chain([head |-> hs[m], links |-> lk2], Walk(hs[m], lk2))
                        /\ \A k \in Inside(hs[m], lk2) : Slot(k, Len(heads)) = m
    BY <1>1, <1>2 DEF Filed
  <2>2. CASE m = n
    BY <1>2, <1>3, <2>2
  <2>3. CASE m # n
    BY <1>5, <2>3 DEF Filed
  <2>4. QED
    BY <2>2, <2>3
<1>7. ASSUME NEW x
      PROVE  x \in Within(hs, lk2) <=>
               \/ x \in Within(heads, lk) \ Inside(heads[n], lk)
               \/ x \in ToSet(r)
  <2>1. x \in Within(hs, lk2) <=>
          \/ x \in ToSet(r)
          \/ \E m \in 1 .. Len(heads) : m # n /\ x \in Inside(heads[m], lk)
    <3>1. x \in Within(hs, lk2) <=>
            \E m \in 1 .. Len(heads) : x \in Inside(hs[m], lk2)
      BY <1>2, WithinIs
    <3>2. \A m \in 1 .. Len(heads) :
            m # n => Inside(hs[m], lk2) = Inside(heads[m], lk)
      BY <1>5
    <3>3. QED
      BY <1>3, <3>1, <3>2
  <2>2. x \in Within(heads, lk) \ Inside(heads[n], lk) <=>
          \E m \in 1 .. Len(heads) : m # n /\ x \in Inside(heads[m], lk)
    BY <1>4, WithinIs
  <2>3. QED
    BY <2>1, <2>2
<1>8. QED
  BY <1>2, <1>3, <1>5, <1>6, <1>7 DEF Changed

-----------------------------------------------------------------------------
(* Putting a node at the front of its bucket, and taking one out. *)

LEMMA SlotIn ==
  ASSUME NEW k \in Nodes, NEW n \in Nat \ {0}
  PROVE  Slot(k, n) \in 1 .. n
<1>1. Hash[k] \in Nat
  BY HashAssumption
<1>2. Hash[k] % n \in 0 .. n - 1
  BY <1>1
<1>3. QED
  BY <1>2 DEF Slot

LEMMA ListFacts ==
  ASSUME NEW h, NEW lk, NEW s, Chain([head |-> h, links |-> lk], s)
  PROVE  /\ s \in Seq(Nodes) /\ Len(s) \in Nat /\ Injective(s)
         /\ ToSet(s) \subseteq Nodes /\ Walk(h, lk) = s
         /\ h \in Header /\ lk \in Links
         /\ h._first = At(s, 1) /\ h._first \in Nodes \cup {Null}
         /\ h._first = Null <=> ToSet(s) = {}
         /\ h._first # Null =>
              /\ 1 \in 1 .. Len(s) /\ h._first = s[1] /\ s[1] \in ToSet(s)
              /\ lk.prev[s[1]] = Null /\ lk.next[s[1]] = At(s, 2)
<1>1. /\ s \in Seq(Nodes) /\ Len(s) \in Nat /\ Injective(s)
      /\ Spells([head |-> h, links |-> lk], s)
      /\ h \in Header /\ lk \in Links
  BY DEF Chain
<1>2. ToSet(s) \subseteq Nodes /\ \A p \in 1 .. Len(s) : s[p] \in Nodes
  BY <1>1 DEF ToSet
<1>3. /\ h = [_first |-> At(s, 1), _last |-> At(s, Len(s)), _length |-> Len(s)]
      /\ \A p \in 1 .. Len(s) : /\ lk.prev[s[p]] = At(s, p - 1)
                                /\ lk.next[s[p]] = At(s, p + 1)
  <2>1. PICK c : c = [head |-> h, links |-> lk]
    OBVIOUS
  <2>2. c.head = h /\ c.links = lk /\ Spells(c, s)
    BY <1>1, <2>1
  <2>3. /\ c.head = [_first |-> At(s, 1), _last |-> At(s, Len(s)),
                     _length |-> Len(s)]
        /\ \A p \in 1 .. Len(s) : /\ c.links.prev[s[p]] = At(s, p - 1)
                                  /\ c.links.next[s[p]] = At(s, p + 1)
    BY <1>1, <2>2, SpellsAt
  <2>4. QED
    BY <2>2, <2>3
<1>4. Walk(h, lk) = s
  BY WalkSpells
<1>5. h._first = At(s, 1)
  BY <1>3
<1>6. CASE Len(s) = 0
  <2>1. ToSet(s) = {} /\ At(s, 1) = Null
    BY <1>1, <1>6 DEF ToSet, At
  <2>2. QED
    BY <1>1, <1>2, <1>4, <1>5, <2>1
<1>7. CASE Len(s) # 0
  <2>1. 1 \in 1 .. Len(s) /\ s[1] \in ToSet(s) /\ s[1] \in Nodes
    BY <1>1, <1>2, <1>7 DEF ToSet
  <2>2. At(s, 1) = s[1] /\ s[1] # Null /\ At(s, 0) = Null
    BY <2>1, NodesAssumption DEF At
  <2>3. lk.prev[s[1]] = At(s, 0) /\ lk.next[s[1]] = At(s, 2)
    <3>1. lk.prev[s[1]] = At(s, 1 - 1) /\ lk.next[s[1]] = At(s, 1 + 1)
      BY <1>3, <2>1
    <3>2. QED
      BY <3>1
  <2>4. QED
    BY <1>1, <1>2, <1>4, <1>5, <2>1, <2>2, <2>3
<1>8. QED
  BY <1>6, <1>7

Pushed(lk, s, node, a) ==
  /\ a = [head |-> a.head, links |-> a.links]
  /\ a.head._first = node
  /\ Agree(lk, a.links, Nodes \ (ToSet(s) \cup {node}))
  /\ \E r : /\ Chain([head |-> a.head, links |-> a.links], r)
            /\ ToSet(r) = ToSet(s) \cup {node}

LEMMA PushSpells ==
  ASSUME NEW h, NEW lk, NEW s, Chain([head |-> h, links |-> lk], s),
         NEW node \in Nodes, node \notin ToSet(s), lk.prev[node] = Null,
         NEW a, a = Attach([head |-> h, links |-> lk], "prev", h._first, node)
  PROVE  Pushed(lk, s, node, a)
<1> DEFINE c == [head |-> h, links |-> lk]
           r == <<node>> \o s
<1>1. /\ s \in Seq(Nodes) /\ Len(s) \in Nat /\ h._first = At(s, 1)
      /\ h._first # Null => lk.prev[h._first] = Null
      /\ c.head = h /\ c.links = lk /\ h._first = Null => ToSet(s) = {}
  BY ListFacts
<1>2. Inserted(r, s, 1, node)
  BY <1>1 DEF Inserted
<1>3. \A p \in 1 .. Len(s) : s[p] # node /\ s[p] \in ToSet(s)
  BY <1>1 DEF ToSet
<1>4. AttachIsClean(c, "prev", h._first, node)
  BY <1>1 DEF AttachIsClean
<1>5. h._first = Null => Len(s) = 0
  BY <1>1, <1>3
<1>6. Chain(a, r)
  <2>1. 1 \in 1 .. Len(s) + 1 /\ "prev" \in Directions
    BY <1>1 DEF Directions
  <2> HIDE DEF r, c
  <2>2. Chain(c, s) /\ a = Attach(c, "prev", h._first, node)
    BY DEF c
  <2>3. QED
    BY <1>1, <1>2, <1>3, <1>4, <1>5, <2>1, <2>2, AttachSpells
<1>7. a = [head |-> a.head, links |-> a.links]
  BY DEF Attach
<1>8. ToSet(r) = ToSet(s) \cup {node}
  <2>1. /\ Len(r) = Len(s) + 1
        /\ \A q \in 1 .. Len(r) : r[q] = IF q < 1 THEN s[q] ELSE IF q = 1
                                         THEN node ELSE s[q - 1]
    BY <1>2 DEF Inserted
  <2>2. \A q \in 1 .. Len(r) : r[q] \in ToSet(s) \cup {node}
    BY <1>1, <2>1 DEF ToSet
  <2>3. r[1] = node /\ \A p \in 1 .. Len(s) : r[p + 1] = s[p]
    BY <1>1, <2>1
  <2>4. r \in Seq(Nodes)
    BY <1>1
  <2> HIDE DEF r
  <2>5. ToSet(r) = {r[q] : q \in 1 .. Len(r)} /\ ToSet(s) = {s[q] : q \in 1 .. Len(s)}
    BY <1>1, <2>4 DEF ToSet
  <2>6. \A p \in 1 .. Len(s) : p + 1 \in 1 .. Len(r)
    BY <1>1, <2>1
  <2>7. 1 \in 1 .. Len(r)
    BY <1>1, <2>1
  <2>8. QED
    BY <2>2, <2>3, <2>5, <2>6, <2>7
<1>9. a.head._first = node
  <2>1. Chain([head |-> a.head, links |-> a.links], r)
    BY <1>6, <1>7
  <2>2. a.head._first = At(r, 1)
    BY <2>1, ListFacts
  <2>3. QED
    BY <1>1, <2>2 DEF At
<1>10. Agree(lk, a.links, Nodes \ (ToSet(s) \cup {node}))
  <2>1. /\ Chain(c, s) /\ c.links = lk
        /\ a = Attach(c, "prev", c.head._first, node)
    OBVIOUS
  <2> HIDE DEF c
  <2>2. Agree(c.links, Attach(c, "prev", c.head._first, node).links,
              Nodes \ (ToSet(s) \cup {node}))
    BY <2>1, AttachKeeps
  <2>3. QED
    BY <2>1, <2>2
<1>11. QED
  BY <1>6, <1>7, <1>8, <1>9, <1>10 DEF Pushed

Pulled(h, lk, s, node, u) ==
  /\ u = [head |-> u.head, links |-> u.links]
  /\ Agree(lk, u.links, Nodes \ ToSet(s))
  /\ h._first = node => /\ u.head._first = lk.next[node]
                        /\ u.links.prev[node] = Null
  /\ \E r : /\ Chain([head |-> u.head, links |-> u.links], r)
            /\ ToSet(r) = ToSet(s) \ {node}

LEMMA PullSpells ==
  ASSUME NEW h, NEW lk, NEW s, Chain([head |-> h, links |-> lk], s),
         NEW node \in ToSet(s),
         NEW u, u = Unlink([head |-> h, links |-> lk], node)
  PROVE  Pulled(h, lk, s, node, u)
<1> DEFINE c == [head |-> h, links |-> lk]
<1>1. /\ s \in Seq(Nodes) /\ Len(s) \in Nat /\ Injective(s)
      /\ ToSet(s) = {s[q] : q \in 1 .. Len(s)}
      /\ c.head = h /\ c.links = lk /\ lk \in Links
  BY ListFacts DEF ToSet
<1>2. PICK p \in 1 .. Len(s) : node = s[p]
  BY <1>1
<1>3. PICK r : r = [q \in 1 .. Len(s) - 1 |-> IF q < p THEN s[q] ELSE s[q + 1]]
  OBVIOUS
<1>4. Removed(r, s, p)
  <2>1. \A q \in 1 .. Len(s) - 1 :
          (IF q < p THEN s[q] ELSE s[q + 1]) \in Nodes
    BY <1>1
  <2>2. r \in [1 .. Len(s) - 1 -> Nodes] /\ Len(s) - 1 \in Nat
    BY <1>1, <1>2, <1>3, <2>1
  <2>3. r \in Seq(Nodes) /\ Len(r) = Len(s) - 1
    BY <2>2
  <2>4. QED
    BY <1>3, <2>3 DEF Removed
<1>5. Chain(u, r)
  BY <1>1, <1>2, <1>4, UnlinkSpells
<1>6. u = [head |-> u.head, links |-> u.links]
  BY DEF Unlink
<1>7. ToSet(r) = ToSet(s) \ {node}
  <2>1. /\ Len(r) = Len(s) - 1 /\ r \in Seq(Nodes)
        /\ \A q \in 1 .. Len(r) : r[q] = IF q < p THEN s[q] ELSE s[q + 1]
    BY <1>4 DEF Removed
  <2>2. ToSet(r) = {r[q] : q \in 1 .. Len(r)}
    BY <2>1 DEF ToSet
  <2>3. ASSUME NEW q \in 1 .. Len(r)
        PROVE  r[q] \in ToSet(s) /\ r[q] # node
    <3>1. CASE q < p
      <4>1. q \in 1 .. Len(s) /\ q # p /\ r[q] = s[q]
        BY <1>1, <2>1, <3>1
      <4>2. QED
        BY <1>1, <1>2, <4>1 DEF Injective
    <3>2. CASE q >= p
      <4>1. q + 1 \in 1 .. Len(s) /\ q + 1 # p /\ r[q] = s[q + 1]
        BY <1>1, <2>1, <3>2
      <4>2. QED
        BY <1>1, <1>2, <4>1 DEF Injective
    <3>3. QED
      BY <3>1, <3>2, <1>1, <2>1
  <2>4. ASSUME NEW m \in 1 .. Len(s), s[m] # node
        PROVE  s[m] \in ToSet(r)
    <3>1. CASE m < p
      <4>1. m \in 1 .. Len(r) /\ r[m] = s[m]
        BY <1>1, <2>1, <3>1
      <4>2. QED
        BY <2>2, <4>1
    <3>2. CASE m > p
      <4>1. m - 1 \in 1 .. Len(r) /\ r[m - 1] = s[(m - 1) + 1]
        BY <1>1, <2>1, <3>2
      <4>2. (m - 1) + 1 = m
        BY <1>1
      <4>3. QED
        BY <2>2, <4>1, <4>2
    <3>3. QED
      BY <1>2, <2>4, <3>1, <3>2
  <2>5. QED
    BY <1>1, <2>2, <2>3, <2>4
<1>8. Agree(lk, u.links, Nodes \ ToSet(s))
  BY <1>1, <1>2, UnlinkKeeps
<1>9. ASSUME h._first = node
      PROVE  u.head._first = lk.next[node] /\ u.links.prev[node] = Null
  <2>1. u.head._first = lk.next[node]
    BY <1>9 DEF Unlink
  <2>2. /\ node \in Nodes /\ node # Null /\ lk.prev[node] = Null
        /\ lk.next[node] # node
    <3>1. node \in Nodes /\ node # Null
      BY <1>1, <1>2, NodesAssumption
    <3>2. /\ 1 \in 1 .. Len(s) /\ node = s[1]
          /\ lk.prev[s[1]] = Null /\ lk.next[s[1]] = At(s, 2)
      BY <1>9, <3>1, ListFacts
    <3>3. At(s, 2) # s[1]
      BY <1>1, <3>1, <3>2 DEF At, Injective
    <3>4. QED
      BY <3>1, <3>2, <3>3
  <2>3. u.links.prev[node] = lk.prev[node]
    <3>1. lk.next[node] \in Nodes \cup {Null}
      BY <1>1, <2>2 DEF Links
    <3>2. u.links = IF lk.next[node] = Null THEN lk
                    ELSE [lk EXCEPT !.prev[lk.next[node]] = Null]
      BY <2>2 DEF Unlink
    <3>3. QED
      BY <1>1, <2>2, <3>1, <3>2 DEF Links
  <2>4. QED
    BY <2>1, <2>2, <2>3
<1>10. QED
  BY <1>5, <1>6, <1>7, <1>8, <1>9 DEF Pulled

LEMMA WithinNodes ==
  ASSUME NEW heads, NEW lk, Filed(heads, lk)
  PROVE  Within(heads, lk) \subseteq Nodes
<1>1. ASSUME NEW n \in 1 .. Len(heads)
      PROVE  Inside(heads[n], lk) \subseteq Nodes
  <2>1. PICK h : h = heads[n]
    OBVIOUS
  <2>2. Chain([head |-> h, links |-> lk], Walk(h, lk))
    BY <2>1 DEF Filed
  <2>3. QED
    BY <2>1, <2>2, ListFacts DEF Inside
<1>2. QED
  BY <1>1 DEF Within

PushedTo(heads, lk, n, node, a, hs) ==
  /\ Filed(hs, a.links) /\ n \in 1 .. Len(heads)
  /\ Len(hs) = Len(heads) /\ hs[n]._first = node
  /\ Within(hs, a.links) = Within(heads, lk) \cup {node}
  /\ a.links \in Links
  /\ Agree(lk, a.links, Nodes \ (Within(heads, lk) \cup {node}))

LEMMA PushFiled ==
  ASSUME NEW heads, NEW lk, Filed(heads, lk), Len(heads) # 0,
         NEW node \in Nodes, node \notin Within(heads, lk),
         lk.prev[node] = Null,
         NEW n, n = Slot(node, Len(heads)),
         NEW a, a = Attach([head |-> heads[n], links |-> lk], "prev",
                           heads[n]._first, node),
         NEW hs, hs = [heads EXCEPT ![n] = a.head]
  PROVE  PushedTo(heads, lk, n, node, a, hs)
<1>1. Len(heads) \in Nat \ {0} /\ n \in 1 .. Len(heads)
  BY SlotIn DEF Filed
<1>2. PICK h : h = heads[n]
  OBVIOUS
<1>3. PICK s : s = Walk(heads[n], lk)
  OBVIOUS
<1>4. /\ Chain([head |-> h, links |-> lk], s) /\ ToSet(s) = Inside(heads[n], lk)
      /\ \A k \in ToSet(s) : Slot(k, Len(heads)) = n
      /\ ToSet(s) \subseteq Within(heads, lk)
  BY <1>1, <1>2, <1>3 DEF Filed, Inside, Within
<1>5. node \notin ToSet(s)
  BY <1>4
<1>6. /\ a.head._first = node
      /\ Agree(lk, a.links, Nodes \ (ToSet(s) \cup {node}))
      /\ \E r : /\ Chain([head |-> a.head, links |-> a.links], r)
                /\ ToSet(r) = ToSet(s) \cup {node}
  <2>1. a = Attach([head |-> h, links |-> lk], "prev", h._first, node)
    BY <1>2
  <2>2. QED
    <3>1. Pushed(lk, s, node, a)
      BY ONLY <1>4, <1>5, <2>1, lk.prev[node] = Null, node \in Nodes,
              PushSpells, ZenonT(30)
    <3>2. QED
      BY <3>1 DEF Pushed
<1>7. PICK r : /\ Chain([head |-> a.head, links |-> a.links], r)
               /\ ToSet(r) = ToSet(s) \cup {node}
  BY <1>6
<1>8. \A k \in ToSet(r) : Slot(k, Len(heads)) = n
  BY <1>4, <1>7
<1>9. Within(heads, lk) \subseteq Nodes
  BY WithinNodes
<1>10. Agree(lk, a.links, Within(heads, lk) \ Inside(heads[n], lk))
  BY <1>4, <1>6, <1>9 DEF Agree
<1>11. /\ Filed(hs, a.links) /\ Len(hs) = Len(heads) /\ hs[n] = a.head
       /\ Within(hs, a.links) = (Within(heads, lk) \ Inside(heads[n], lk))
                                  \cup ToSet(r)
  <2>1. Changed(heads, lk, n, a.head, a.links, r, hs)
    BY ONLY <1>1, <1>7, <1>8, <1>10, Filed(heads, lk),
            hs = [heads EXCEPT ![n] = a.head], OneChanged, ZenonT(30)
  <2>2. QED
    BY <2>1 DEF Changed
<1>12. Within(hs, a.links) = Within(heads, lk) \cup {node}
  BY <1>4, <1>7, <1>11
<1>13. Agree(lk, a.links, Nodes \ (Within(heads, lk) \cup {node}))
  BY <1>4, <1>6 DEF Agree
<1>14. QED
  BY <1>1, <1>6, <1>11, <1>12, <1>13 DEF Filed, PushedTo

PulledFrom(heads, lk, n, node, u, hs) ==
  /\ Filed(hs, u.links) /\ Len(hs) = Len(heads)
  /\ Within(hs, u.links) = Within(heads, lk) \ {node}
  /\ \A m \in 1 .. Len(heads) : m # n => hs[m] = heads[m]
  /\ u.links \in Links /\ node \in Nodes
  /\ Agree(lk, u.links, Nodes \ Within(heads, lk))
  /\ heads[n]._first = node => /\ hs[n]._first = lk.next[node]
                               /\ u.links.prev[node] = Null

LEMMA PullFiled ==
  ASSUME NEW heads, NEW lk, Filed(heads, lk), NEW n \in 1 .. Len(heads),
         NEW node \in Inside(heads[n], lk),
         NEW u, u = Unlink([head |-> heads[n], links |-> lk], node),
         NEW hs, hs = [heads EXCEPT ![n] = u.head]
  PROVE  PulledFrom(heads, lk, n, node, u, hs)
<1>2. PICK h : h = heads[n]
  OBVIOUS
<1>3. PICK s : s = Walk(heads[n], lk)
  OBVIOUS
<1>4. /\ Chain([head |-> h, links |-> lk], s) /\ ToSet(s) = Inside(heads[n], lk)
      /\ \A k \in ToSet(s) : Slot(k, Len(heads)) = n
      /\ ToSet(s) \subseteq Within(heads, lk)
  BY <1>2, <1>3 DEF Filed, Inside, Within
<1>5. node \in ToSet(s) /\ node \in Nodes
  BY <1>4, ListFacts
<1>6. /\ Agree(lk, u.links, Nodes \ ToSet(s))
      /\ h._first = node => /\ u.head._first = lk.next[node]
                            /\ u.links.prev[node] = Null
      /\ \E r : /\ Chain([head |-> u.head, links |-> u.links], r)
                /\ ToSet(r) = ToSet(s) \ {node}
  <2>1. u = Unlink([head |-> h, links |-> lk], node)
    BY <1>2
  <2>2. QED
    <3>1. Pulled(h, lk, s, node, u)
      BY ONLY <1>4, <1>5, <2>1, PullSpells, ZenonT(30)
    <3>2. QED
      BY <3>1 DEF Pulled
<1>7. PICK r : /\ Chain([head |-> u.head, links |-> u.links], r)
               /\ ToSet(r) = ToSet(s) \ {node}
  BY <1>6
<1>8. \A k \in ToSet(r) : Slot(k, Len(heads)) = n
  BY <1>4, <1>7
<1>9. Within(heads, lk) \subseteq Nodes
  BY WithinNodes
<1>10. Agree(lk, u.links, Within(heads, lk) \ Inside(heads[n], lk))
  BY <1>4, <1>6, <1>9 DEF Agree
<1>11. /\ Filed(hs, u.links) /\ Len(hs) = Len(heads) /\ hs[n] = u.head
       /\ \A m \in 1 .. Len(heads) : m # n => hs[m] = heads[m]
       /\ Within(hs, u.links) = (Within(heads, lk) \ Inside(heads[n], lk))
                                  \cup ToSet(r)
  <2>1. Changed(heads, lk, n, u.head, u.links, r, hs)
    BY ONLY <1>7, <1>8, <1>10, Filed(heads, lk), n \in 1 .. Len(heads),
            hs = [heads EXCEPT ![n] = u.head], OneChanged, ZenonT(30)
  <2>2. QED
    BY <2>1 DEF Changed
<1>12. Within(hs, u.links) = Within(heads, lk) \ {node}
  <2>1. node \in Inside(heads[n], lk)
    OBVIOUS
  <2>2. QED
    BY <1>4, <1>7, <1>11, <2>1
<1>13. Agree(lk, u.links, Nodes \ Within(heads, lk))
  BY <1>4, <1>6 DEF Agree
<1>14. QED
  BY <1>2, <1>5, <1>6, <1>11, <1>12, <1>13 DEF Filed, PulledFrom

-----------------------------------------------------------------------------
(* The inductive invariant. *)

(* An insertion that has put its node in place, or found an equal one.     *)
InProgress ==
  /\ _size < MaxSize /\ arg.key \in live
  /\ Cardinality(live) <= _size + (IF arg.fresh THEN 1 ELSE 0)
  /\ honest => arg.fresh

(* A resize that has emptied the buckets before the i-th. *)
Sweep ==
  /\ Len(new_buckets) > 0 /\ i \in 1 .. Len(_buckets)
  /\ j = _buckets[i]._first
  /\ \A n \in 1 .. i - 1 : _buckets[n]._first = Null

Control ==
  /\ _size \in 0 .. MaxSize
  /\ pc \in {"idle", "check", "rehash", "aborted"}
  /\ arg \in [key : Nodes \cup {Null}, force : BOOLEAN, fresh : BOOLEAN]
  /\ i \in Nat \ {0} /\ j \in Nodes \cup {Null}
  /\ pc \in {"idle", "aborted"} => arg = NoArg
  /\ pc # "rehash" => new_buckets = <<>>
  /\ pc = "idle" => Cardinality(live) <= _size
  /\ pc \in {"check", "rehash"} => InProgress
  /\ pc = "check" /\ arg.fresh =>
       _buckets[Slot(arg.key, Len(_buckets))]._first = arg.key
  /\ pc = "rehash" => Sweep

Placed ==
  /\ Within(_buckets, links) \cap Within(new_buckets, links) = {}
  /\ Within(_buckets, links) \cup Within(new_buckets, links) = live

HInv == /\ Filed(_buckets, links) /\ Filed(new_buckets, links)
        /\ Placed /\ Control

LEMMA EmptyFiled ==
  ASSUME NEW heads \in Seq(Header), NEW lk \in Links,
         \A n \in 1 .. Len(heads) : heads[n] = EmptyHead
  PROVE  Filed(heads, lk) /\ Within(heads, lk) = {}
<1>1. Chain([head |-> EmptyHead, links |-> lk], <<>>)
  <2>1. EmptyHead \in Header
    BY DEF EmptyHead, Header
  <2>2. Spells([head |-> EmptyHead, links |-> lk], <<>>)
    BY DEF Spells, EmptyHead
  <2>3. Injective(<<>>)
    BY DEF Injective
  <2>4. QED
    BY <2>1, <2>2, <2>3 DEF Chain
<1>2. Walk(EmptyHead, lk) = <<>> /\ Inside(EmptyHead, lk) = {}
  <2>1. PICK h : h = EmptyHead
    OBVIOUS
  <2>2. Walk(h, lk) = <<>>
    BY <1>1, <2>1, ListFacts
  <2>3. QED
    BY <2>1, <2>2 DEF Inside, ToSet
<1>3. QED
  BY <1>1, <1>2 DEF Filed, Within

LEMMA EmptyHeads ==
  /\ EmptyHead \in Header /\ EmptyHead._first = Null
  /\ <<EmptyHead>> \in Seq(Header) /\ Len(<<EmptyHead>>) = 1
  /\ \A n \in 1 .. Len(<<EmptyHead>>) : <<EmptyHead>>[n] = EmptyHead
  /\ <<>> \in Seq(Header) /\ Len(<<>>) = 0
<1>1. EmptyHead \in Header /\ EmptyHead._first = Null
  BY DEF EmptyHead, Header
<1>2. QED
  BY <1>1

LEMMA NoBuckets ==
  ASSUME NEW lk \in Links
  PROVE  Filed(<<>>, lk) /\ Within(<<>>, lk) = {}
<1>1. PICK heads : heads = <<>>
  OBVIOUS
<1>2. heads \in Seq(Header) /\ \A n \in 1 .. Len(heads) : heads[n] = EmptyHead
  BY <1>1
<1>3. QED
  BY <1>1, <1>2, EmptyFiled

LEMMA BucketOf ==
  ASSUME NEW heads, NEW lk, Filed(heads, lk), NEW k \in Within(heads, lk)
  PROVE  /\ Slot(k, Len(heads)) \in 1 .. Len(heads) /\ Len(heads) # 0
         /\ k \in Inside(heads[Slot(k, Len(heads))], lk)
<1>1. PICK n \in 1 .. Len(heads) : k \in Inside(heads[n], lk)
  BY DEF Within
<1>2. n = Slot(k, Len(heads))
  BY <1>1 DEF Filed
<1>3. Len(heads) \in Nat
  BY DEF Filed
<1>4. QED
  BY <1>1, <1>2, <1>3

LEMMA FreshKeeps ==
  ASSUME NEW lk \in Links, NEW node \in Nodes
  PROVE  /\ Fresh(lk, node) \in Links /\ Fresh(lk, node).prev[node] = Null
         /\ Agree(lk, Fresh(lk, node), Nodes \ {node})
BY NodesAssumption DEF Fresh, Links, Agree

(* Outside a resize all nodes are in the buckets. *)
LEMMA Settled ==
  ASSUME HInv, new_buckets = <<>>
  PROVE  /\ Within(_buckets, links) = live /\ links \in Links
         /\ _buckets \in Seq(Header) /\ Len(_buckets) \in Nat
         /\ live \subseteq Nodes /\ IsFiniteSet(live)
         /\ Cardinality(live) \in Nat
<1>1. Within(_buckets, links) = live /\ links \in Links
  BY NoBuckets DEF HInv, Placed, Filed
<1>2. live \subseteq Nodes
  BY <1>1, WithinNodes DEF HInv
<1>3. IsFiniteSet(live) /\ Cardinality(live) \in Nat
  BY <1>2, NodesAssumption, FS_Subset, FS_CardinalityType
<1>4. QED
  BY <1>1, <1>2, <1>3 DEF HInv, Filed

LEMMA FindIs ==
  ASSUME HInv, new_buckets = <<>>, NEW k \in Nodes
  PROVE  /\ Find(k) = IF k \in live THEN k ELSE Null
         /\ Find(k) = Null <=> k \notin live
<1>1. Within(_buckets, links) = live /\ Filed(_buckets, links)
  BY Settled DEF HInv
<1>2. k # Null
  BY NodesAssumption
<1>3. CASE _buckets = <<>>
  <2>1. k \notin live
    BY <1>1, <1>3 DEF Within
  <2>2. QED
    BY <1>2, <1>3, <2>1 DEF Find
<1>4. CASE _buckets # <<>>
  <2>1. PICK n : n = Slot(k, Len(_buckets))
    OBVIOUS
  <2>2. n \in 1 .. Len(_buckets)
    <3>1. Len(_buckets) \in Nat \ {0}
      BY <1>1, <1>4 DEF Filed
    <3>2. QED
      BY <2>1, <3>1, SlotIn
  <2>3. k \in Inside(_buckets[n], links) <=> k \in live
    BY <1>1, <2>1, <2>2, BucketOf DEF Within
  <2>4. Word(_buckets[n]) = Walk(_buckets[n], links)
    BY WordIsWalk
  <2>5. k \in ToSet(Word(_buckets[n])) <=> k \in live
    BY <2>3, <2>4 DEF Inside
  <2>6. QED
    BY <1>2, <1>4, <2>1, <2>5 DEF Find
<1>5. QED
  BY <1>3, <1>4

(* What Delete leaves. *)
LEMMA DeleteKeeps ==
  ASSUME HInv, new_buckets = <<>>, NEW n \in 1 .. Len(_buckets),
         NEW node \in Inside(_buckets[n], links), Delete(n, node)
  PROVE  /\ Filed(_buckets', links') /\ Within(_buckets', links') = live'
         /\ live' = live \ {node} /\ node \in live /\ links' \in Links
         /\ Cardinality(live') = Cardinality(live) - 1
<1>1. /\ Within(_buckets, links) = live /\ Filed(_buckets, links)
      /\ live \subseteq Nodes /\ IsFiniteSet(live)
  BY Settled DEF HInv
<1>2. PICK u : u = Unlink([head |-> _buckets[n], links |-> links], node)
  OBVIOUS
<1>3. PICK hs : hs = [_buckets EXCEPT ![n] = u.head]
  OBVIOUS
<1>4. /\ Filed(hs, u.links) /\ Within(hs, u.links) = live \ {node}
      /\ u.links \in Links /\ node \in Nodes
  <2>1. PulledFrom(_buckets, links, n, node, u, hs)
    BY <1>1, <1>2, <1>3, PullFiled
  <2>2. QED
    BY <1>1, <2>1 DEF PulledFrom
<1>5. _buckets' = hs /\ links' = Fresh(u.links, node) /\ live' = live \ {node}
  BY <1>2, <1>3 DEF Delete, AsChain
<1>6. /\ links' \in Links /\ Agree(u.links, links', Nodes \ {node})
  BY <1>4, <1>5, FreshKeeps
<1>7. Agree(u.links, links', Within(hs, u.links))
  BY <1>1, <1>4, <1>6 DEF Agree
<1>8. Filed(hs, links') /\ Within(hs, links') = Within(hs, u.links)
  BY <1>4, <1>6, <1>7, OthersKept
<1>9. node \in live
  BY <1>1 DEF Within
<1>10. Cardinality(live \ {node}) = Cardinality(live) - 1
  BY <1>1, <1>9, FS_RemoveElement
<1>11. QED
  BY <1>4, <1>5, <1>6, <1>8, <1>9, <1>10

-----------------------------------------------------------------------------
(* Each step keeps the invariant. *)

LEMMA Quiet ==
  ASSUME new_buckets' = <<>>, Filed(_buckets', links'),
         Within(_buckets', links') = live', Control'
  PROVE  HInv'
<1>1. links' \in Links
  BY DEF Filed
<1>2. Filed(new_buckets', links') /\ Within(new_buckets', links') = {}
  BY <1>1, NoBuckets
<1>3. QED
  BY <1>2 DEF HInv, Placed

LEMMA InitHInv == Init => HInv
<1> SUFFICES ASSUME Init PROVE HInv
  OBVIOUS
<1>1. links \in Links
  BY DEF Init, NoLinks, Links
<1>2. /\ Filed(_buckets, links) /\ Filed(new_buckets, links)
      /\ Within(_buckets, links) = {} /\ Within(new_buckets, links) = {}
  BY <1>1, NoBuckets DEF Init
<1>3. Cardinality(live) = 0
  BY FS_EmptySet DEF Init
<1>4. Control
  BY <1>3, HashAssumption DEF Init, Control, NoArg
<1>5. QED
  BY <1>2, <1>4 DEF HInv, Placed, Init

LEMMA InsertNoMemoryKeeps ==
  ASSUME HInv, NEW k \in Nodes, InsertNoMemory(k)
  PROVE  HInv'
<1>1. /\ pc = "idle" /\ new_buckets = <<>> /\ Control
      /\ UNCHANGED <<new_buckets, _size, links, live, pc, arg, i, j, honest>>
      /\ _buckets' = Inited \/ _buckets' = _buckets
  BY DEF InsertNoMemory, MayInsert, HInv, Control, args
<1>2. Within(_buckets, links) = live /\ links \in Links
  BY <1>1, Settled
<1>3. Filed(_buckets', links') /\ Within(_buckets', links') = live'
  <2>1. CASE _buckets' = _buckets
    BY <1>1, <1>2, <2>1 DEF HInv
  <2>2. CASE _buckets = <<>> /\ _buckets' = <<EmptyHead>>
    <3>1. Within(_buckets, links) = {}
      BY <1>2, <2>2, NoBuckets
    <3>2. PICK heads : heads = <<EmptyHead>>
      OBVIOUS
    <3>3. Filed(heads, links) /\ Within(heads, links) = {}
      BY <1>2, <3>2, EmptyHeads, EmptyFiled
    <3>4. QED
      BY <1>1, <1>2, <2>2, <3>1, <3>2, <3>3
  <2>3. QED
    BY <1>1, <2>1, <2>2 DEF Inited
<1>4. Control'
  BY <1>1 DEF Control
<1>5. QED
  BY <1>1, <1>3, <1>4, Quiet

LEMMA InsertFreshKeeps ==
  ASSUME HInv, NEW k \in Nodes, NEW force \in BOOLEAN, InsertFresh(k, force)
  PROVE  HInv' /\ live' = live \cup {k} /\ k \notin live
<1>1. /\ pc = "idle" /\ new_buckets = <<>> /\ Control /\ _size < MaxSize
      /\ Find(k) = Null
      /\ UNCHANGED <<new_buckets, _size, i, j, call, honest>>
      /\ pc' = "check" /\ arg' = [key |-> k, force |-> force, fresh |-> TRUE]
      /\ live' = live \cup {k}
  BY DEF InsertFresh, MayInsert, HInv, Control
<1>2. /\ Within(_buckets, links) = live /\ links \in Links /\ k \notin live
      /\ live \subseteq Nodes /\ IsFiniteSet(live) /\ Cardinality(live) \in Nat
  BY <1>1, Settled, FindIs
<1>3. PICK heads : heads = Inited
  OBVIOUS
<1>4. Filed(heads, links) /\ Within(heads, links) = live /\ Len(heads) # 0
  <2>1. CASE _buckets = <<>>
    <3>1. Within(_buckets, links) = {}
      BY <1>2, <2>1, NoBuckets
    <3>2. heads = <<EmptyHead>>
      BY <1>3, <2>1 DEF Inited
    <3>3. Filed(heads, links) /\ Within(heads, links) = {} /\ Len(heads) = 1
      BY <1>2, <3>2, EmptyHeads, EmptyFiled
    <3>4. QED
      BY <1>2, <3>1, <3>3
  <2>2. CASE _buckets # <<>>
    <3>1. heads = _buckets /\ Filed(_buckets, links)
      BY <1>3, <2>2 DEF Inited, HInv
    <3>2. _buckets \in Seq(Header)
      BY <3>1 DEF Filed
    <3>3. Len(_buckets) # 0
      BY <2>2, <3>2
    <3>4. QED
      BY <1>2, <3>1, <3>3
  <2>3. QED
    BY <2>1, <2>2
<1>5. PICK lk : lk = Fresh(links, k)
  OBVIOUS
<1>6. lk \in Links /\ lk.prev[k] = Null /\ Agree(links, lk, Nodes \ {k})
  BY <1>2, <1>5, FreshKeeps
<1>7. Agree(links, lk, Within(heads, links))
  BY <1>2, <1>4, <1>6 DEF Agree
<1>8. Filed(heads, lk) /\ Within(heads, lk) = live
  BY <1>4, <1>6, <1>7, OthersKept
<1>9. PICK n : n = Slot(k, Len(heads))
  OBVIOUS
<1>10. PICK a : a = Attach([head |-> heads[n], links |-> lk], "prev",
                           heads[n]._first, k)
  OBVIOUS
<1>11. PICK hs : hs = [heads EXCEPT ![n] = a.head]
  OBVIOUS
<1>12. _buckets' = hs /\ links' = a.links
  BY <1>3, <1>5, <1>9, <1>10, <1>11 DEF InsertFresh
<1>13. PushedTo(heads, lk, n, k, a, hs)
  BY <1>2, <1>4, <1>6, <1>8, <1>9, <1>10, <1>11, PushFiled
<1>14. /\ Filed(_buckets', links') /\ Within(_buckets', links') = live'
       /\ Len(_buckets') = Len(heads) /\ _buckets'[n]._first = k
  BY <1>1, <1>8, <1>12, <1>13 DEF PushedTo
<1>15. Cardinality(live') = Cardinality(live) + 1
  BY <1>1, <1>2, FS_AddElement
<1>16. InProgress'
  BY <1>1, <1>2, <1>15 DEF InProgress, Control
<1>17. Control'
  BY <1>1, <1>9, <1>14, <1>16 DEF Control
<1>18. QED
  BY <1>1, <1>2, <1>14, <1>17, Quiet

LEMMA InsertPresentKeeps ==
  ASSUME HInv, NEW k \in Nodes, NEW force \in BOOLEAN, InsertPresent(k, force)
  PROVE  HInv'
<1>1. /\ pc = "idle" /\ new_buckets = <<>> /\ Control /\ _size < MaxSize
      /\ Find(k) # Null
      /\ UNCHANGED <<_buckets, new_buckets, _size, links, live, i, j, call>>
      /\ pc' = "check" /\ arg' = [key |-> k, force |-> force, fresh |-> FALSE]
      /\ honest' = FALSE
  BY DEF InsertPresent, MayInsert, HInv, Control
<1>2. Within(_buckets, links) = live /\ k \in live
  BY <1>1, Settled, FindIs
<1>3. InProgress'
  BY <1>1, <1>2, Settled DEF InProgress, Control
<1>4. Control'
  BY <1>1, <1>3 DEF Control
<1>5. QED
  BY <1>1, <1>2, <1>4, Quiet DEF HInv

LEMMA NoResizeKeeps ==
  ASSUME HInv, NoResize
  PROVE  HInv'
<1>1. /\ pc = "check" /\ new_buckets = <<>> /\ Control /\ InProgress
      /\ UNCHANGED <<_buckets, new_buckets, links, live, honest>>
      /\ _size' = _size + 1 /\ pc' = "idle" /\ arg' = NoArg
      /\ i' = 1 /\ j' = Null
  BY DEF NoResize, InsertReturns, Return, HInv, Control
<1>2. Within(_buckets, links) = live /\ Cardinality(live) \in Nat
  BY <1>1, Settled
<1>3. Cardinality(live) <= _size + 1 /\ _size + 1 \in 0 .. MaxSize
  BY <1>1, <1>2, HashAssumption DEF InProgress, Control
<1>4. Control'
  BY <1>1, <1>3 DEF Control, NoArg
<1>5. QED
  BY <1>1, <1>2, <1>4, Quiet DEF HInv

LEMMA ElementsAre ==
  ASSUME NEW heads \in Seq(Header)
  PROVE  Elements(heads) = Within(heads, links)
BY WordIsWalk DEF Elements, Within, Inside

(* The bucket of a node in the table; its first node. *)
LEMMA BucketFacts ==
  ASSUME NEW heads, NEW lk, Filed(heads, lk), NEW n \in 1 .. Len(heads)
  PROVE  /\ heads[n]._first \in Nodes \cup {Null}
         /\ heads[n]._first = Null <=> Inside(heads[n], lk) = {}
         /\ heads[n]._first # Null =>
              heads[n]._first \in Inside(heads[n], lk) \cap Within(heads, lk)
<1>1. PICK h : h = heads[n]
  OBVIOUS
<1>2. Chain([head |-> h, links |-> lk], Walk(h, lk))
  BY <1>1 DEF Filed
<1>3. /\ h._first \in Nodes \cup {Null}
      /\ h._first = Null <=> Inside(h, lk) = {}
      /\ h._first # Null => h._first \in Inside(h, lk)
  BY <1>2, ListFacts DEF Inside
<1>4. QED
  BY <1>1, <1>3 DEF Within

(* The first node of the bucket of the element being inserted. *)
LEMMA ArgFacts ==
  ASSUME HInv, pc = "check", NEW n, n = Slot(arg.key, Len(_buckets))
  PROVE  /\ Len(_buckets) \in Nat \ {0} /\ n \in 1 .. Len(_buckets)
         /\ arg.key \in live
         /\ _buckets[n]._first \in Inside(_buckets[n], links)
<1>1. new_buckets = <<>> /\ arg.key \in live
  BY DEF HInv, Control, InProgress
<1>2. /\ Within(_buckets, links) = live /\ Filed(_buckets, links)
      /\ Len(_buckets) \in Nat
  BY <1>1, Settled DEF HInv
<1>3. /\ n \in 1 .. Len(_buckets) /\ Len(_buckets) # 0
      /\ arg.key \in Inside(_buckets[n], links)
  BY <1>1, <1>2, BucketOf
<1>4. _buckets[n]._first \in Inside(_buckets[n], links)
  BY <1>2, <1>3, BucketFacts
<1>5. QED
  BY <1>1, <1>2, <1>3, <1>4

LEMMA ResizeNoMemoryKeeps ==
  ASSUME HInv, ResizeNoMemory
  PROVE  /\ HInv' /\ pc = "check" /\ call' = <<"insert", arg.key>>
         /\ \/ live' = live /\ _size' = _size + 1
            \/ /\ _size' = _size
               /\ honest => arg.fresh /\ live' = live \ {arg.key}
<1>1. PICK n : n = Slot(arg.key, Len(_buckets))
  OBVIOUS
<1>2. /\ pc = "check" /\ new_buckets = <<>> /\ Control /\ InProgress
      /\ UNCHANGED <<new_buckets, honest>>
      /\ call' = <<"insert", arg.key>>
      /\ pc' = "idle" /\ arg' = NoArg /\ i' = 1 /\ j' = Null
      /\ \/ Delete(n, _buckets[n]._first) /\ _size' = _size
         \/ _size' = _size + 1 /\ UNCHANGED <<_buckets, links, live>>
  BY <1>1 DEF ResizeNoMemory, InsertReturns, Return, HInv, Control
<1>3. /\ Within(_buckets, links) = live /\ Cardinality(live) \in Nat
      /\ Filed(_buckets, links)
  BY <1>2, Settled DEF HInv
<1>4. CASE Delete(n, _buckets[n]._first) /\ _size' = _size
  <2>1. /\ n \in 1 .. Len(_buckets)
        /\ _buckets[n]._first \in Inside(_buckets[n], links)
    BY <1>1, <1>2, ArgFacts
  <2>2. PICK node : node = _buckets[n]._first
    OBVIOUS
  <2>3. /\ Filed(_buckets', links') /\ Within(_buckets', links') = live'
        /\ live' = live \ {node} /\ Cardinality(live') = Cardinality(live) - 1
    BY <1>2, <1>4, <2>1, <2>2, DeleteKeeps
  <2>4. Cardinality(live') <= _size'
    BY <1>2, <1>3, <1>4, <2>3 DEF InProgress, Control
  <2>5. Control'
    BY <1>2, <1>4, <2>4 DEF Control, NoArg
  <2>6. honest => arg.fresh /\ live' = live \ {arg.key}
    BY <1>1, <1>2, <2>2, <2>3 DEF InProgress, Control
  <2>7. QED
    BY <1>2, <1>4, <2>3, <2>5, <2>6, Quiet
<1>5. CASE _size' = _size + 1 /\ UNCHANGED <<_buckets, links, live>>
  <2>1. Cardinality(live) <= _size + 1 /\ _size + 1 \in 0 .. MaxSize
    BY <1>2, <1>3, HashAssumption DEF InProgress, Control
  <2>2. Control'
    BY <1>2, <1>5, <2>1 DEF Control, NoArg
  <2>3. QED
    BY <1>2, <1>3, <1>5, <2>2, Quiet
<1>6. QED
  BY <1>2, <1>4, <1>5

LEMMA ResizeBeginKeeps ==
  ASSUME HInv, ResizeBegin
  PROVE  HInv'
<1>1. /\ pc = "check" /\ new_buckets = <<>> /\ Control /\ InProgress
      /\ CheckCapacity(Len(_buckets)) # 0
      /\ UNCHANGED <<_buckets, _size, links, live, arg, call, honest>>
      /\ new_buckets' = [n \in 1 .. NewCount(Len(_buckets)) |-> EmptyHead]
      /\ pc' = "rehash" /\ i' = 1 /\ j' = _buckets[1]._first
  BY DEF ResizeBegin, HInv, Control
<1>2. /\ Within(_buckets, links) = live /\ Filed(_buckets, links)
      /\ links \in Links
  BY <1>1, Settled DEF HInv
<1>3. Len(_buckets) \in Nat \ {0}
  BY <1>1, ArgFacts
<1>4. PICK N : N = NewCount(Len(_buckets))
  OBVIOUS
<1>5. N \in Nat \ {0}
  <2>1. PICK L \in Nat \ {0} : L = Len(_buckets)
    BY <1>3
  <2>2. CheckCapacity(L) \in {1, -1} /\ (CheckCapacity(L) = -1 => L > 1)
    BY <1>1, <2>1 DEF CheckCapacity
  <2>3. L > 1 => L \div 2 \in Nat \ {0}
    OBVIOUS
  <2>4. QED
    BY <1>4, <2>1, <2>2, <2>3 DEF NewCount
<1>6. PICK heads : heads = [n \in 1 .. N |-> EmptyHead]
  OBVIOUS
<1>7. /\ heads \in Seq(Header) /\ Len(heads) = N
      /\ \A n \in 1 .. Len(heads) : heads[n] = EmptyHead
  BY <1>5, <1>6, EmptyHeads
<1>8. Filed(heads, links) /\ Within(heads, links) = {}
  BY <1>2, <1>7, EmptyFiled
<1>9. new_buckets' = heads
  BY <1>1, <1>4, <1>6
<1>10. _buckets[1]._first \in Nodes \cup {Null}
  BY <1>2, <1>3, BucketFacts
<1>11. Sweep' /\ InProgress'
  <2>1. Len(new_buckets') > 0 /\ i' \in 1 .. Len(_buckets')
    <3>1. Len(new_buckets') = N /\ N > 0
      BY <1>5, <1>7, <1>9
    <3>2. i' = 1 /\ _buckets' = _buckets
      BY <1>1
    <3>3. QED
      BY <1>3, <3>1, <3>2
  <2>2. j' = _buckets'[i']._first /\ 1 .. i' - 1 = {}
    BY <1>1
  <2>3. QED
    BY <1>1, <2>1, <2>2 DEF Sweep, InProgress
<1>12. Control'
  BY <1>1, <1>10, <1>11 DEF Control
<1>13. QED
  BY <1>1, <1>2, <1>8, <1>9, <1>12 DEF HInv, Placed

LEMMA MoveNodeKeeps ==
  ASSUME HInv, MoveNode
  PROVE  HInv'
<1>1. PICK left : left = Unlink([head |-> _buckets[i], links |-> links], j)
  OBVIOUS
<1>2. PICK n : n = Slot(j, Len(new_buckets))
  OBVIOUS
<1>3. PICK pushed : pushed = Attach([head |-> new_buckets[n], links |-> left.links],
                                    "prev", new_buckets[n]._first, j)
  OBVIOUS
<1>4. /\ pc = "rehash" /\ j # Null /\ Control /\ Sweep /\ InProgress
      /\ _buckets' = [_buckets EXCEPT ![i] = left.head]
      /\ new_buckets' = [new_buckets EXCEPT ![n] = pushed.head]
      /\ links' = pushed.links /\ j' = links.next[j]
      /\ UNCHANGED <<_size, live, pc, arg, i, call, honest>>
  BY <1>1, <1>2, <1>3 DEF MoveNode, Move, AsChain, HInv, Control
<1>5. /\ Filed(_buckets, links) /\ Filed(new_buckets, links) /\ links \in Links
      /\ i \in 1 .. Len(_buckets) /\ j = _buckets[i]._first /\ j \in Nodes
      /\ Len(new_buckets) # 0
      /\ Within(_buckets, links) \subseteq Nodes
      /\ Within(new_buckets, links) \subseteq Nodes
  <2>1. Filed(_buckets, links) /\ Filed(new_buckets, links)
    BY DEF HInv
  <2>2. /\ Within(_buckets, links) \subseteq Nodes
        /\ Within(new_buckets, links) \subseteq Nodes
    BY <2>1, WithinNodes
  <2>3. i \in 1 .. Len(_buckets) /\ j = _buckets[i]._first
    BY <1>4 DEF Sweep
  <2>4. j \in Nodes /\ Len(new_buckets) # 0
    BY <1>4 DEF Sweep, Control
  <2>5. links \in Links
    BY <2>1 DEF Filed
  <2>6. QED
    BY <2>1, <2>2, <2>3, <2>4, <2>5
<1>6. j \in Inside(_buckets[i], links) /\ j \in Within(_buckets, links)
  BY <1>4, <1>5, BucketFacts
<1>7. PICK hs : hs = [_buckets EXCEPT ![i] = left.head]
  OBVIOUS
<1>8. PulledFrom(_buckets, links, i, j, left, hs)
  BY <1>1, <1>5, <1>6, <1>7, PullFiled
<1>9. /\ Filed(hs, left.links) /\ Len(hs) = Len(_buckets)
      /\ Within(hs, left.links) = Within(_buckets, links) \ {j}
      /\ \A m \in 1 .. Len(_buckets) : m # i => hs[m] = _buckets[m]
      /\ left.links \in Links
      /\ Agree(links, left.links, Nodes \ Within(_buckets, links))
      /\ hs[i]._first = links.next[j] /\ left.links.prev[j] = Null
  BY <1>5, <1>8 DEF PulledFrom
<1>10. Agree(links, left.links, Within(new_buckets, links))
  BY <1>5, <1>9 DEF Agree, HInv, Placed
<1>11. /\ Filed(new_buckets, left.links)
       /\ Within(new_buckets, left.links) = Within(new_buckets, links)
  BY <1>5, <1>9, <1>10, OthersKept
<1>12. j \notin Within(new_buckets, left.links)
  BY <1>6, <1>11 DEF HInv, Placed
<1>13. PICK ns : ns = [new_buckets EXCEPT ![n] = pushed.head]
  OBVIOUS
<1>14. PushedTo(new_buckets, left.links, n, j, pushed, ns)
  BY <1>2, <1>3, <1>5, <1>9, <1>11, <1>12, <1>13, PushFiled
<1>15. /\ Filed(ns, pushed.links) /\ Len(ns) = Len(new_buckets)
       /\ Within(ns, pushed.links) = Within(new_buckets, links) \cup {j}
       /\ pushed.links \in Links
       /\ Agree(left.links, pushed.links,
                Nodes \ (Within(new_buckets, links) \cup {j}))
  BY <1>11, <1>14 DEF PushedTo
<1>16. Agree(left.links, pushed.links, Within(hs, left.links))
  BY <1>5, <1>9, <1>15 DEF Agree, HInv, Placed
<1>17. /\ Filed(hs, pushed.links)
       /\ Within(hs, pushed.links) = Within(_buckets, links) \ {j}
  BY <1>9, <1>15, <1>16, OthersKept
<1>18. /\ _buckets' = hs /\ new_buckets' = ns /\ links' = pushed.links
  BY <1>4, <1>7, <1>13
<1>19. Placed'
  <2>1. PICK A : A = Within(_buckets, links)
    OBVIOUS
  <2>2. PICK B : B = Within(new_buckets, links)
    OBVIOUS
  <2>3. A \cap B = {} /\ A \cup B = live /\ j \in A
    BY <1>6, <2>1, <2>2 DEF HInv, Placed
  <2>4. /\ Within(_buckets', links') = A \ {j}
        /\ Within(new_buckets', links') = B \cup {j}
    BY <1>15, <1>17, <1>18, <2>1, <2>2
  <2>5. (A \ {j}) \cap (B \cup {j}) = {} /\ (A \ {j}) \cup (B \cup {j}) = live'
    BY <1>4, <2>3
  <2>6. QED
    BY <2>4, <2>5 DEF Placed
<1>20. Sweep'
  <2>1. Len(new_buckets') > 0 /\ i' \in 1 .. Len(_buckets')
    BY <1>4, <1>9, <1>15, <1>18 DEF Sweep
  <2>2. j' = _buckets'[i']._first
    BY <1>4, <1>9, <1>18
  <2>3. ASSUME NEW m \in 1 .. i - 1
        PROVE  _buckets'[m]._first = Null
    <3>1. m \in 1 .. Len(_buckets) /\ m # i
      BY <1>5, <2>3 DEF Filed
    <3>2. QED
      BY <1>4, <1>9, <1>18, <2>3, <3>1 DEF Sweep
  <2>4. QED
    BY <1>4, <2>1, <2>2, <2>3 DEF Sweep
<1>21. j' \in Nodes \cup {Null}
  BY <1>4, <1>5 DEF Links
<1>22. Control'
  BY <1>4, <1>20, <1>21 DEF Control, InProgress
<1>23. QED
  BY <1>15, <1>17, <1>18, <1>19, <1>22 DEF HInv

LEMMA NextBucketKeeps ==
  ASSUME HInv, NextBucket
  PROVE  HInv'
<1>1. /\ pc = "rehash" /\ j = Null /\ Control /\ Sweep /\ InProgress
      /\ i < Len(_buckets) /\ i' = i + 1 /\ j' = _buckets[i + 1]._first
      /\ UNCHANGED <<_buckets, new_buckets, _size, links, live, pc, arg,
                     call, honest>>
  BY DEF NextBucket, HInv, Control
<1>2. Filed(_buckets, links) /\ Len(_buckets) \in Nat
  BY DEF HInv, Filed
<1>3. i \in Nat \ {0} /\ i + 1 \in 1 .. Len(_buckets)
  BY <1>1, <1>2 DEF Control
<1>4. _buckets[i + 1]._first \in Nodes \cup {Null}
  BY <1>2, <1>3, BucketFacts
<1>5. \A m \in 1 .. (i + 1) - 1 : m \in 1 .. i - 1 \/ m = i
  BY <1>3
<1>6. Sweep'
  BY <1>1, <1>3, <1>5 DEF Sweep
<1>7. Control'
  BY <1>1, <1>3, <1>4, <1>6 DEF Control, InProgress
<1>8. QED
  BY <1>1, <1>7 DEF HInv, Placed

LEMMA ResizeDoneKeeps ==
  ASSUME HInv, ResizeDone
  PROVE  HInv' /\ pc = "rehash" /\ live' = live /\ call' = <<"insert", arg.key>>
<1>1. /\ pc = "rehash" /\ j = Null /\ Control /\ Sweep /\ InProgress
      /\ i = Len(_buckets) /\ _buckets' = new_buckets /\ new_buckets' = <<>>
      /\ live' = live \ Elements(_buckets) /\ links' = links
      /\ _size' = _size + 1 /\ call' = <<"insert", arg.key>>
      /\ pc' = "idle" /\ arg' = NoArg /\ i' = 1 /\ j' = Null
  BY DEF ResizeDone, InsertReturns, Return, HInv, Control
<1>2. /\ Filed(_buckets, links) /\ _buckets \in Seq(Header)
      /\ Filed(new_buckets, links) /\ Len(_buckets) \in Nat
  <2>1. Filed(_buckets, links) /\ Filed(new_buckets, links)
    BY Zenon DEF HInv
  <2>2. _buckets \in Seq(Header)
    BY <2>1, Zenon DEF Filed
  <2>3. QED
    BY <2>1, <2>2
<1>3. \A m \in 1 .. Len(_buckets) : m \in 1 .. i - 1 \/ m = i
  BY <1>1, <1>2
<1>4. \A m \in 1 .. Len(_buckets) : Inside(_buckets[m], links) = {}
  BY <1>1, <1>2, <1>3, BucketFacts DEF Sweep
<1>5. Within(_buckets, links) = {}
  BY <1>4 DEF Within
<1>6. live' = live /\ Within(new_buckets, links) = live
  BY <1>1, <1>2, <1>5, ElementsAre DEF HInv, Placed
<1>7. live \subseteq Nodes /\ Cardinality(live) \in Nat
  <2>1. live \subseteq Nodes
    BY <1>2, <1>6, WithinNodes
  <2>2. QED
    BY <2>1, NodesAssumption, FS_Subset, FS_CardinalityType
<1>8. Cardinality(live) <= _size + 1 /\ _size + 1 \in 0 .. MaxSize
  BY <1>1, <1>7, HashAssumption DEF InProgress, Control
<1>9. Control'
  <2>1. /\ _size' \in 0 .. MaxSize /\ Cardinality(live') <= _size'
        /\ pc' = "idle" /\ arg' = NoArg /\ i' = 1 /\ j' = Null
        /\ new_buckets' = <<>>
    BY <1>1, <1>6, <1>8
  <2>2. QED
    BY ONLY <2>1 DEF Control, NoArg
<1>10. QED
  BY <1>1, <1>2, <1>6, <1>9, Quiet

LEMMA RemoveElementKeeps ==
  ASSUME HInv, NEW k \in Nodes, RemoveElement(k)
  PROVE  HInv' /\ live' = live \ {k} /\ k \in live
<1>1. PICK n : n = Slot(k, Len(_buckets))
  OBVIOUS
<1>2. /\ pc = "idle" /\ new_buckets = <<>> /\ Control /\ Find(k) # Null
      /\ Delete(n, k) /\ _size' = _size - 1
      /\ UNCHANGED <<new_buckets, pc, arg, i, j, honest>>
  BY <1>1 DEF RemoveElement, HInv, Control, args
<1>3. /\ Within(_buckets, links) = live /\ Filed(_buckets, links) /\ k \in live
      /\ IsFiniteSet(live) /\ Cardinality(live) \in Nat
  BY <1>2, Settled, FindIs DEF HInv
<1>4. n \in 1 .. Len(_buckets) /\ k \in Inside(_buckets[n], links)
  BY <1>1, <1>3, BucketOf
<1>5. /\ Filed(_buckets', links') /\ Within(_buckets', links') = live'
      /\ live' = live \ {k} /\ Cardinality(live') = Cardinality(live) - 1
  BY <1>2, <1>4, DeleteKeeps
<1>6. Cardinality(live') \in Nat
  BY <1>3, <1>5, FS_Subset, FS_CardinalityType
<1>7. Cardinality(live') <= _size - 1 /\ _size - 1 \in 0 .. MaxSize
  BY <1>2, <1>3, <1>5, <1>6, HashAssumption DEF Control
<1>8. Control'
  BY <1>2, <1>7 DEF Control
<1>9. QED
  BY <1>2, <1>3, <1>5, <1>8, Quiet

LEMMA ClearKeeps ==
  ASSUME HInv, Clear
  PROVE  HInv'
<1>1. /\ pc = "idle" /\ new_buckets = <<>> /\ Control
      /\ live' = live \ Elements(_buckets) /\ _buckets' = <<>>
      /\ UNCHANGED <<new_buckets, _size, links, pc, arg, i, j>>
  BY DEF Clear, HInv, Control, args
<1>2. /\ Within(_buckets, links) = live /\ links \in Links
      /\ _buckets \in Seq(Header)
  BY <1>1, Settled
<1>3. live' = {} /\ Cardinality(live') = 0
  BY <1>1, <1>2, ElementsAre, FS_EmptySet
<1>4. Filed(_buckets', links') /\ Within(_buckets', links') = live'
  BY <1>1, <1>2, <1>3, NoBuckets
<1>5. Control'
  BY <1>1, <1>3 DEF Control
<1>6. QED
  BY <1>1, <1>4, <1>5, Quiet

LEMMA BeginReversedKeeps ==
  ASSUME HInv, BeginReversed
  PROVE  HInv'
<1>1. /\ pc = "idle" /\ Control /\ pc' = "aborted"
      /\ UNCHANGED <<_buckets, new_buckets, _size, links, live, arg, i, j,
                     call, honest>>
  BY DEF BeginReversed, HInv, args
<1>2. Control'
  BY <1>1 DEF Control
<1>3. QED
  BY <1>1, <1>2 DEF HInv, Placed

LEMMA NextHInv == HInv /\ [Next]_vars => HInv'
<1> SUFFICES ASSUME HInv, [Next]_vars PROVE HInv'
  OBVIOUS
<1>1. ASSUME NEW k \in Nodes, InsertNoMemory(k) PROVE HInv'
  BY <1>1, InsertNoMemoryKeeps
<1>2. ASSUME NEW k \in Nodes, RemoveElement(k) PROVE HInv'
  BY <1>2, RemoveElementKeeps
<1>3. ASSUME NEW k \in Nodes, NEW force \in BOOLEAN, InsertFresh(k, force)
      PROVE  HInv'
  BY <1>3, InsertFreshKeeps
<1>4. ASSUME NEW k \in Nodes, NEW force \in BOOLEAN, InsertPresent(k, force)
      PROVE  HInv'
  BY <1>4, InsertPresentKeeps
<1>5. CASE Clear
  BY <1>5, ClearKeeps
<1>6. CASE BeginReversed
  BY <1>6, BeginReversedKeeps
<1>7. CASE NoResize
  BY <1>7, NoResizeKeeps
<1>8. CASE ResizeNoMemory
  BY <1>8, ResizeNoMemoryKeeps
<1>9. CASE ResizeBegin
  BY <1>9, ResizeBeginKeeps
<1>10. CASE MoveNode
  BY <1>10, MoveNodeKeeps
<1>11. CASE NextBucket
  BY <1>11, NextBucketKeeps
<1>12. CASE ResizeDone
  BY <1>12, ResizeDoneKeeps
<1>13. CASE UNCHANGED vars
  BY <1>13 DEF HInv, Placed, Control, InProgress, Sweep, vars, args
<1>14. QED
  BY <1>1, <1>2, <1>3, <1>4, <1>5, <1>6, <1>7, <1>8, <1>9, <1>10, <1>11,
     <1>12, <1>13 DEF Next

-----------------------------------------------------------------------------
(* The invariant implies the properties. *)

LEMMA HInvTypeOK == HInv => TypeOK
<1> SUFFICES ASSUME HInv PROVE TypeOK
  OBVIOUS
<1>1. Control /\ Filed(_buckets, links) /\ Filed(new_buckets, links) /\ Placed
  BY DEF HInv
<1>2. live \subseteq Nodes
  BY <1>1, WithinNodes DEF Placed
<1>3. _buckets \in Seq(Header) /\ new_buckets \in Seq(Header) /\ links \in Links
  BY <1>1 DEF Filed
<1>4. QED
  BY <1>1, <1>2, <1>3 DEF Control, TypeOK

LEMMA FiledLists ==
  ASSUME NEW heads, Filed(heads, links)
  PROVE  ListsOf(heads)
<1> SUFFICES ASSUME NEW n \in DOMAIN heads
             PROVE  /\ Spells(AsChain(heads[n]), Word(heads[n]))
                    /\ \A k \in ToSet(Word(heads[n])) : Slot(k, Len(heads)) = n
  BY DEF ListsOf
<1>1. n \in 1 .. Len(heads)
  BY DEF Filed
<1>2. Word(heads[n]) = Walk(heads[n], links)
  BY WordIsWalk
<1>3. Chain([head |-> heads[n], links |-> links], Walk(heads[n], links))
  BY <1>1 DEF Filed
<1>4. QED
  BY <1>1, <1>2, <1>3 DEF Filed, Inside, Chain, AsChain

LEMMA HInvProperties == HInv => BucketsWellFormed /\ NodesPlaced
<1> SUFFICES ASSUME HInv PROVE BucketsWellFormed /\ NodesPlaced
  OBVIOUS
<1>1. ListsOf(_buckets) /\ ListsOf(new_buckets)
  BY FiledLists DEF HInv
<1>2. /\ Elements(_buckets) = Within(_buckets, links)
      /\ Elements(new_buckets) = Within(new_buckets, links)
  BY ElementsAre DEF HInv, Filed
<1>3. QED
  BY <1>1, <1>2, HInvTypeOK DEF HInv, Placed, BucketsWellFormed, NodesPlaced

(* The inductive invariant holds in every reachable state. *)
LEMMA Inductive == Spec => []HInv
<1>1. QED
  BY InitHInv, NextHInv, PTL DEF Spec

(* Within insertions, rollbacks and resizes too, the links of each bucket  *)
(* of either array spell a list of nodes that hash to it, for every finite *)
(* set of elements and every hash function: insertion at the front leaves  *)
(* no stale link, and the loop that moves the nodes keeps both arrays.     *)
THEOREM BucketsStayWellFormed == Spec => []BucketsWellFormed
BY Inductive, HInvProperties, PTL

(* Every allocated node is in exactly one bucket of one array: a resize    *)
(* loses no node, duplicates none and frees none.                          *)
THEOREM NodesStayPlaced == Spec => []NodesPlaced
BY Inductive, HInvProperties, PTL

-----------------------------------------------------------------------------
(* The refinement: what a client sees is the set of the finished elements. *)

LEMMA ContentsIdle == HInv /\ pc \in {"idle", "aborted"} => contents = live
BY DEF HInv, Control, NoArg, contents

LEMMA InsertSeen ==
  ASSUME NEW k \in Nodes, call' = <<"insert", k>>,
         contents' = contents \/ contents' = contents \cup {k}
  PROVE  Set!Next
<1>1. Set!Insert(k)
  BY DEF Set!Insert
<1>2. QED
  BY <1>1 DEF Set!Next

(* A call that ends: it shows what it leaves allocated. *)
LEMMA InsertEnds ==
  ASSUME HInv, HInv', pc \in {"check", "rehash"}, pc' = "idle",
         call' = <<"insert", arg.key>>,
         \/ live' = live
         \/ arg.fresh /\ live' = live \ {arg.key}
  PROVE  Set!Next
<1>1. arg.key \in live /\ arg.key \in Nodes
  <2>1. arg.key \in live /\ live \subseteq Nodes
    BY HInvTypeOK DEF HInv, Control, InProgress, TypeOK
  <2>2. QED
    BY <2>1
<1>2. contents' = live'
  BY DEF HInv, Control, NoArg, contents
<1>3. contents' = contents \/ contents' = contents \cup {arg.key}
  BY <1>1, <1>2 DEF contents
<1>4. QED
  BY <1>1, <1>3, InsertSeen

LEMMA InitSet == Init => Set!Init
BY DEF Init, Set!Init, contents

LEMMA NextSet ==
  HInv /\ HInv' /\ [Next]_vars => [honest' => Set!Next]_<<contents, call>>
<1> SUFFICES ASSUME HInv, HInv', [Next]_vars, honest'
             PROVE  Set!Next \/ UNCHANGED <<contents, call>>
  OBVIOUS
<1>1. ASSUME NEW k \in Nodes, InsertNoMemory(k) PROVE Set!Next
  <2>1. /\ call' = <<"insert", k>>
        /\ UNCHANGED <<live, pc, arg>>
    BY <1>1 DEF InsertNoMemory, args
  <2>2. contents' = contents
    BY <2>1 DEF contents
  <2>3. QED
    BY <2>1, <2>2, InsertSeen
<1>2. ASSUME NEW k \in Nodes, RemoveElement(k) PROVE Set!Next
  <2>1. /\ call' = <<"remove", k>> /\ pc = "idle" /\ pc' = "idle"
        /\ live' = live \ {k} /\ k \in live
    BY <1>2, RemoveElementKeeps DEF RemoveElement
  <2>2. contents = live /\ contents' = live'
    BY <2>1 DEF contents
  <2>3. Set!Remove(k)
    BY <2>1, <2>2 DEF Set!Remove
  <2>4. QED
    BY <2>3 DEF Set!Next
<1>3. ASSUME NEW k \in Nodes, NEW force \in BOOLEAN, InsertFresh(k, force)
      PROVE  UNCHANGED <<contents, call>>
  <2>1. /\ call' = call /\ pc = "idle" /\ pc' = "check"
        /\ arg' = [key |-> k, force |-> force, fresh |-> TRUE]
    BY <1>3 DEF InsertFresh, MayInsert
  <2>2. live' = live \cup {k} /\ k \notin live
    BY <1>3, InsertFreshKeeps
  <2>3. contents = live /\ contents' = live' \ {k}
    BY <2>1 DEF contents
  <2>4. QED
    BY <2>1, <2>2, <2>3
<1>4. ASSUME NEW k \in Nodes, NEW force \in BOOLEAN, InsertPresent(k, force)
      PROVE  FALSE
  BY <1>4 DEF InsertPresent
<1>5. CASE Clear
  BY <1>5 DEF Clear
<1>6. CASE BeginReversed
  BY <1>6, ContentsIdle DEF BeginReversed, args, contents, HInv, Control, NoArg
<1>7. CASE NoResize
  BY <1>7, InsertEnds DEF NoResize, InsertReturns, Return
<1>8. CASE ResizeNoMemory
  <2>1. pc' = "idle" /\ honest
    BY <1>8 DEF ResizeNoMemory, InsertReturns, Return
  <2>2. QED
    BY <1>8, <2>1, ResizeNoMemoryKeeps, InsertEnds
<1>9. CASE ResizeBegin
  <2>1. /\ pc = "check" /\ pc' = "rehash" /\ UNCHANGED <<live, arg, call>>
    BY <1>9 DEF ResizeBegin
  <2>2. QED
    BY <2>1 DEF contents
<1>10. CASE MoveNode
  <2>1. UNCHANGED <<live, pc, arg, call>>
    BY <1>10 DEF MoveNode, Move
  <2>2. QED
    BY <2>1 DEF contents
<1>11. CASE NextBucket
  <2>1. UNCHANGED <<live, pc, arg, call>>
    BY <1>11 DEF NextBucket
  <2>2. QED
    BY <2>1 DEF contents
<1>12. CASE ResizeDone
  <2>1. pc' = "idle"
    BY <1>12 DEF ResizeDone, InsertReturns, Return
  <2>2. QED
    BY <1>12, <2>1, ResizeDoneKeeps, InsertEnds
<1>13. CASE UNCHANGED vars
  BY <1>13 DEF vars, args, contents
<1>14. QED
  BY <1>1, <1>2, <1>3, <1>4, <1>5, <1>6, <1>7, <1>8, <1>9, <1>10, <1>11,
     <1>12, <1>13 DEF Next

(* The table implements the abstract set for every finite set of elements, *)
(* every hash function and every bound on the size: a call that succeeds   *)
(* makes exactly the change it asks for, one that fails changes nothing,   *)
(* and no step of a resize shows, whatever interrupts it for memory.  As   *)
(* in the property, the client is honest: see SetSpec.                     *)
THEOREM ImplementsSet == Spec => SetSpec
<1>1. HInv /\ HInv' /\ [Next]_vars => [honest' => Set!Next]_<<contents, call>>
  BY NextSet
<1>2. QED
  BY <1>1, InitSet, Inductive, PTL DEF Spec, SetSpec

-----------------------------------------------------------------------------
(* The count is exact while clients are honest: the element of a fresh     *)
(* insertion that has not returned is there and not counted yet.           *)
SizeInv ==
  honest => Cardinality(live) = _size + (IF arg.fresh THEN 1 ELSE 0)

LEMMA SizeKept ==
  ASSUME SizeInv, honest' = honest, live' = live, _size' = _size,
         arg'.fresh = arg.fresh
  PROVE  SizeInv'
BY DEF SizeInv

LEMMA InitSize == Init => SizeInv
BY FS_EmptySet DEF Init, SizeInv, NoArg

LEMMA NextSize == HInv /\ SizeInv /\ [Next]_vars => SizeInv'
<1> SUFFICES ASSUME HInv, SizeInv, [Next]_vars PROVE SizeInv'
  OBVIOUS
<1> USE DEF NoArg
<1>1. IsFiniteSet(live) /\ Cardinality(live) \in Nat /\ _size \in Nat
  <2>1. live \subseteq Nodes /\ _size \in Nat
    BY HInvTypeOK, HashAssumption DEF TypeOK
  <2>2. QED
    BY <2>1, NodesAssumption, FS_Subset, FS_CardinalityType
<1>2. pc \in {"idle", "aborted"} => arg = NoArg
  BY DEF HInv, Control
<1>3. ASSUME NEW k \in Nodes, InsertNoMemory(k) PROVE SizeInv'
  BY <1>3, SizeKept DEF InsertNoMemory, args
<1>4. ASSUME NEW k \in Nodes, RemoveElement(k) PROVE SizeInv'
  <2>1. live' = live \ {k} /\ k \in live
    BY <1>4, RemoveElementKeeps
  <2>2. /\ _size' = _size - 1 /\ arg' = arg /\ honest' = honest
        /\ arg = NoArg
    BY <1>2, <1>4 DEF RemoveElement, args
  <2>3. Cardinality(live') = Cardinality(live) - 1
    BY <1>1, <2>1, FS_RemoveElement
  <2>4. QED
    BY <1>1, <2>2, <2>3 DEF SizeInv
<1>5. ASSUME NEW k \in Nodes, NEW force \in BOOLEAN, InsertFresh(k, force)
      PROVE  SizeInv'
  <2>1. live' = live \cup {k} /\ k \notin live
    BY <1>5, InsertFreshKeeps
  <2>2. /\ _size' = _size /\ honest' = honest /\ arg = NoArg
        /\ arg'.fresh = TRUE
    BY <1>2, <1>5 DEF InsertFresh, MayInsert
  <2>3. Cardinality(live') = Cardinality(live) + 1
    BY <1>1, <2>1, FS_AddElement
  <2>4. QED
    BY <1>1, <2>2, <2>3 DEF SizeInv
<1>6. ASSUME NEW k \in Nodes, NEW force \in BOOLEAN, InsertPresent(k, force)
      PROVE  SizeInv'
  BY <1>6 DEF InsertPresent, SizeInv
<1>7. CASE Clear
  BY <1>7 DEF Clear, SizeInv
<1>8. CASE BeginReversed
  BY <1>8, SizeKept DEF BeginReversed, args
<1>9. ASSUME pc \in {"check", "rehash"}, honest' = honest, live' = live,
             _size' = _size + 1, arg' = NoArg
      PROVE  SizeInv'
  <2>1. honest => arg.fresh
    BY <1>9 DEF HInv, Control, InProgress
  <2>2. QED
    BY <1>1, <1>9, <2>1 DEF SizeInv
<1>10. CASE NoResize
  BY <1>9, <1>10 DEF NoResize, InsertReturns, Return
<1>11. CASE ResizeNoMemory
  <2>1. pc = "check" /\ arg' = NoArg /\ honest' = honest
    BY <1>11 DEF ResizeNoMemory, InsertReturns, Return
  <2>2. CASE live' = live /\ _size' = _size + 1
    BY <1>9, <2>1, <2>2
  <2>3. CASE /\ _size' = _size
             /\ honest => arg.fresh /\ live' = live \ {arg.key}
    <3>1. arg.key \in live
      BY <2>1 DEF HInv, Control, InProgress
    <3>2. honest => Cardinality(live') = Cardinality(live) - 1
      BY <1>1, <2>3, <3>1, FS_RemoveElement
    <3>3. QED
      BY <1>1, <2>1, <2>3, <3>2 DEF SizeInv
  <2>4. QED
    BY <1>11, <2>2, <2>3, ResizeNoMemoryKeeps
<1>12. CASE ResizeBegin
  BY <1>12, SizeKept DEF ResizeBegin
<1>13. CASE MoveNode
  BY <1>13, SizeKept DEF MoveNode, Move
<1>14. CASE NextBucket
  BY <1>14, SizeKept DEF NextBucket
<1>15. CASE ResizeDone
  <2>1. pc = "rehash" /\ live' = live
    BY <1>15, ResizeDoneKeeps
  <2>2. QED
    BY <1>9, <1>15, <2>1 DEF ResizeDone, InsertReturns, Return
<1>16. CASE UNCHANGED vars
  BY <1>16, SizeKept DEF vars, args
<1>17. QED
  BY <1>3, <1>4, <1>5, <1>6, <1>7, <1>8, <1>10, <1>11, <1>12, <1>13, <1>14,
     <1>15, <1>16 DEF Next

-----------------------------------------------------------------------------
(* Iteration: an iterator goes through the nodes in the order of their     *)
(* buckets and places.  The n-th iterator is the node with n nodes before  *)
(* it: that gives the walk without recursion, and ranks do not repeat.     *)
Lane(b) == Walk(_buckets[b], links)
Bucket(k) == Slot(k, Len(_buckets))
Place(k) == CHOOSE p \in 1 .. Len(Lane(Bucket(k))) : Lane(Bucket(k))[p] = k

Earlier(o, k) == \/ Bucket(o) < Bucket(k)
                 \/ Bucket(o) = Bucket(k) /\ Place(o) < Place(k)
Before(k) == {o \in live : Earlier(o, k)}
Rank(k) == Cardinality(Before(k))

Iterator(k) == [bucket |-> Bucket(k), node |-> k]
End == [bucket |-> Null, node |-> Null]
Reaches(n) == IF n < Cardinality(live) THEN Iterator(CHOOSE k \in live : Rank(k) = n)
              ELSE End

(* Between calls the lanes hold exactly the nodes, each at one place. *)
Ordered ==
  /\ Len(_buckets) \in Nat /\ live \subseteq Nodes
  /\ \A b \in 1 .. Len(_buckets) :
       /\ Lane(b) \in Seq(Nodes) /\ _buckets[b]._first = At(Lane(b), 1)
       /\ \A p \in 1 .. Len(Lane(b)) :
            /\ Lane(b)[p] \in live /\ Bucket(Lane(b)[p]) = b
            /\ Place(Lane(b)[p]) = p
            /\ links.next[Lane(b)[p]] = At(Lane(b), p + 1)
  /\ \A k \in live :
       /\ Bucket(k) \in 1 .. Len(_buckets)
       /\ Place(k) \in 1 .. Len(Lane(Bucket(k))) /\ Lane(Bucket(k))[Place(k)] = k

LEMMA IdleOrdered == HInv /\ pc = "idle" => Ordered
<1> SUFFICES ASSUME HInv, pc = "idle" PROVE Ordered
  OBVIOUS
<1>1. /\ Filed(_buckets, links) /\ Within(_buckets, links) = live
      /\ Len(_buckets) \in Nat /\ live \subseteq Nodes
  BY Settled, HInvTypeOK DEF HInv, Control, Filed, TypeOK
<1>2. ASSUME NEW b \in 1 .. Len(_buckets)
      PROVE  /\ Lane(b) \in Seq(Nodes) /\ _buckets[b]._first = At(Lane(b), 1)
             /\ Injective(Lane(b))
             /\ \A p \in 1 .. Len(Lane(b)) :
                  links.next[Lane(b)[p]] = At(Lane(b), p + 1)
  <2>1. PICK c : c = [head |-> _buckets[b], links |-> links]
    OBVIOUS
  <2>2. PICK s : s = Lane(b)
    OBVIOUS
  <2>3. Chain(c, s)
    BY <1>1, <2>1, <2>2 DEF Filed, Lane
  <2>4. s \in Seq(Nodes) /\ Injective(s) /\ Spells(c, s)
    BY <2>3 DEF Chain
  <2>5. /\ c.head = [_first |-> At(s, 1), _last |-> At(s, Len(s)),
                     _length |-> Len(s)]
        /\ \A p \in 1 .. Len(s) : /\ c.links.prev[s[p]] = At(s, p - 1)
                                  /\ c.links.next[s[p]] = At(s, p + 1)
    BY ONLY <2>4, SpellsAt, ZenonT(30)
  <2>6. c.head = _buckets[b] /\ c.links = links
    BY <2>1
  <2>7. _buckets[b]._first = At(s, 1)
    BY <2>5, <2>6
  <2>8. QED
    BY <2>2, <2>4, <2>5, <2>6, <2>7
<1>3. ASSUME NEW b \in 1 .. Len(_buckets), NEW p \in 1 .. Len(Lane(b))
      PROVE  Lane(b)[p] \in live /\ Bucket(Lane(b)[p]) = b
  <2>1. Lane(b)[p] \in Inside(_buckets[b], links)
    BY DEF Inside, Lane, ToSet
  <2>2. QED
    BY <1>1, <2>1 DEF Filed, Within, Bucket
<1>4. ASSUME NEW b \in 1 .. Len(_buckets), NEW p \in 1 .. Len(Lane(b))
      PROVE  Place(Lane(b)[p]) = p
  <2>1. PICK k : k = Lane(b)[p]
    OBVIOUS
  <2>2. Place(k) = CHOOSE q \in 1 .. Len(Lane(b)) : Lane(b)[q] = k
    BY <1>3, <2>1 DEF Place
  <2>3. \A q \in 1 .. Len(Lane(b)) : Lane(b)[q] = k => q = p
    BY <1>2, <2>1 DEF Injective
  <2>4. QED
    BY <2>1, <2>2, <2>3
<1>5. ASSUME NEW k \in live
      PROVE  /\ Bucket(k) \in 1 .. Len(_buckets)
             /\ Place(k) \in 1 .. Len(Lane(Bucket(k)))
             /\ Lane(Bucket(k))[Place(k)] = k
  <2>1. PICK b \in 1 .. Len(_buckets) : k \in Inside(_buckets[b], links)
    BY <1>1, WithinIs
  <2>2. PICK p \in 1 .. Len(Lane(b)) : k = Lane(b)[p]
    BY <2>1 DEF Inside, Lane, ToSet
  <2>3. Bucket(k) = b /\ Place(k) = p
    BY <1>3, <1>4, <2>2
  <2>4. QED
    BY <2>2, <2>3
<1>6. QED
  BY <1>1, <1>2, <1>3, <1>4, <1>5 DEF Ordered

LEMMA EarlierIs ==
  ASSUME Ordered, NEW k \in live, NEW o \in live
  PROVE  /\ ~Earlier(k, k)
         /\ k = o \/ Earlier(k, o) \/ Earlier(o, k)
         /\ Earlier(o, k) => \A l \in live : Earlier(l, o) => Earlier(l, k)
<1>1. \A l \in live : Bucket(l) \in Int /\ Place(l) \in Int
  BY DEF Ordered
<1>2. Bucket(k) = Bucket(o) /\ Place(k) = Place(o) => k = o
  BY DEF Ordered
<1>3. QED
  BY <1>1, <1>2 DEF Earlier

(* The nodes have the ranks from 0 on, each one once. *)
LEMMA RanksAre ==
  ASSUME Ordered
  PROVE  /\ IsFiniteSet(live) /\ Cardinality(live) \in Nat
         /\ \A k \in live : Rank(k) \in 0 .. Cardinality(live) - 1
         /\ \A k, o \in live : Rank(k) = Rank(o) => k = o
         /\ \A n \in 0 .. Cardinality(live) - 1 : \E k \in live : Rank(k) = n
<1> DEFINE C == Cardinality(live)
<1>1. IsFiniteSet(live) /\ C \in Nat
  BY NodesAssumption, FS_Subset, FS_CardinalityType DEF Ordered
<1>2. ASSUME NEW k \in live
      PROVE  IsFiniteSet(Before(k)) /\ Rank(k) \in 0 .. C - 1
  <2>1. Before(k) \subseteq live \ {k}
    BY EarlierIs DEF Before
  <2>2. IsFiniteSet(live \ {k}) /\ Cardinality(live \ {k}) = C - 1
    BY <1>1, FS_RemoveElement
  <2>3. /\ IsFiniteSet(Before(k)) /\ Rank(k) \in Nat
        /\ Rank(k) <= Cardinality(live \ {k})
    BY <2>1, <2>2, FS_Subset, FS_CardinalityType DEF Rank
  <2>4. QED
    BY <1>1, <2>2, <2>3
<1>3. ASSUME NEW k \in live, NEW o \in live, Earlier(o, k)
      PROVE  Rank(o) < Rank(k)
  <2>1. Before(o) \cup {o} \subseteq Before(k) /\ o \notin Before(o)
    BY <1>3, EarlierIs DEF Before
  <2>2. Cardinality(Before(o) \cup {o}) = Rank(o) + 1
    BY <1>2, <2>1, FS_AddElement DEF Rank
  <2>3. Cardinality(Before(o) \cup {o}) <= Rank(k)
    BY <1>2, <2>1, FS_Subset DEF Rank
  <2>4. Rank(o) \in Int /\ Rank(k) \in Int
    BY <1>1, <1>2
  <2>5. QED
    BY <2>2, <2>3, <2>4
<1>4. ASSUME NEW k \in live, NEW o \in live, Rank(k) = Rank(o)
      PROVE  k = o
  <2>1. Rank(k) \in Int
    BY <1>1, <1>2
  <2>2. ~Earlier(k, o) /\ ~Earlier(o, k)
    BY <1>3, <1>4, <2>1
  <2>3. QED
    BY <2>2, EarlierIs
<1>5. \A n \in 0 .. C - 1 : \E k \in live : Rank(k) = n
  <2>1. PICK f : f = [k \in live |-> Rank(k)]
    OBVIOUS
  <2>2. f \in Injection(live, 0 .. C - 1)
    <3>1. f \in [live -> 0 .. C - 1]
      BY <1>2, <2>1
    <3>2. IsInjective(f)
      BY <1>4, <2>1 DEF IsInjective
    <3>3. QED
      BY <3>1, <3>2 DEF Injection
  <2>3. IsFiniteSet(0 .. C - 1) /\ Cardinality(0 .. C - 1) = C
    BY <1>1, FS_Interval
  <2>4. f \in Surjection(live, 0 .. C - 1)
    BY <2>2, <2>3, FS_Injection
  <2>5. QED
    BY <2>1, <2>4 DEF Surjection
<1>6. QED
  BY <1>1, <1>2, <1>4, <1>5

LEMMA RankIs ==
  ASSUME Ordered, NEW k \in live
  PROVE  Reaches(Rank(k)) = Iterator(k)
<1>1. /\ Rank(k) \in 0 .. Cardinality(live) - 1 /\ Cardinality(live) \in Nat
      /\ \A o \in live : Rank(o) = Rank(k) => o = k
  BY RanksAre
<1>2. Rank(k) < Cardinality(live)
  BY <1>1
<1>3. (CHOOSE o \in live : Rank(o) = Rank(k)) = k
  BY <1>1
<1>4. QED
  BY <1>2, <1>3 DEF Reaches

(* The node that follows k, if there is one, and none if k is the last.    *)
LEMMA RankNext ==
  ASSUME Ordered, NEW k \in live
  PROVE  /\ \A o \in live : Before(o) = Before(k) \cup {k}
              => Reaches(Rank(k) + 1) = Iterator(o)
         /\ live = Before(k) \cup {k} => Reaches(Rank(k) + 1) = End
<1>1. /\ IsFiniteSet(live) /\ Cardinality(live) \in Nat
      /\ Rank(k) \in 0 .. Cardinality(live) - 1
  BY RanksAre
<1>2. IsFiniteSet(Before(k)) /\ k \notin Before(k)
  BY <1>1, EarlierIs, FS_Subset DEF Before
<1>3. Cardinality(Before(k) \cup {k}) = Rank(k) + 1
  BY <1>2, FS_AddElement DEF Rank
<1>4. ASSUME NEW o \in live, Before(o) = Before(k) \cup {k}
      PROVE  Reaches(Rank(k) + 1) = Iterator(o)
  <2>1. Rank(o) = Rank(k) + 1
    BY <1>3, <1>4 DEF Rank
  <2>2. QED
    BY <2>1, RankIs
<1>5. ASSUME live = Before(k) \cup {k}
      PROVE  Reaches(Rank(k) + 1) = End
  <2>1. Cardinality(live) = Rank(k) + 1
    BY <1>3, <1>5
  <2>2. ~(Rank(k) + 1 < Cardinality(live))
    BY <1>1, <2>1
  <2>3. QED
    BY <2>2 DEF Reaches
<1>6. QED
  BY <1>4, <1>5

(* The bucket of a node is not empty. *)
LEMMA BucketIs ==
  ASSUME Ordered, NEW k \in live
  PROVE  /\ Bucket(k) \in 1 .. Len(_buckets) /\ ~(Place(k) < 1)
         /\ _buckets[Bucket(k)]._first # Null
<1>1. /\ Bucket(k) \in 1 .. Len(_buckets)
      /\ Place(k) \in 1 .. Len(Lane(Bucket(k)))
  BY DEF Ordered
<1>2. Len(Lane(Bucket(k))) \in Nat
  BY <1>1 DEF Ordered
<1>3. ~(Place(k) < 1) /\ 1 \in 1 .. Len(Lane(Bucket(k)))
  BY <1>1, <1>2
<1>4. Lane(Bucket(k))[1] \in Nodes
  BY <1>1, <1>3 DEF Ordered
<1>5. QED
  BY <1>1, <1>3, <1>4, NodesAssumption DEF Ordered, At

(* FirstFrom(b) is the first node of the first bucket from b on that is    *)
(* not empty, or the end.                                                  *)
LEMMA FirstFromIs ==
  ASSUME Ordered, NEW b \in Nat
  PROVE  \/ /\ \A m \in b .. Len(_buckets) : _buckets[m]._first = Null
            /\ FirstFrom(b) = End
         \/ \E m \in b .. Len(_buckets) :
              /\ _buckets[m]._first # Null
              /\ FirstFrom(b) = [bucket |-> m, node |-> _buckets[m]._first]
              /\ \A o \in b .. Len(_buckets) : o < m => _buckets[o]._first = Null
<1> DEFINE later == {m \in b .. Len(_buckets) : _buckets[m]._first # Null}
<1>1. CASE later = {}
  BY <1>1 DEF FirstFrom, End
<1>2. CASE later # {}
  <2>1. PICK m : m = CHOOSE n \in later : \A o \in later : n <= o
    OBVIOUS
  <2>2. Len(_buckets) \in Nat /\ later \subseteq Nat
    BY DEF Ordered
  <2>3. m \in later /\ \A o \in later : m <= o
    <3>1. \E n \in later : \A o \in later : n <= o
      BY <1>2, <2>2, LeastOf
    <3>2. QED
      BY <2>1, <3>1
  <2>4. FirstFrom(b) = [bucket |-> m, node |-> _buckets[m]._first]
    BY <1>2, <2>1 DEF FirstFrom
  <2>5. \A o \in b .. Len(_buckets) : o < m => _buckets[o]._first = Null
    BY <2>2, <2>3
  <2>6. QED
    BY <2>3, <2>4, <2>5
<1>3. QED
  BY <1>1, <1>2

(* The nodes before the first one of a bucket b whose predecessors down to *)
(* a are empty are those of the buckets below a.                           *)
LEMMA FirstIs ==
  ASSUME Ordered, NEW a \in Nat \ {0}, NEW b \in a .. Len(_buckets),
         _buckets[b]._first # Null,
         \A o \in a .. Len(_buckets) : o < b => _buckets[o]._first = Null
  PROVE  /\ _buckets[b]._first \in live
         /\ Iterator(_buckets[b]._first)
              = [bucket |-> b, node |-> _buckets[b]._first]
         /\ Before(_buckets[b]._first) = {o \in live : Bucket(o) < a}
<1>1. PICK k : k = _buckets[b]._first
  OBVIOUS
<1>2. b \in 1 .. Len(_buckets)
  BY DEF Ordered
<1>3. k = At(Lane(b), 1)
  BY <1>1, <1>2 DEF Ordered
<1>4. 1 \in 1 .. Len(Lane(b)) /\ k = Lane(b)[1]
  BY <1>1, <1>3 DEF At
<1>5. k \in live /\ Bucket(k) = b /\ Place(k) = 1
  BY <1>2, <1>4 DEF Ordered
<1>6. ASSUME NEW o \in live
      PROVE  Earlier(o, k) <=> Bucket(o) < a
  <2>1. /\ Bucket(o) \in 1 .. Len(_buckets) /\ ~(Place(o) < 1)
        /\ _buckets[Bucket(o)]._first # Null
    BY BucketIs
  <2>2. ~(a <= Bucket(o) /\ Bucket(o) < b)
    BY <2>1
  <2>3. Earlier(o, k) <=> Bucket(o) < b
    BY <1>5, <2>1 DEF Earlier
  <2>4. QED
    BY <1>2, <2>1, <2>2, <2>3
<1>7. Before(k) = {o \in live : Bucket(o) < a}
  BY <1>6 DEF Before
<1>8. QED
  BY <1>1, <1>5, <1>7 DEF Iterator

LEMMA BeginIs == Ordered => Begin = Reaches(0)
<1> SUFFICES ASSUME Ordered PROVE Begin = Reaches(0)
  OBVIOUS
<1>1. \A o \in live : ~(Bucket(o) < 1)
  BY DEF Ordered
<1>2. CASE /\ \A m \in 1 .. Len(_buckets) : _buckets[m]._first = Null
           /\ FirstFrom(1) = End
  <2>1. \A o \in live : FALSE
    BY <1>2, BucketIs
  <2>2. live = {}
    BY <2>1
  <2>3. Cardinality(live) = 0
    BY <2>2, FS_EmptySet
  <2>4. QED
    BY <1>2, <2>3 DEF Begin, Reaches
<1>3. ASSUME NEW m \in 1 .. Len(_buckets), _buckets[m]._first # Null,
             FirstFrom(1) = [bucket |-> m, node |-> _buckets[m]._first],
             \A o \in 1 .. Len(_buckets) : o < m => _buckets[o]._first = Null
      PROVE  Begin = Reaches(0)
  <2>1. PICK k : k = _buckets[m]._first
    OBVIOUS
  <2>2. /\ k \in live /\ FirstFrom(1) = Iterator(k)
        /\ Before(k) = {o \in live : Bucket(o) < 1}
    BY <1>3, <2>1, FirstIs
  <2>3. Before(k) = {}
    BY <1>1, <2>2
  <2>4. Rank(k) = 0
    BY <2>3, FS_EmptySet DEF Rank
  <2>5. QED
    BY <2>2, <2>4, RankIs DEF Begin
<1>4. QED
  BY <1>2, <1>3, FirstFromIs

LEMMA AdvanceIs ==
  ASSUME Ordered, NEW k \in live
  PROVE  Advance(Iterator(k)) = Reaches(Rank(k) + 1)
<1> DEFINE b == Bucket(k)
           p == Place(k)
<1>1. /\ Len(_buckets) \in Nat /\ b \in 1 .. Len(_buckets)
      /\ Lane(b) \in Seq(Nodes) /\ p \in 1 .. Len(Lane(b)) /\ Lane(b)[p] = k
      /\ links.next[k] = At(Lane(b), p + 1)
  BY DEF Ordered
<1>2. \A o \in live : /\ Bucket(o) \in 1 .. Len(_buckets)
                      /\ Place(o) \in 1 .. Len(Lane(Bucket(o)))
                      /\ Lane(Bucket(o))[Place(o)] = o
  BY DEF Ordered
<1>3. CASE p < Len(Lane(b))
  <2>1. p + 1 \in 1 .. Len(Lane(b))
    BY <1>1, <1>3
  <2>2. PICK o : o = Lane(b)[p + 1]
    OBVIOUS
  <2>3. o \in live /\ Bucket(o) = b /\ Place(o) = p + 1 /\ o \in Nodes
    BY <1>1, <2>1, <2>2 DEF Ordered
  <2>4. links.next[k] = o /\ o # Null
    BY <1>1, <2>1, <2>2, <2>3, NodesAssumption DEF At
  <2>5. Advance(Iterator(k)) = Iterator(o)
    BY <2>3, <2>4 DEF Advance, Iterator
  <2>6. ASSUME NEW l \in live
        PROVE  Earlier(l, o) <=> Earlier(l, k) \/ l = k
    <3>1. Bucket(l) = b /\ Place(l) = p => l = k
      BY <1>1, <1>2
    <3>2. Place(l) \in Int /\ p \in Int /\ Bucket(l) \in Int /\ b \in Int
      BY <1>1, <1>2
    <3>3. Place(l) < p + 1 <=> Place(l) < p \/ Place(l) = p
      BY <3>2
    <3>4. QED
      BY <2>3, <3>1, <3>2, <3>3 DEF Earlier
  <2>7. Before(o) = Before(k) \cup {k}
    BY <2>6 DEF Before
  <2>8. QED
    BY <2>3, <2>5, <2>7, RankNext
<1>4. CASE ~(p < Len(Lane(b)))
  <2>1. p = Len(Lane(b)) /\ links.next[k] = Null
    BY <1>1, <1>4 DEF At
  <2>2. Advance(Iterator(k)) = FirstFrom(b + 1)
    BY <2>1 DEF Advance, Iterator
  <2>3. ASSUME NEW l \in live
        PROVE  Bucket(l) < b + 1 <=> Earlier(l, k) \/ l = k
    <3>1. Bucket(l) = b /\ Place(l) = p => l = k
      BY <1>1, <1>2
    <3>2. Place(l) \in Int /\ p \in Int /\ Bucket(l) \in Int /\ b \in Int
      BY <1>1, <1>2
    <3>3. Bucket(l) = b => Place(l) < p \/ Place(l) = p
      BY <1>1, <1>2, <2>1
    <3>4. QED
      BY <3>1, <3>2, <3>3 DEF Earlier
  <2>4. {l \in live : Bucket(l) < b + 1} = Before(k) \cup {k}
    BY <2>3 DEF Before
  <2>5. b + 1 \in Nat \ {0}
    BY <1>1
  <2>6. CASE /\ \A m \in b + 1 .. Len(_buckets) : _buckets[m]._first = Null
             /\ FirstFrom(b + 1) = End
    <3>1. \A l \in live : Bucket(l) < b + 1
      <4>1. \A l \in live : Bucket(l) \in 1 .. Len(_buckets)
                              /\ _buckets[Bucket(l)]._first # Null
        BY BucketIs
      <4>2. QED
        BY <1>1, <2>6, <4>1
    <3>2. live = Before(k) \cup {k}
      BY <2>4, <3>1
    <3>3. QED
      BY <2>2, <2>6, <3>2, RankNext
  <2>7. ASSUME NEW m \in b + 1 .. Len(_buckets), _buckets[m]._first # Null,
               FirstFrom(b + 1) = [bucket |-> m, node |-> _buckets[m]._first],
               \A o \in b + 1 .. Len(_buckets) :
                 o < m => _buckets[o]._first = Null
        PROVE  Advance(Iterator(k)) = Reaches(Rank(k) + 1)
    <3>1. PICK o : o = _buckets[m]._first
      OBVIOUS
    <3>2. PICK a : a = b + 1
      OBVIOUS
    <3>3. /\ o \in live /\ FirstFrom(b + 1) = Iterator(o)
          /\ Before(o) = {l \in live : Bucket(l) < b + 1}
      BY <2>5, <2>7, <3>1, <3>2, FirstIs
    <3>4. QED
      BY <2>2, <2>4, <3>3, RankNext
  <2>8. QED
    BY <2>5, <2>6, <2>7, FirstFromIs
<1>5. QED
  BY <1>3, <1>4

(* The walk of IterationExact, and the function it is. *)
Steps ==
  LET N == Cardinality(Nodes)
      walk[n \in 0 .. N] ==
        IF n = 0 THEN Begin
        ELSE IF walk[n - 1].node = Null THEN walk[n - 1]
        ELSE Advance(walk[n - 1])
  IN walk

LEMMA ReachesNext ==
  ASSUME Ordered, NEW n \in Nat
  PROVE  Reaches(n + 1) = IF Reaches(n).node = Null THEN Reaches(n)
                          ELSE Advance(Reaches(n))
<1>1. Cardinality(live) \in Nat
  BY RanksAre
<1>2. CASE n < Cardinality(live)
  <2>1. n \in 0 .. Cardinality(live) - 1
    BY <1>1, <1>2
  <2>2. PICK k \in live : Rank(k) = n
    BY <2>1, RanksAre
  <2>3. Reaches(n) = Iterator(k) /\ Advance(Iterator(k)) = Reaches(n + 1)
    BY <2>2, RankIs, AdvanceIs
  <2>4. Iterator(k).node = k /\ k # Null
    BY NodesAssumption DEF Ordered, Iterator
  <2>5. QED
    BY <2>3, <2>4
<1>3. CASE ~(n < Cardinality(live))
  <2>1. ~(n + 1 < Cardinality(live))
    BY <1>1, <1>3
  <2>2. QED
    BY <1>3, <2>1 DEF Reaches, End
<1>4. QED
  BY <1>2, <1>3

LEMMA StepsAre ==
  ASSUME Ordered
  PROVE  \A n \in 0 .. Cardinality(Nodes) : Steps[n] = Reaches(n)
<1> DEFINE N == Cardinality(Nodes)
           Does(walk) == [n \in 0 .. N |->
                            IF n = 0 THEN Begin
                            ELSE IF walk[n - 1].node = Null THEN walk[n - 1]
                            ELSE Advance(walk[n - 1])]
           R == [n \in 0 .. N |-> Reaches(n)]
<1>1. N \in Nat
  BY NodesAssumption, FS_CardinalityType
<1>2. Steps = CHOOSE walk : walk = Does(walk)
  BY DEF Steps
<1>3. R = Does(R)
  <2>1. ASSUME NEW n \in 0 .. N, n # 0
        PROVE  Reaches(n) = IF R[n - 1].node = Null THEN R[n - 1]
                            ELSE Advance(R[n - 1])
    <3>1. n - 1 \in 0 .. N /\ n - 1 \in Nat /\ (n - 1) + 1 = n
      BY <1>1, <2>1
    <3>2. R[n - 1] = Reaches(n - 1)
      BY <3>1
    <3>3. QED
      BY <3>1, <3>2, ReachesNext
  <2>2. Reaches(0) = Begin
    BY BeginIs
  <2>3. QED
    BY <2>1, <2>2
<1>4. Steps = Does(Steps)
  BY <1>2, <1>3
<1>5. ASSUME NEW n \in 0 .. N
      PROVE  Steps[n] = IF n = 0 THEN Begin
                        ELSE IF Steps[n - 1].node = Null THEN Steps[n - 1]
                        ELSE Advance(Steps[n - 1])
  BY <1>4
<1> HIDE DEF N, Does, R
<1>6. \A n \in 0 .. N : Steps[n] = Reaches(n)
  <2> DEFINE T == {n \in 0 .. N : Steps[n] # Reaches(n)}
  <2>1. SUFFICES ASSUME T # {} PROVE FALSE
    OBVIOUS
  <2>2. PICK n \in T : \A k \in T : n <= k
    <3>1. T \subseteq Nat
      OBVIOUS
    <3>2. QED
      BY <2>1, <3>1, LeastOf
  <2>3. n \in 0 .. N /\ Steps[n] # Reaches(n) /\ n - 1 \notin T
    BY <1>1, <2>2
  <2>4. n # 0
    BY <1>5, <2>3, BeginIs
  <2>5. n - 1 \in 0 .. N /\ n - 1 \in Nat /\ (n - 1) + 1 = n
    BY <1>1, <2>3, <2>4
  <2>6. Steps[n - 1] = Reaches(n - 1)
    BY <2>3, <2>5
  <2>7. QED
    BY <1>5, <2>3, <2>4, <2>5, <2>6, ReachesNext
<1>7. QED
  BY <1>6 DEF N

(* Each node is met at its rank, and nowhere else. *)
LEMMA WalkExact ==
  ASSUME Ordered, NEW k \in Nodes
  PROVE  Cardinality({n \in 0 .. Cardinality(Nodes) : Steps[n].node = k})
           = IF k \in live THEN 1 ELSE 0
<1> DEFINE N == Cardinality(Nodes)
           Met == {n \in 0 .. N : Steps[n].node = k}
<1>1. /\ N \in Nat /\ Cardinality(live) \in Nat /\ Cardinality(live) <= N
      /\ k # Null /\ Null \notin live
  BY NodesAssumption, FS_CardinalityType, FS_Subset DEF Ordered
<1>2. Met = {n \in 0 .. N : Reaches(n).node = k}
  BY StepsAre
<1>3. ASSUME NEW n \in 0 .. N
      PROVE  Reaches(n).node = k <=> k \in live /\ n = Rank(k)
  <2>1. CASE n < Cardinality(live)
    <3>1. n \in 0 .. Cardinality(live) - 1
      BY <1>1, <2>1
    <3>2. PICK o \in live : Rank(o) = n
      BY <3>1, RanksAre
    <3>3. Reaches(n).node = o
      BY <3>2, RankIs DEF Iterator
    <3>4. k \in live /\ Rank(k) = n => k = o
      BY <3>2, RanksAre
    <3>5. QED
      BY <3>2, <3>3, <3>4
  <2>2. CASE ~(n < Cardinality(live))
    <3>1. Reaches(n).node = Null
      BY <2>2 DEF Reaches, End
    <3>2. k \in live => Rank(k) < Cardinality(live)
      BY <1>1, RanksAre
    <3>3. QED
      BY <1>1, <2>2, <3>1, <3>2
  <2>3. QED
    BY <2>1, <2>2
<1>4. CASE k \in live
  <2>1. Rank(k) \in 0 .. N
    BY <1>1, <1>4, RanksAre
  <2>2. Met = {Rank(k)}
    BY <1>2, <1>3, <1>4, <2>1
  <2>3. QED
    BY <1>4, <2>2, FS_Singleton
<1>5. CASE k \notin live
  <2>1. Met = {}
    BY <1>2, <1>3, <1>5
  <2>2. QED
    BY <1>5, <2>1, FS_EmptySet
<1>6. QED
  BY <1>4, <1>5

LEMMA HInvIteration == HInv /\ SizeInv => IterationExact
<1> SUFFICES ASSUME HInv, SizeInv, pc = "idle" PROVE IterationExact
  BY DEF IterationExact
<1>1. SizeExact
  <2>1. arg.fresh = FALSE
    BY DEF HInv, Control, NoArg
  <2>2. Cardinality(live) \in Nat /\ _size \in Int
    BY Settled, HInvTypeOK, HashAssumption DEF HInv, Control, TypeOK
  <2>3. QED
    BY <2>1, <2>2 DEF SizeInv, SizeExact
<1>2. \A k \in Nodes :
        Cardinality({n \in 0 .. Cardinality(Nodes) : Steps[n].node = k})
          = IF k \in live THEN 1 ELSE 0
  BY IdleOrdered, WalkExact
<1>3. QED
  BY <1>1, <1>2 DEF IterationExact, Steps

(* An iterator from begin() meets every element exactly once, whatever the *)
(* buckets and the empty ones among them, and then the end; and size()     *)
(* says how many there are, to clients that are honest.                    *)
THEOREM IterationStaysExact == Spec => []IterationExact
<1>1. Spec => []SizeInv
  BY InitSize, NextSize, Inductive, PTL DEF Spec
<1>2. QED
  BY <1>1, Inductive, HInvIteration, PTL
=============================================================================
