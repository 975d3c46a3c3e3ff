---------------------------- MODULE RBTreeProofs ----------------------------
(***************************************************************************)
(* Theorems about RBTree for every finite set of keys.                     *)
(***************************************************************************)
EXTENDS RBTree, FiniteSetTheorems, TLAPS

-----------------------------------------------------------------------------
(* Well-formed trees. *)

Before(s, m, n) == IF s = "l" THEN m < n ELSE n < m
Labels == [Keys \cup {Null} -> SUBSET Keys]

(* The links of the nodes L agree in both directions; other keys have none.*)
Joined(t, L) ==
  /\ t \in Tree /\ L \subseteq Keys
  /\ t.root \in L \cup {Null} /\ (t.root # Null => t.p[t.root] = Null)
  /\ \A n \in L, s \in Sides :
       /\ t.kid[s][n] \in L \cup {Null}
       /\ t.kid[s][n] # Null => t.p[t.kid[s][n]] = n
  /\ \A n \in Keys \ L : t.p[n] = Null /\ \A s \in Sides : t.kid[s][n] = Null

(* sub says of each node which nodes are in its subtree: from the root down*)
(* a child has those of its parent that are on its side.                   *)
Ordered(t, L, sub) ==
  /\ sub \in Labels /\ sub[Null] = {} /\ sub[t.root] = L
  /\ \A n \in Keys \ L : sub[n] = {n}
  /\ \A n \in L : /\ n \in sub[n] /\ sub[n] \subseteq L
                  /\ \A s \in Sides :
                       sub[t.kid[s][n]] = {m \in sub[n] : Before(s, m, n)}

WellFormed(t, L, sub) == Joined(t, L) /\ Ordered(t, L, sub)

LEMMA SidesAre ==
  ASSUME NEW s \in Sides
  PROVE  /\ Opposite(s) \in Sides /\ Opposite(s) # s
         /\ Opposite(Opposite(s)) = s
         /\ \/ s = "l" /\ Opposite(s) = "r"
            \/ s = "r" /\ Opposite(s) = "l"
BY DEF Sides, Opposite

LEMMA KeysAre == /\ IsFiniteSet(Keys) /\ Null \notin Keys
                 /\ \A n \in Keys : n \in Int
BY KeysAssumption, NullAssumption

(* Keys are ordered, on either side. *)
LEMMA BeforeIs ==
  ASSUME NEW s \in Sides, NEW m \in Keys, NEW n \in Keys
  PROVE  /\ ~Before(s, n, n)
         /\ Before(Opposite(s), m, n) <=> Before(s, n, m)
         /\ Before(s, m, n) => ~Before(s, n, m)
         /\ m # n => Before(s, m, n) \/ Before(s, n, m)
         /\ \A k \in Keys : Before(s, m, n) /\ Before(s, n, k) => Before(s, m, k)
BY KeysAre DEF Before, Opposite, Sides

(* Of a nonempty set of nodes, one has no other below it. *)
LEMMA Smallest ==
  ASSUME NEW sub \in Labels, NEW S, S \subseteq Keys, S # {}
  PROVE  \E n \in S : \A m \in S : sub[m] \subseteq sub[n] => sub[m] = sub[n]
<1>1. IsWellFoundedOn(StrictSubsetOrdering(Keys), SUBSET Keys)
  BY KeysAre, FS_StrictSubsetOrderingWellFounded, FS_FiniteSubsetsOfFinite
<1> DEFINE W == {sub[n] : n \in S}
<1>2. W \subseteq SUBSET Keys /\ W # {}
  BY DEF Labels
<1>3. \E w \in W : \A v \in W : ~(<<v, w>> \in StrictSubsetOrdering(Keys))
  <2> HIDE DEF W
  <2>1. QED
    BY ONLY <1>1, <1>2, WFMin
<1>4. PICK n \in S : \A v \in W : ~(<<v, sub[n]>> \in StrictSubsetOrdering(Keys))
  BY <1>3
<1>5. ASSUME NEW m \in S, sub[m] \subseteq sub[n], sub[m] # sub[n]
      PROVE  FALSE
  <2>1. sub[m] \in SUBSET Keys /\ sub[n] \in SUBSET Keys
    BY DEF Labels
  <2>2. <<sub[m], sub[n]>> \in StrictSubsetOrdering(Keys)
    BY <1>5, <2>1 DEF StrictSubsetOrdering
  <2>3. QED
    BY <1>4, <2>2
<1>6. QED
  BY <1>5

LEMMA KidBelow ==
  ASSUME NEW t, NEW L, NEW sub, WellFormed(t, L, sub),
         NEW n \in L, NEW s \in Sides, t.kid[s][n] # Null
  PROVE  /\ t.kid[s][n] \in L /\ t.kid[s][n] \in sub[n]
         /\ Before(s, t.kid[s][n], n)
         /\ sub[t.kid[s][n]] \subseteq sub[n] /\ n \notin sub[t.kid[s][n]]
         /\ t.p[t.kid[s][n]] = n
<1>1. /\ t.kid[s][n] \in L /\ t.p[t.kid[s][n]] = n /\ L \subseteq Keys
      /\ sub[t.kid[s][n]] = {m \in sub[n] : Before(s, m, n)}
      /\ t.kid[s][n] \in sub[t.kid[s][n]]
  BY DEF WellFormed, Joined, Ordered
<1>2. QED
  BY <1>1, BeforeIs

(* A property of the children of a node that makes it one of the node:     *)
(* among the nodes without it one has no such child.                       *)
LEMMA LeastBad ==
  ASSUME NEW t, NEW L, NEW sub, WellFormed(t, L, sub),
         NEW Bad, Bad \subseteq L, Bad # {}
  PROVE  \E n \in Bad : \A s \in Sides : t.kid[s][n] \notin Bad
<1>1. L \subseteq Keys /\ sub \in Labels
  BY DEF WellFormed, Joined, Ordered
<1>2. PICK n \in Bad : \A m \in Bad : sub[m] \subseteq sub[n] => sub[m] = sub[n]
  BY <1>1, Smallest
<1>3. ASSUME NEW s \in Sides, t.kid[s][n] \in Bad
      PROVE  FALSE
  <2>1. n \in L /\ t.kid[s][n] # Null
    BY <1>1, <1>3, KeysAre
  <2>2. sub[t.kid[s][n]] \subseteq sub[n] /\ n \notin sub[t.kid[s][n]]
    BY <2>1, KidBelow
  <2>3. n \in sub[n]
    BY <2>1 DEF WellFormed, Ordered
  <2>4. QED
    BY <1>2, <1>3, <2>2, <2>3
<1>4. QED
  BY <1>3

(* Subtrees of nodes in a subtree are parts of it. *)
LEMMA SubBelow ==
  ASSUME NEW t, NEW L, NEW sub, WellFormed(t, L, sub),
         NEW a \in L, NEW b \in sub[a]
  PROVE  /\ b \in L /\ sub[b] \subseteq sub[a]
         /\ b # a => a \notin sub[b]
<1> DEFINE Bad == {n \in L : ~(b \in sub[n] => sub[b] \subseteq sub[n]
                                              /\ (b # n => n \notin sub[b]))}
<1>1. L \subseteq Keys /\ sub[a] \subseteq L
  BY DEF WellFormed, Joined, Ordered
<1>2. Bad = {}
  <2>1. SUFFICES ASSUME Bad # {} PROVE FALSE
    OBVIOUS
  <2>2. PICK n \in Bad : \A s \in Sides : t.kid[s][n] \notin Bad
    <3> HIDE DEF Bad
    <3>1. Bad \subseteq L
      BY DEF Bad
    <3>2. QED
      BY <2>1, <3>1, LeastBad
  <2>3. n \in L /\ b \in sub[n] /\ b # n /\ n \in Keys /\ b \in Keys
    BY <1>1
  <2>4. PICK s \in Sides : Before(s, b, n)
    BY <2>3, BeforeIs, SidesAre DEF Sides
  <2>5. b \in sub[t.kid[s][n]]
    BY <2>3, <2>4 DEF WellFormed, Ordered
  <2>6. t.kid[s][n] # Null
    BY <2>5 DEF WellFormed, Ordered
  <2>7. /\ t.kid[s][n] \in L /\ sub[t.kid[s][n]] \subseteq sub[n]
        /\ n \notin sub[t.kid[s][n]]
    BY <2>3, <2>6, KidBelow
  <2>8. sub[b] \subseteq sub[t.kid[s][n]]
    BY <2>2, <2>5, <2>7
  <2>9. QED
    BY <2>7, <2>8
<1>3. QED
  BY <1>1, <1>2

(* A node below another has a parent.  Of the nodes above it the least has *)
(* a child that is not above it.                                           *)
LEMMA ParentBelow ==
  ASSUME NEW t, NEW L, NEW sub, WellFormed(t, L, sub),
         NEW z \in L, NEW n \in sub[z], n # z
  PROVE  \E a \in sub[z], s \in Sides : /\ a \in L /\ t.p[n] = a
                                       /\ t.kid[s][a] = n /\ Before(s, n, a)
<1>1. L \subseteq Keys /\ sub \in Labels /\ sub[z] \subseteq L /\ z \in sub[z]
  BY DEF WellFormed, Joined, Ordered
<1> DEFINE W == {a \in sub[z] : n \in sub[a] /\ a # n}
<1>2. W \subseteq L /\ W # {}
  BY <1>1
<1>3. PICK a \in W : \A s \in Sides : t.kid[s][a] \notin W
  <2> HIDE DEF W
  <2>1. QED
    BY <1>2, LeastBad
<1>4. a \in L /\ n \in sub[a] /\ a # n /\ n \in Keys /\ a \in Keys /\ a \in sub[z]
  BY <1>1
<1>5. PICK s \in Sides : Before(s, n, a)
  BY <1>4, BeforeIs, SidesAre DEF Sides
<1>6. n \in sub[t.kid[s][a]]
  BY <1>4, <1>5 DEF WellFormed, Ordered
<1>7. t.kid[s][a] # Null
  BY <1>6 DEF WellFormed, Ordered
<1>8. t.kid[s][a] \in L /\ t.kid[s][a] \in sub[a] /\ sub[a] \subseteq Keys
  BY <1>1, <1>4, <1>7, KidBelow DEF WellFormed, Ordered
<1>9. t.kid[s][a] \in sub[z]
  <2>1. sub[a] \subseteq sub[z]
    BY <1>4, SubBelow
  <2>2. QED
    BY <1>8, <2>1
<1>10. t.kid[s][a] = n
  BY <1>3, <1>6, <1>9
<1>11. t.p[n] = a
  BY <1>4, <1>7, <1>10, KidBelow
<1>12. QED
  BY <1>4, <1>5, <1>10, <1>11

(* Only the root has no parent. *)
LEMMA ParentIs ==
  ASSUME NEW t, NEW L, NEW sub, WellFormed(t, L, sub), NEW n \in L, n # t.root
  PROVE  \E a \in L, s \in Sides : t.p[n] = a /\ t.kid[s][a] = n
<1>1. t.root \in L /\ n \in sub[t.root]
  BY DEF WellFormed, Joined, Ordered
<1>2. QED
  BY <1>1, ParentBelow

(* A node is on the side its key is on, which SideOf finds. *)
LEMMA SideIs ==
  ASSUME NEW t, NEW L, NEW sub, WellFormed(t, L, sub),
         NEW a \in L, NEW s \in Sides, t.kid[s][a] # Null
  PROVE  /\ t.p[t.kid[s][a]] = a /\ SideOf(t, t.kid[s][a]) = s
         /\ t.kid[Opposite(s)][a] # t.kid[s][a]
         /\ t.root # t.kid[s][a]
<1>1. t.p[t.kid[s][a]] = a /\ t.kid[s][a] \in L /\ a \in Keys /\ L \subseteq Keys
  BY KidBelow DEF WellFormed, Joined
<1>2. t.kid[Opposite(s)][a] # t.kid[s][a]
  <2>1. SUFFICES ASSUME t.kid[Opposite(s)][a] = t.kid[s][a] PROVE FALSE
    OBVIOUS
  <2>2. /\ Before(s, t.kid[s][a], a) /\ Before(Opposite(s), t.kid[s][a], a)
        /\ t.kid[s][a] \in Keys
    BY <1>1, <2>1, KidBelow, SidesAre
  <2>3. QED
    BY <1>1, <2>2, BeforeIs
<1>3. SideOf(t, t.kid[s][a]) = s
  BY <1>1, <1>2, SidesAre DEF SideOf
<1>4. t.root # t.kid[s][a]
  BY <1>1, KeysAre DEF WellFormed, Joined
<1>5. QED
  BY <1>1, <1>2, <1>3, <1>4

(* No node is linked twice. *)
LEMMA KidUnique ==
  ASSUME NEW t, NEW L, NEW sub, WellFormed(t, L, sub),
         NEW a \in L, NEW b \in L, NEW s \in Sides, NEW d \in Sides,
         t.kid[s][a] # Null, t.kid[s][a] = t.kid[d][b]
  PROVE  a = b /\ s = d
<1>1. t.p[t.kid[s][a]] = a /\ t.p[t.kid[d][b]] = b
  BY SideIs
<1>2. SideOf(t, t.kid[s][a]) = s /\ SideOf(t, t.kid[d][b]) = d
  BY SideIs
<1>3. QED
  BY <1>1, <1>2

-----------------------------------------------------------------------------
(* Setting one link, of r's that are like t. *)
RootSet(t, r, m) ==
  /\ r \in Tree /\ r.color = t.color /\ r.p = t.p /\ r.kid = t.kid /\ r.root = m
PSet(t, r, n, m) ==
  /\ r \in Tree /\ r.color = t.color /\ r.root = t.root /\ r.kid = t.kid
  /\ \A a \in Keys : r.p[a] = IF a = n THEN m ELSE t.p[a]
KidSet(t, r, s, n, m) ==
  /\ r \in Tree /\ r.color = t.color /\ r.root = t.root /\ r.p = t.p
  /\ \A a \in Keys, d \in Sides :
       r.kid[d][a] = IF a = n /\ d = s THEN m ELSE t.kid[d][a]

LEMMA SetRoot ==
  ASSUME NEW t \in Tree, NEW m \in Keys \cup {Null}
  PROVE  RootSet(t, [t EXCEPT !.root = m], m)
BY DEF Tree, RootSet

LEMMA SetP ==
  ASSUME NEW t \in Tree, NEW n \in Keys, NEW m \in Keys \cup {Null}
  PROVE  PSet(t, [t EXCEPT !.p[n] = m], n, m)
BY DEF Tree, PSet

LEMMA SetKid ==
  ASSUME NEW t \in Tree, NEW s \in Sides, NEW n \in Keys, NEW m \in Keys \cup {Null}
  PROVE  KidSet(t, [t EXCEPT !.kid[s][n] = m], s, n, m)
<1>1. PICK f : f = [t.kid[s] EXCEPT ![n] = m]
  OBVIOUS
<1>2. t.kid[s] \in [Keys -> Keys \cup {Null}]
  BY DEF Tree
<1>3. f \in [Keys -> Keys \cup {Null}] /\ \A a \in Keys : f[a] = IF a = n THEN m ELSE t.kid[s][a]
  BY <1>1, <1>2
<1>4. PICK g : g = [t.kid EXCEPT ![s] = f]
  OBVIOUS
<1>5. t.kid \in [Sides -> [Keys -> Keys \cup {Null}]]
  BY DEF Tree
<1>6. /\ g \in [Sides -> [Keys -> Keys \cup {Null}]]
      /\ \A d \in Sides : g[d] = IF d = s THEN f ELSE t.kid[d]
  BY <1>3, <1>4, <1>5
<1>7. [t EXCEPT !.kid[s][n] = m] = [t EXCEPT !.kid = g]
  BY <1>1, <1>4, <1>5
<1>8. [t EXCEPT !.kid = g] = [root |-> t.root, p |-> t.p, kid |-> g, color |-> t.color]
  BY DEF Tree
<1>9. [root |-> t.root, p |-> t.p, kid |-> g, color |-> t.color] \in Tree
  BY <1>6 DEF Tree
<1>10. QED
  BY <1>3, <1>6, <1>7, <1>8, <1>9 DEF KidSet

(* RelinkParent and Adopt, link by link: m becomes n's child on side s. *)
Adopted(t, r, s, n, m) ==
  /\ r \in Tree /\ r.color = t.color /\ r.root = t.root
  /\ \A a \in Keys : r.p[a] = IF a = m THEN n ELSE t.p[a]
  /\ \A a \in Keys, d \in Sides :
       r.kid[d][a] = IF a = n /\ d = s THEN m ELSE t.kid[d][a]

LEMMA RelinkIs ==
  ASSUME NEW t \in Tree, NEW m \in Keys \cup {Null}, NEW n \in Keys \cup {Null}
  PROVE  PSet(t, RelinkParent(t, m, n), m, n)
<1>1. CASE m = Null
  BY <1>1, KeysAre DEF RelinkParent, PSet
<1>2. CASE m # Null
  <2>1. m \in Keys
    BY <1>2
  <2>2. PSet(t, [t EXCEPT !.p[m] = n], m, n)
    BY <2>1, SetP
  <2>3. QED
    BY <1>2, <2>2 DEF RelinkParent
<1>3. QED
  BY <1>1, <1>2

LEMMA AdoptIs ==
  ASSUME NEW t \in Tree, NEW s \in Sides, NEW n \in Keys, NEW m \in Keys \cup {Null}
  PROVE  Adopted(t, Adopt(t, s, n, m), s, n, m)
<1>1. PICK u : u = [t EXCEPT !.kid[s][n] = m]
  OBVIOUS
<1>2. KidSet(t, u, s, n, m)
  BY <1>1, SetKid
<1>3. PSet(u, RelinkParent(u, m, n), m, n)
  <2>1. u \in Tree
    BY <1>2 DEF KidSet
  <2>2. QED
    BY <2>1, RelinkIs
<1>4. Adopt(t, s, n, m) = RelinkParent(u, m, n)
  BY <1>1 DEF Adopt
<1>5. QED
  BY <1>2, <1>3, <1>4 DEF KidSet, PSet, Adopted

(* Replacing links and rotating, link by link.  r is t with m in the place *)
(* of its node n.                                                          *)
Supplanted(t, r, n, m) ==
  /\ r \in Tree /\ r.color = t.color /\ r.p = t.p
  /\ r.root = IF t.root = n THEN m ELSE t.root
  /\ \A a \in Keys, d \in Sides :
       r.kid[d][a] = IF t.kid[d][a] = n THEN m ELSE t.kid[d][a]

(* n is linked in one place, which its link up tells. *)
Held(t, n) ==
  /\ n \in Keys
  /\ \/ /\ t.p[n] = Null /\ t.root = n
        /\ \A a \in Keys, d \in Sides : t.kid[d][a] # n
     \/ /\ t.p[n] \in Keys /\ t.root # n
        /\ \E s \in Sides : \A a \in Keys, d \in Sides :
             t.kid[d][a] = n <=> a = t.p[n] /\ d = s

LEMMA HeldSupplant ==
  ASSUME NEW t \in Tree, NEW n, Held(t, n), NEW m \in Keys \cup {Null}
  PROVE  Supplanted(t, Supplant(t, n, m), n, m)
<1>1. CASE t.p[n] = Null
  <2>1. t.root = n /\ \A a \in Keys, d \in Sides : t.kid[d][a] # n
    BY <1>1, KeysAre DEF Held
  <2>2. RootSet(t, Supplant(t, n, m), m)
    BY <1>1, SetRoot DEF Supplant
  <2>3. QED
    BY <2>1, <2>2 DEF Supplanted, RootSet
<1>2. CASE t.p[n] # Null
  <2>1. PICK a : a = t.p[n]
    OBVIOUS
  <2>2. /\ a \in Keys /\ t.root # n
        /\ \E s \in Sides : \A b \in Keys, d \in Sides :
             t.kid[d][b] = n <=> b = a /\ d = s
    BY <1>2, <2>1 DEF Held
  <2>3. PICK s \in Sides : \A b \in Keys, d \in Sides :
             t.kid[d][b] = n <=> b = a /\ d = s
    BY <2>2
  <2>4. SideOf(t, n) = s
    BY <2>1, <2>2, <2>3 DEF SideOf, Sides
  <2>5. Supplant(t, n, m) = [t EXCEPT !.kid[s][a] = m]
    BY <1>2, <2>1, <2>4 DEF Supplant
  <2>6. KidSet(t, Supplant(t, n, m), s, a, m)
    BY <2>2, <2>5, SetKid
  <2>7. QED
    BY <2>2, <2>3, <2>6 DEF Supplanted, KidSet
<1>3. QED
  BY <1>1, <1>2

LEMMA NodesHeld ==
  ASSUME NEW t, NEW L, NEW sub, WellFormed(t, L, sub), NEW n \in L
  PROVE  Held(t, n)
<1>1. /\ t \in Tree /\ L \subseteq Keys /\ n \in Keys /\ n # Null
      /\ \A a \in Keys \ L, d \in Sides : t.kid[d][a] = Null
      /\ t.root # Null => t.p[t.root] = Null
  BY KeysAre DEF WellFormed, Joined
<1>2. CASE n = t.root
  <2>1. t.p[n] = Null
    BY <1>1, <1>2
  <2>2. \A a \in L, d \in Sides : t.kid[d][a] # n
    BY <1>1, <1>2, SideIs
  <2>3. \A a \in Keys, d \in Sides : t.kid[d][a] # n
    BY <1>1, <2>2
  <2>4. QED
    BY <1>1, <1>2, <2>1, <2>3 DEF Held
<1>3. CASE n # t.root
  <2>1. PICK a \in L, s \in Sides : t.p[n] = a /\ t.kid[s][a] = n
    BY <1>3, ParentIs
  <2>2. \A b \in L, d \in Sides : t.kid[d][b] = n => b = a /\ d = s
    BY <1>1, <2>1, KidUnique
  <2>3. \A b \in Keys, d \in Sides : t.kid[d][b] = n <=> b = a /\ d = s
    BY <1>1, <2>1, <2>2
  <2>4. QED
    BY <1>1, <1>3, <2>1, <2>3 DEF Held
<1>4. QED
  BY <1>2, <1>3

LEMMA SupplantIs ==
  ASSUME NEW t, NEW L, NEW sub, WellFormed(t, L, sub), NEW n \in L,
         NEW m \in Keys \cup {Null}
  PROVE  Supplanted(t, Supplant(t, n, m), n, m)
<1>1. t \in Tree
  BY DEF WellFormed, Joined
<1>2. Held(t, n)
  BY NodesHeld
<1>3. QED
  BY ONLY <1>1, <1>2, HeldSupplant, m \in Keys \cup {Null}

(* r is t rotated at n, whose child y on the other side takes its place.   *)
Rotated(t, r, s, n, y, c) ==
  /\ r \in Tree /\ r.color = t.color
  /\ r.root = IF t.root = n THEN y ELSE t.root
  /\ \A a \in Keys : r.p[a] = IF a = n THEN y ELSE IF a = y THEN t.p[n]
                              ELSE IF a = c THEN n ELSE t.p[a]
  /\ \A a \in Keys, d \in Sides :
       r.kid[d][a] = IF a = n /\ d = Opposite(s) THEN c
                     ELSE IF a = y /\ d = s THEN n
                     ELSE IF t.kid[d][a] = n THEN y ELSE t.kid[d][a]

LEMMA RotateIs ==
  ASSUME NEW t, NEW L, NEW sub, WellFormed(t, L, sub),
         NEW n \in L, NEW s \in Sides, NEW y, y = t.kid[Opposite(s)][n], y # Null,
         NEW c, c = t.kid[s][y]
  PROVE  Rotated(t, Rotate(t, s, n), s, n, y, c)
<1>1. /\ t \in Tree /\ n \in Keys /\ y \in Keys /\ n # y
      /\ c \in Keys \cup {Null} /\ c # n /\ c # y
      /\ Opposite(s) \in Sides /\ Opposite(s) # s
      /\ t.p[n] \in Keys \cup {Null}
  <2>1. /\ y \in L /\ y # n /\ L \subseteq Keys /\ t \in Tree
        /\ y \in sub[y] /\ n \notin sub[y]
    BY SidesAre, KidBelow DEF WellFormed, Joined, Ordered
  <2>2. c = Null \/ (c \in sub[y] /\ c # y /\ c \in L)
    BY <2>1, KidBelow DEF WellFormed, Ordered
  <2>3. c # n /\ c # y
    BY <2>1, <2>2, KeysAre
  <2>4. QED
    BY <2>1, <2>2, <2>3, SidesAre DEF Tree
<1>2. PICK u : u = Supplant(t, n, y)
  OBVIOUS
<1>3. Supplanted(t, u, n, y)
  BY <1>1, <1>2, SupplantIs
<1>4. PICK v : v = [u EXCEPT !.p[y] = t.p[n]]
  OBVIOUS
<1>5. PSet(u, v, y, t.p[n])
  <2>1. u \in Tree
    BY <1>3 DEF Supplanted
  <2>2. QED
    BY <1>1, <1>4, <2>1, SetP
<1>6. PICK w : w = Adopt(v, Opposite(s), n, c)
  OBVIOUS
<1>7. Adopted(v, w, Opposite(s), n, c)
  <2>1. v \in Tree
    BY <1>5 DEF PSet
  <2>2. QED
    BY <1>1, <1>6, <2>1, AdoptIs
<1>8. PICK r : r = Adopt(w, s, y, n)
  OBVIOUS
<1>9. Adopted(w, r, s, y, n)
  <2>1. w \in Tree
    BY <1>7, Zenon DEF Adopted
  <2>2. QED
    BY <1>1, <1>8, <2>1, AdoptIs
<1>10. r = Rotate(t, s, n)
  BY <1>2, <1>4, <1>6, <1>8, Zenon DEF Rotate
<1>11. Rotated(t, r, s, n, y, c)
  <2>1. /\ r \in Tree /\ r.color = t.color
        /\ r.root = IF t.root = n THEN y ELSE t.root
    BY ONLY <1>3, <1>5, <1>7, <1>9 DEF Supplanted, PSet, Adopted
  <2>2. \A a \in Keys : r.p[a] = IF a = n THEN y ELSE IF a = y THEN t.p[n]
                                 ELSE IF a = c THEN n ELSE t.p[a]
    BY ONLY <1>1, <1>3, <1>5, <1>7, <1>9 DEF Supplanted, PSet, Adopted
  <2>3. \A a \in Keys, d \in Sides :
          r.kid[d][a] = IF a = n /\ d = Opposite(s) THEN c
                        ELSE IF a = y /\ d = s THEN n
                        ELSE IF t.kid[d][a] = n THEN y ELSE t.kid[d][a]
    BY <1>1, <1>3, <1>5, <1>7, <1>9 DEF Supplanted, PSet, Adopted
  <2>4. QED
    BY <2>1, <2>2, <2>3 DEF Rotated
<1>12. QED
  BY <1>10, <1>11

(* A rotation keeps a search tree of the same nodes. *)
RotatedLabels(sub, s, n, y) ==
  [k \in Keys \cup {Null} |-> IF k = y THEN sub[n]
                              ELSE IF k = n THEN {m \in sub[n] : Before(s, m, y)}
                              ELSE sub[k]]

LEMMA RotateKeeps ==
  ASSUME NEW t, NEW L, NEW sub, WellFormed(t, L, sub),
         NEW n \in L, NEW s \in Sides, NEW y, y = t.kid[Opposite(s)][n], y # Null,
         NEW c, c = t.kid[s][y], NEW r, Rotated(t, r, s, n, y, c)
  PROVE  WellFormed(r, L, RotatedLabels(sub, s, n, y))
<1>1. /\ L \subseteq Keys /\ Null \notin Keys /\ t \in Tree
      /\ n \in Keys /\ y \in L /\ y \in Keys /\ n # y /\ t.p[y] = n
      /\ Opposite(s) \in Sides /\ Opposite(s) # s
      /\ y \in sub[n] /\ Before(s, n, y) /\ Before(Opposite(s), y, n)
      /\ n \notin sub[y] /\ y \in sub[y] /\ n \in sub[n]
      /\ t.root # y
  <2>1. /\ y \in L /\ y \in sub[n] /\ Before(Opposite(s), y, n) /\ n \notin sub[y]
        /\ t.p[y] = n /\ t.root # y
    BY SidesAre, KidBelow, SideIs
  <2>2. L \subseteq Keys /\ Null \notin Keys /\ t \in Tree /\ y \in sub[y] /\ n \in sub[n]
    BY <2>1, KeysAre DEF WellFormed, Joined, Ordered
  <2>3. n # y
    BY ONLY <2>1, <2>2
  <2>4. QED
    BY ONLY <2>1, <2>2, <2>3, SidesAre, BeforeIs
<1>2. c = Null \/ (c \in L /\ c # y /\ c # n /\ t.p[c] = y /\ c # t.root)
  <2>1. ASSUME c # Null
        PROVE  c \in L /\ c \in sub[y] /\ c # y /\ t.p[c] = y /\ c # t.root
    <3>1. c \in L /\ c \in sub[y] /\ Before(s, c, y) /\ t.p[c] = y
      BY ONLY <1>1, <2>1, KidBelow, WellFormed(t, L, sub), c = t.kid[s][y], s \in Sides
    <3>2. c # y
      BY ONLY <1>1, <3>1, BeforeIs
    <3>3. c # t.root
      BY ONLY <1>1, <2>1, SideIs, WellFormed(t, L, sub), c = t.kid[s][y], s \in Sides
    <3>4. QED
      BY <3>1, <3>2, <3>3, Zenon
  <2>2. QED
    BY ONLY <1>1, <2>1
<1>3. \A a \in L, d \in Sides : /\ t.kid[d][a] = n => a # n /\ a # y
                                /\ t.kid[d][a] = y => a = n /\ d = Opposite(s)
                                /\ t.kid[d][a] = c /\ c # Null => a = y /\ d = s
  <2>1. ASSUME NEW a \in L, NEW d \in Sides, t.kid[d][a] = n
        PROVE  a # n /\ a # y
    <3>1. t.p[n] = a /\ Before(d, n, a) /\ n \in sub[a] /\ a \in Keys
      BY ONLY <1>1, <2>1, KidBelow, WellFormed(t, L, sub), n \in L
    <3>2. QED
      BY ONLY <1>1, <3>1, BeforeIs
  <2>2. ASSUME NEW a \in L, NEW d \in Sides, t.kid[d][a] = y
        PROVE  a = n /\ d = Opposite(s)
    BY <1>1, <2>2, KidUnique
  <2>3. ASSUME NEW a \in L, NEW d \in Sides, t.kid[d][a] = c, c # Null
        PROVE  a = y /\ d = s
    BY <1>1, <2>3, KidUnique
  <2>4. QED
    BY <2>1, <2>2, <2>3
<1>4. PICK sub2 : sub2 = RotatedLabels(sub, s, n, y)
  BY Zenon
<1>5. /\ sub2 \in Labels
      /\ \A k \in Keys \cup {Null} :
           sub2[k] = IF k = y THEN sub[n]
                     ELSE IF k = n THEN {m \in sub[n] : Before(s, m, y)} ELSE sub[k]
  <2>1. sub \in Labels
    BY DEF WellFormed, Ordered
  <2>2. QED
    BY <1>1, <1>4, <2>1, Zenon DEF RotatedLabels, Labels
<1>6. Joined(r, L)
  <2>1. r \in Tree /\ L \subseteq Keys
    BY <1>1 DEF Rotated
  <2>2. r.root \in L \cup {Null} /\ (r.root # Null => r.p[r.root] = Null)
    <3>1. t.root \in L \cup {Null} /\ (t.root # Null => t.p[t.root] = Null)
      BY DEF WellFormed, Joined
    <3>2. CASE t.root = n
      <4>1. r.root = y /\ r.p[y] = t.p[n]
        BY <1>1, <3>2 DEF Rotated
      <4>2. QED
        BY <1>1, <3>1, <3>2, <4>1
    <3>3. CASE t.root # n
      <4>1. r.root = t.root
        BY <3>3, Zenon DEF Rotated
      <4>2. t.root # Null => r.p[t.root] = t.p[t.root]
        BY <1>1, <1>2, <3>1, <3>3, Zenon DEF Rotated
      <4>3. QED
        BY <3>1, <4>1, <4>2
    <3>4. QED
      BY <3>2, <3>3
  <2>3. ASSUME NEW a \in L, NEW d \in Sides
        PROVE  /\ r.kid[d][a] \in L \cup {Null}
               /\ r.kid[d][a] # Null => r.p[r.kid[d][a]] = a
    <3>1. /\ t.kid[d][a] \in L \cup {Null}
          /\ t.kid[d][a] # Null => t.p[t.kid[d][a]] = a
      BY Zenon DEF WellFormed, Joined
    <3>2. CASE a = n /\ d = Opposite(s)
      <4>1. r.kid[d][a] = c
        BY <1>1, <3>2, Zenon DEF Rotated
      <4>2. c # Null => r.p[c] = n
        BY <1>1, <1>2, Zenon DEF Rotated
      <4>3. QED
        BY ONLY <1>2, <3>2, <4>1, <4>2
    <3>3. CASE a = y /\ d = s
      BY <1>1, <1>2, <3>3, Zenon DEF Rotated
    <3>4. CASE ~(a = n /\ d = Opposite(s)) /\ ~(a = y /\ d = s) /\ t.kid[d][a] = n
      <4>1. r.kid[d][a] = y /\ r.p[y] = t.p[n]
        BY <1>1, <3>4 DEF Rotated
      <4>2. QED
        BY <1>1, <3>1, <3>4, <4>1
    <3>5. CASE ~(a = n /\ d = Opposite(s)) /\ ~(a = y /\ d = s) /\ t.kid[d][a] # n
      <4>1. r.kid[d][a] = t.kid[d][a]
        BY <1>1, <3>5, Zenon DEF Rotated
      <4>2. t.kid[d][a] # Null => t.kid[d][a] # y /\ t.kid[d][a] # c
        BY <1>3, <3>5
      <4>3. QED
        BY <1>1, <3>1, <3>5, <4>1, <4>2 DEF Rotated
    <3>6. QED
      BY ONLY <3>2, <3>3, <3>4, <3>5
  <2>4. ASSUME NEW a \in Keys \ L
        PROVE  r.p[a] = Null /\ \A d \in Sides : r.kid[d][a] = Null
    <3>1. a # n /\ a # y /\ a # c /\ a \in Keys
      BY <1>1, <1>2, Zenon
    <3>2. t.p[a] = Null /\ \A d \in Sides : t.kid[d][a] = Null
      BY DEF WellFormed, Joined
    <3>3. n # Null
      BY <1>1
    <3>4. QED
      BY <3>1, <3>2, <3>3, Zenon DEF Rotated
  <2>5. QED
    BY <2>1, <2>2, <2>3, <2>4 DEF Joined
<1>7. Ordered(r, L, sub2)
  <2>1. sub2[Null] = {} /\ sub2[r.root] = L
    <3>1. sub[Null] = {} /\ sub[t.root] = L /\ t.root \in Keys \cup {Null}
      BY <1>1 DEF WellFormed, Ordered, Joined
    <3>2. sub2[Null] = {}
      BY <1>1, <1>5, <3>1
    <3>3. CASE t.root = n
      BY <1>1, <1>5, <3>1, <3>3, Zenon DEF Rotated
    <3>4. CASE t.root # n
      <4>1. r.root = t.root
        BY <3>4, Zenon DEF Rotated
      <4>2. sub2[t.root] = sub[t.root]
        BY <1>1, <1>5, <3>1, <3>4, Zenon
      <4>3. QED
        BY <3>1, <3>2, <4>1, <4>2, Zenon
    <3>5. QED
      BY ONLY <3>2, <3>3, <3>4
  <2>2. \A a \in Keys \ L : sub2[a] = {a}
    BY <1>1, <1>5 DEF WellFormed, Ordered
  <2>3. ASSUME NEW a \in L
        PROVE  a \in sub2[a] /\ sub2[a] \subseteq L
    <3>1. a \in sub[a] /\ sub[a] \subseteq L /\ sub[n] \subseteq L /\ a \in Keys
      BY <1>1 DEF WellFormed, Ordered
    <3>2. QED
      BY <1>1, <1>5, <3>1
  <2>4. ASSUME NEW a \in L, NEW d \in Sides
        PROVE  sub2[r.kid[d][a]] = {m \in sub2[a] : Before(d, m, a)}
    <3>1. /\ sub[t.kid[d][a]] = {m \in sub[a] : Before(d, m, a)}
          /\ sub[t.kid[Opposite(s)][n]] = {m \in sub[n] : Before(Opposite(s), m, n)}
          /\ sub[t.kid[s][n]] = {m \in sub[n] : Before(s, m, n)}
          /\ sub[t.kid[s][y]] = {m \in sub[y] : Before(s, m, y)}
          /\ sub[n] \subseteq Keys
          /\ t.kid[d][a] \in L \cup {Null} /\ a \in Keys
      <4>1. /\ \A k \in L : /\ sub[k] \subseteq L
                           /\ \A e \in Sides : sub[t.kid[e][k]] = {m \in sub[k] : Before(e, m, k)}
            /\ t.kid[d][a] \in L \cup {Null}
        BY Zenon DEF WellFormed, Ordered, Joined
      <4>2. QED
        BY ONLY <1>1, <4>1, n \in L, s \in Sides, a \in L, d \in Sides
    <3>2. CASE a = n /\ d = Opposite(s)
      <4>1. r.kid[d][a] = c /\ sub2[c] = sub[c] /\ sub2[a] = {m \in sub[n] : Before(s, m, y)}
        BY <1>1, <1>2, <1>5, <3>2, Zenon DEF Rotated
      <4>2. QED
        BY <3>1, <3>2, <4>1, Zenon
    <3>3. CASE a = y /\ d = s
      <4>1. r.kid[d][a] = n /\ sub2[n] = {m \in sub[n] : Before(s, m, y)} /\ sub2[a] = sub[n]
        BY <1>1, <1>5, <3>3 DEF Rotated
      <4>2. QED
        BY <3>3, <4>1
    <3>4. CASE t.kid[d][a] = n
      <4>1. a # n /\ a # y
        BY <1>3, <3>4, Zenon
      <4>2. r.kid[d][a] = y /\ sub2[y] = sub[n] /\ sub2[a] = sub[a]
        BY <1>1, <1>5, <4>1, <3>1, <3>4, Zenon DEF Rotated
      <4>3. QED
        BY <3>1, <3>4, <4>2
    <3>5. CASE ~(a = n /\ d = Opposite(s)) /\ ~(a = y /\ d = s) /\ t.kid[d][a] # n
      <4>1. r.kid[d][a] = t.kid[d][a] /\ t.kid[d][a] # y
        <5>1. t.kid[d][a] # y
          BY <1>3, <3>5, Zenon
        <5>2. QED
          BY <3>1, <3>5, <5>1, Zenon DEF Rotated
      <4>2. sub2[r.kid[d][a]] = {m \in sub[a] : Before(d, m, a)}
        BY <1>1, <1>5, <3>1, <3>5, <4>1, Zenon
      <4>3. CASE a = n
        <5>1. d = s
          BY <3>5, <4>3, SidesAre DEF Sides
        <5>2. sub2[a] = {m \in sub[n] : Before(s, m, y)}
          BY <1>1, <1>5, <4>3
        <5>3. \A m \in Keys : Before(s, m, n) => Before(s, m, y)
          BY ONLY <1>1, BeforeIs
        <5>4. QED
          BY <3>1, <4>2, <4>3, <5>1, <5>2, <5>3
      <4>4. CASE a = y
        <5>1. d = Opposite(s)
          BY <3>5, <4>4, SidesAre DEF Sides
        <5>2. sub2[a] = sub[n]
          BY <1>5, <4>4, <1>1
        <5>3. \A m \in Keys : Before(Opposite(s), m, y) => Before(Opposite(s), m, n)
          BY <1>1, BeforeIs
        <5>4. sub[y] = {m \in sub[n] : Before(Opposite(s), m, n)}
          BY <3>1, Zenon
        <5>5. QED
          BY <3>1, <4>2, <4>4, <5>1, <5>2, <5>3, <5>4, Zenon
      <4>5. CASE a # n /\ a # y
        BY <1>5, <3>1, <4>2, <4>5
      <4>6. QED
        BY <4>3, <4>4, <4>5
    <3>6. QED
      BY ONLY <3>2, <3>3, <3>4, <3>5
  <2>5. QED
    BY <1>5, <2>1, <2>2, <2>3, <2>4 DEF Ordered
<1>8. QED
  BY <1>4, <1>6, <1>7 DEF WellFormed

-----------------------------------------------------------------------------
(* Descents and climbs.  What a recursive function that follows links up   *)
(* to a stop computes is what it computes one link further on: the nodes   *)
(* reached from n are n and those reached from the next one, and a stop    *)
(* among them can be chosen.                                               *)
Walks(f, D, stop, next, val) ==
  f = [n \in D |-> IF n \in stop THEN val[n] ELSE f[next[n]]]

LEMMA WalkExists ==
  ASSUME NEW D, NEW stop, NEW next, NEW val,
         \A n \in D : n \notin stop => next[n] \in D
  PROVE  \E f : Walks(f, D, stop, next, val)
<1> DEFINE Closed(S) == \A m \in S : m \notin stop => next[m] \in S
           Reach(n) == {z \in D : \A S \in SUBSET D : n \in S /\ Closed(S) => z \in S}
           End(n) == CHOOSE e : e \in Reach(n) /\ e \in stop
           f == [n \in D |-> val[End(n)]]
<1>1. ASSUME NEW n \in D
      PROVE  n \in Reach(n) /\ Closed(Reach(n)) /\ Reach(n) \subseteq D
  <2>1. ASSUME NEW m \in Reach(n), m \notin stop PROVE next[m] \in Reach(n)
    <3>1. next[m] \in D
      BY <2>1
    <3>2. ASSUME NEW S \in SUBSET D, n \in S, Closed(S) PROVE next[m] \in S
      BY <2>1, <3>2
    <3>3. QED
      BY <3>1, <3>2
  <2>2. QED
    BY <2>1
<1>2. ASSUME NEW n \in D, n \in stop PROVE Reach(n) = {n}
  <2>1. Closed({n}) /\ {n} \in SUBSET D
    BY <1>2
  <2>2. ASSUME NEW z \in Reach(n) PROVE z = n
    BY <2>1
  <2>3. n \in Reach(n)
    <3> HIDE DEF Reach
    <3>1. QED
      BY <1>1
  <2>4. QED
    <3> HIDE DEF Reach
    <3>1. QED
      BY <2>2, <2>3
<1>3. ASSUME NEW n \in D, n \notin stop
      PROVE  Reach(n) = {n} \cup Reach(next[n]) /\ next[n] \in D
  <2>1. next[n] \in D
    BY <1>3
  <2>2. Closed({n} \cup Reach(next[n])) /\ {n} \cup Reach(next[n]) \in SUBSET D
    <3> HIDE DEF Reach
    <3>1. QED
      BY <1>1, <1>3, <2>1
  <2>3. Reach(n) \subseteq {n} \cup Reach(next[n])
    BY <2>2
  <2>4. Reach(next[n]) \subseteq Reach(n)
    <3>1. next[n] \in Reach(n) /\ Closed(Reach(n)) /\ Reach(n) \in SUBSET D
      <4> HIDE DEF Reach
      <4>1. QED
        BY <1>1, <1>3
    <3>2. QED
      BY <3>1
  <2>5. QED
    <3> HIDE DEF Reach
    <3>1. QED
      BY <1>1, <2>1, <2>3, <2>4
<1> HIDE DEF Reach
<1>4. ASSUME NEW n \in D, n \in stop PROVE f[n] = val[n]
  BY <1>2, <1>4
<1>5. ASSUME NEW n \in D, n \notin stop PROVE f[n] = f[next[n]]
  <2>1. \A e : (e \in Reach(n) /\ e \in stop) <=> (e \in Reach(next[n]) /\ e \in stop)
    BY <1>3, <1>5
  <2>2. End(n) = End(next[n])
    BY <2>1
  <2>3. QED
    BY <1>3, <1>5, <2>2
<1>6. f = [n \in D |-> IF n \in stop THEN val[n] ELSE f[next[n]]]
  BY <1>4, <1>5
<1>7. QED
  BY <1>6, Zenon DEF Walks

(* _get_min_node and _get_max_node find the ends of a subtree. *)
EndOf(t, sub, s, node, e) ==
  /\ e \in sub[node] /\ t.kid[s][e] = Null
  /\ \A m \in sub[node] : m = e \/ Before(s, e, m)

LEMMA OutermostIs ==
  ASSUME NEW t, NEW L, NEW sub, WellFormed(t, L, sub), NEW s \in Sides, NEW node \in L
  PROVE  EndOf(t, sub, s, node, Outermost(t, s, node))
<1> DEFINE Eq(g) == [n \in Keys |-> IF t.kid[s][n] = Null THEN n ELSE g[t.kid[s][n]]]
           down == CHOOSE g : g = Eq(g)
           Bad == {n \in L : ~EndOf(t, sub, s, n, down[n])}
<1>1. /\ t \in Tree /\ L \subseteq Keys /\ Null \notin Keys
      /\ \A n \in Keys : t.kid[s][n] \in Keys \cup {Null}
  BY KeysAre, Zenon DEF WellFormed, Joined, Tree
<1>2. down = Eq(down)
  <2>1. PICK stop : stop = {n \in Keys : t.kid[s][n] = Null}
    OBVIOUS
  <2>2. PICK val : val = [n \in Keys |-> n]
    OBVIOUS
  <2>3. PICK next : next = t.kid[s]
    OBVIOUS
  <2>4. \A n \in Keys : n \notin stop => next[n] \in Keys
    BY <1>1, <2>1, <2>3
  <2>5. PICK g : Walks(g, Keys, stop, next, val)
    BY ONLY <2>4, WalkExists
  <2>6. g = Eq(g)
    BY <2>1, <2>2, <2>3, <2>5 DEF Walks
  <2>7. QED
    BY <2>6, Zenon
<1>3. Outermost(t, s, node) = down[node]
  BY <1>1 DEF Outermost
<1> HIDE DEF down
<1>4. \A n \in Keys : down[n] = IF t.kid[s][n] = Null THEN n ELSE down[t.kid[s][n]]
  BY <1>2
<1>5. Bad = {}
  <2>1. SUFFICES ASSUME Bad # {} PROVE FALSE
    OBVIOUS
  <2>2. PICK n \in Bad : \A d \in Sides : t.kid[d][n] \notin Bad
    <3>1. Bad \subseteq L
      OBVIOUS
    <3> HIDE DEF Bad
    <3>2. QED
      BY <2>1, <3>1, LeastBad
  <2>3. /\ n \in L /\ n \in Keys /\ n \in sub[n] /\ sub[n] \subseteq Keys
        /\ sub[t.kid[s][n]] = {m \in sub[n] : Before(s, m, n)}
    BY <1>1 DEF WellFormed, Ordered
  <2>4. CASE t.kid[s][n] = Null
    <3>1. down[n] = n
      BY <1>4, <2>3, <2>4
    <3>2. {m \in sub[n] : Before(s, m, n)} = {}
      BY <2>3, <2>4 DEF WellFormed, Ordered
    <3>3. ASSUME NEW m \in sub[n] PROVE m = n \/ Before(s, n, m)
      BY <2>3, <3>2, BeforeIs
    <3>4. QED
      BY <2>2, <2>3, <2>4, <3>1, <3>3 DEF EndOf
  <2>5. CASE t.kid[s][n] # Null
    <3>1. PICK c : c = t.kid[s][n]
      OBVIOUS
    <3>2. c \in L /\ c \in Keys /\ Before(s, c, n) /\ sub[c] \subseteq sub[n] /\ n \notin sub[c]
      BY <1>1, <2>3, <2>5, <3>1, KidBelow
    <3>3. EndOf(t, sub, s, c, down[c])
      BY <2>2, <3>1, <3>2
    <3>4. down[n] = down[c]
      BY <1>4, <2>3, <2>5, <3>1
    <3>5. ASSUME NEW m \in sub[n]
          PROVE  m = down[c] \/ Before(s, down[c], m)
      <4>1. m \in Keys /\ down[c] \in Keys /\ Before(s, down[c], n) /\ down[c] \in sub[c]
        BY <2>3, <3>1, <3>2, <3>3 DEF EndOf
      <4>2. CASE m \in sub[c]
        BY <3>3, <4>2 DEF EndOf
      <4>3. CASE m \notin sub[c]
        <5>1. m = n \/ Before(s, n, m)
          BY <2>3, <3>1, <4>1, <4>3, BeforeIs
        <5>2. QED
          BY <2>3, <4>1, <5>1, BeforeIs
      <4>4. QED
        BY <4>2, <4>3
    <3>6. EndOf(t, sub, s, n, down[n])
      BY <3>2, <3>3, <3>4, <3>5 DEF EndOf
    <3>7. QED
      BY <2>2, <3>6
  <2>6. QED
    BY <2>4, <2>5
<1>6. QED
  BY <1>3, <1>5

-----------------------------------------------------------------------------
(* What the queries find. *)

LEMMA LabelsAt ==
  ASSUME NEW t, NEW L, NEW sub, WellFormed(t, L, sub), NEW n \in Keys
  PROVE  /\ n \in sub[n] /\ sub[n] \subseteq Keys
         /\ \A s \in Sides : /\ t.kid[s][n] \in Keys \cup {Null}
                             /\ sub[t.kid[s][n]] = {m \in sub[n] : Before(s, m, n)}
<1>1. CASE n \in L
  BY <1>1 DEF WellFormed, Joined, Ordered
<1>2. CASE n \notin L
  <2>1. sub[n] = {n} /\ sub[Null] = {} /\ \A s \in Sides : t.kid[s][n] = Null
    BY <1>2 DEF WellFormed, Joined, Ordered
  <2>2. QED
    BY <2>1, BeforeIs
<1>3. QED
  BY <1>1, <1>2

(* The way down to k goes to the side k is on. *)
LEMMA TowardIs ==
  ASSUME NEW t, NEW n \in Keys, NEW k \in Keys, n # k
  PROVE  \E s \in Sides : /\ Before(s, k, n) /\ Toward(t, n, k) = t.kid[s][n]
                          /\ SideFor(k, n) = s
<1>1. n \in Int /\ k \in Int
  BY KeysAre
<1>2. CASE n < k
  <2>1. ~(k < n)
    BY <1>1, <1>2
  <2>2. QED
    BY <1>2, <2>1 DEF Before, Toward, SideFor, Sides
<1>3. CASE ~(n < k)
  <2>1. k < n
    BY <1>1, <1>3
  <2>2. QED
    BY <1>3, <2>1 DEF Before, Toward, SideFor, Sides
<1>4. QED
  BY <1>2, <1>3

(* get *)
LEMMA GetIs ==
  ASSUME NEW t, NEW L, NEW sub, WellFormed(t, L, sub), NEW k \in Keys
  PROVE  Get(t, k) = IF k \in L THEN k ELSE Null
<1> DEFINE D == Keys \cup {Null}
           Eq(g) == [n \in D |-> IF n = Null \/ n = k THEN n ELSE g[Toward(t, n, k)]]
           find == CHOOSE g : g = Eq(g)
           Bad == {n \in L : find[n] # IF k \in sub[n] THEN k ELSE Null}
<1>1. L \subseteq Keys /\ Null \notin Keys /\ k # Null
  BY KeysAre DEF WellFormed, Joined
<1>2. \A n \in D : n # Null /\ n # k => Toward(t, n, k) \in D
  <2>1. ASSUME NEW n \in D, n # Null, n # k PROVE Toward(t, n, k) \in D
    <3>1. n \in Keys
      BY <2>1
    <3>2. PICK s \in Sides : Toward(t, n, k) = t.kid[s][n]
      BY <2>1, <3>1, TowardIs
    <3>3. t.kid[s][n] \in Keys \cup {Null}
      BY <3>1, LabelsAt
    <3>4. QED
      BY <3>2, <3>3
  <2>2. QED
    BY <2>1
<1>3. find = Eq(find)
  <2>1. PICK stop : stop = {n \in D : n = Null \/ n = k}
    OBVIOUS
  <2>2. PICK val : val = [n \in D |-> n]
    OBVIOUS
  <2>3. PICK next : next = [n \in D |-> Toward(t, n, k)]
    OBVIOUS
  <2>4. \A n \in D : n \notin stop => next[n] \in D
    BY <1>2, <2>1, <2>3
  <2>5. PICK g : Walks(g, D, stop, next, val)
    BY ONLY <2>4, WalkExists
  <2>6. g = Eq(g)
    BY <2>1, <2>2, <2>3, <2>5 DEF Walks
  <2>7. QED
    BY <2>6
<1>4. Get(t, k) = find[t.root]
  BY DEF Get
<1> HIDE DEF find
<1>5. /\ find[Null] = Null /\ find[k] = k
      /\ \A n \in Keys : n # k => find[n] = find[Toward(t, n, k)]
  BY <1>1, <1>3
<1>6. Bad = {}
  <2>1. SUFFICES ASSUME Bad # {} PROVE FALSE
    OBVIOUS
  <2>2. PICK n \in Bad : \A d \in Sides : t.kid[d][n] \notin Bad
    <3>1. Bad \subseteq L
      OBVIOUS
    <3> HIDE DEF Bad
    <3>2. QED
      BY <2>1, <3>1, LeastBad
  <2>3. n \in L /\ n \in Keys /\ n \in sub[n]
    BY <1>1, LabelsAt
  <2>4. n # k
    BY <1>5, <2>2, <2>3
  <2>5. PICK s \in Sides : Before(s, k, n) /\ Toward(t, n, k) = t.kid[s][n]
    BY <2>3, <2>4, TowardIs
  <2>6. find[n] = find[t.kid[s][n]] /\ (k \in sub[n] <=> k \in sub[t.kid[s][n]])
    BY <1>5, <2>3, <2>4, <2>5, LabelsAt
  <2>7. sub[Null] = {} /\ t.kid[s][n] \in L \cup {Null}
    BY <2>3 DEF WellFormed, Ordered, Joined
  <2>8. find[t.kid[s][n]] = IF k \in sub[t.kid[s][n]] THEN k ELSE Null
    BY <1>5, <2>2, <2>7
  <2>9. QED
    BY <2>2, <2>6, <2>8
<1>7. sub[Null] = {} /\ sub[t.root] = L /\ t.root \in L \cup {Null}
  BY DEF WellFormed, Ordered, Joined
<1>8. QED
  BY <1>4, <1>5, <1>6, <1>7

(* Of the places where a new key could go, _get_slot finds the one on the  *)
(* side of k of all nodes above it.                                        *)
SlotAt(t, S, sub, k, q) ==
  /\ q \in S /\ t.kid[SideFor(k, q)][q] = Null
  /\ \A a \in S, s \in Sides : q \in sub[a] /\ q # a => (Before(s, q, a) <=> Before(s, k, a))

LEMMA SlotParentIs ==
  ASSUME NEW t, NEW L, NEW sub, WellFormed(t, L, sub), NEW k \in Keys \ L, t.root # Null
  PROVE  SlotAt(t, L, sub, k, SlotParent(t, k))
<1> DEFINE Eq(g) == [n \in Keys |-> IF Toward(t, n, k) = Null THEN n ELSE g[Toward(t, n, k)]]
           down == CHOOSE g : g = Eq(g)
           Bad == {n \in L : ~SlotAt(t, sub[n], sub, k, down[n])}
<1>1. L \subseteq Keys /\ Null \notin Keys /\ k \in Keys
  BY KeysAre DEF WellFormed, Joined
<1>2. \A n \in Keys : Toward(t, n, k) \in Keys \cup {Null}
  BY LabelsAt DEF Toward, Sides
<1>3. down = Eq(down)
  <2>1. PICK stop : stop = {n \in Keys : Toward(t, n, k) = Null}
    OBVIOUS
  <2>2. PICK val : val = [n \in Keys |-> n]
    OBVIOUS
  <2>3. PICK next : next = [n \in Keys |-> Toward(t, n, k)]
    OBVIOUS
  <2>4. \A n \in Keys : n \notin stop => next[n] \in Keys
    BY <1>2, <2>1, <2>3
  <2>5. PICK g : Walks(g, Keys, stop, next, val)
    BY ONLY <2>4, WalkExists
  <2>6. g = Eq(g)
    BY <2>1, <2>2, <2>3, <2>5 DEF Walks
  <2>7. QED
    BY <2>6
<1>4. SlotParent(t, k) = down[t.root]
  BY DEF SlotParent
<1> HIDE DEF down
<1>5. \A n \in Keys : down[n] = IF Toward(t, n, k) = Null THEN n ELSE down[Toward(t, n, k)]
  BY <1>3
<1>6. Bad = {}
  <2>1. SUFFICES ASSUME Bad # {} PROVE FALSE
    OBVIOUS
  <2>2. PICK n \in Bad : \A d \in Sides : t.kid[d][n] \notin Bad
    <3>1. Bad \subseteq L
      OBVIOUS
    <3> HIDE DEF Bad
    <3>2. QED
      BY <2>1, <3>1, LeastBad
  <2>3. n \in L /\ n \in Keys /\ n \in sub[n] /\ sub[n] \subseteq Keys /\ n # k
    BY <1>1, LabelsAt
  <2>4. PICK s \in Sides : /\ Before(s, k, n) /\ Toward(t, n, k) = t.kid[s][n]
                           /\ SideFor(k, n) = s
    BY <2>3, TowardIs
  <2>5. PICK c : c = t.kid[s][n]
    OBVIOUS
  <2>6. CASE c = Null
    <3>1. down[n] = n
      BY <1>5, <2>3, <2>4, <2>5, <2>6
    <3>2. ASSUME NEW a \in sub[n], n \in sub[a], n # a PROVE FALSE
      BY <2>3, <3>2, SubBelow
    <3>3. SlotAt(t, sub[n], sub, k, n)
      BY <2>3, <2>4, <2>5, <2>6, <3>2 DEF SlotAt
    <3>4. QED
      BY <2>2, <3>1, <3>3
  <2>7. CASE c # Null
    <3>1. PICK q : q = down[c]
      OBVIOUS
    <3>2. /\ c \in L /\ sub[c] \subseteq sub[n]
          /\ sub[c] = {m \in sub[n] : Before(s, m, n)}
      BY <2>3, <2>5, <2>7, KidBelow, LabelsAt
    <3>3. SlotAt(t, sub[c], sub, k, q) /\ down[n] = q
      BY <1>5, <2>2, <2>3, <2>4, <2>5, <2>7, <3>1, <3>2
    <3>4. q \in sub[c] /\ q \in sub[n] /\ q \in Keys /\ Before(s, q, n)
      BY <2>3, <3>2, <3>3 DEF SlotAt
    <3>5. ASSUME NEW a \in sub[n], NEW d \in Sides, q \in sub[a], q # a
          PROVE  Before(d, q, a) <=> Before(d, k, a)
      <4>1. a \in Keys
        BY <2>3
      <4>2. CASE a = n
        <5>1. d = s \/ d = Opposite(s)
          BY SidesAre DEF Sides
        <5>2. QED
          BY <1>1, <2>3, <2>4, <3>4, <4>2, <5>1, BeforeIs
      <4>3. CASE a \in sub[c]
        BY <3>3, <3>5, <4>3 DEF SlotAt
      <4>4. CASE a # n /\ a \notin sub[c]
        <5>1. Before(Opposite(s), a, n) /\ Opposite(s) \in Sides
          BY <2>3, <3>2, <4>1, <4>4, BeforeIs, SidesAre
        <5>2. PICK b : b = t.kid[Opposite(s)][n]
          OBVIOUS
        <5>3. sub[b] = {m \in sub[n] : Before(Opposite(s), m, n)} /\ a \in sub[b]
          BY <2>3, <5>1, <5>2, LabelsAt
        <5>4. b \in L
          BY <2>3, <5>1, <5>2, <5>3 DEF WellFormed, Joined, Ordered
        <5>5. q \in sub[b]
          BY <3>5, <5>3, <5>4, SubBelow
        <5>6. QED
          BY <2>3, <3>4, <5>3, <5>5, BeforeIs
      <4>5. QED
        BY <4>2, <4>3, <4>4
    <3>6. SlotAt(t, sub[n], sub, k, q)
      BY <3>3, <3>4, <3>5 DEF SlotAt
    <3>7. QED
      BY <2>2, <3>3, <3>6
  <2>8. QED
    BY <2>6, <2>7
<1>7. sub[t.root] = L /\ t.root \in L
  BY DEF WellFormed, Ordered, Joined
<1>8. SlotAt(t, sub[t.root], sub, k, down[t.root])
  BY <1>6, <1>7
<1>9. QED
  BY <1>4, <1>7, <1>8

-----------------------------------------------------------------------------
(* What the operations do to the links. *)
Painted(t, r, n, c) ==
  /\ r \in Tree /\ r.root = t.root /\ r.p = t.p /\ r.kid = t.kid
  /\ \A a \in Keys : r.color[a] = IF a = n THEN c ELSE t.color[a]

LEMMA SetColor ==
  ASSUME NEW t \in Tree, NEW n \in Keys, NEW c \in {"red", "black"}
  PROVE  Painted(t, [t EXCEPT !.color[n] = c], n, c)
BY DEF Tree, Painted

LEMMA PaintIs ==
  ASSUME NEW t \in Tree, NEW n \in Keys \cup {Null}, NEW c \in {"red", "black"}
  PROVE  Painted(t, Paint(t, n, c), n, c)
<1>1. CASE n = Null
  BY <1>1, KeysAre DEF Paint, Painted
<1>2. CASE n # Null
  <2>1. n \in Keys
    BY <1>2
  <2>2. Painted(t, [t EXCEPT !.color[n] = c], n, c)
    BY <2>1, SetColor
  <2>3. QED
    BY <1>2, <2>2 DEF Paint
<1>3. QED
  BY <1>1, <1>2

(* The colours do not matter to the shape. *)
SameLinks(t, r) ==
  r \in Tree /\ r.root = t.root /\ r.p = t.p /\ r.kid = t.kid

LEMMA PaintKeeps ==
  ASSUME NEW t, NEW L, NEW sub, WellFormed(t, L, sub), NEW r, SameLinks(t, r)
  PROVE  WellFormed(r, L, sub)
BY DEF WellFormed, Joined, Ordered, SameLinks

(* A red leaf k below q. *)
Grown(t, r, s, q, k) ==
  /\ r \in Tree /\ r.root = t.root
  /\ \A a \in Keys : r.p[a] = IF a = k THEN q ELSE t.p[a]
  /\ \A a \in Keys, d \in Sides :
       r.kid[d][a] = IF a = q /\ d = s THEN k ELSE t.kid[d][a]
  /\ \A a \in Keys : r.color[a] = IF a = k THEN "red" ELSE t.color[a]

LEMMA GrowIs ==
  ASSUME NEW t \in Tree, NEW s \in Sides, NEW q \in Keys, NEW k \in Keys
  PROVE  Grown(t, [t EXCEPT !.kid[s][q] = k, !.p[k] = q, !.color[k] = "red"], s, q, k)
<1>1. PICK u : u = [t EXCEPT !.kid[s][q] = k]
  OBVIOUS
<1>2. KidSet(t, u, s, q, k)
  BY <1>1, SetKid
<1>3. PICK v : v = [u EXCEPT !.p[k] = q]
  OBVIOUS
<1>4. PSet(u, v, k, q)
  <2>1. u \in Tree
    BY <1>2 DEF KidSet
  <2>2. QED
    BY <1>3, <2>1, SetP
<1>5. PICK r : r = [v EXCEPT !.color[k] = "red"]
  OBVIOUS
<1>6. Painted(v, r, k, "red")
  <2>1. v \in Tree
    BY <1>4 DEF PSet
  <2>2. QED
    BY <1>5, <2>1, SetColor
<1>7. r = [t EXCEPT !.kid[s][q] = k, !.p[k] = q, !.color[k] = "red"]
  BY <1>1, <1>3, <1>5
<1>8. Grown(t, r, s, q, k)
  BY <1>2, <1>4, <1>6 DEF KidSet, PSet, Painted, Grown
<1>9. QED
  BY <1>7, <1>8

GrownLabels(sub, k, q) ==
  [m \in Keys \cup {Null} |-> IF m = k THEN {k}
                              ELSE IF q \in sub[m] THEN sub[m] \cup {k} ELSE sub[m]]

LEMMA GrowKeeps ==
  ASSUME NEW t, NEW L, NEW sub, WellFormed(t, L, sub), NEW k \in Keys \ L,
         NEW q, SlotAt(t, L, sub, k, q), NEW s, s = SideFor(k, q),
         NEW r, Grown(t, r, s, q, k)
  PROVE  WellFormed(r, L \cup {k}, GrownLabels(sub, k, q))
<1>1. /\ L \subseteq Keys /\ Null \notin Keys /\ t \in Tree /\ k \in Keys /\ k \notin L
      /\ q \in L /\ q \in Keys /\ q # k /\ q \in sub[q]
      /\ t.kid[s][q] = Null
      /\ \A a \in L, d \in Sides : q \in sub[a] /\ q # a => (Before(d, q, a) <=> Before(d, k, a))
  BY KeysAre DEF WellFormed, Joined, Ordered, SlotAt
<1>2. s \in Sides /\ Before(s, k, q)
  BY <1>1, TowardIs
<1>3. PICK sub2 : sub2 = GrownLabels(sub, k, q)
  OBVIOUS
<1>4. /\ sub2 \in Labels
      /\ \A m \in Keys \cup {Null} :
           sub2[m] = IF m = k THEN {k}
                     ELSE IF q \in sub[m] THEN sub[m] \cup {k} ELSE sub[m]
  <2>1. sub \in Labels
    BY DEF WellFormed, Ordered
  <2>2. QED
    BY <1>1, <1>3, <2>1 DEF GrownLabels, Labels
<1>5. Joined(r, L \cup {k})
  <2>1. r \in Tree /\ L \cup {k} \subseteq Keys
    BY <1>1 DEF Grown
  <2>2. r.root \in L \cup {k} \cup {Null} /\ (r.root # Null => r.p[r.root] = Null)
    <3>1. t.root \in L \cup {Null} /\ (t.root # Null => t.p[t.root] = Null)
      BY DEF WellFormed, Joined
    <3>2. QED
      BY <1>1, <3>1 DEF Grown
  <2>3. ASSUME NEW a \in L \cup {k}, NEW d \in Sides
        PROVE  /\ r.kid[d][a] \in L \cup {k} \cup {Null}
               /\ r.kid[d][a] # Null => r.p[r.kid[d][a]] = a
    <3>1. CASE a = q /\ d = s
      BY <1>1, <3>1 DEF Grown
    <3>2. CASE ~(a = q /\ d = s) /\ a \in L
      <4>1. t.kid[d][a] \in L \cup {Null} /\ (t.kid[d][a] # Null => t.p[t.kid[d][a]] = a)
        BY <3>2 DEF WellFormed, Joined
      <4>2. QED
        BY <1>1, <3>2, <4>1 DEF Grown
    <3>3. CASE a = k
      <4>1. t.kid[d][k] = Null
        BY <1>1 DEF WellFormed, Joined
      <4>2. QED
        BY <1>1, <3>3, <4>1 DEF Grown
    <3>4. QED
      BY <3>1, <3>2, <3>3
  <2>4. ASSUME NEW a \in Keys \ (L \cup {k})
        PROVE  r.p[a] = Null /\ \A d \in Sides : r.kid[d][a] = Null
    <3>1. t.p[a] = Null /\ \A d \in Sides : t.kid[d][a] = Null
      BY DEF WellFormed, Joined
    <3>2. QED
      BY <1>1, <3>1 DEF Grown
  <2>5. QED
    BY <2>1, <2>2, <2>3, <2>4 DEF Joined
<1>6. Ordered(r, L \cup {k}, sub2)
  <2>1. sub2[Null] = {} /\ sub2[r.root] = L \cup {k}
    <3>1. sub[Null] = {} /\ sub[t.root] = L /\ t.root \in L \cup {Null}
      BY DEF WellFormed, Ordered, Joined
    <3>2. r.root = t.root
      BY DEF Grown
    <3>3. QED
      BY <1>1, <1>4, <3>1, <3>2
  <2>2. ASSUME NEW a \in Keys \ (L \cup {k}) PROVE sub2[a] = {a}
    <3>1. sub[a] = {a}
      BY DEF WellFormed, Ordered
    <3>2. QED
      BY <1>1, <1>4, <3>1
  <2>3. ASSUME NEW a \in L \cup {k} PROVE a \in sub2[a] /\ sub2[a] \subseteq L \cup {k}
    <3>1. a \in L => a \in sub[a] /\ sub[a] \subseteq L
      BY DEF WellFormed, Ordered
    <3>2. QED
      BY <1>1, <1>4, <3>1
  <2>4. ASSUME NEW a \in L \cup {k}, NEW d \in Sides
        PROVE  sub2[r.kid[d][a]] = {m \in sub2[a] : Before(d, m, a)}
    <3>1. a \in Keys
      BY <1>1
    <3>2. CASE a = k
      <4>1. r.kid[d][k] = Null
        BY <1>1 DEF Grown, WellFormed, Joined
      <4>2. sub2[k] = {k} /\ ~Before(d, k, k)
        BY <1>1, <1>4, BeforeIs
      <4>3. QED
        BY <2>1, <3>2, <4>1, <4>2
    <3>3. CASE a = q /\ d = s
      <4>1. r.kid[d][a] = k /\ sub2[k] = {k} /\ sub2[a] = sub[q] \cup {k}
        BY <1>1, <1>4, <3>3 DEF Grown
      <4>2. {m \in sub[q] : Before(s, m, q)} = {}
        BY <1>1, <1>2 DEF WellFormed, Ordered
      <4>3. QED
        BY <1>2, <3>3, <4>1, <4>2
    <3>4. CASE a \in L /\ ~(a = q /\ d = s)
      <4>1. PICK b : b = t.kid[d][a]
        OBVIOUS
      <4>2. /\ b \in L \cup {Null} /\ sub[b] = {m \in sub[a] : Before(d, m, a)}
            /\ a \in sub[a]
        BY <3>4, <4>1 DEF WellFormed, Joined, Ordered
      <4>3. r.kid[d][a] = b /\ b # k /\ a # k /\ b \in Keys \cup {Null}
        BY <1>1, <3>1, <3>4, <4>1, <4>2 DEF Grown
      <4>4. CASE a = q
        <5>1. d = Opposite(s)
          BY <1>2, <3>4, <4>4, SidesAre DEF Sides
        <5>2. ~Before(d, k, q) /\ ~Before(d, q, q)
          BY <1>1, <1>2, <5>1, BeforeIs
        <5>3. q \notin sub[b]
          BY <4>2, <4>4, <5>2
        <5>4. sub2[b] = sub[b] /\ sub2[a] = sub[q] \cup {k}
          BY <1>1, <1>4, <4>3, <4>4, <5>3
        <5>5. QED
          BY <4>2, <4>3, <4>4, <5>2, <5>4
      <4>5. CASE a # q /\ q \in sub[a]
        <5>1. Before(d, q, a) <=> Before(d, k, a)
          BY <1>1, <3>4, <4>5
        <5>2. sub2[a] = sub[a] \cup {k}
          BY <1>4, <3>1, <4>3, <4>5
        <5>3. sub2[b] = IF q \in sub[b] THEN sub[b] \cup {k} ELSE sub[b]
          BY <1>4, <4>3
        <5>4. q \in sub[b] <=> Before(d, q, a)
          BY <4>2, <4>5
        <5>5. QED
          BY <4>2, <4>3, <5>1, <5>2, <5>3, <5>4
      <4>6. CASE q \notin sub[a]
        <5>1. sub2[a] = sub[a] /\ sub2[b] = sub[b]
          BY <1>4, <3>1, <4>2, <4>3, <4>6
        <5>2. QED
          BY <4>2, <4>3, <5>1
      <4>7. QED
        BY <4>4, <4>5, <4>6
    <3>5. QED
      BY <3>2, <3>3, <3>4
  <2>5. QED
    BY <1>4, <2>1, <2>2, <2>3, <2>4 DEF Ordered
<1>7. QED
  BY <1>3, <1>5, <1>6 DEF WellFormed

(* A node that has left keeps no links. *)
Forgotten(t, r, n) ==
  /\ r \in Tree /\ r.root = t.root
  /\ \A a \in Keys : r.p[a] = IF a = n THEN Null ELSE t.p[a]
  /\ \A a \in Keys, d \in Sides : r.kid[d][a] = IF a = n THEN Null ELSE t.kid[d][a]
  /\ \A a \in Keys : r.color[a] = IF a = n THEN "black" ELSE t.color[a]

LEMMA ForgetIs ==
  ASSUME NEW t \in Tree, NEW n \in Keys
  PROVE  Forgotten(t, Forget(t, n), n)
<1>1. "l" \in Sides /\ "r" \in Sides /\ "l" # "r" /\ \A d \in Sides : d = "l" \/ d = "r"
  BY DEF Sides
<1>2. PICK u : u = [t EXCEPT !.p[n] = Null]
  OBVIOUS
<1>3. PSet(t, u, n, Null)
  BY <1>2, SetP
<1>4. PICK v : v = [u EXCEPT !.kid["l"][n] = Null]
  OBVIOUS
<1>5. KidSet(u, v, "l", n, Null)
  <2>1. u \in Tree
    BY <1>3 DEF PSet
  <2>2. QED
    BY <1>1, <1>4, <2>1, SetKid
<1>6. PICK w : w = [v EXCEPT !.kid["r"][n] = Null]
  OBVIOUS
<1>7. KidSet(v, w, "r", n, Null)
  <2>1. v \in Tree
    BY <1>5 DEF KidSet
  <2>2. QED
    BY <1>1, <1>6, <2>1, SetKid
<1>8. PICK r : r = [w EXCEPT !.color[n] = "black"]
  OBVIOUS
<1>9. Painted(w, r, n, "black")
  <2>1. w \in Tree
    BY <1>7 DEF KidSet
  <2>2. QED
    BY <1>8, <2>1, SetColor
<1>10. r = Forget(t, n)
  BY <1>2, <1>4, <1>6, <1>8 DEF Forget
<1>11. Forgotten(t, r, n)
  BY <1>1, <1>3, <1>5, <1>7, <1>9 DEF PSet, KidSet, Painted, Forgotten
<1>12. QED
  BY <1>10, <1>11

(* n, which has no child but c, leaves the tree. *)
Spliced(t, r, n, c) ==
  /\ r \in Tree /\ r.root = IF t.root = n THEN c ELSE t.root
  /\ \A a \in Keys : r.p[a] = IF a = n THEN Null
                              ELSE IF a = c THEN t.p[n] ELSE t.p[a]
  /\ \A a \in Keys, d \in Sides :
       r.kid[d][a] = IF a = n THEN Null
                     ELSE IF t.kid[d][a] = n THEN c ELSE t.kid[d][a]
  /\ \A a \in Keys : r.color[a] = IF a = n THEN "black" ELSE t.color[a]

LEMMA SpliceIs ==
  ASSUME NEW t \in Tree, NEW n \in Keys, Held(t, n), NEW c \in Keys \cup {Null}
  PROVE  Spliced(t, Forget(RelinkParent(Supplant(t, n, c), c, t.p[n]), n), n, c)
<1>1. PICK u : u = Supplant(t, n, c)
  OBVIOUS
<1>2. Supplanted(t, u, n, c)
  BY <1>1, HeldSupplant
<1>3. PICK v : v = RelinkParent(u, c, t.p[n])
  OBVIOUS
<1>4. PSet(u, v, c, t.p[n])
  <2>1. u \in Tree /\ t.p[n] \in Keys \cup {Null}
    BY <1>2 DEF Supplanted, Tree
  <2>2. QED
    BY <1>3, <2>1, RelinkIs
<1>5. PICK r : r = Forget(v, n)
  OBVIOUS
<1>6. Forgotten(v, r, n)
  <2>1. v \in Tree
    BY <1>4 DEF PSet
  <2>2. QED
    BY <1>5, <2>1, ForgetIs
<1>7. Spliced(t, r, n, c)
  <2>1. r \in Tree /\ r.root = IF t.root = n THEN c ELSE t.root
    BY <1>2, <1>4, <1>6 DEF Supplanted, PSet, Forgotten
  <2>2. \A a \in Keys : r.p[a] = IF a = n THEN Null
                                 ELSE IF a = c THEN t.p[n] ELSE t.p[a]
    BY <1>2, <1>4, <1>6 DEF Supplanted, PSet, Forgotten
  <2>3. \A a \in Keys, d \in Sides :
          r.kid[d][a] = IF a = n THEN Null
                        ELSE IF t.kid[d][a] = n THEN c ELSE t.kid[d][a]
    BY <1>2, <1>4, <1>6 DEF Supplanted, PSet, Forgotten
  <2>4. \A a \in Keys : r.color[a] = IF a = n THEN "black" ELSE t.color[a]
    BY <1>2, <1>4, <1>6 DEF Supplanted, PSet, Forgotten
  <2>5. QED
    BY <2>1, <2>2, <2>3, <2>4 DEF Spliced
<1>8. QED
  BY <1>1, <1>3, <1>5, <1>7

SplicedLabels(sub, n) ==
  [m \in Keys \cup {Null} |-> IF m = n THEN {n} ELSE sub[m] \ {n}]

LEMMA SpliceKeeps ==
  ASSUME NEW t, NEW L, NEW sub, WellFormed(t, L, sub), NEW n \in L,
         NEW s \in Sides, NEW c, c = t.kid[s][n], t.kid[Opposite(s)][n] = Null,
         NEW r, Spliced(t, r, n, c)
  PROVE  WellFormed(r, L \ {n}, SplicedLabels(sub, n))
<1>1. /\ L \subseteq Keys /\ Null \notin Keys /\ t \in Tree /\ n \in Keys /\ n \in sub[n]
      /\ sub[n] \subseteq L /\ c \in L \cup {Null} /\ c # n
      /\ (c # Null => t.p[c] = n /\ c # t.root)
  <2>1. L \subseteq Keys /\ Null \notin Keys /\ t \in Tree /\ n \in sub[n] /\ sub[n] \subseteq L
    BY KeysAre DEF WellFormed, Joined, Ordered
  <2>2. c # Null => c \in L /\ Before(s, c, n) /\ t.p[c] = n /\ c # t.root
    BY KidBelow, SideIs
  <2>3. QED
    BY <2>1, <2>2, BeforeIs
<1>2. sub[c] = sub[n] \ {n}
  <2>1. /\ sub[c] = {m \in sub[n] : Before(s, m, n)}
        /\ {m \in sub[n] : Before(Opposite(s), m, n)} = {}
    BY SidesAre DEF WellFormed, Ordered
  <2>2. ASSUME NEW m \in sub[n] PROVE m # n <=> Before(s, m, n)
    BY <1>1, <2>1, <2>2, BeforeIs
  <2>3. QED
    BY <2>1, <2>2
<1>3. \A a \in L, d \in Sides : /\ t.kid[d][a] = n => a # n
                                /\ t.kid[d][a] = c /\ c # Null => a = n
  <2>1. ASSUME NEW a \in L, NEW d \in Sides, t.kid[d][a] = n PROVE a # n
    <3>1. Before(d, n, a)
      BY <1>1, <2>1, KidBelow
    <3>2. QED
      BY <1>1, <3>1, BeforeIs
  <2>2. ASSUME NEW a \in L, NEW d \in Sides, t.kid[d][a] = c, c # Null PROVE a = n
    BY <2>2, KidUnique
  <2>3. QED
    BY <2>1, <2>2
<1>4. PICK sub2 : sub2 = SplicedLabels(sub, n)
  OBVIOUS
<1>5. /\ sub2 \in Labels
      /\ \A m \in Keys \cup {Null} : sub2[m] = IF m = n THEN {n} ELSE sub[m] \ {n}
  <2>1. sub \in Labels
    BY DEF WellFormed, Ordered
  <2>2. QED
    BY <1>1, <1>4, <2>1 DEF SplicedLabels, Labels
<1>6. Joined(r, L \ {n})
  <2>1. r \in Tree /\ L \ {n} \subseteq Keys
    BY <1>1 DEF Spliced
  <2>2. r.root \in (L \ {n}) \cup {Null} /\ (r.root # Null => r.p[r.root] = Null)
    <3>1. t.root \in L \cup {Null} /\ (t.root # Null => t.p[t.root] = Null)
      BY DEF WellFormed, Joined
    <3>2. QED
      BY <1>1, <3>1 DEF Spliced
  <2>3. ASSUME NEW a \in L \ {n}, NEW d \in Sides
        PROVE  /\ r.kid[d][a] \in (L \ {n}) \cup {Null}
               /\ r.kid[d][a] # Null => r.p[r.kid[d][a]] = a
    <3>1. a \in Keys /\ t.kid[d][a] \in L \cup {Null} /\ (t.kid[d][a] # Null => t.p[t.kid[d][a]] = a)
      BY <1>1 DEF WellFormed, Joined
    <3>2. CASE t.kid[d][a] = n
      BY <1>1, <3>1, <3>2 DEF Spliced
    <3>3. CASE t.kid[d][a] # n
      <4>1. t.kid[d][a] # Null => t.kid[d][a] # c
        BY <1>3, <3>3
      <4>2. QED
        BY <1>1, <3>1, <3>3, <4>1 DEF Spliced
    <3>4. QED
      BY <3>2, <3>3
  <2>4. ASSUME NEW a \in Keys \ (L \ {n})
        PROVE  r.p[a] = Null /\ \A d \in Sides : r.kid[d][a] = Null
    <3>1. a # n => a \notin L /\ t.p[a] = Null /\ \A d \in Sides : t.kid[d][a] = Null
      BY DEF WellFormed, Joined
    <3>2. QED
      BY <1>1, <3>1 DEF Spliced
  <2>5. QED
    BY <2>1, <2>2, <2>3, <2>4 DEF Joined
<1>7. Ordered(r, L \ {n}, sub2)
  <2>1. sub2[Null] = {} /\ sub2[r.root] = L \ {n}
    <3>1. sub[Null] = {} /\ sub[t.root] = L /\ t.root \in L \cup {Null}
      BY DEF WellFormed, Ordered, Joined
    <3>2. r.root = IF t.root = n THEN c ELSE t.root
      BY DEF Spliced
    <3>3. n \notin sub[c] /\ c \in Keys \cup {Null}
      BY <1>1, <1>2
    <3>4. sub2[Null] = {}
      BY <1>1, <1>5, <3>1
    <3>5. CASE t.root = n
      <4>1. sub2[c] = sub[c] \ {n} /\ r.root = c
        BY <1>1, <1>5, <3>2, <3>3, <3>5
      <4>2. QED
        BY <1>2, <3>1, <3>4, <3>5, <4>1
    <3>6. CASE t.root # n
      <4>1. sub2[t.root] = sub[t.root] \ {n} /\ r.root = t.root
        BY <1>1, <1>5, <3>1, <3>2, <3>6
      <4>2. QED
        BY <3>1, <3>4, <4>1
    <3>7. QED
      BY <3>5, <3>6
  <2>2. ASSUME NEW a \in Keys \ (L \ {n}) PROVE sub2[a] = {a}
    <3>1. a # n => sub[a] = {a}
      BY DEF WellFormed, Ordered
    <3>2. CASE a = n
      BY <1>1, <1>5, <3>2
    <3>3. CASE a # n
      <4>1. sub2[a] = sub[a] \ {n}
        BY <1>5, <3>3
      <4>2. QED
        BY <3>1, <3>3, <4>1
    <3>4. QED
      BY <3>2, <3>3
  <2>3. ASSUME NEW a \in L \ {n} PROVE a \in sub2[a] /\ sub2[a] \subseteq L \ {n}
    <3>1. a \in sub[a] /\ sub[a] \subseteq L
      BY DEF WellFormed, Ordered
    <3>2. sub2[a] = sub[a] \ {n}
      BY <1>1, <1>5
    <3>3. QED
      BY <3>1, <3>2
  <2>4. ASSUME NEW a \in L \ {n}, NEW d \in Sides
        PROVE  sub2[r.kid[d][a]] = {m \in sub2[a] : Before(d, m, a)}
    <3>1. PICK b : b = t.kid[d][a]
      OBVIOUS
    <3>2. /\ a \in Keys /\ b \in L \cup {Null} /\ b \in Keys \cup {Null}
          /\ sub[b] = {m \in sub[a] : Before(d, m, a)}
      BY <1>1, <3>1 DEF WellFormed, Joined, Ordered
    <3>3. sub2[a] = sub[a] \ {n}
      BY <1>5, <3>2
    <3>4. CASE b = n
      <4>1. r.kid[d][a] = c
        <5>1. a # n /\ a \in Keys /\ t.kid[d][a] = n
          BY <3>1, <3>2, <3>4
        <5>2. r.kid[d][a] = IF a = n THEN Null ELSE IF t.kid[d][a] = n THEN c ELSE t.kid[d][a]
          BY <5>1 DEF Spliced
        <5>3. QED
          BY <5>1, <5>2
      <4>2. sub2[c] = sub[c] \ {n}
        BY <1>1, <1>5
      <4>3. sub[c] = {m \in sub[a] : Before(d, m, a)} \ {n}
        BY <1>2, <3>2, <3>4
      <4>4. QED
        BY <3>3, <4>1, <4>2, <4>3
    <3>5. CASE b # n
      <4>1. r.kid[d][a] = b /\ sub2[b] = sub[b] \ {n}
        BY <1>1, <1>5, <3>1, <3>2, <3>5 DEF Spliced
      <4>2. QED
        BY <3>2, <3>3, <4>1
    <3>6. QED
      BY <3>4, <3>5
  <2>5. QED
    BY <1>5, <2>1, <2>2, <2>3, <2>4 DEF Ordered
<1>8. QED
  BY <1>4, <1>6, <1>7 DEF WellFormed

(* y, which is outside the tree, takes the place of n. *)
Replaced(t, r, n, y) ==
  /\ r \in Tree /\ r.root = IF t.root = n THEN y ELSE t.root
  /\ \A a \in Keys : r.p[a] = IF a = n THEN Null ELSE IF a = y THEN t.p[n]
                              ELSE IF t.p[a] = n THEN y ELSE t.p[a]
  /\ \A a \in Keys, d \in Sides :
       r.kid[d][a] = IF a = n THEN Null ELSE IF a = y THEN t.kid[d][n]
                     ELSE IF t.kid[d][a] = n THEN y ELSE t.kid[d][a]
  /\ \A a \in Keys : r.color[a] = IF a = n THEN "black"
                                  ELSE IF a = y THEN t.color[n] ELSE t.color[a]

ReplacedLabels(sub, n, y) ==
  [m \in Keys \cup {Null} |->
     IF m = n THEN {n} ELSE IF m = y THEN (sub[n] \ {n}) \cup {y}
     ELSE IF n \in sub[m] THEN (sub[m] \ {n}) \cup {y} ELSE sub[m]]

LEMMA ReplaceKeeps ==
  ASSUME NEW t, NEW L, NEW sub, WellFormed(t, L, sub), NEW n \in L, NEW y \in Keys \ L,
         \A m \in L, s \in Sides : (n \in sub[m] \/ m \in sub[n]) /\ m # n
                                   => (Before(s, m, n) <=> Before(s, m, y)),
         NEW r, Replaced(t, r, n, y)
  PROVE  WellFormed(r, (L \ {n}) \cup {y}, ReplacedLabels(sub, n, y))
<1>1. /\ L \subseteq Keys /\ Null \notin Keys /\ t \in Tree /\ n \in Keys /\ n \in sub[n]
      /\ sub[n] \subseteq L /\ y \in Keys /\ y \notin L /\ y # n
  BY KeysAre DEF WellFormed, Joined, Ordered
<1>2. PICK M : M = (L \ {n}) \cup {y}
  OBVIOUS
<1>3. M \subseteq Keys /\ y \in M /\ n \notin M /\ \A m \in L : m # n => m \in M
  BY <1>1, <1>2
<1>4. PICK sub2 : sub2 = ReplacedLabels(sub, n, y)
  OBVIOUS
<1>5. /\ sub2 \in Labels /\ sub2[n] = {n} /\ sub2[y] = (sub[n] \ {n}) \cup {y}
      /\ \A m \in Keys \cup {Null} : m # n /\ m # y =>
           sub2[m] = IF n \in sub[m] THEN (sub[m] \ {n}) \cup {y} ELSE sub[m]
  <2>1. sub \in Labels
    BY DEF WellFormed, Ordered
  <2>2. QED
    BY <1>1, <1>4, <2>1 DEF ReplacedLabels, Labels
<1>6. Joined(r, M)
  <2>1. r \in Tree /\ M \subseteq Keys
    BY <1>3 DEF Replaced
  <2>2. r.root \in M \cup {Null} /\ (r.root # Null => r.p[r.root] = Null)
    <3>1. t.root \in L \cup {Null} /\ (t.root # Null => t.p[t.root] = Null)
      BY DEF WellFormed, Joined
    <3>2. QED
      BY <1>1, <1>3, <3>1 DEF Replaced
  <2>3. ASSUME NEW a \in L, NEW d \in Sides
        PROVE  /\ t.kid[d][a] \in L \cup {Null} /\ t.kid[d][a] # a /\ t.kid[d][a] # y
               /\ t.kid[d][a] # Null => t.p[t.kid[d][a]] = a
    <3>1. /\ t.kid[d][a] \in L \cup {Null} /\ (t.kid[d][a] # Null => t.p[t.kid[d][a]] = a)
      BY DEF WellFormed, Joined
    <3>2. t.kid[d][a] # Null => Before(d, t.kid[d][a], a)
      BY KidBelow
    <3>3. a \in Keys
      BY <1>1
    <3>4. QED
      BY <1>1, <3>1, <3>2, <3>3, BeforeIs
  <2>4. ASSUME NEW a \in M, NEW d \in Sides
        PROVE  /\ r.kid[d][a] \in M \cup {Null}
               /\ r.kid[d][a] # Null => r.p[r.kid[d][a]] = a
    <3>1. CASE a = y
      <4>1. r.kid[d][a] = t.kid[d][n]
        BY <1>1, <3>1 DEF Replaced
      <4>2. QED
        BY <1>1, <1>3, <2>3, <3>1, <4>1 DEF Replaced
    <3>2. CASE a # y
      <4>1. a \in L /\ a # n /\ a \in Keys
        BY <1>1, <1>2, <3>2
      <4>2. r.kid[d][a] = IF t.kid[d][a] = n THEN y ELSE t.kid[d][a]
        BY <3>2, <4>1 DEF Replaced
      <4>3. CASE t.kid[d][a] = n
        <5>1. t.p[n] = a /\ r.p[y] = t.p[n]
          BY <1>1, <2>3, <4>1, <4>3 DEF Replaced
        <5>2. QED
          BY <1>3, <4>2, <4>3, <5>1
      <4>4. CASE t.kid[d][a] # n
        BY <1>1, <1>3, <2>3, <4>1, <4>2, <4>4 DEF Replaced
      <4>5. QED
        BY <4>3, <4>4
    <3>3. QED
      BY <3>1, <3>2
  <2>5. ASSUME NEW a \in Keys \ M
        PROVE  r.p[a] = Null /\ \A d \in Sides : r.kid[d][a] = Null
    <3>1. a = n \/ (a \notin L /\ a # y)
      BY <1>2
    <3>2. a \notin L => t.p[a] = Null /\ \A d \in Sides : t.kid[d][a] = Null
      BY DEF WellFormed, Joined
    <3>3. QED
      BY <1>1, <3>1, <3>2 DEF Replaced
  <2>6. QED
    BY <2>1, <2>2, <2>4, <2>5 DEF Joined
<1>7. Ordered(r, M, sub2)
  <2>1. sub2[Null] = {} /\ sub2[r.root] = M
    <3>1. sub[Null] = {} /\ sub[t.root] = L /\ t.root \in L \cup {Null}
      BY DEF WellFormed, Ordered, Joined
    <3>2. r.root = IF t.root = n THEN y ELSE t.root
      BY DEF Replaced
    <3>3. sub2[Null] = {}
      BY <1>1, <1>5, <3>1
    <3>4. CASE t.root = n
      BY <1>2, <1>5, <3>1, <3>2, <3>3, <3>4
    <3>5. CASE t.root # n
      <4>1. t.root \in L
        BY <3>1
      <4>2. sub2[t.root] = (L \ {n}) \cup {y}
        BY <1>1, <1>5, <3>1, <3>5, <4>1
      <4>3. QED
        BY <1>2, <3>2, <3>3, <3>5, <4>2
    <3>6. QED
      BY <3>4, <3>5
  <2>2. ASSUME NEW a \in Keys \ M PROVE sub2[a] = {a}
    <3>1. a = n \/ (a \notin L /\ a # y /\ a # n)
      BY <1>2
    <3>2. a \notin L => sub[a] = {a}
      BY DEF WellFormed, Ordered
    <3>3. CASE a = n
      BY <1>5, <3>3
    <3>4. CASE a \notin L /\ a # y /\ a # n
      BY <1>1, <1>5, <3>2, <3>4
    <3>5. QED
      BY <3>1, <3>3, <3>4
  <2>3. ASSUME NEW a \in M PROVE a \in sub2[a] /\ sub2[a] \subseteq M
    <3>1. CASE a = y
      BY <1>1, <1>2, <1>5, <3>1
    <3>2. CASE a # y
      <4>1. a \in L /\ a # n /\ a \in Keys
        BY <1>1, <1>2, <3>2
      <4>2. a \in sub[a] /\ sub[a] \subseteq L
        BY <4>1 DEF WellFormed, Ordered
      <4>3. QED
        BY <1>2, <1>5, <3>2, <4>1, <4>2
    <3>3. QED
      BY <3>1, <3>2
  <2>4. ASSUME NEW a \in M, NEW d \in Sides
        PROVE  sub2[r.kid[d][a]] = {m \in sub2[a] : Before(d, m, a)}
    <3>1. CASE a = y
      <4>1. PICK b : b = t.kid[d][n]
        OBVIOUS
      <4>2. /\ r.kid[d][a] = b /\ b \in L \cup {Null}
            /\ sub[b] = {m \in sub[n] : Before(d, m, n)}
        BY <1>1, <3>1, <4>1 DEF Replaced, WellFormed, Joined, Ordered
      <4>3. n \notin sub[b] /\ b # n
        BY <1>1, <4>2, BeforeIs
      <4>4. sub2[b] = sub[b]
        BY <1>1, <1>5, <4>2, <4>3
      <4>5. ASSUME NEW m \in sub[n], m # n PROVE Before(d, m, n) <=> Before(d, m, y)
        BY <1>1, <4>5
      <4>6. ~Before(d, y, y) /\ ~Before(d, n, n)
        BY <1>1, BeforeIs
      <4>7. {m \in sub[n] : Before(d, m, n)} = {m \in (sub[n] \ {n}) \cup {y} : Before(d, m, y)}
        BY <4>5, <4>6
      <4>8. QED
        BY <1>5, <3>1, <4>2, <4>4, <4>7
    <3>2. CASE a # y
      <4>1. a \in L /\ a # n /\ a \in Keys
        BY <1>1, <1>2, <3>2
      <4>2. PICK b : b = t.kid[d][a]
        OBVIOUS
      <4>3. /\ b \in L \cup {Null} /\ b \in Keys \cup {Null}
            /\ sub[b] = {m \in sub[a] : Before(d, m, a)} /\ sub[a] \subseteq L
        BY <1>1, <4>1, <4>2 DEF WellFormed, Joined, Ordered
      <4>4. r.kid[d][a] = IF b = n THEN y ELSE b
        BY <3>2, <4>1, <4>2 DEF Replaced
      <4>5. sub2[a] = IF n \in sub[a] THEN (sub[a] \ {n}) \cup {y} ELSE sub[a]
        BY <1>5, <3>2, <4>1
      <4>6. sub2[r.kid[d][a]] = IF n \in sub[b] THEN (sub[b] \ {n}) \cup {y} ELSE sub[b]
        <5>1. CASE b = n
          BY <1>1, <1>5, <4>4, <5>1
        <5>2. CASE b # n
          BY <1>1, <1>5, <4>3, <4>4, <5>2
        <5>3. QED
          BY <5>1, <5>2
      <4>7. CASE n \in sub[a]
        <5>1. \A e \in Sides : Before(e, a, n) <=> Before(e, a, y)
          BY <4>1, <4>7
        <5>2. Before(d, n, a) <=> Before(d, y, a)
          BY <1>1, <4>1, <5>1, BeforeIs, SidesAre
        <5>3. n \in sub[b] <=> Before(d, n, a)
          BY <4>3, <4>7
        <5>4. CASE Before(d, n, a)
          <6>1. sub2[r.kid[d][a]] = (sub[b] \ {n}) \cup {y}
            BY <4>6, <5>3, <5>4
          <6>2. QED
            BY <4>3, <4>5, <4>7, <5>2, <5>4, <6>1
        <5>5. CASE ~Before(d, n, a)
          <6>1. sub2[r.kid[d][a]] = sub[b]
            BY <4>6, <5>3, <5>5
          <6>2. QED
            BY <4>3, <4>5, <4>7, <5>2, <5>5, <6>1
        <5>6. QED
          BY <5>4, <5>5
      <4>8. CASE n \notin sub[a]
        <5>1. n \notin sub[b]
          BY ONLY <4>3, <4>8
        <5>2. QED
          BY <4>3, <4>5, <4>6, <4>8, <5>1
      <4>9. QED
        BY <4>7, <4>8
    <3>3. QED
      BY <3>1, <3>2
  <2>5. QED
    BY <1>5, <2>1, <2>2, <2>3, <2>4 DEF Ordered
<1>8. QED
  BY <1>2, <1>4, <1>6, <1>7 DEF WellFormed

(* The successor of a node with two children. *)
Successor(t, L, sub, n, y) ==
  /\ y \in L /\ y \in Keys /\ y # n /\ y # t.root /\ y \in sub[n] /\ Before("r", y, n)
  /\ t.kid["l"][y] = Null
  /\ \A m \in L : (n \in sub[m] \/ m \in sub[n]) /\ m # n /\ m # y
                  => \A s \in Sides : Before(s, m, n) <=> Before(s, m, y)
  /\ \/ y = t.kid["r"][n] /\ t.p[y] = n
     \/ /\ y # t.kid["r"][n] /\ t.p[y] \in L /\ t.p[y] # n /\ t.p[y] # y
        /\ t.kid["l"][t.p[y]] = y

LEMMA SuccessorIs ==
  ASSUME NEW t, NEW L, NEW sub, WellFormed(t, L, sub), NEW n \in L,
         t.kid["r"][n] # Null
  PROVE  Successor(t, L, sub, n, Outermost(t, "l", t.kid["r"][n]))
<1>1. PICK k, y : k = t.kid["r"][n] /\ y = Outermost(t, "l", k)
  OBVIOUS
<1>2. "l" \in Sides /\ "r" \in Sides
  BY DEF Sides
<1>3. /\ k \in L /\ k \in Keys /\ n \in Keys /\ k \in sub[n] /\ Before("r", k, n)
      /\ sub[k] \subseteq sub[n]
      /\ sub[k] = {m \in sub[n] : Before("r", m, n)} /\ sub[n] \subseteq L /\ L \subseteq Keys
      /\ t.p[k] = n
  BY <1>1, <1>2, KidBelow DEF WellFormed, Joined, Ordered
<1>4. EndOf(t, sub, "l", k, y)
  BY <1>1, <1>2, <1>3, OutermostIs
<1>5. /\ y \in sub[k] /\ t.kid["l"][y] = Null /\ Before("r", y, n)
      /\ \A m \in sub[k] : m = y \/ Before("l", y, m)
      /\ y \in sub[n] /\ y \in L /\ y \in Keys
  BY <1>3, <1>4 DEF EndOf
<1>6. y # n
  BY <1>2, <1>3, <1>5, BeforeIs
<1>7. PICK a \in L, s \in Sides : t.p[y] = a /\ t.kid[s][a] = y /\ a \in sub[n]
  BY <1>5, <1>6, ParentBelow
<1>8. y # t.root
  BY <1>2, <1>5, <1>7, SideIs, KeysAre
<1>9. \/ y = k /\ t.p[y] = n
      \/ /\ y # k /\ t.p[y] \in L /\ t.p[y] # n /\ t.p[y] # y
         /\ t.kid["l"][t.p[y]] = y
  <2>1. CASE y = k
    BY <1>3, <2>1
  <2>2. CASE y # k
    <3>1. PICK b \in sub[k], d \in Sides : /\ b \in L /\ t.p[y] = b
                                           /\ t.kid[d][b] = y /\ Before(d, y, b)
      BY <1>3, <1>5, <2>2, ParentBelow
    <3>2. b \in Keys /\ b # n /\ b # y
      BY <1>2, <1>3, <1>5, <3>1, BeforeIs
    <3>3. Before("l", y, b)
      BY <1>5, <3>1, <3>2
    <3>4. d = "l"
      BY <1>2, <1>5, <3>1, <3>2, <3>3, BeforeIs, SidesAre
    <3>5. QED
      BY <2>2, <3>1, <3>2, <3>4
  <2>3. QED
    BY <2>1, <2>2
<1>10. ASSUME NEW m \in L, n \in sub[m] \/ m \in sub[n], m # n, m # y, NEW e \in Sides
       PROVE  Before(e, m, n) <=> Before(e, m, y)
  <2>1. m \in Keys
    BY <1>3
  <2>2. CASE m \in sub[n]
    <3>1. CASE Before("r", m, n)
      <4>1. m \in sub[k]
        BY <1>3, <2>2, <3>1
      <4>2. Before("l", y, m)
        BY <1>5, <1>10, <4>1
      <4>3. Before("r", m, y)
        BY <1>2, <1>5, <2>1, <4>2, BeforeIs, SidesAre
      <4>4. e = "r" \/ e = "l"
        BY DEF Sides
      <4>5. QED
        BY <1>2, <1>3, <1>5, <2>1, <3>1, <4>2, <4>3, <4>4, BeforeIs, SidesAre
    <3>2. CASE ~Before("r", m, n)
      <4>1. Before("l", m, n) /\ Before("l", n, y)
        BY <1>2, <1>3, <1>5, <1>10, <2>1, <3>2, BeforeIs, SidesAre
      <4>2. Before("l", m, y)
        BY <1>2, <1>3, <1>5, <2>1, <4>1, BeforeIs
      <4>3. e = "r" \/ e = "l"
        BY DEF Sides
      <4>4. QED
        BY <1>3, <1>5, <2>1, <4>1, <4>2, <4>3, KeysAre DEF Before
    <3>3. QED
      BY <3>1, <3>2
  <2>3. CASE n \in sub[m]
    <3>1. PICK d \in Sides : Before(d, n, m)
      BY <1>2, <1>3, <1>10, <2>1, BeforeIs, SidesAre
    <3>2. n \in sub[t.kid[d][m]]
      BY <2>3, <3>1 DEF WellFormed, Ordered
    <3>3. t.kid[d][m] \in L
      BY <3>2 DEF WellFormed, Joined, Ordered
    <3>4. y \in sub[t.kid[d][m]]
      BY <1>5, <3>2, <3>3, SubBelow
    <3>5. Before(d, y, m)
      BY <3>4 DEF WellFormed, Ordered
    <3>6. QED
      BY <1>3, <1>5, <2>1, <3>1, <3>5, BeforeIs, SidesAre DEF Sides
  <2>4. QED
    BY <1>10, <2>2, <2>3
<1>11. QED
  BY <1>1, <1>5, <1>6, <1>8, <1>9, <1>10 DEF Successor

(* _remove_fix_up, first half, of a node with two children: its successor  *)
(* leaves its place and takes the node's.                                  *)
SuccessorMoved(r, n, y, c) ==
  \E u : Spliced(tree, u, y, c) /\ Replaced(u, r, n, y)

LEMMA MoveSuccessorIs ==
  ASSUME NEW L, NEW sub, WellFormed(tree, L, sub), NEW n \in L,
         tree.kid["l"][n] # Null, tree.kid["r"][n] # Null,
         NEW y, y = Outermost(tree, "l", tree.kid["r"][n])
  PROVE  SuccessorMoved(Forget(MoveSuccessor(n).t, n), n, y, tree.kid["r"][y])
<1>1. PICK kl, kr, c, q : /\ kl = tree.kid["l"][n] /\ kr = tree.kid["r"][n]
                          /\ c = tree.kid["r"][y] /\ q = tree.p[y]
  OBVIOUS
<1>2. "l" \in Sides /\ "r" \in Sides /\ "l" # "r" /\ \A d \in Sides : d = "l" \/ d = "r"
  BY DEF Sides
<1>3. /\ tree \in Tree /\ L \subseteq Keys /\ n \in Keys /\ Null \notin Keys
  BY KeysAre, Zenon DEF WellFormed, Joined
<1>4. /\ y \in L /\ y \in Keys /\ y # n /\ y # tree.root /\ y \in sub[n]
      /\ Before("r", y, n) /\ tree.kid["l"][y] = Null
      /\ \/ y = kr /\ q = n
         \/ y # kr /\ q \in L /\ q # n /\ q # y /\ tree.kid["l"][q] = y
  BY <1>1, SuccessorIs DEF Successor
<1>5. /\ kl \in L /\ kl \in Keys /\ kl # n /\ kl # kr /\ tree.p[kl] = n
      /\ kr \in L /\ kr \in Keys /\ kr # n /\ tree.p[kr] = n
      /\ kl # y /\ q \in Keys
  <2>1. /\ kl \in L /\ Before("l", kl, n) /\ tree.p[kl] = n
        /\ kr \in L /\ Before("r", kr, n) /\ tree.p[kr] = n
    BY <1>1, <1>2, KidBelow
  <2>2. kl # n /\ kr # n /\ kl # kr /\ kl # y
    BY <1>3, <1>4, <2>1, KeysAre DEF Before
  <2>3. QED
    BY <1>3, <1>4, <2>1, <2>2
<1>6. /\ c \in Keys \cup {Null} /\ c # n /\ c # y /\ c # kl
      /\ y # kr => c # kr
      /\ c # Null => tree.p[c] = y
  <2>1. c # Null => c \in L /\ c \in sub[y] /\ c # y /\ tree.p[c] = y
    <3>1. c # Null => c \in L /\ c \in sub[y] /\ Before("r", c, y) /\ tree.p[c] = y
      BY ONLY <1>1, <1>2, <1>4, KidBelow, WellFormed(tree, L, sub)
    <3>2. c \in Keys => (Before("r", c, y) => c # y)
      BY ONLY <1>2, <1>4, BeforeIs
    <3>3. QED
      BY <1>3, <3>1, <3>2, Zenon
  <2>2. n \notin sub[y]
    BY <1>4, SubBelow
  <2>3. QED
    BY ONLY <1>3, <1>4, <1>5, <2>1, <2>2
<1>7. \A a \in Keys : tree.p[a] = n => a = kl \/ a = kr
  <2>1. ASSUME NEW a \in Keys, tree.p[a] = n PROVE a = kl \/ a = kr
    <3>1. a \in L /\ a # tree.root
      BY <1>3, <2>1 DEF WellFormed, Joined
    <3>2. PICK b \in L, s \in Sides : tree.p[a] = b /\ tree.kid[s][b] = a
      BY <3>1, ParentIs
    <3>3. QED
      BY <1>1, <1>2, <2>1, <3>2
  <2>2. QED
    BY <2>1
<1>8. \A a \in Keys, d \in Sides : tree.kid[d][a] = y =>
        IF y = kr THEN a = n /\ d = "r" ELSE a = q /\ d = "l"
  <2>1. ASSUME NEW a \in Keys, NEW d \in Sides, tree.kid[d][a] = y
        PROVE  IF y = kr THEN a = n /\ d = "r" ELSE a = q /\ d = "l"
    <3>1. a \in L
      BY <1>3, <1>4, <2>1 DEF WellFormed, Joined
    <3>2. y # Null
      BY <1>3, <1>4
    <3>3. CASE y = kr
      BY <1>1, <1>2, <2>1, <3>1, <3>2, <3>3, KidUnique
    <3>4. CASE y # kr
      BY <1>2, <1>4, <2>1, <3>1, <3>2, <3>4, KidUnique
    <3>5. QED
      BY <3>3, <3>4
  <2>2. QED
    BY <2>1
<1> DEFINE near == y = kr
<1>9. PICK t1 : t1 = Adopt(tree, "l", y, kl)
  OBVIOUS
<1>10. Adopted(tree, t1, "l", y, kl)
  BY <1>2, <1>3, <1>4, <1>5, <1>9, AdoptIs
<1>11. PICK t2 : t2 = IF near THEN t1 ELSE Adopt(Adopt(t1, "l", q, c), "r", y, kr)
  OBVIOUS
<1>12. /\ t2 \in Tree /\ t2.root = tree.root /\ t2.color = tree.color
       /\ \A a \in Keys : t2.p[a] = IF a = kl THEN y ELSE IF a = kr /\ ~near THEN y
                                    ELSE IF a = c /\ ~near THEN q ELSE tree.p[a]
       /\ \A a \in Keys, d \in Sides :
            t2.kid[d][a] = IF a = y /\ d = "l" THEN kl ELSE IF a = q /\ d = "l" /\ ~near THEN c
                           ELSE IF a = y /\ d = "r" /\ ~near THEN kr ELSE tree.kid[d][a]
  <2>1. CASE near
    BY <1>10, <1>11, <2>1 DEF Adopted
  <2>2. CASE ~near
    <3>1. PICK u : u = Adopt(t1, "l", q, c)
      OBVIOUS
    <3>2. Adopted(t1, u, "l", q, c)
      <4>1. t1 \in Tree
        BY <1>10 DEF Adopted
      <4>2. QED
        BY <1>2, <1>5, <1>6, <3>1, <4>1, AdoptIs
    <3>3. t2 = Adopt(u, "r", y, kr)
      BY <1>11, <2>2, <3>1
    <3>4. Adopted(u, t2, "r", y, kr)
      <4>1. u \in Tree
        BY <3>2 DEF Adopted
      <4>2. QED
        BY <1>2, <1>4, <1>5, <3>3, <4>1, AdoptIs
    <3>5. t2 \in Tree /\ t2.root = tree.root /\ t2.color = tree.color
      BY <1>10, <3>2, <3>4 DEF Adopted
    <3>6. ASSUME NEW a \in Keys
          PROVE  t2.p[a] = IF a = kl THEN y ELSE IF a = kr THEN y
                           ELSE IF a = c THEN q ELSE tree.p[a]
      BY <1>5, <1>6, <2>2, <1>10, <3>2, <3>4 DEF Adopted
    <3>7. ASSUME NEW a \in Keys, NEW d \in Sides
          PROVE  t2.kid[d][a] = IF a = y /\ d = "l" THEN kl ELSE IF a = q /\ d = "l" THEN c
                                ELSE IF a = y /\ d = "r" THEN kr ELSE tree.kid[d][a]
      BY <1>2, <1>4, <2>2, <1>10, <3>2, <3>4 DEF Adopted
    <3>8. QED
      BY <2>2, <3>5, <3>6, <3>7
  <2>3. QED
    BY <2>1, <2>2
<1>13. /\ t2.p[n] = tree.p[n]
       /\ \A a \in Keys, d \in Sides : t2.kid[d][a] = n <=> tree.kid[d][a] = n
  <2>1. t2.p[n] = tree.p[n]
    BY <1>3, <1>5, <1>6, <1>12
  <2>2. ASSUME NEW a \in Keys, NEW d \in Sides PROVE t2.kid[d][a] = n <=> tree.kid[d][a] = n
    <3>1. a = y /\ d = "l" => tree.kid[d][a] # n
      BY <1>3, <1>4
    <3>2. a = q /\ d = "l" /\ ~near => tree.kid[d][a] # n
      BY <1>4
    <3>3. a = y /\ d = "r" => tree.kid[d][a] # n
      BY <1>1, <1>6
    <3>4. QED
      BY <1>5, <1>6, <1>12, <3>1, <3>2, <3>3
  <2>3. QED
    BY <2>1, <2>2
<1>14. Held(t2, n)
  <2>1. Held(tree, n)
    BY NodesHeld
  <2>2. QED
    BY <1>12, <1>13, <2>1 DEF Held
<1>15. PICK v : v = Supplant(t2, n, y)
  OBVIOUS
<1>16. Supplanted(t2, v, n, y)
  BY <1>4, <1>12, <1>14, <1>15, HeldSupplant
<1>17. PICK w0 : w0 = [v EXCEPT !.p[y] = tree.p[n]]
  OBVIOUS
<1>18. PSet(v, w0, y, tree.p[n])
  <2>1. v \in Tree /\ tree.p[n] \in Keys \cup {Null}
    BY <1>3, <1>16 DEF Supplanted, Tree
  <2>2. QED
    BY <1>4, <1>17, <2>1, SetP
<1>19. PICK w : w = [w0 EXCEPT !.color[y] = tree.color[n]]
  OBVIOUS
<1>20. Painted(w0, w, y, tree.color[n])
  <2>1. w0 \in Tree /\ tree.color[n] \in {"red", "black"}
    BY <1>3, <1>18 DEF PSet, Tree
  <2>2. QED
    BY <1>4, <1>19, <2>1, SetColor
<1>21. PICK r : r = Forget(w, n)
  OBVIOUS
<1>22. Forgotten(w, r, n)
  <2>1. w \in Tree
    BY <1>20, Zenon DEF Painted
  <2>2. QED
    BY <1>3, <1>21, <2>1, ForgetIs
<1>23. MoveSuccessor(n).t = w
  BY <1>1, <1>9, <1>11, <1>15, <1>17, <1>19, Zenon DEF MoveSuccessor
<1>24. PICK u : Spliced(tree, u, y, c)
  <2>1. Held(tree, y)
    BY <1>4, NodesHeld
  <2>2. QED
    BY <1>3, <1>4, <1>6, <2>1, SpliceIs
<1>25. Replaced(u, r, n, y)
  <2>1. r \in Tree /\ r.root = IF u.root = n THEN y ELSE u.root
    BY <1>4, <1>12, <1>16, <1>18, <1>20, <1>22, <1>24
       DEF Supplanted, PSet, Painted, Forgotten, Spliced
  <2>2. \A a \in Keys : r.p[a] = IF a = n THEN Null ELSE IF a = y THEN tree.p[n] ELSE t2.p[a]
    BY <1>16, <1>18, <1>20, <1>22 DEF Supplanted, PSet, Painted, Forgotten
  <2>3. ASSUME NEW a \in Keys
        PROVE  r.p[a] = IF a = n THEN Null ELSE IF a = y THEN u.p[n]
                        ELSE IF u.p[a] = n THEN y ELSE u.p[a]
    <3>1. u.p[n] = tree.p[n]
      BY <1>3, <1>4, <1>6, <1>24 DEF Spliced
    <3>2. a # y => u.p[a] = IF a = c THEN q ELSE tree.p[a]
      BY <1>1, <1>24 DEF Spliced
    <3>3. r.p[a] = IF a = n THEN Null ELSE IF a = y THEN tree.p[n] ELSE t2.p[a]
      BY <2>2
    <3>4. a # n /\ a # y => t2.p[a] = IF u.p[a] = n THEN y ELSE u.p[a]
      <4> SUFFICES ASSUME a # n, a # y
                   PROVE  t2.p[a] = IF u.p[a] = n THEN y ELSE u.p[a]
        OBVIOUS
      <4>1. t2.p[a] = IF a = kl THEN y ELSE IF a = kr /\ ~near THEN y
                      ELSE IF a = c /\ ~near THEN q ELSE tree.p[a]
        BY <1>12
      <4>2. u.p[a] = IF a = c THEN q ELSE tree.p[a]
        BY <3>2
      <4>3. CASE a = kl
        BY <1>5, <1>6, <4>1, <4>2, <4>3
      <4>4. CASE a = kr
        BY <1>5, <1>6, <4>1, <4>2, <4>4
      <4>5. CASE a = c
        <5>1. tree.p[a] = y
          BY <1>3, <1>6, <4>5
        <5>2. q = n <=> near
          BY <1>4
        <5>3. QED
          BY <1>4, <1>5, <1>6, <4>1, <4>2, <4>5, <5>1, <5>2
      <4>6. CASE a # kl /\ a # kr /\ a # c
        BY <1>7, <4>1, <4>2, <4>6
      <4>7. QED
        BY <4>3, <4>4, <4>5, <4>6
    <3>5. QED
      BY <1>4, <3>1, <3>3, <3>4
  <2>4. \A a \in Keys, d \in Sides : r.kid[d][a] = IF a = n THEN Null
          ELSE IF t2.kid[d][a] = n THEN y ELSE t2.kid[d][a]
    BY <1>16, <1>18, <1>20, <1>22 DEF Supplanted, PSet, Painted, Forgotten
  <2>5. ASSUME NEW a \in Keys, NEW d \in Sides
        PROVE  r.kid[d][a] = IF a = n THEN Null ELSE IF a = y THEN u.kid[d][n]
                             ELSE IF u.kid[d][a] = n THEN y ELSE u.kid[d][a]
    <3>1. a # y => u.kid[d][a] = IF tree.kid[d][a] = y THEN c ELSE tree.kid[d][a]
      BY <1>24 DEF Spliced
    <3>2. u.kid[d][n] = IF tree.kid[d][n] = y THEN c ELSE tree.kid[d][n]
      BY <1>3, <1>4, <1>24 DEF Spliced
    <3>3. r.kid[d][a] = IF a = n THEN Null ELSE IF t2.kid[d][a] = n THEN y ELSE t2.kid[d][a]
      BY <2>4
    <3>4. CASE a = n
      BY <3>3, <3>4
    <3>5. CASE a = y
      <4>1. t2.kid[d][a] = IF d = "l" THEN kl ELSE IF near THEN c ELSE kr
        <5>1. t2.kid[d][y] = IF d = "l" THEN kl ELSE IF ~near THEN kr ELSE tree.kid[d][y]
          BY <1>2, <1>4, <1>12
        <5>2. d # "l" => tree.kid[d][y] = c
          BY <1>1, <1>2
        <5>3. QED
          BY <3>5, <5>1, <5>2
      <4>2. u.kid[d][n] = IF d = "l" THEN kl ELSE IF near THEN c ELSE kr
        BY <1>1, <1>2, <1>5, <3>2
      <4>3. t2.kid[d][a] # n
        BY <1>5, <1>6, <4>1
      <4>4. QED
        BY <1>4, <3>3, <3>5, <4>1, <4>2, <4>3
    <3>6. CASE a # n /\ a # y
      <4>1. t2.kid[d][a] = IF a = q /\ d = "l" /\ ~near THEN c ELSE tree.kid[d][a]
        BY <1>12, <3>6
      <4>2. u.kid[d][a] = IF a = q /\ d = "l" /\ ~near THEN c ELSE tree.kid[d][a]
        BY ONLY <1>4, <1>8, <3>1, <3>6
      <4>3. QED
        BY <3>3, <3>6, <4>1, <4>2
    <3>7. QED
      BY <3>4, <3>5, <3>6
  <2>6. \A a \in Keys : r.color[a] = IF a = n THEN "black"
                                     ELSE IF a = y THEN u.color[n] ELSE u.color[a]
    BY <1>3, <1>4, <1>12, <1>16, <1>18, <1>20, <1>22, <1>24
       DEF Supplanted, PSet, Painted, Forgotten, Spliced
  <2>7. QED
    BY ONLY <2>1, <2>3, <2>5, <2>6 DEF Replaced
<1>26. QED
  BY <1>1, <1>21, <1>23, <1>24, <1>25 DEF SuccessorMoved

-----------------------------------------------------------------------------
(* What the queries find in the whole tree. *)

(* A property of a node's parent that makes it one of the node: among the  *)
(* nodes without it one has a parent with it, or is the root.              *)
LEMMA TopBad ==
  ASSUME NEW t, NEW L, NEW sub, WellFormed(t, L, sub),
         NEW Bad, Bad \subseteq L, Bad # {}
  PROVE  \E n \in Bad : n = t.root \/ t.p[n] \notin Bad
<1>1. L \subseteq Keys /\ sub \in Labels
  BY DEF WellFormed, Joined, Ordered
<1>2. PICK above : above = [n \in Keys \cup {Null} |-> Keys \ sub[n]]
  OBVIOUS
<1>3. above \in Labels
  BY <1>2 DEF Labels
<1>4. Bad \subseteq Keys
  BY <1>1
<1>5. PICK n \in Bad : \A m \in Bad : above[m] \subseteq above[n] => above[m] = above[n]
  BY ONLY <1>3, <1>4, Bad # {}, Smallest
<1>6. ASSUME n # t.root, t.p[n] \in Bad PROVE FALSE
  <2>1. PICK a \in L, s \in Sides : t.p[n] = a /\ t.kid[s][a] = n
    BY <1>6, ParentIs
  <2>2. n # Null
    BY <1>4, KeysAre
  <2>3. sub[n] \subseteq sub[a] /\ a \notin sub[n] /\ a \in sub[a] /\ a \in Keys
    BY <1>1, <2>1, <2>2, KidBelow DEF WellFormed, Ordered
  <2>4. above[a] = Keys \ sub[a] /\ above[n] = Keys \ sub[n]
    BY <1>2, <1>4, <2>3
  <2>5. QED
    BY <1>5, <1>6, <2>1, <2>3, <2>4
<1>7. QED
  BY <1>6

(* A node outside a subtree is on the same side of all nodes in it. *)
LEMMA Contiguous ==
  ASSUME NEW t, NEW L, NEW sub, WellFormed(t, L, sub),
         NEW n \in L, NEW m \in L, m \notin sub[n], NEW z \in sub[n], NEW s \in Sides
  PROVE  Before(s, m, n) <=> Before(s, m, z)
<1>1. L \subseteq Keys /\ sub[t.root] = L /\ sub[n] \subseteq L /\ n \in sub[n] /\ m \in sub[m]
  BY DEF WellFormed, Joined, Ordered
<1>2. PICK a \in L, d \in Sides, e \in Sides :
        /\ n \in sub[t.kid[d][a]] /\ Before(d, n, a) /\ Before(d, z, a)
        /\ m = a \/ (e = Opposite(d) /\ Before(e, m, a))
  <2> DEFINE Both == {a \in L : n \in sub[a] /\ m \in sub[a]}
  <2>1. Both # {} /\ Both \subseteq L
    <3>1. t.root \in L
      BY DEF WellFormed, Joined, Ordered
    <3>2. QED
      BY <1>1, <3>1
  <2>2. PICK a \in Both : \A d \in Sides : t.kid[d][a] \notin Both
    <3> HIDE DEF Both
    <3>1. QED
      BY <2>1, LeastBad
  <2>3. a \in L /\ n \in sub[a] /\ m \in sub[a] /\ a \in Keys /\ n \in Keys /\ m \in Keys /\ z \in Keys
    BY <1>1
  <2>4. a # n
    BY <2>3
  <2>5. PICK d \in Sides : Before(d, n, a)
    BY <2>3, <2>4, BeforeIs, SidesAre DEF Sides
  <2>6. n \in sub[t.kid[d][a]]
    BY <2>3, <2>5 DEF WellFormed, Ordered
  <2>7. t.kid[d][a] \in L
    BY <2>3, <2>6 DEF WellFormed, Joined, Ordered
  <2>8. z \in sub[t.kid[d][a]]
    BY <2>6, <2>7, SubBelow
  <2>9. Before(d, z, a)
    BY <2>3, <2>8 DEF WellFormed, Ordered
  <2>10. CASE m = a
    BY <2>3, <2>5, <2>6, <2>9, <2>10
  <2>11. CASE m # a
    <3>1. PICK e \in Sides : Before(e, m, a)
      BY <2>3, <2>11, BeforeIs, SidesAre DEF Sides
    <3>2. m \in sub[t.kid[e][a]]
      BY <2>3, <3>1 DEF WellFormed, Ordered
    <3>3. e # d
      BY <2>2, <2>6, <2>7, <3>2
    <3>4. e = Opposite(d)
      BY <3>3, SidesAre DEF Sides
    <3>5. QED
      BY <2>3, <2>5, <2>6, <2>9, <3>1, <3>4
  <2>12. QED
    BY <2>10, <2>11
<1>3. a \in Keys /\ m \in Keys /\ n \in Keys /\ z \in Keys /\ Opposite(d) \in Sides
  BY <1>1, SidesAre
<1>4. Before(Opposite(d), a, n) /\ Before(Opposite(d), a, z)
  BY <1>2, <1>3, BeforeIs, SidesAre
<1>5. Before(Opposite(d), m, n) /\ Before(Opposite(d), m, z)
  BY <1>2, <1>3, <1>4, BeforeIs
<1>6. s = d \/ s = Opposite(d)
  BY SidesAre DEF Sides
<1>7. QED
  BY <1>3, <1>5, <1>6, BeforeIs, SidesAre

(* The nearest of the nodes S on side s of n, or Null. *)
Nearest(S, s, n, e) ==
  \/ e = Null /\ \A m \in S : ~Before(s, m, n)
  \/ e \in S /\ Before(s, e, n) /\ \A m \in S : Before(s, m, n) => m = e \/ Before(s, m, e)

(* The climb finds the nearest node outside a subtree. *)
LEMMA ClimbIs ==
  ASSUME NEW t, NEW L, NEW sub, WellFormed(t, L, sub), NEW s \in Sides,
         NEW up, \A n \in Keys : up[n] = IF t.p[n] # Null /\ n = t.kid[s][t.p[n]]
                                         THEN up[t.p[n]] ELSE t.p[n],
         NEW node \in L
  PROVE  Nearest(L \ sub[node], s, node, up[node])
<1> DEFINE Bad == {n \in L : ~Nearest(L \ sub[n], s, n, up[n])}
<1>1. SUFFICES ASSUME Bad # {} PROVE FALSE
  OBVIOUS
<1>2. PICK n \in Bad : n = t.root \/ t.p[n] \notin Bad
  <2>1. Bad \subseteq L
    OBVIOUS
  <2> HIDE DEF Bad
  <2>2. QED
    BY <1>1, <2>1, TopBad
<1>3. L \subseteq Keys /\ n \in L /\ n \in Keys /\ n # Null /\ sub[n] \subseteq L /\ n \in sub[n]
  BY KeysAre DEF WellFormed, Joined, Ordered
<1>4. CASE n = t.root
  <2>1. t.p[n] = Null /\ sub[n] = L
    BY <1>3, <1>4 DEF WellFormed, Joined, Ordered
  <2>2. up[n] = Null
    BY <1>3, <2>1
  <2>3. QED
    BY <1>2, <2>1, <2>2 DEF Nearest
<1>5. CASE n # t.root
  <2>1. PICK a \in L, d \in Sides : t.p[n] = a /\ t.kid[d][a] = n
    BY <1>3, <1>5, ParentIs
  <2>2. /\ a \in Keys /\ a # Null /\ Before(d, n, a) /\ sub[n] \subseteq sub[a] /\ a \notin sub[n]
        /\ n \in sub[a] /\ sub[a] \subseteq L /\ a \in sub[a]
        /\ sub[n] = {m \in sub[a] : Before(d, m, a)}
        /\ sub[t.kid[Opposite(d)][a]] = {m \in sub[a] : Before(Opposite(d), m, a)}
    BY <1>3, <2>1, KidBelow, KeysAre, SidesAre DEF WellFormed, Ordered
  <2>3. ASSUME NEW m \in L, m \notin sub[a], NEW e \in Sides
        PROVE  Before(e, m, a) <=> Before(e, m, n)
    BY <2>2, <2>3, Contiguous
  <2>4. ASSUME NEW m \in sub[a], m \notin sub[n]
        PROVE  m = a \/ Before(Opposite(d), m, a)
    BY <1>3, <2>2, <2>4, BeforeIs
  <2>5. CASE d = s
    <3>1. up[n] = up[a]
      BY <1>3, <2>1, <2>2, <2>5
    <3>2. Nearest(L \ sub[a], s, a, up[a])
      BY <1>2, <1>5, <2>1
    <3>3. ASSUME NEW m \in L \ sub[n], Before(s, m, n) PROVE m \in L \ sub[a]
      <4>1. SUFFICES ASSUME m \in sub[a] PROVE FALSE
        OBVIOUS
      <4>2. m = a \/ Before(Opposite(s), m, a)
        BY <2>4, <2>5, <4>1
      <4>3. m \in Keys
        BY <1>3
      <4>4. QED
        BY <1>3, <2>2, <2>5, <3>3, <4>2, <4>3, BeforeIs, SidesAre
    <3>4. CASE up[a] = Null /\ \A m \in L \ sub[a] : ~Before(s, m, a)
      <4>1. \A m \in L \ sub[n] : ~Before(s, m, n)
        BY <2>3, <3>3, <3>4
      <4>2. QED
        BY <1>2, <3>1, <3>4, <4>1 DEF Nearest
    <3>5. CASE /\ up[a] \in L \ sub[a] /\ Before(s, up[a], a)
               /\ \A m \in L \ sub[a] : Before(s, m, a) => m = up[a] \/ Before(s, m, up[a])
      <4>1. up[n] \in L \ sub[n] /\ Before(s, up[n], n)
        BY <2>2, <2>3, <3>1, <3>5
      <4>2. \A m \in L \ sub[n] : Before(s, m, n) => m = up[n] \/ Before(s, m, up[n])
        BY <2>3, <3>1, <3>3, <3>5
      <4>3. QED
        BY <1>2, <4>1, <4>2 DEF Nearest
    <3>6. QED
      BY <3>2, <3>4, <3>5 DEF Nearest
  <2>6. CASE d = Opposite(s)
    <3>1. t.kid[s][a] # n
      BY <1>3, <2>1, <2>6, SideIs, SidesAre
    <3>2. up[n] = a
      BY <1>3, <2>1, <3>1
    <3>3. Before(s, a, n)
      BY <1>3, <2>2, <2>6, BeforeIs, SidesAre
    <3>4. ASSUME NEW m \in L \ sub[n], Before(s, m, n) PROVE m = a \/ Before(s, m, a)
      <4>1. CASE m \in sub[a]
        BY <2>4, <2>6, <4>1, SidesAre
      <4>2. CASE m \notin sub[a]
        BY <2>3, <3>4, <4>2
      <4>3. QED
        BY <4>1, <4>2
    <3>5. QED
      BY <1>2, <2>2, <3>2, <3>3, <3>4 DEF Nearest
  <2>7. QED
    BY <2>5, <2>6, SidesAre DEF Sides
<1>6. QED
  BY <1>4, <1>5

(* _get_next_node and _get_prev_node *)
LEMMA StepIs ==
  ASSUME NEW t, NEW L, NEW sub, WellFormed(t, L, sub), NEW s \in Sides, NEW n \in L
  PROVE  Nearest(L, s, n, Step(t, s, n))
<1> DEFINE Eq(g) == [m \in Keys |-> IF t.p[m] # Null /\ m = t.kid[s][t.p[m]]
                                    THEN g[t.p[m]] ELSE t.p[m]]
           up == CHOOSE g : g = Eq(g)
<1>1. /\ L \subseteq Keys /\ n \in Keys /\ n \in sub[n] /\ sub[n] \subseteq L
      /\ sub[Null] = {} /\ \A m \in Keys : t.p[m] \in Keys \cup {Null}
      /\ sub[t.kid[s][n]] = {m \in sub[n] : Before(s, m, n)}
  BY DEF WellFormed, Joined, Ordered, Tree
<1>2. up = Eq(up)
  <2>1. PICK stop : stop = {m \in Keys : ~(t.p[m] # Null /\ m = t.kid[s][t.p[m]])}
    OBVIOUS
  <2>2. PICK next : next = t.p
    OBVIOUS
  <2>3. \A m \in Keys : m \notin stop => next[m] \in Keys
    BY <1>1, <2>1, <2>2
  <2>4. PICK g : Walks(g, Keys, stop, next, next)
    BY ONLY <2>3, WalkExists
  <2>5. g = Eq(g)
    BY <2>1, <2>2, <2>4 DEF Walks
  <2>6. QED
    BY <2>5, Zenon
<1>3. Step(t, s, n) = IF t.kid[s][n] # Null THEN Outermost(t, Opposite(s), t.kid[s][n])
                      ELSE up[n]
  BY DEF Step
<1> HIDE DEF up
<1>4. \A m \in Keys : up[m] = IF t.p[m] # Null /\ m = t.kid[s][t.p[m]]
                              THEN up[t.p[m]] ELSE t.p[m]
  BY <1>2
<1>5. CASE t.kid[s][n] = Null
  <2>1. Nearest(L \ sub[n], s, n, up[n])
    BY ONLY <1>4, ClimbIs, WellFormed(t, L, sub), s \in Sides, n \in L
  <2>2. \A m \in sub[n] : ~Before(s, m, n)
    BY <1>1, <1>5
  <2>3. QED
    BY <1>3, <1>5, <2>1, <2>2 DEF Nearest
<1>6. CASE t.kid[s][n] # Null
  <2>1. PICK c, e : c = t.kid[s][n] /\ e = Outermost(t, Opposite(s), c)
    OBVIOUS
  <2>2. c \in L /\ sub[c] \subseteq sub[n] /\ sub[c] = {m \in sub[n] : Before(s, m, n)}
    BY <1>1, <1>6, <2>1, KidBelow
  <2>3. EndOf(t, sub, Opposite(s), c, e)
    BY <2>1, <2>2, OutermostIs, SidesAre
  <2>4. /\ e \in sub[c] /\ e \in sub[n] /\ e \in L /\ e \in Keys /\ Before(s, e, n)
        /\ \A m \in sub[c] : m = e \/ Before(Opposite(s), e, m)
    BY <1>1, <2>2, <2>3 DEF EndOf
  <2>5. ASSUME NEW m \in L, Before(s, m, n) PROVE m = e \/ Before(s, m, e)
    <3>1. CASE m \in sub[n]
      BY <1>1, <2>2, <2>4, <2>5, <3>1, BeforeIs, SidesAre
    <3>2. CASE m \notin sub[n]
      BY <2>4, <2>5, <3>2, Contiguous
    <3>3. QED
      BY <3>1, <3>2
  <2>6. Step(t, s, n) = e
    BY <1>3, <1>6, <2>1
  <2>7. QED
    BY <2>4, <2>5, <2>6 DEF Nearest
<1>7. QED
  BY <1>5, <1>6

LEMMA MaxExists ==
  ASSUME NEW S, S \subseteq Keys
  PROVE  \E m : IsMaxOf(m, S)
<1>1. CASE S = {}
  BY <1>1 DEF IsMaxOf
<1>2. CASE S # {}
  <2>1. PICK above : above = [n \in Keys \cup {Null} |-> {m \in Keys : n \in Keys /\ n < m}]
    OBVIOUS
  <2>2. above \in Labels
    BY <2>1 DEF Labels
  <2>3. PICK n \in S : \A m \in S : above[m] \subseteq above[n] => above[m] = above[n]
    BY ONLY <2>2, <1>2, S \subseteq Keys, Smallest
  <2>4. ASSUME NEW m \in S PROVE m <= n
    <3>1. m \in Int /\ n \in Int /\ m \in Keys /\ n \in Keys
      BY KeysAre
    <3>2. SUFFICES ASSUME n < m PROVE FALSE
      BY <3>1
    <3>3. \A z \in Keys : m < z => n < z
      BY <3>1, <3>2, KeysAre
    <3>4. above[m] = {z \in Keys : m < z} /\ above[n] = {z \in Keys : n < z}
      BY <2>1, <3>1
    <3>5. m \in above[n]
      BY <3>1, <3>2, <3>4
    <3>6. m \notin above[m]
      BY <3>1, <3>4
    <3>7. above[m] \subseteq above[n]
      BY <3>3, <3>4
    <3>8. QED
      BY <2>3, <3>5, <3>6, <3>7
  <2>5. QED
    BY <1>2, <2>4 DEF IsMaxOf
<1>3. QED
  BY <1>1, <1>2

LEMMA MaxUnique ==
  ASSUME NEW S, S \subseteq Keys, NEW m, IsMaxOf(m, S), NEW e, IsMaxOf(e, S)
  PROVE  m = e
<1>1. CASE S = {}
  BY <1>1 DEF IsMaxOf
<1>2. CASE S # {}
  <2>1. m \in S /\ e \in S /\ e <= m /\ m <= e
    BY <1>2 DEF IsMaxOf
  <2>2. m \in Int /\ e \in Int
    BY <2>1, KeysAre
  <2>3. QED
    BY <2>1, <2>2
<1>3. QED
  BY <1>1, <1>2

(* get_max_lteq: what a node makes of the answers below it. *)
UpTo(sub, n, k) == {z \in sub[n] : z <= k}
Best(t, n, k, a, b) ==
  IF n = k THEN n ELSE IF n < k THEN IF b = Null THEN n ELSE b ELSE a

LEMMA BestIs ==
  ASSUME NEW t, NEW L, NEW sub, WellFormed(t, L, sub), NEW k \in Keys, NEW n \in Keys,
         NEW a, n # k /\ ~(n < k) => IsMaxOf(a, UpTo(sub, t.kid["l"][n], k)),
         NEW b, n # k /\ n < k => IsMaxOf(b, UpTo(sub, t.kid["r"][n], k))
  PROVE  IsMaxOf(Best(t, n, k, a, b), UpTo(sub, n, k))
<1>1. /\ n \in sub[n] /\ sub[n] \subseteq Keys
      /\ sub[t.kid["l"][n]] = {m \in sub[n] : Before("l", m, n)}
      /\ sub[t.kid["r"][n]] = {m \in sub[n] : Before("r", m, n)}
  BY LabelsAt DEF Sides
<1>2. n \in Int /\ k \in Int /\ Null \notin Keys /\ \A m \in sub[n] : m \in Int
  BY <1>1, KeysAre
<1>3. CASE n = k
  BY <1>1, <1>2, <1>3 DEF IsMaxOf, UpTo, Best
<1>4. CASE n # k /\ n < k
  <2>1. IsMaxOf(b, UpTo(sub, t.kid["r"][n], k)) /\ Best(t, n, k, a, b) = IF b = Null THEN n ELSE b
    BY <1>4 DEF Best
  <2>2. UpTo(sub, t.kid["r"][n], k) = {z \in sub[n] : n < z /\ z <= k}
    BY <1>1 DEF UpTo, Before
  <2>3. CASE b = Null
    <3>1. \A z \in sub[n] : ~(n < z /\ z <= k)
      <4>1. UpTo(sub, t.kid["r"][n], k) = {}
        BY <1>1, <1>2, <2>1, <2>2, <2>3 DEF IsMaxOf
      <4>2. QED
        BY <2>2, <4>1
    <3>2. \A z \in sub[n] : z <= k => z <= n
      BY <1>2, <3>1
    <3>3. QED
      BY <1>1, <1>2, <1>4, <2>1, <2>3, <3>2 DEF IsMaxOf, UpTo
  <2>4. CASE b # Null
    <3>1. b \in sub[n] /\ n < b /\ b <= k /\ \A z \in sub[n] : n < z /\ z <= k => z <= b
      BY <2>1, <2>2, <2>4 DEF IsMaxOf
    <3>2. \A z \in sub[n] : z <= k => z <= b
      BY <1>2, <3>1
    <3>3. QED
      BY <2>1, <2>4, <3>1, <3>2 DEF IsMaxOf, UpTo
  <2>5. QED
    BY <2>3, <2>4
<1>5. CASE n # k /\ ~(n < k)
  <2>1. IsMaxOf(a, UpTo(sub, t.kid["l"][n], k)) /\ Best(t, n, k, a, b) = a
    BY <1>5 DEF Best
  <2>2. UpTo(sub, t.kid["l"][n], k) = {z \in sub[n] : z < n /\ z <= k}
    BY <1>1 DEF UpTo, Before
  <2>3. \A z \in sub[n] : z <= k => z < n
    BY <1>2, <1>5
  <2>4. UpTo(sub, n, k) = UpTo(sub, t.kid["l"][n], k)
    BY <2>2, <2>3 DEF UpTo
  <2>5. QED
    BY <2>1, <2>4
<1>6. QED
  BY <1>3, <1>4, <1>5

LEMMA GetMaxLteqIs ==
  ASSUME NEW t, NEW L, NEW sub, WellFormed(t, L, sub), NEW k \in Keys
  PROVE  IsMaxOf(GetMaxLteq(t, k), {n \in L : n <= k})
<1> DEFINE D == Keys \cup {Null}
           Eq(g) == [n \in D |-> IF n = Null \/ n = k THEN n
                                 ELSE IF n < k THEN LET m == g[t.kid["r"][n]]
                                                    IN IF m = Null THEN n ELSE m
                                 ELSE g[t.kid["l"][n]]]
           find == CHOOSE g : g = Eq(g)
           Bad == {n \in L : ~IsMaxOf(find[n], UpTo(sub, n, k))}
<1>1. /\ L \subseteq Keys /\ Null \notin Keys /\ k # Null /\ t.root \in L \cup {Null}
      /\ sub[t.root] = L /\ sub[Null] = {}
      /\ \A n \in D : UpTo(sub, n, k) \subseteq Keys
      /\ \A n \in Keys, s \in Sides : t.kid[s][n] \in D
      /\ \A n \in L, s \in Sides : t.kid[s][n] \in L \cup {Null}
      /\ "l" \in Sides /\ "r" \in Sides
  BY KeysAre, Zenon DEF WellFormed, Joined, Ordered, Tree, Labels, UpTo, Sides
<1>2. find = Eq(find)
  <2>1. PICK g : g = [n \in D |-> CHOOSE m : IsMaxOf(m, UpTo(sub, n, k))]
    OBVIOUS
  <2>2. ASSUME NEW n \in D PROVE IsMaxOf(g[n], UpTo(sub, n, k))
    <3>1. \E m : IsMaxOf(m, UpTo(sub, n, k))
      BY <1>1, MaxExists
    <3>2. QED
      BY <2>1, <3>1
  <2>3. ASSUME NEW n \in D
        PROVE  g[n] = IF n = Null \/ n = k THEN n
                      ELSE IF n < k THEN IF g[t.kid["r"][n]] = Null THEN n
                                         ELSE g[t.kid["r"][n]]
                      ELSE g[t.kid["l"][n]]
    <3>1. CASE n = Null
      <4>1. UpTo(sub, n, k) = {}
        BY <1>1, <3>1 DEF UpTo
      <4>2. g[n] = Null
        BY <2>2, <4>1 DEF IsMaxOf
      <4>3. QED
        BY <3>1, <4>2
    <3>2. CASE n # Null
      <4>1. n \in Keys
        BY <3>2
      <4>2. /\ IsMaxOf(g[t.kid["l"][n]], UpTo(sub, t.kid["l"][n], k))
            /\ IsMaxOf(g[t.kid["r"][n]], UpTo(sub, t.kid["r"][n], k))
        BY <1>1, <2>2, <4>1
      <4>3. IsMaxOf(Best(t, n, k, g[t.kid["l"][n]], g[t.kid["r"][n]]), UpTo(sub, n, k))
        BY <4>1, <4>2, BestIs
      <4>4. g[n] = Best(t, n, k, g[t.kid["l"][n]], g[t.kid["r"][n]])
        BY <1>1, <2>2, <4>1, <4>3, MaxUnique
      <4>5. QED
        BY <3>2, <4>4 DEF Best
    <3>3. QED
      BY <3>1, <3>2
  <2>4. g = Eq(g)
    <3>1. g = [n \in D |-> g[n]]
      BY <2>1
    <3>2. QED
      BY <2>3, <3>1
  <2>5. QED
    BY <2>4, Zenon
<1>3. GetMaxLteq(t, k) = find[t.root]
  BY Zenon DEF GetMaxLteq
<1> HIDE DEF find
<1>4. /\ find[Null] = Null
      /\ \A n \in Keys : find[n] = Best(t, n, k, find[t.kid["l"][n]], find[t.kid["r"][n]])
  BY <1>1, <1>2, Zenon DEF Best
<1>5. IsMaxOf(find[Null], UpTo(sub, Null, k))
  BY <1>1, <1>4 DEF IsMaxOf, UpTo
<1>6. Bad = {}
  <2>1. SUFFICES ASSUME Bad # {} PROVE FALSE
    OBVIOUS
  <2>2. PICK n \in Bad : \A d \in Sides : t.kid[d][n] \notin Bad
    <3>1. Bad \subseteq L
      OBVIOUS
    <3> HIDE DEF Bad
    <3>2. QED
      BY <2>1, <3>1, LeastBad
  <2>3. n \in L /\ n \in Keys
    BY <1>1
  <2>4. /\ IsMaxOf(find[t.kid["l"][n]], UpTo(sub, t.kid["l"][n], k))
        /\ IsMaxOf(find[t.kid["r"][n]], UpTo(sub, t.kid["r"][n], k))
    BY <1>1, <1>5, <2>2, <2>3
  <2>5. IsMaxOf(find[n], UpTo(sub, n, k))
    BY <1>4, <2>3, <2>4, BestIs
  <2>6. QED
    BY <2>2, <2>5
<1>7. IsMaxOf(find[t.root], UpTo(sub, t.root, k))
  BY <1>1, <1>5, <1>6
<1>8. QED
  BY <1>1, <1>3, <1>7 DEF UpTo

(* The nodes below a node, and those on the way down to its least one. *)
LEMMA SubtreeIs ==
  ASSUME NEW t, NEW L, NEW sub, WellFormed(t, L, sub), NEW node \in L \cup {Null}
  PROVE  Subtree(t, node) = sub[node]
<1> DEFINE D == Keys \cup {Null}
           Eq(g) == [m \in D |-> IF m = Null THEN {} ELSE {m} \cup g[t.kid["l"][m]]
                                                            \cup g[t.kid["r"][m]]]
           below == CHOOSE g : g = Eq(g)
           Bad == {n \in L : below[n] # sub[n]}
<1>1. /\ L \subseteq Keys /\ Null \notin Keys /\ sub \in Labels /\ sub[Null] = {}
      /\ \A n \in L, s \in Sides : t.kid[s][n] \in L \cup {Null}
      /\ "l" \in Sides /\ "r" \in Sides
  BY KeysAre DEF WellFormed, Joined, Ordered, Sides
<1>2. ASSUME NEW n \in Keys
      PROVE  sub[n] = {n} \cup sub[t.kid["l"][n]] \cup sub[t.kid["r"][n]]
  <2>1. /\ n \in sub[n] /\ sub[n] \subseteq Keys
        /\ sub[t.kid["l"][n]] = {m \in sub[n] : Before("l", m, n)}
        /\ sub[t.kid["r"][n]] = {m \in sub[n] : Before("r", m, n)}
    BY <1>1, LabelsAt
  <2>2. \A m \in sub[n] : m = n \/ Before("l", m, n) \/ Before("r", m, n)
    BY ONLY <2>1, KeysAre DEF Before
  <2>3. QED
    BY <2>1, <2>2
<1>3. below = Eq(below)
  <2>1. sub = [n \in D |-> sub[n]]
    BY <1>1 DEF Labels
  <2>2. \A n \in D : sub[n] = IF n = Null THEN {} ELSE {n} \cup sub[t.kid["l"][n]]
                                                         \cup sub[t.kid["r"][n]]
    BY <1>1, <1>2
  <2>3. sub = Eq(sub)
    BY <2>1, <2>2
  <2>4. QED
    BY <2>3, Zenon
<1>4. Subtree(t, node) = below[node]
  BY DEF Subtree
<1> HIDE DEF below
<1>5. /\ below[Null] = {}
      /\ \A n \in Keys : below[n] = {n} \cup below[t.kid["l"][n]] \cup below[t.kid["r"][n]]
  BY <1>1, <1>3, Zenon
<1>6. Bad = {}
  <2>1. SUFFICES ASSUME Bad # {} PROVE FALSE
    OBVIOUS
  <2>2. PICK n \in Bad : \A d \in Sides : t.kid[d][n] \notin Bad
    <3>1. Bad \subseteq L
      OBVIOUS
    <3> HIDE DEF Bad
    <3>2. QED
      BY <2>1, <3>1, LeastBad
  <2>3. n \in L /\ n \in Keys
    BY <1>1
  <2>4. /\ below[t.kid["l"][n]] = sub[t.kid["l"][n]]
        /\ below[t.kid["r"][n]] = sub[t.kid["r"][n]]
    BY <1>1, <1>5, <2>2, <2>3
  <2>5. below[n] = {n} \cup below[t.kid["l"][n]] \cup below[t.kid["r"][n]]
    BY <1>5, <2>3
  <2>6. sub[n] = {n} \cup sub[t.kid["l"][n]] \cup sub[t.kid["r"][n]]
    BY <1>2, <2>3
  <2>7. QED
    BY <2>2, <2>4, <2>5, <2>6
<1>7. QED
  BY <1>1, <1>4, <1>5, <1>6

LEMMA RightSpineIs ==
  ASSUME NEW L, NEW sub, WellFormed(tree, L, sub), NEW node \in L
  PROVE  RightSpine(node) \subseteq {m \in sub[node] : node < m}
<1> DEFINE D == Keys \cup {Null}
           Eq(g) == [m \in D |-> IF m = Null THEN {} ELSE {m} \cup g[tree.kid["l"][m]]]
           down == CHOOSE g : g = Eq(g)
           Bad == {n \in L : ~(down[n] \subseteq sub[n])}
<1>1. /\ L \subseteq Keys /\ Null \notin Keys /\ sub \in Labels /\ sub[Null] = {}
      /\ \A n \in L, s \in Sides : tree.kid[s][n] \in L \cup {Null}
      /\ "l" \in Sides /\ "r" \in Sides
  BY KeysAre DEF WellFormed, Joined, Ordered, Sides
<1>2. ASSUME NEW n \in Keys
      PROVE  /\ n \in sub[n] /\ sub[n] \subseteq Keys
             /\ sub[tree.kid["l"][n]] = {m \in sub[n] : m < n}
             /\ sub[tree.kid["r"][n]] = {m \in sub[n] : n < m}
  <2>1. /\ n \in sub[n] /\ sub[n] \subseteq Keys
        /\ sub[tree.kid["l"][n]] = {m \in sub[n] : Before("l", m, n)}
        /\ sub[tree.kid["r"][n]] = {m \in sub[n] : Before("r", m, n)}
    BY <1>1, LabelsAt
  <2>2. QED
    BY <2>1 DEF Before
<1>3. down = Eq(down)
  <2> DEFINE F(m) == {z \in sub[m] : \A w \in sub[m] : w < z => w \in sub[z]}
  <2>1. PICK g : g = [m \in D |-> F(m)]
    OBVIOUS
  <2>2. F(Null) = {}
    BY <1>1
  <2>3. ASSUME NEW n \in Keys PROVE F(n) = {n} \cup F(tree.kid["l"][n])
    <3>1. n \in Int /\ \A m \in sub[n] : m \in Int
      BY <1>2, KeysAre
    <3>2. n \in F(n)
      BY <1>2
    <3>3. ASSUME NEW z \in sub[n], n < z, z \in F(n) PROVE FALSE
      <4>1. n \in sub[z] /\ z \in Keys
        BY <1>2, <3>3
      <4>2. z \in L
        BY <4>1, <1>2, <3>1, <3>3 DEF WellFormed, Ordered
      <4>3. n \in L /\ z # n
        BY <1>1, <3>1, <3>3, <4>1, <4>2, SubBelow
      <4>4. QED
        BY <4>1, <4>3, SubBelow
    <3>4. ASSUME NEW z \in sub[n], z < n
          PROVE  z \in F(n) <=> z \in F(tree.kid["l"][n])
      <4>1. z \in Int /\ z \in sub[tree.kid["l"][n]]
        BY <1>2, <3>1, <3>4
      <4>2. \A w \in sub[n] : w < z => w \in sub[tree.kid["l"][n]]
        BY <1>2, <3>1, <3>4, <4>1
      <4>3. sub[tree.kid["l"][n]] \subseteq sub[n]
        BY <1>2
      <4>4. QED
        BY <4>1, <4>2, <4>3
    <3>5. \A z \in sub[n] : z = n \/ z < n \/ n < z
      BY <3>1
    <3>6. \A z \in F(tree.kid["l"][n]) : z \in sub[n] /\ z < n
      BY <1>2
    <3>7. \A z \in F(n) : z \in sub[n]
      OBVIOUS
    <3> HIDE DEF F
    <3>8. QED
      BY <3>2, <3>3, <3>4, <3>5, <3>6, <3>7
  <2>4. \A n \in Keys : tree.kid["l"][n] \in D
    BY <1>1 DEF WellFormed, Joined, Tree
  <2> HIDE DEF F
  <2>5. g = Eq(g)
    BY <1>1, <2>1, <2>2, <2>3, <2>4
  <2>6. QED
    BY <2>5, Zenon
<1>4. RightSpine(node) = down[tree.kid["r"][node]]
  BY DEF RightSpine
<1> HIDE DEF down
<1>5. /\ down[Null] = {}
      /\ \A n \in Keys : down[n] = {n} \cup down[tree.kid["l"][n]]
  BY <1>1, <1>3
<1>6. Bad = {}
  <2>1. SUFFICES ASSUME Bad # {} PROVE FALSE
    OBVIOUS
  <2>2. PICK n \in Bad : \A d \in Sides : tree.kid[d][n] \notin Bad
    <3>1. Bad \subseteq L
      OBVIOUS
    <3> HIDE DEF Bad
    <3>2. QED
      BY <2>1, <3>1, LeastBad
  <2>3. n \in L /\ n \in Keys
    BY <1>1
  <2>4. down[tree.kid["l"][n]] \subseteq sub[tree.kid["l"][n]]
    BY <1>1, <1>5, <2>2, <2>3
  <2>5. down[n] \subseteq sub[n]
    BY <1>2, <1>5, <2>3, <2>4
  <2>6. QED
    BY <2>2, <2>5
<1>7. node \in Keys /\ tree.kid["r"][node] \in L \cup {Null}
  BY <1>1
<1>8. down[tree.kid["r"][node]] \subseteq sub[tree.kid["r"][node]]
  BY ONLY <1>1, <1>5, <1>6, <1>7
<1>9. QED
  BY <1>2, <1>4, <1>7, <1>8

-----------------------------------------------------------------------------
(* The balance.  bh gives each node the number of black nodes on every way *)
(* down from it; below q on side e the ways are one short.                 *)
Heights == [Keys \cup {Null} -> Nat]
Own(t, n) == IF IsBlack(t, n) THEN 1 ELSE 0
Debt(q, e, n, s) == IF n = q /\ s = e THEN 1 ELSE 0
LevelAt(t, bh, q, e, n) ==
  \A s \in Sides : bh[n] = bh[t.kid[s][n]] + Own(t, n) + Debt(q, e, n, s)
Level(t, L, bh, q, e) ==
  bh \in Heights /\ bh[Null] = 0 /\ \A n \in L : LevelAt(t, bh, q, e, n)

(* Of two red nodes in a row the upper is u or the lower is w; a red root  *)
(* is w.                                                                   *)
PairsAt(t, u, w, n) ==
  \A s \in Sides : IsRed(t, n) /\ IsRed(t, t.kid[s][n]) => n = u \/ t.kid[s][n] = w
Apart(t, L, u, w) ==
  /\ \A n \in L : PairsAt(t, u, w, n)
  /\ IsRed(t, t.root) => t.root = w

(* A rotation at n after which n and y, which takes its place, have        *)
(* exchanged their colours.  All rotations but the last are of this kind,  *)
(* and the last is but for one more node that turns black.                 *)
Turned(t, r, s, n, y, c) ==
  /\ r \in Tree
  /\ r.root = IF t.root = n THEN y ELSE t.root
  /\ \A a \in Keys : r.p[a] = IF a = n THEN y ELSE IF a = y THEN t.p[n]
                              ELSE IF a = c THEN n ELSE t.p[a]
  /\ \A a \in Keys, d \in Sides :
       r.kid[d][a] = IF a = n /\ d = Opposite(s) THEN c
                     ELSE IF a = y /\ d = s THEN n
                     ELSE IF t.kid[d][a] = n THEN y ELSE t.kid[d][a]
  /\ \A a \in Keys : r.color[a] = IF a = n THEN t.color[y]
                                  ELSE IF a = y THEN t.color[n] ELSE t.color[a]

(* The nodes a rotation moves. *)
Turning(t, L, s, n, y, c, z, f) ==
  /\ n \in L /\ y \in L /\ n \in Keys /\ y \in Keys /\ n # y /\ t.p[y] = n
  /\ y = t.kid[Opposite(s)][n] /\ c = t.kid[s][y]
  /\ z = t.kid[s][n] /\ f = t.kid[Opposite(s)][y]
  /\ {c, z, f} \subseteq L \cup {Null} /\ c \notin {n, y} /\ z \notin {n, y} /\ f \notin {n, y}
  /\ c # Null => c # f
  /\ \A a \in L, d \in Sides :
       /\ t.kid[d][a] = n => a # n /\ a # y
       /\ t.kid[d][a] = y => a = n /\ d = Opposite(s)

LEMMA TurningIs ==
  ASSUME NEW t, NEW L, NEW sub, WellFormed(t, L, sub),
         NEW n \in L, NEW s \in Sides, NEW y, y = t.kid[Opposite(s)][n], y # Null,
         NEW c, c = t.kid[s][y]
  PROVE  Turning(t, L, s, n, y, c, t.kid[s][n], t.kid[Opposite(s)][y])
<1>1. /\ L \subseteq Keys /\ Null \notin Keys /\ n \in Keys /\ Opposite(s) \in Sides
      /\ Opposite(s) # s
  BY KeysAre, SidesAre DEF WellFormed, Joined
<1>2. /\ y \in L /\ y \in Keys /\ t.p[y] = n /\ y \in sub[n] /\ n \notin sub[y] /\ y \in sub[y]
      /\ n # y
  <2>1. y \in L /\ t.p[y] = n /\ y \in sub[n] /\ n \notin sub[y]
    BY <1>1, KidBelow
  <2>2. y \in sub[y]
    BY <2>1 DEF WellFormed, Ordered
  <2>3. QED
    BY <1>1, <2>1, <2>2
<1>3. ASSUME NEW a \in L, NEW d \in Sides
      PROVE  /\ t.kid[d][a] = n => a # n /\ a # y
             /\ t.kid[d][a] = y => a = n /\ d = Opposite(s)
             /\ t.kid[d][a] # a
  <2>1. t.kid[d][a] # Null => t.kid[d][a] \in sub[a] /\ a \notin sub[t.kid[d][a]]
    BY KidBelow
  <2>2. t.kid[d][a] = y => a = n /\ d = Opposite(s)
    BY <1>1, KidUnique
  <2>3. a \in sub[a] /\ a \in Keys
    BY <1>1 DEF WellFormed, Ordered
  <2>4. QED
    BY <1>1, <1>2, <2>1, <2>2, <2>3
<1>4. \A a \in L, d \in Sides : t.kid[d][a] \in L \cup {Null}
  BY DEF WellFormed, Joined
<1>5. c \in L \cup {Null} /\ c \notin {n, y}
  BY <1>2, <1>3, <1>4
<1>6. t.kid[s][n] \in L \cup {Null} /\ t.kid[s][n] \notin {n, y}
  BY <1>1, <1>3, <1>4
<1>7. t.kid[Opposite(s)][y] \in L \cup {Null} /\ t.kid[Opposite(s)][y] \notin {n, y}
  BY <1>1, <1>2, <1>3, <1>4
<1>8. c # Null => c # t.kid[Opposite(s)][y]
  BY <1>2, SideIs
<1>9. QED
  BY <1>1, <1>2, <1>3, <1>5, <1>6, <1>7, <1>8 DEF Turning

(* r's links are those of a rotation of t, and it is well-formed. *)
LEMMA TurnKeeps ==
  ASSUME NEW t, NEW L, NEW sub, WellFormed(t, L, sub),
         NEW n \in L, NEW s \in Sides, NEW y, y = t.kid[Opposite(s)][n], y # Null,
         NEW c, c = t.kid[s][y], NEW r, Turned(t, r, s, n, y, c)
  PROVE  WellFormed(r, L, RotatedLabels(sub, s, n, y))
<1>1. PICK v : v = [r EXCEPT !.color = t.color]
  OBVIOUS
<1>2. t \in Tree /\ r \in Tree
  BY DEF WellFormed, Joined, Turned
<1>3. /\ v \in Tree /\ v.color = t.color /\ v.root = r.root /\ v.p = r.p /\ v.kid = r.kid
  BY <1>1, <1>2 DEF Tree
<1>4. Rotated(t, v, s, n, y, c)
  BY <1>3 DEF Rotated, Turned
<1>5. WellFormed(v, L, RotatedLabels(sub, s, n, y))
  BY ONLY <1>4, RotateKeeps, WellFormed(t, L, sub), n \in L, s \in Sides,
          y = t.kid[Opposite(s)][n], y # Null, c = t.kid[s][y]
<1>6. SameLinks(v, r)
  BY <1>2, <1>3 DEF SameLinks
<1>7. QED
  BY ONLY <1>5, <1>6, PaintKeeps

Exchanged(bh, n, y) == [bh EXCEPT ![n] = bh[y], ![y] = bh[n]]

LEMMA TurnPairs ==
  ASSUME NEW t, NEW L, NEW s \in Sides, NEW n, NEW y, NEW c, NEW z, NEW f,
         Turning(t, L, s, n, y, c, z, f), L \subseteq Keys,
         NEW r, Turned(t, r, s, n, y, c),
         NEW a \in L, a # n, a # y, \A d \in Sides : t.kid[d][a] \in L \cup {Null},
         PairsAt(t, Null, Null, a)
  PROVE  PairsAt(r, Null, Null, a)
<1>1. /\ a \in Keys /\ n \in Keys /\ y \in Keys /\ n # y /\ Null \notin Keys
      /\ \A d \in Sides : t.kid[d][a] # y
  BY KeysAre, Zenon DEF Turning
<1>2. \A d \in Sides : r.kid[d][a] = IF t.kid[d][a] = n THEN y ELSE t.kid[d][a]
  BY <1>1 DEF Turned
<1>3. \A b \in Keys : r.color[b] = IF b = n THEN t.color[y] ELSE IF b = y THEN t.color[n] ELSE t.color[b]
  BY DEF Turned
<1>4. ASSUME NEW d \in Sides, IsRed(r, a), IsRed(r, r.kid[d][a]) PROVE FALSE
  <2>1. t.kid[d][a] \in Keys \cup {Null}
    OBVIOUS
  <2>2. IsRed(t, a) /\ IsRed(t, t.kid[d][a])
    BY <1>1, <1>2, <1>3, <1>4, <2>1 DEF IsRed
  <2>3. a = Null \/ t.kid[d][a] = Null
    BY <2>2 DEF PairsAt
  <2>4. QED
    BY <1>1, <2>2, <2>3 DEF IsRed
<1>5. QED
  BY <1>4, Zenon DEF PairsAt

LEMMA TurnOthers ==
  ASSUME NEW t, NEW L, NEW s \in Sides, NEW n, NEW y, NEW c, NEW z, NEW f,
         Turning(t, L, s, n, y, c, z, f), L \subseteq Keys,
         NEW r, Turned(t, r, s, n, y, c), NEW bh \in Heights,
         NEW a \in L, a # n, a # y, \A d \in Sides : t.kid[d][a] \in L \cup {Null},
         NEW q, NEW e, LevelAt(t, bh, q, e, a)
  PROVE  LevelAt(r, Exchanged(bh, n, y), q, e, a)
<1>1. /\ a \in Keys /\ n \in Keys /\ y \in Keys /\ n # y /\ Null \notin Keys
      /\ \A d \in Sides : t.kid[d][a] # y
  BY KeysAre, Zenon DEF Turning
<1>2. \A d \in Sides : r.kid[d][a] = IF t.kid[d][a] = n THEN y ELSE t.kid[d][a]
  BY <1>1 DEF Turned
<1>3. r.color[a] = t.color[a]
  BY <1>1 DEF Turned
<1>4. PICK bh2 : bh2 = Exchanged(bh, n, y)
  OBVIOUS
<1>5. \A b \in Keys \cup {Null} : bh2[b] = IF b = n THEN bh[y] ELSE IF b = y THEN bh[n] ELSE bh[b]
  BY <1>1, <1>4 DEF Exchanged, Heights
<1>6. ASSUME NEW d \in Sides PROVE bh2[r.kid[d][a]] = bh[t.kid[d][a]]
  <2>1. t.kid[d][a] \in Keys \cup {Null}
    OBVIOUS
  <2>2. QED
    BY <1>1, <1>2, <1>5, <2>1
<1>7. bh2[a] = bh[a] /\ Own(r, a) = Own(t, a)
  BY <1>1, <1>3, <1>5 DEF Own, IsBlack, IsRed
<1>8. LevelAt(r, bh2, q, e, a)
  BY <1>6, <1>7 DEF LevelAt
<1>9. QED
  BY <1>4, <1>8, Zenon

(* Exchanging colours with a red node keeps the heights. *)
LEMMA TurnLevel ==
  ASSUME NEW t, NEW L, NEW s \in Sides, NEW n, NEW y, NEW c, NEW z, NEW f,
         Turning(t, L, s, n, y, c, z, f), L \subseteq Keys,
         \A a \in L, d \in Sides : t.kid[d][a] \in L \cup {Null},
         NEW r, Turned(t, r, s, n, y, c),
         NEW bh, NEW q, NEW e, Level(t, L, bh, q, e),
         IsRed(t, y), q # y, ~(q = n /\ e = Opposite(s))
  PROVE  Level(r, L, Exchanged(bh, n, y), q, e)
<1>1. /\ n \in Keys /\ y \in Keys /\ n # y /\ Null \notin Keys /\ n \in L /\ y \in L
      /\ c \in Keys \cup {Null} /\ z \in Keys \cup {Null} /\ f \in Keys \cup {Null}
      /\ c \notin {n, y} /\ z \notin {n, y} /\ f \notin {n, y}
      /\ y = t.kid[Opposite(s)][n] /\ c = t.kid[s][y]
      /\ z = t.kid[s][n] /\ f = t.kid[Opposite(s)][y]
      /\ Opposite(s) \in Sides /\ Opposite(s) # s
  BY KeysAre, SidesAre, Zenon DEF Turning
<1>2. bh \in Heights /\ bh[Null] = 0
  BY DEF Level
<1>3. PICK bh2 : bh2 = Exchanged(bh, n, y)
  BY Zenon
<1>4. bh2 \in Heights /\
      \A b \in Keys \cup {Null} : bh2[b] = IF b = n THEN bh[y] ELSE IF b = y THEN bh[n] ELSE bh[b]
  BY <1>1, <1>2, <1>3, Zenon DEF Exchanged, Heights
<1>5. /\ r.kid[s][n] = z /\ r.kid[Opposite(s)][n] = c
      /\ r.kid[s][y] = n /\ r.kid[Opposite(s)][y] = f
      /\ r.color[n] = t.color[y] /\ r.color[y] = t.color[n]
  BY <1>1, Zenon DEF Turned
<1>6. /\ Own(t, y) = 0 /\ Own(r, n) = 0 /\ Own(r, y) = Own(t, n) /\ Own(t, n) \in Nat
      /\ Debt(q, e, n, Opposite(s)) = 0 /\ Debt(q, e, n, s) \in Nat
      /\ Debt(q, e, y, s) = 0 /\ Debt(q, e, y, Opposite(s)) = 0
  BY <1>1, <1>5, Zenon DEF Own, IsBlack, IsRed, Debt
<1>7. /\ bh[n] = bh[y] + Own(t, n) /\ bh[n] = bh[z] + Own(t, n) + Debt(q, e, n, s)
      /\ bh[y] = bh[c] /\ bh[y] = bh[f]
      /\ bh[n] \in Nat /\ bh[y] \in Nat /\ bh[z] \in Nat /\ bh[c] \in Nat /\ bh[f] \in Nat
  <2>1. bh[n] \in Nat /\ bh[y] \in Nat /\ bh[z] \in Nat /\ bh[c] \in Nat /\ bh[f] \in Nat
    BY <1>1, <1>2, Zenon DEF Heights
  <2>2. LevelAt(t, bh, q, e, n) /\ LevelAt(t, bh, q, e, y)
    BY <1>1, Zenon DEF Level
  <2>3. /\ bh[n] = bh[y] + Own(t, n) + Debt(q, e, n, Opposite(s))
        /\ bh[n] = bh[z] + Own(t, n) + Debt(q, e, n, s)
        /\ bh[y] = bh[c] + Own(t, y) + Debt(q, e, y, s)
        /\ bh[y] = bh[f] + Own(t, y) + Debt(q, e, y, Opposite(s))
    BY ONLY <1>1, <2>2 DEF LevelAt
  <2>4. QED
    BY ONLY <1>6, <2>1, <2>3
<1>8. bh2[n] = bh[y] /\ bh2[y] = bh[n] /\ bh2[c] = bh[c] /\ bh2[z] = bh[z] /\ bh2[f] = bh[f]
  BY <1>1, <1>4, Zenon
<1>9. \A d \in Sides : d = s \/ d = Opposite(s)
  BY SidesAre DEF Sides
<1>10. LevelAt(r, bh2, q, e, n)
  <2>1. bh2[n] = bh2[z] + Own(r, n) + Debt(q, e, n, s)
    BY <1>6, <1>7, <1>8
  <2>2. bh2[n] = bh2[c] + Own(r, n) + Debt(q, e, n, Opposite(s))
    <3>1. bh2[n] = bh2[c] /\ bh2[c] \in Nat
      BY <1>7, <1>8
    <3>2. QED
      BY <1>6, <3>1
  <2>3. QED
    BY <1>5, <1>9, <2>1, <2>2 DEF LevelAt
<1>11. LevelAt(r, bh2, q, e, y)
  <2>1. bh2[y] = bh2[n] + Own(r, y) + Debt(q, e, y, s)
    BY <1>6, <1>7, <1>8
  <2>2. bh2[y] = bh2[f] + Own(r, y) + Debt(q, e, y, Opposite(s))
    BY <1>6, <1>7, <1>8
  <2>3. QED
    BY <1>5, <1>9, <2>1, <2>2 DEF LevelAt
<1>12. ASSUME NEW a \in L PROVE LevelAt(r, bh2, q, e, a)
  <2>1. CASE a # n /\ a # y
    <3>1. LevelAt(t, bh, q, e, a)
      BY Zenon DEF Level
    <3>2. QED
      BY <1>2, <1>3, <2>1, <3>1, TurnOthers
  <2>2. QED
    BY <1>10, <1>11, <2>1
<1>13. bh2[Null] = 0
  BY <1>1, <1>2, <1>4, Zenon
<1>14. QED
  BY <1>3, <1>4, <1>12, <1>13, Zenon DEF Level

LEMMA TurnApart ==
  ASSUME NEW t, NEW L, NEW s \in Sides, NEW n, NEW y, NEW c, NEW z, NEW f,
         Turning(t, L, s, n, y, c, z, f), L \subseteq Keys, t.root \in L \cup {Null},
         \A a \in L, d \in Sides : t.kid[d][a] \in L \cup {Null},
         NEW r, Turned(t, r, s, n, y, c),
         IsBlack(t, n), IsRed(t, y), IsBlack(t, z), IsBlack(t, c), IsBlack(t, t.root),
         \A a \in L : a # n /\ a # y => PairsAt(t, Null, Null, a)
  PROVE  /\ Apart(r, L, Null, Null)
         /\ IsRed(r, n) /\ IsBlack(r, y) /\ IsBlack(r, r.root)
         /\ \A a \in Keys \cup {Null} : a # n /\ a # y => (IsRed(r, a) <=> IsRed(t, a))
<1>1. /\ n \in Keys /\ y \in Keys /\ n # y /\ Null \notin Keys /\ n \in L /\ y \in L
      /\ c \in Keys \cup {Null} /\ z \in Keys \cup {Null}
      /\ c \notin {n, y} /\ z \notin {n, y}
      /\ Opposite(s) \in Sides /\ z = t.kid[s][n]
  BY KeysAre, SidesAre, Zenon DEF Turning
<1>2. /\ r.kid[s][n] = z /\ r.kid[Opposite(s)][n] = c
      /\ r.color[n] = t.color[y] /\ r.color[y] = t.color[n]
      /\ \A b \in Keys : b # n /\ b # y => r.color[b] = t.color[b]
      /\ r.root = IF t.root = n THEN y ELSE t.root
  <2>1. Opposite(s) # s
    BY SidesAre
  <2>2. r.kid[s][n] = z
    BY <1>1, <2>1 DEF Turned
  <2>3. r.kid[Opposite(s)][n] = c
    BY <1>1 DEF Turned
  <2>4. QED
    BY <1>1, <2>2, <2>3 DEF Turned
<1>3. IsRed(r, n) /\ IsBlack(r, y)
  BY <1>1, <1>2 DEF IsBlack, IsRed
<1>4. \A a \in Keys \cup {Null} : a # n /\ a # y => (IsRed(r, a) <=> IsRed(t, a))
  BY <1>2 DEF IsRed
<1>5. IsBlack(r, r.root)
  <2>1. t.root # y /\ t.root \in Keys \cup {Null}
    BY DEF IsBlack
  <2>2. QED
    BY <1>2, <1>3, <1>4, <2>1 DEF IsBlack
<1>6. IsBlack(r, z) /\ IsBlack(r, c)
  BY <1>1, <1>4 DEF IsBlack
<1>7. ASSUME NEW a \in L PROVE PairsAt(r, Null, Null, a)
  <2>1. CASE a = n
    <3>1. \A d \in Sides : d = s \/ d = Opposite(s)
      BY SidesAre DEF Sides
    <3>2. QED
      BY <1>2, <1>6, <2>1, <3>1 DEF PairsAt, IsBlack
  <2>2. CASE a = y
    BY <1>3, <2>2 DEF PairsAt, IsBlack
  <2>3. CASE a # n /\ a # y
    <3>1. PairsAt(t, Null, Null, a) /\ \A d \in Sides : t.kid[d][a] \in L \cup {Null}
      BY <2>3
    <3>2. QED
      BY ONLY <2>3, <3>1, TurnPairs, s \in Sides, Turning(t, L, s, n, y, c, z, f),
              L \subseteq Keys, Turned(t, r, s, n, y, c), a \in L
  <2>4. QED
    BY <2>1, <2>2, <2>3
<1>8. QED
  BY ONLY <1>3, <1>4, <1>5, <1>7 DEF Apart, IsBlack

(* The rotations of the code are of this kind. *)
LEMMA TurnsSame ==
  ASSUME NEW t, NEW L, NEW sub, WellFormed(t, L, sub),
         NEW n \in L, NEW s \in Sides, NEW y, y = t.kid[Opposite(s)][n], y # Null,
         t.color[n] = t.color[y]
  PROVE  Turned(t, Rotate(t, s, n), s, n, y, t.kid[s][y])
<1>1. Rotated(t, Rotate(t, s, n), s, n, y, t.kid[s][y])
  BY RotateIs
<1>2. QED
  BY <1>1 DEF Rotated, Turned

LEMMA TurnsThenPaints ==
  ASSUME NEW t, NEW L, NEW sub, WellFormed(t, L, sub),
         NEW n \in L, NEW s \in Sides, NEW y, y = t.kid[Opposite(s)][n], y # Null,
         IsBlack(t, n), IsRed(t, y), NEW v, v = Rotate(t, s, n)
  PROVE  Turned(t, Paint(Paint(v, v.p[n], "black"), n, "red"), s, n, y, t.kid[s][y])
<1>1. Rotated(t, v, s, n, y, t.kid[s][y])
  BY RotateIs
<1>2. n \in Keys /\ y \in Keys /\ n # y
  BY TurningIs DEF Turning
<1>3. v \in Tree /\ v.p[n] = y
  BY <1>1, <1>2 DEF Rotated
<1>4. PICK w : w = Paint(v, y, "black")
  OBVIOUS
<1>5. Painted(v, w, y, "black")
  BY <1>2, <1>3, <1>4, PaintIs
<1>6. PICK r : r = Paint(w, n, "red")
  OBVIOUS
<1>7. Painted(w, r, n, "red")
  <2>1. w \in Tree
    BY <1>5 DEF Painted
  <2>2. QED
    BY <1>2, <1>6, <2>1, PaintIs
<1>8. t.color[n] = "black" /\ t.color[y] = "red" /\ t \in Tree
  BY <1>2, KeysAre DEF IsBlack, IsRed, WellFormed, Joined, Tree
<1>9. \A a \in Keys : r.color[a] = IF a = n THEN t.color[y]
                                   ELSE IF a = y THEN t.color[n] ELSE t.color[a]
  BY <1>1, <1>2, <1>5, <1>7, <1>8 DEF Painted, Rotated
<1>10. r \in Tree /\ r.root = v.root /\ r.p = v.p /\ r.kid = v.kid
  BY <1>5, <1>7 DEF Painted
<1>11. Turned(t, r, s, n, y, t.kid[s][y])
  BY <1>1, <1>9, <1>10 DEF Turned, Rotated
<1>12. QED
  BY <1>3, <1>4, <1>6, <1>11

LEMMA PaintsThenTurns ==
  ASSUME NEW t, NEW L, NEW sub, WellFormed(t, L, sub),
         NEW n \in L, NEW s \in Sides, NEW y, y = t.kid[Opposite(s)][n], y # Null,
         IsBlack(t, n), IsRed(t, y)
  PROVE  Turned(t, Rotate(Paint(Paint(t, y, "black"), n, "red"), s, n), s, n, y, t.kid[s][y])
<1>1. n \in Keys /\ y \in Keys /\ n # y /\ t \in Tree
  BY TurningIs DEF Turning, WellFormed, Joined
<1>2. PICK v : v = Paint(t, y, "black")
  OBVIOUS
<1>3. Painted(t, v, y, "black")
  BY <1>1, <1>2, PaintIs
<1>4. PICK w : w = Paint(v, n, "red")
  OBVIOUS
<1>5. Painted(v, w, n, "red")
  <2>1. v \in Tree
    BY <1>3 DEF Painted
  <2>2. QED
    BY <1>1, <1>4, <2>1, PaintIs
<1>6. w \in Tree /\ w.root = t.root /\ w.p = t.p /\ w.kid = t.kid
  BY <1>3, <1>5 DEF Painted
<1>7. WellFormed(w, L, sub)
  BY <1>6, PaintKeeps DEF SameLinks
<1>8. PICK r : r = Rotate(w, s, n)
  OBVIOUS
<1>9. Rotated(w, r, s, n, y, t.kid[s][y])
  BY <1>6, <1>7, <1>8, RotateIs
<1>10. t.color[n] = "black" /\ t.color[y] = "red"
  BY <1>1, KeysAre DEF IsBlack, IsRed, Tree
<1>11. \A a \in Keys : r.color[a] = IF a = n THEN t.color[y]
                                    ELSE IF a = y THEN t.color[n] ELSE t.color[a]
  BY <1>1, <1>3, <1>5, <1>9, <1>10 DEF Painted, Rotated
<1>12. Turned(t, r, s, n, y, t.kid[s][y])
  BY <1>6, <1>9, <1>11 DEF Turned, Rotated
<1>13. QED
  BY <1>2, <1>4, <1>8, <1>12

-----------------------------------------------------------------------------
(* Balance between calls, and while an insertion goes on. *)
Settled(t, L, bh) == Level(t, L, bh, Null, "l") /\ Apart(t, L, Null, Null)
Growing(t, L, bh, z) ==
  /\ Level(t, L, bh, Null, "l") /\ Apart(t, L, Null, z)
  /\ z \in L /\ IsRed(t, z)

LEMMA LinksTyped ==
  ASSUME NEW t, NEW L, NEW sub, WellFormed(t, L, sub)
  PROVE  /\ t \in Tree /\ L \subseteq Keys /\ Null \notin Keys /\ t.root \in L \cup {Null}
         /\ t.root # Null => t.p[t.root] = Null
         /\ \A a \in L : a \in Keys /\ a # Null
         /\ \A a \in L, d \in Sides : /\ t.kid[d][a] \in L \cup {Null}
                                      /\ t.kid[d][a] \in Keys \cup {Null}
                                      /\ t.kid[d][a] # a
                                      /\ t.kid[d][a] # Null => t.p[t.kid[d][a]] = a
<1>1. ASSUME NEW a \in L, NEW d \in Sides PROVE t.kid[d][a] # a
  <2>1. t.kid[d][a] # Null => Before(d, t.kid[d][a], a)
    BY KidBelow
  <2>2. a \in Keys
    BY DEF WellFormed, Joined
  <2>3. QED
    BY <2>1, <2>2, BeforeIs, KeysAre
<1>2. QED
  BY <1>1, KeysAre DEF WellFormed, Joined

(* _insert_fix_up, first half of a rotation: the red node on the inner     *)
(* side goes above its parent.                                             *)
LEMMA StraightenKeeps ==
  ASSUME NEW t, NEW L, NEW sub, WellFormed(t, L, sub), NEW bh, NEW y, Growing(t, L, bh, y),
         NEW n \in L, NEW s \in Sides, y = t.kid[Opposite(s)][n], IsRed(t, n),
         NEW r, Turned(t, r, s, n, y, t.kid[s][y])
  PROVE  Growing(r, L, Exchanged(bh, n, y), n) /\ IsRed(r, y)
<1>1. y # Null
  BY KeysAre DEF Growing, IsRed
<1>2. PICK c, z, f : c = t.kid[s][y] /\ z = t.kid[s][n] /\ f = t.kid[Opposite(s)][y]
  OBVIOUS
<1>3. Turning(t, L, s, n, y, c, z, f)
  BY <1>1, <1>2, TurningIs
<1>4. /\ t \in Tree /\ L \subseteq Keys /\ Null \notin Keys /\ t.root \in L \cup {Null}
      /\ t.root # Null => t.p[t.root] = Null
      /\ \A a \in L, d \in Sides : t.kid[d][a] \in L \cup {Null}
  BY LinksTyped, Zenon
<1>5. /\ n \in Keys /\ y \in Keys /\ n # y /\ n \in L /\ y \in L /\ Opposite(s) \in Sides
      /\ c \in Keys \cup {Null} /\ z \in Keys \cup {Null} /\ f \in Keys \cup {Null}
      /\ c \notin {n, y} /\ z \notin {n, y} /\ f \notin {n, y}
  BY ONLY <1>3, <1>4, SidesAre DEF Turning
<1>6. /\ r.kid[s][n] = z /\ r.kid[Opposite(s)][n] = c
      /\ r.kid[s][y] = n /\ r.kid[Opposite(s)][y] = f
      /\ r.color[n] = t.color[y] /\ r.color[y] = t.color[n]
      /\ \A b \in Keys : b # n /\ b # y => r.color[b] = t.color[b]
      /\ r.root = IF t.root = n THEN y ELSE t.root
  BY <1>2, <1>5, SidesAre DEF Turned
<1>7. IsRed(r, n) /\ IsRed(r, y)
  BY <1>1, <1>4, <1>5, <1>6 DEF Growing, IsRed
<1>8. \A a \in Keys \cup {Null} : a # n /\ a # y => (IsRed(r, a) <=> IsRed(t, a))
  BY ONLY <1>6 DEF IsRed
<1>9. IsBlack(t, z) /\ IsBlack(t, c) /\ IsBlack(t, f)
  <2>1. PairsAt(t, Null, y, n) /\ PairsAt(t, Null, y, y)
    BY <1>5 DEF Growing, Apart
  <2>2. QED
    BY <1>2, <1>4, <1>5, <2>1, Zenon DEF PairsAt, Growing, IsBlack
<1>10. Level(r, L, Exchanged(bh, n, y), Null, "l")
  <2>1. Level(t, L, bh, Null, "l") /\ IsRed(t, y) /\ Null # y /\ ~(Null = n /\ "l" = Opposite(s))
    BY <1>1, <1>4, <1>5 DEF Growing
  <2>2. Turned(t, r, s, n, y, c)
    BY <1>2
  <2>3. QED
    BY ONLY <1>3, <1>4, <2>1, <2>2, TurnLevel, s \in Sides
<1>11. ASSUME NEW a \in L PROVE PairsAt(r, Null, n, a)
  <2>1. \A d \in Sides : d = s \/ d = Opposite(s)
    BY ONLY SidesAre DEF Sides
  <2>2. CASE a = n
    <3>1. IsBlack(r, z) /\ IsBlack(r, c)
      BY ONLY <1>5, <1>8, <1>9 DEF IsBlack
    <3>2. QED
      BY <1>6, <2>1, <2>2, <3>1 DEF PairsAt, IsBlack
  <2>3. CASE a = y
    <3>1. IsBlack(r, f)
      BY <1>5, <1>8, <1>9 DEF IsBlack
    <3>2. QED
      BY <1>6, <2>1, <2>3, <3>1, Zenon DEF PairsAt, IsBlack
  <2>4. CASE a # n /\ a # y
    <3>1. PairsAt(t, Null, y, a)
      BY Zenon DEF Growing, Apart
    <3>2. \A d \in Sides : t.kid[d][a] # y
      BY <1>3, <2>4, Zenon DEF Turning
    <3>3. PairsAt(t, Null, Null, a)
      BY <3>1, <3>2 DEF PairsAt
    <3>4. \A d \in Sides : t.kid[d][a] \in L \cup {Null}
      BY <1>4
    <3>5. Turned(t, r, s, n, y, c)
      BY <1>2
    <3>6. PairsAt(r, Null, Null, a)
      BY ONLY <1>3, <1>4, <2>4, <3>3, <3>4, <3>5, TurnPairs, s \in Sides, a \in L
    <3>7. a \in Keys /\ a # Null
      BY <1>4
    <3>8. QED
      BY <3>6, <3>7 DEF PairsAt, IsRed
  <2>5. QED
    BY <2>2, <2>3, <2>4
<1>12. IsBlack(r, r.root)
  <2>1. IsRed(t, t.root) => t.root = y
    BY DEF Growing, Apart
  <2>2. y # t.root
    BY <1>1, SidesAre, SideIs
  <2>3. t.root # n /\ IsBlack(t, t.root)
    BY <1>5, <2>1, <2>2 DEF IsBlack
  <2>4. QED
    BY <1>4, <1>6, <1>8, <2>2, <2>3 DEF IsBlack
<1>13. QED
  BY <1>5, <1>7, <1>10, <1>11, <1>12 DEF Growing, Apart, IsBlack

LEMMA ApartWeaker ==
  ASSUME NEW t, NEW L, L \subseteq Keys, Apart(t, L, Null, Null), NEW u, NEW w
  PROVE  Apart(t, L, u, w)
<1>1. ASSUME NEW a \in L, NEW s \in Sides, IsRed(t, a), IsRed(t, t.kid[s][a]) PROVE FALSE
  <2>1. PairsAt(t, Null, Null, a)
    BY DEF Apart
  <2>2. a = Null \/ t.kid[s][a] = Null
    BY <1>1, <2>1 DEF PairsAt
  <2>3. QED
    BY <1>1, <2>2 DEF IsRed
<1>2. ~IsRed(t, t.root)
  BY DEF Apart, IsRed
<1>3. QED
  BY <1>1, <1>2 DEF Apart, PairsAt

(* Second half: the rotation at the grandparent. *)
LEMMA RiseKeeps ==
  ASSUME NEW t, NEW L, NEW sub, WellFormed(t, L, sub), NEW bh, NEW low, Growing(t, L, bh, low),
         NEW n \in L, NEW s \in Sides, NEW y, y = t.kid[Opposite(s)][n], IsRed(t, y),
         low = t.kid[Opposite(s)][y], IsBlack(t, n), IsBlack(t, t.kid[s][n]),
         NEW r, Turned(t, r, s, n, y, t.kid[s][y])
  PROVE  Growing(r, L, Exchanged(bh, n, y), n)
<1>1. y # Null
  BY DEF IsRed
<1>2. PICK c, z, f : c = t.kid[s][y] /\ z = t.kid[s][n] /\ f = t.kid[Opposite(s)][y]
  OBVIOUS
<1>3. Turning(t, L, s, n, y, c, z, f)
  BY <1>1, <1>2, TurningIs, Zenon
<1>4. /\ t \in Tree /\ L \subseteq Keys /\ Null \notin Keys /\ t.root \in L \cup {Null}
      /\ t.root # Null => t.p[t.root] = Null
      /\ \A a \in L, d \in Sides : t.kid[d][a] \in L \cup {Null}
  BY LinksTyped
<1>5. Turned(t, r, s, n, y, c)
  BY <1>2
<1>6. Level(r, L, Exchanged(bh, n, y), Null, "l")
  <2>1. Level(t, L, bh, Null, "l") /\ IsRed(t, y) /\ Null # y /\ ~(Null = n /\ "l" = Opposite(s))
    BY <1>1, <1>4 DEF Growing
  <2>2. QED
    BY ONLY <1>3, <1>4, <1>5, <2>1, TurnLevel, s \in Sides
<1>7. /\ Apart(r, L, Null, Null) /\ IsRed(r, n)
  <2>1. IsBlack(t, z)
    BY <1>2, Zenon
  <2>2. IsBlack(t, c)
    <3>1. PairsAt(t, Null, low, y) /\ y \in L
      BY <1>3, Zenon DEF Growing, Apart, Turning
    <3>2. c # Null => c # f
      BY ONLY <1>3 DEF Turning
    <3>3. IsRed(t, c) => y = Null \/ c = low
      BY <1>2, <3>1, Zenon DEF PairsAt
    <3>4. QED
      BY <1>1, <1>2, <3>2, <3>3, Zenon DEF IsBlack, IsRed
  <2>3. IsBlack(t, t.root)
    <3>1. IsRed(t, t.root) => t.root = low
      BY Zenon DEF Growing, Apart
    <3>2. low # Null /\ y \in L /\ Opposite(s) \in Sides
      BY <1>3, SidesAre, Zenon DEF Growing, IsRed, Turning
    <3>3. low # t.root
      BY <3>2, SideIs
    <3>4. QED
      BY <3>1, <3>3 DEF IsBlack
  <2>4. ASSUME NEW a \in L, a # n, a # y PROVE PairsAt(t, Null, Null, a)
    <3>1. PairsAt(t, Null, low, a)
      BY Zenon DEF Growing, Apart
    <3>2. low # Null /\ y \in L
      BY <1>3, Zenon DEF Growing, IsRed, Turning
    <3>3. \A d \in Sides : t.kid[d][a] # low
      BY <2>4, <3>2, KidUnique, SidesAre
    <3>4. QED
      BY <3>1, <3>3 DEF PairsAt
  <2>5. QED
    BY ONLY <1>3, <1>4, <1>5, <2>1, <2>2, <2>3, <2>4, TurnApart, s \in Sides,
            IsBlack(t, n), IsRed(t, y)
<1>8. Apart(r, L, Null, n)
  BY ONLY <1>4, <1>7, ApartWeaker, Zenon
<1>9. QED
  BY <1>6, <1>7, <1>8 DEF Growing

(* The other way: the colours move up. *)
Recolored(t, r, p, u, gp) ==
  /\ SameLinks(t, r)
  /\ \A a \in Keys : r.color[a] = IF a = gp THEN "red"
                                  ELSE IF a = p \/ a = u THEN "black" ELSE t.color[a]
Raised(bh, p, u) == [bh EXCEPT ![p] = bh[p] + 1, ![u] = bh[u] + 1]

LEMMA RecolorKeeps ==
  ASSUME NEW t, NEW L, NEW sub, WellFormed(t, L, sub), NEW bh, NEW z, Growing(t, L, bh, z),
         NEW gp \in L, NEW s \in Sides, NEW d \in Sides,
         NEW p, p = t.kid[s][gp], IsRed(t, p), z = t.kid[d][p],
         NEW u, u = t.kid[Opposite(s)][gp], IsRed(t, u),
         NEW r, Recolored(t, r, p, u, gp)
  PROVE  Growing(r, L, Raised(bh, p, u), gp)
<1>1. /\ t \in Tree /\ L \subseteq Keys /\ Null \notin Keys /\ t.root \in L \cup {Null}
      /\ t.root # Null => t.p[t.root] = Null
      /\ \A a \in L, e \in Sides : /\ t.kid[e][a] \in L \cup {Null}
                                   /\ t.kid[e][a] # a
                                   /\ t.kid[e][a] # Null => t.p[t.kid[e][a]] = a
  BY LinksTyped
<1>2. /\ p \in L /\ u \in L /\ z \in L /\ p # gp /\ u # gp /\ t.p[p] = gp /\ t.p[u] = gp
      /\ t.p[z] = p /\ z # p /\ Opposite(s) \in Sides /\ z \in Keys /\ p \in Keys /\ u \in Keys
      /\ gp \in Keys /\ z # Null /\ p # u
  <2>1. p # Null /\ u # Null /\ z # Null /\ Opposite(s) \in Sides
    BY SidesAre DEF IsRed, Growing
  <2>2. p \in L /\ t.p[p] = gp /\ p # gp
    BY <1>1, <2>1
  <2>3. u \in L /\ t.p[u] = gp /\ u # gp
    BY <1>1, <2>1, Zenon
  <2>4. z \in L /\ t.p[z] = p /\ z # p
    BY <1>1, <2>1, <2>2, Zenon
  <2>5. p # u
    BY <2>1, SideIs
  <2>6. QED
    BY ONLY <1>1, <2>1, <2>2, <2>3, <2>4, <2>5
<1>4. PICK bh2 : bh2 = Raised(bh, p, u)
  OBVIOUS
<1>5. bh \in Heights /\ bh[Null] = 0
  BY Zenon DEF Growing, Level
<1>6. /\ bh2 \in Heights /\ bh2[p] = bh[p] + 1 /\ bh2[u] = bh[u] + 1
      /\ \A a \in Keys \cup {Null} : a # p /\ a # u => bh2[a] = bh[a]
      /\ \A a \in Keys \cup {Null} : bh[a] \in Nat
  <2>1. \A a \in Keys \cup {Null} : bh[a] \in Nat
    BY ONLY <1>5 DEF Heights
  <2>2. bh[p] + 1 \in Nat /\ bh[u] + 1 \in Nat
    BY ONLY <1>2, <2>1
  <2>3. QED
    BY <1>2, <1>4, <1>5, <2>1, <2>2, Zenon DEF Raised, Heights
<1>7. /\ r.root = t.root /\ r.kid = t.kid
      /\ r.color[gp] = "red" /\ r.color[p] = "black" /\ r.color[u] = "black"
      /\ \A a \in Keys : a # gp /\ a # p /\ a # u => r.color[a] = t.color[a]
  BY <1>2, Zenon DEF Recolored, SameLinks
<1>8. \A e \in Sides : e = s \/ e = Opposite(s)
  BY ONLY SidesAre DEF Sides
<1>9. ASSUME NEW a \in L, a # gp, NEW e \in Sides
      PROVE  t.kid[e][a] # p /\ t.kid[e][a] # u
  BY ONLY <1>1, <1>2, <1>9
<1>10. IsBlack(t, gp)
  <2>1. PairsAt(t, Null, z, gp)
    BY DEF Growing, Apart
  <2>2. QED
    BY <1>1, <1>2, <2>1, Zenon DEF PairsAt, IsBlack
<1>11. ASSUME NEW a \in L PROVE LevelAt(r, bh2, Null, "l", a)
  <2>1. LevelAt(t, bh, Null, "l", a) /\ a \in Keys /\ \A e \in Sides : Debt(Null, "l", a, e) = 0
    BY <1>1 DEF Growing, Level, Debt
  <2>2. ASSUME NEW e \in Sides
        PROVE  bh[a] = bh[t.kid[e][a]] + Own(t, a) /\ t.kid[e][a] \in Keys \cup {Null}
    <3>1. t.kid[e][a] \in Keys \cup {Null} /\ bh[t.kid[e][a]] \in Nat /\ Own(t, a) \in Nat
      BY <1>1, <1>6 DEF Own
    <3>2. bh[a] = bh[t.kid[e][a]] + Own(t, a) + Debt(Null, "l", a, e)
      BY ONLY <2>1 DEF LevelAt
    <3>3. QED
      BY ONLY <2>1, <3>1, <3>2
  <2>3. CASE a = gp
    <3>1. Own(t, gp) = 1 /\ Own(r, gp) = 0 /\ bh2[gp] = bh[gp]
      BY ONLY <1>2, <1>6, <1>7, <1>10, KeysAre DEF Own, IsBlack, IsRed
    <3>2. bh[gp] = bh[p] + 1 /\ bh[gp] = bh[u] + 1 /\ bh2[p] \in Nat /\ bh2[u] \in Nat
      <4>1. bh[gp] = bh[p] + Own(t, gp) /\ bh[gp] = bh[u] + Own(t, gp)
        BY <1>2, <2>2, <2>3, Zenon
      <4>2. bh2[p] \in Nat /\ bh2[u] \in Nat
        BY <1>2, <1>6, Zenon DEF Heights
      <4>3. QED
        BY ONLY <3>1, <4>1, <4>2
    <3>3. bh2[gp] = bh2[p] + Own(r, gp) + 0 /\ bh2[gp] = bh2[u] + Own(r, gp) + 0
      BY <1>6, <3>1, <3>2
    <3>4. QED
      BY <1>7, <1>8, <2>1, <2>3, <3>3, Zenon DEF LevelAt
  <2>4. CASE a = p \/ a = u
    <3>1. Own(t, a) = 0 /\ Own(r, a) = 1 /\ bh2[a] = bh[a] + 1
      BY <1>2, <1>6, <1>7, <2>4, KeysAre, Zenon DEF Own, IsBlack, IsRed
    <3>2. ASSUME NEW e \in Sides PROVE bh2[a] = bh2[r.kid[e][a]] + Own(r, a) + Debt(Null, "l", a, e)
      <4>1. t.kid[e][a] # p /\ t.kid[e][a] # u
        BY ONLY <1>2, <1>9, <2>4
      <4>2. bh2[r.kid[e][a]] = bh[t.kid[e][a]] /\ bh[t.kid[e][a]] \in Nat
        BY <1>6, <1>7, <2>2, <4>1
      <4>3. bh[a] = bh[t.kid[e][a]] + 0
        BY <2>2, <3>1
      <4>4. QED
        BY ONLY <2>1, <3>1, <4>2, <4>3
    <3>3. QED
      BY ONLY <3>2 DEF LevelAt
  <2>5. CASE a # gp /\ a # p /\ a # u
    <3>1. Own(r, a) = Own(t, a) /\ bh2[a] = bh[a]
      BY ONLY <1>6, <1>7, <2>1, <2>5 DEF Own, IsBlack, IsRed
    <3>2. ASSUME NEW e \in Sides PROVE bh2[r.kid[e][a]] = bh[t.kid[e][a]]
      BY <1>6, <1>7, <1>9, <2>2, <2>5
    <3>3. QED
      BY <2>1, <3>1, <3>2 DEF LevelAt
  <2>6. QED
    BY ONLY <2>3, <2>4, <2>5
<1>12. ASSUME NEW a \in L PROVE PairsAt(r, Null, gp, a)
  <2>1. a \in Keys /\ PairsAt(t, Null, z, a) /\ a # Null
    BY <1>1 DEF Growing, Apart
  <2>2. ASSUME NEW e \in Sides, IsRed(r, a), IsRed(r, r.kid[e][a]), r.kid[e][a] # gp PROVE FALSE
    <3>1. t.kid[e][a] \in Keys \cup {Null} /\ r.kid[e][a] = t.kid[e][a]
      BY <1>1, <1>7
    <3>2. t.kid[e][a] # p /\ t.kid[e][a] # u /\ a # p /\ a # u
      BY ONLY <1>7, <2>2, <3>1 DEF IsRed
    <3>3. a # gp
      BY <1>2, <1>8, <3>2, Zenon
    <3>4. IsRed(t, a) /\ IsRed(t, t.kid[e][a])
      BY <1>7, <2>1, <2>2, <3>1, <3>2, <3>3 DEF IsRed
    <3>5. t.kid[e][a] = z
      BY ONLY <2>1, <3>4 DEF PairsAt
    <3>6. t.p[z] = a
      BY ONLY <1>1, <1>2, <3>5
    <3>7. QED
      BY <1>2, <3>2, <3>6
  <2>3. QED
    BY <2>2 DEF PairsAt
<1>13. IsRed(r, r.root) => r.root = gp
  <2>1. SUFFICES ASSUME IsRed(r, t.root), t.root # gp PROVE FALSE
    BY <1>7
  <2>2. t.root \in Keys /\ t.root # p /\ t.root # u /\ t.p[t.root] = Null
    BY <1>1, <1>7, <2>1 DEF IsRed
  <2>3. IsRed(t, t.root)
    BY <1>7, <2>1, <2>2 DEF IsRed
  <2>4. t.root = z
    BY <2>3, Zenon DEF Growing, Apart
  <2>5. QED
    BY <1>1, <1>2, <2>2, <2>4, Zenon
<1>14. IsRed(r, gp) /\ bh2[Null] = 0
  BY <1>1, <1>2, <1>5, <1>6, <1>7, Zenon DEF IsRed
<1>15. QED
  BY ONLY <1>4, <1>6, <1>11, <1>12, <1>13, <1>14 DEF Growing, Level, Apart

(* The root turns black.  Nothing is above it. *)
LEMMA BlackRoot ==
  ASSUME NEW t, NEW L, NEW sub, WellFormed(t, L, sub), NEW bh, Level(t, L, bh, Null, "l"),
         NEW r, Painted(t, r, t.root, "black")
  PROVE  (\E h : Level(r, L, h, Null, "l")) /\ IsBlack(r, r.root)
<1>1. /\ t \in Tree /\ L \subseteq Keys /\ Null \notin Keys /\ t.root \in L \cup {Null}
      /\ \A a \in L, e \in Sides : t.kid[e][a] \in L \cup {Null}
  BY LinksTyped
<1>2. r.root = t.root /\ r.kid = t.kid /\ IsBlack(r, r.root)
  BY <1>1, KeysAre DEF Painted, IsBlack, IsRed
<1>3. CASE IsBlack(t, t.root)
  <2>1. ASSUME NEW a \in L PROVE Own(r, a) = Own(t, a)
    BY <1>1, <1>3, KeysAre DEF Painted, Own, IsBlack, IsRed, Tree
  <2>2. Level(r, L, bh, Null, "l")
    BY <1>2, <2>1 DEF Level, LevelAt
  <2>3. QED
    BY <1>2, <2>2
<1>4. CASE IsRed(t, t.root)
  <2>1. t.root \in L /\ t.root \in Keys /\ t.root # Null
    BY <1>1, <1>4 DEF IsRed
  <2>2. PICK n : n = t.root
    OBVIOUS
  <2>3. \A a \in L, e \in Sides : t.kid[e][a] # n
    BY <2>1, <2>2, SideIs
  <2>4. PICK h : h = [bh EXCEPT ![n] = bh[n] + 1]
    OBVIOUS
  <2>5. bh \in Heights /\ bh[Null] = 0
    BY DEF Level
  <2>6. \A a \in Keys \cup {Null} : bh[a] \in Nat
    BY <2>5 DEF Heights
  <2>7. /\ h \in Heights /\ h[n] = bh[n] + 1
        /\ \A a \in Keys \cup {Null} : a # n => h[a] = bh[a]
    <3>1. bh[n] + 1 \in Nat
      BY <2>1, <2>2, <2>6
    <3>2. QED
      BY <2>1, <2>2, <2>4, <2>5, <3>1 DEF Heights
  <2>8. ASSUME NEW a \in L PROVE LevelAt(r, h, Null, "l", a)
    <3>1. ASSUME NEW e \in Sides
          PROVE  /\ bh[a] = bh[t.kid[e][a]] + Own(t, a) + Debt(Null, "l", a, e)
                 /\ h[r.kid[e][a]] = bh[t.kid[e][a]] /\ bh[t.kid[e][a]] \in Nat
                 /\ Debt(Null, "l", a, e) = 0
      <4>1. LevelAt(t, bh, Null, "l", a) /\ a # Null
        BY <1>1 DEF Level
      <4>2. t.kid[e][a] \in Keys \cup {Null} /\ t.kid[e][a] # n
        BY <1>1, <2>3
      <4>3. QED
        BY <1>2, <2>6, <2>7, <4>1, <4>2 DEF LevelAt, Debt
    <3>2. CASE a = n
      <4>1. Own(t, n) = 0 /\ Own(r, n) = 1
        BY <1>2, <1>4, <2>2 DEF Own, IsBlack
      <4>2. ASSUME NEW e \in Sides PROVE h[a] = h[r.kid[e][a]] + Own(r, a) + Debt(Null, "l", a, e)
        BY <2>7, <3>1, <3>2, <4>1, <4>2
      <4>3. QED
        BY <4>2 DEF LevelAt
    <3>3. CASE a # n
      <4>1. Own(r, a) = Own(t, a) /\ h[a] = bh[a]
        BY <1>1, <2>2, <2>7, <3>3 DEF Painted, Own, IsBlack, IsRed
      <4>2. QED
        BY <3>1, <4>1 DEF LevelAt
    <3>4. QED
      BY <3>2, <3>3
  <2>9. h[Null] = 0
    BY <2>1, <2>2, <2>5, <2>7
  <2>10. Level(r, L, h, Null, "l")
    BY <2>7, <2>8, <2>9 DEF Level
  <2>11. QED
    BY <1>2, <2>10
<1>5. QED
  BY <1>3, <1>4 DEF IsBlack

(* The end of _insert_fix_up. *)
LEMMA InsertDoneKeeps ==
  ASSUME NEW t, NEW L, NEW sub, WellFormed(t, L, sub), NEW bh, NEW z, Growing(t, L, bh, z),
         ~(t.p[z] # Null /\ IsRed(t, t.p[z])), NEW r, Painted(t, r, t.root, "black")
  PROVE  \E h : Settled(r, L, h)
<1>1. PICK h : Level(r, L, h, Null, "l")
  BY BlackRoot DEF Growing
<1>2. IsBlack(r, r.root)
  BY BlackRoot DEF Growing
<1>3. /\ L \subseteq Keys /\ z \in L /\ z # Null
      /\ \A a \in L, e \in Sides : /\ t.kid[e][a] \in Keys \cup {Null}
                                   /\ t.kid[e][a] # Null => t.p[t.kid[e][a]] = a
  BY LinksTyped DEF Growing
<1>4. ASSUME NEW a \in Keys \cup {Null}, IsRed(r, a) PROVE IsRed(t, a)
  BY <1>4 DEF IsRed, Painted
<1>5. ASSUME NEW a \in L, NEW e \in Sides, IsRed(r, a), IsRed(r, r.kid[e][a]) PROVE FALSE
  <2>1. r.kid[e][a] = t.kid[e][a]
    BY DEF Painted
  <2>2. IsRed(t, a) /\ IsRed(t, t.kid[e][a])
    BY <1>3, <1>4, <1>5, <2>1
  <2>3. t.kid[e][a] = z \/ a = Null
    BY <2>2 DEF Growing, Apart, PairsAt
  <2>4. t.p[z] = a /\ a # Null
    BY <1>3, <2>2, <2>3 DEF IsRed
  <2>5. QED
    BY <2>2, <2>4
<1>6. QED
  BY <1>1, <1>2, <1>5 DEF Settled, Apart, PairsAt, IsBlack

LEMMA GrowLevel ==
  ASSUME NEW t, NEW L, NEW sub, WellFormed(t, L, sub), NEW bh, Settled(t, L, bh),
         NEW k \in Keys \ L, NEW q \in L, NEW s \in Sides, t.kid[s][q] = Null,
         NEW r, Grown(t, r, s, q, k), t.root # Null
  PROVE  \E h : Growing(r, L \cup {k}, h, k)
<1>1. /\ t \in Tree /\ L \subseteq Keys /\ Null \notin Keys /\ t.root \in L \cup {Null}
      /\ \A a \in L, e \in Sides : t.kid[e][a] \in L \cup {Null}
  BY LinksTyped
<1>2. PICK h : h = [bh EXCEPT ![k] = 0]
  OBVIOUS
<1>3. bh \in Heights /\ bh[Null] = 0
  BY DEF Settled, Level
<1>4. h \in Heights /\ h[k] = 0 /\ \A a \in Keys \cup {Null} : a # k => h[a] = bh[a]
  BY <1>2, <1>3 DEF Heights
<1>5. /\ \A a \in L, e \in Sides :
           r.kid[e][a] = IF a = q /\ e = s THEN k ELSE t.kid[e][a]
      /\ \A e \in Sides : r.kid[e][k] = Null
      /\ \A a \in L : r.color[a] = t.color[a]
      /\ r.color[k] = "red" /\ k # Null /\ k \notin L /\ r.root = t.root
  BY <1>1 DEF Grown, WellFormed, Joined
<1>6. ASSUME NEW a \in L \cup {k} PROVE LevelAt(r, h, Null, "l", a)
  <2>1. CASE a = k
    <3>1. Own(r, k) = 0 /\ h[Null] = 0 /\ \A e \in Sides : Debt(Null, "l", k, e) = 0
      BY <1>1, <1>3, <1>4, <1>5 DEF Own, IsBlack, IsRed, Debt
    <3>2. QED
      BY <1>4, <1>5, <2>1, <3>1 DEF LevelAt
  <2>2. CASE a \in L
    <3>1. LevelAt(t, bh, Null, "l", a) /\ a # k /\ a \in Keys
      BY <1>1, <2>2 DEF Settled, Level
    <3>2. h[a] = bh[a] /\ Own(r, a) = Own(t, a)
      BY <1>4, <1>5, <2>2, <3>1 DEF Own, IsBlack, IsRed
    <3>3. ASSUME NEW e \in Sides PROVE h[r.kid[e][a]] = bh[t.kid[e][a]]
      <4>1. t.kid[e][a] \in Keys \cup {Null} /\ t.kid[e][a] # k
        BY <1>1, <1>5, <2>2
      <4>2. QED
        BY <1>3, <1>4, <1>5, <2>2, <4>1
    <3>4. QED
      BY <3>1, <3>2, <3>3 DEF LevelAt
  <2>3. QED
    BY <2>1, <2>2
<1>7. ASSUME NEW a \in L \cup {k} PROVE PairsAt(r, Null, k, a)
  <2>1. CASE a = k
    BY <1>5, <2>1 DEF PairsAt, IsRed
  <2>2. CASE a \in L
    <3>1. PairsAt(t, Null, k, a)
      BY <1>1, <2>2, ApartWeaker DEF Settled, Apart
    <3>2. ASSUME NEW e \in Sides, IsRed(r, a), IsRed(r, r.kid[e][a]), r.kid[e][a] # k PROVE FALSE
      <4>1. r.kid[e][a] = t.kid[e][a] /\ t.kid[e][a] \in L
        BY <1>1, <1>5, <2>2, <3>2 DEF IsRed
      <4>2. IsRed(t, a) /\ IsRed(t, t.kid[e][a])
        BY <1>5, <2>2, <3>2, <4>1 DEF IsRed
      <4>3. a = Null \/ t.kid[e][a] = k
        BY <3>1, <4>2 DEF PairsAt
      <4>4. QED
        BY <1>5, <3>2, <4>1, <4>2, <4>3 DEF IsRed
    <3>3. QED
      BY <3>2 DEF PairsAt
  <2>3. QED
    BY <2>1, <2>2
<1>8. ~IsRed(r, r.root)
  <2>1. ~IsRed(t, t.root) /\ t.root \in L
    BY <1>1 DEF Settled, Apart, IsRed
  <2>2. QED
    BY <1>5, <2>1 DEF IsRed
<1>9. IsRed(r, k) /\ h[Null] = 0
  BY <1>1, <1>3, <1>4, <1>5 DEF IsRed
<1>10. QED
  BY <1>4, <1>6, <1>7, <1>8, <1>9 DEF Growing, Level, Apart

-----------------------------------------------------------------------------
(* Balance while a removal goes on: below q the ways through z are one     *)
(* short, unless z is the root.                                            *)
Owing(t, L, bh, z, q) ==
  /\ z \in L \cup {Null} /\ Apart(t, L, z, z)
  /\ \/ z = t.root /\ q = Null /\ Level(t, L, bh, Null, "l")
     \/ /\ z # t.root /\ q \in L
        /\ \E e \in Sides : t.kid[e][q] = z /\ Level(t, L, bh, q, e)

(* The loop goes on: z is black and below q on side s. *)
Lacking(t, L, bh, z, q, s) ==
  /\ q \in L /\ s \in Sides /\ z = t.kid[s][q] /\ IsBlack(t, z)
  /\ Level(t, L, bh, q, s) /\ Apart(t, L, Null, Null)

(* Its sibling w is not null, as the ways through it are longer. *)
LEMMA LackingIs ==
  ASSUME NEW t, NEW L, NEW sub, WellFormed(t, L, sub), NEW bh, NEW z, NEW q, NEW s,
         Lacking(t, L, bh, z, q, s), NEW w, w = t.kid[Opposite(s)][q]
  PROVE  /\ w \in L /\ w \in Keys /\ w # Null /\ w # z /\ w # q /\ z # q /\ z # t.root
         /\ t.p[w] = q /\ bh[w] = bh[z] + 1 /\ q \in Keys
         /\ z \in L \cup {Null} /\ bh[z] \in Nat /\ bh[q] = bh[z] + Own(t, q) + 1
<1>1. /\ q \in L /\ s \in Sides /\ Opposite(s) \in Sides /\ Opposite(s) # s /\ q \in Keys
      /\ z \in L \cup {Null} /\ z \in Keys \cup {Null} /\ w \in L \cup {Null}
      /\ w \in Keys \cup {Null} /\ w # q /\ z # q
      /\ (w # Null => t.p[w] = q) /\ (z # Null => t.p[z] = q)
      /\ (t.root # Null => t.p[t.root] = Null) /\ Null \notin Keys
  BY LinksTyped, SidesAre DEF Lacking
<1>2. bh \in Heights /\ bh[Null] = 0 /\ LevelAt(t, bh, q, s, q)
  BY <1>1 DEF Lacking, Level
<1>3. bh[w] \in Nat /\ bh[z] \in Nat /\ Own(t, q) \in Nat
  BY <1>1, <1>2 DEF Heights, Own
<1>4. bh[q] = bh[z] + Own(t, q) + Debt(q, s, q, s) /\ bh[q] = bh[w] + Own(t, q) + Debt(q, s, q, Opposite(s))
  BY <1>1, <1>2 DEF LevelAt, Lacking
<1>5. Debt(q, s, q, s) = 1 /\ Debt(q, s, q, Opposite(s)) = 0
  BY <1>1 DEF Debt
<1>6. bh[w] = bh[z] + 1 /\ bh[q] = bh[z] + Own(t, q) + 1
  BY <1>3, <1>4, <1>5
<1>7. w # Null /\ w # z
  BY <1>2, <1>3, <1>6
<1>8. z # t.root
  <2>1. CASE z = Null
    BY <1>1, <2>1 DEF WellFormed, Ordered
  <2>2. CASE z # Null
    BY <1>1, <2>2
  <2>3. QED
    BY <2>1, <2>2
<1>9. QED
  BY <1>1, <1>3, <1>6, <1>7, <1>8

LEMMA OwingLacks ==
  ASSUME NEW t, NEW L, NEW sub, WellFormed(t, L, sub), NEW bh, NEW z, NEW q,
         Owing(t, L, bh, z, q), z # t.root, IsBlack(t, z)
  PROVE  Lacking(t, L, bh, z, q, IF z = t.kid["l"][q] THEN "l" ELSE "r")
<1>1. PICK e \in Sides : q \in L /\ t.kid[e][q] = z /\ Level(t, L, bh, q, e)
  BY DEF Owing
<1>2. Apart(t, L, Null, Null)
  <2>1. \A a \in L : PairsAt(t, z, z, a)
    BY DEF Owing, Apart
  <2>2. \A a \in L : PairsAt(t, Null, Null, a)
    BY <2>1 DEF PairsAt, IsBlack
  <2>3. ~IsRed(t, t.root)
    BY DEF Owing, Apart
  <2>4. QED
    BY <2>2, <2>3 DEF Apart
<1>3. Lacking(t, L, bh, z, q, e)
  BY <1>1, <1>2 DEF Lacking
<1>4. t.kid[Opposite(e)][q] # z
  BY <1>3, LackingIs
<1>5. e = IF z = t.kid["l"][q] THEN "l" ELSE "r"
  BY <1>1, <1>4, SidesAre DEF Sides
<1>6. QED
  BY <1>3, <1>5

(* A rotation that moves a red node up above a black one, both beside the  *)
(* short node's, keeps the debt where it is.                               *)
LEMMA LackingTurned ==
  ASSUME NEW t, NEW L, NEW sub, WellFormed(t, L, sub), NEW bh, NEW z, NEW q, NEW s,
         Lacking(t, L, bh, z, q, s),
         NEW n \in L, NEW d \in Sides, NEW y, y = t.kid[Opposite(d)][n],
         IsRed(t, y), IsBlack(t, t.kid[d][n]), y # q, n = q => d = s,
         z # n, NEW r, Turned(t, r, d, n, y, t.kid[d][y])
  PROVE  Lacking(r, L, Exchanged(bh, n, y), z, q, s)
<1>1. /\ t \in Tree /\ L \subseteq Keys /\ Null \notin Keys /\ t.root \in L \cup {Null}
      /\ \A a \in L, e \in Sides : t.kid[e][a] \in L \cup {Null}
  BY LinksTyped
<1>2. PICK c, o, f : c = t.kid[d][y] /\ o = t.kid[d][n] /\ f = t.kid[Opposite(d)][y]
  OBVIOUS
<1>3. y # Null
  BY DEF IsRed
<1>4. Turning(t, L, d, n, y, c, o, f)
  BY <1>2, <1>3, TurningIs
<1>5. Turned(t, r, d, n, y, c)
  BY <1>2, Zenon
<1>6. /\ q \in L /\ q \in Keys /\ s \in Sides /\ z = t.kid[s][q] /\ IsBlack(t, z) /\ y \in L /\ n \in Keys
      /\ Level(t, L, bh, q, s) /\ Apart(t, L, Null, Null) /\ y \in Keys /\ n # y
      /\ Opposite(d) \in Sides /\ Opposite(d) # d /\ c # n /\ z \in Keys \cup {Null}
  BY <1>1, <1>4, SidesAre, Zenon DEF Lacking, Turning
<1>7. \A a \in L, u \in Keys \cup {Null}, e \in Sides :
        IsRed(t, a) /\ t.kid[e][a] = u => IsBlack(t, u)
  <2>1. ASSUME NEW a \in L, NEW e \in Sides, IsRed(t, a) PROVE ~IsRed(t, t.kid[e][a])
    <3>1. PairsAt(t, Null, Null, a)
      BY <1>6 DEF Apart
    <3>2. QED
      BY <2>1, <3>1 DEF PairsAt, IsRed
  <2>2. QED
    BY <2>1 DEF IsBlack
<1>8. IsBlack(t, n)
  <2>1. n \in L /\ y = t.kid[Opposite(d)][n]
    OBVIOUS
  <2>2. IsRed(t, n) => IsBlack(t, y)
    BY <1>6, <1>7
  <2>3. QED
    BY <2>2 DEF IsBlack
<1>9. IsBlack(t, c)
  <2>1. c \in Keys \cup {Null}
    BY <1>1, <1>2, <1>6
  <2>2. QED
    BY <1>2, <1>6, <1>7, <2>1
<1>10. IsBlack(t, t.root) /\ IsBlack(t, o)
  <2>1. IsRed(t, t.root) => t.root = Null
    BY <1>6 DEF Apart
  <2>2. ~IsRed(t, t.root)
    BY <2>1 DEF IsRed
  <2>3. QED
    BY <1>2, <2>2 DEF IsBlack
<1>11. ASSUME NEW a \in L, a # n, a # y PROVE PairsAt(t, Null, Null, a)
  BY <1>6 DEF Apart
<1>12. /\ Apart(r, L, Null, Null)
       /\ \A a \in Keys \cup {Null} : a # n /\ a # y => (IsRed(r, a) <=> IsRed(t, a))
  <2>1. \A a \in L : a # n /\ a # y => PairsAt(t, Null, Null, a)
    BY <1>11
  <2>2. Apart(r, L, Null, Null)
    BY ONLY <1>1, <1>4, <1>5, <1>8, <1>9, <1>10, <2>1, TurnApart, d \in Sides, IsRed(t, y)
  <2>3. ASSUME NEW a \in Keys \cup {Null}, a # n, a # y PROVE IsRed(r, a) <=> IsRed(t, a)
    <3>1. CASE a = Null
      BY <3>1 DEF IsRed
    <3>2. CASE a \in Keys
      BY <1>5, <2>3, <3>2 DEF Turned, IsRed
    <3>3. QED
      BY <3>1, <3>2
  <2>4. QED
    BY <2>2, <2>3
<1>13. Level(r, L, Exchanged(bh, n, y), q, s)
  <2>1. q # y /\ ~(q = n /\ s = Opposite(d))
    BY <1>6
  <2>2. QED
    BY ONLY <1>1, <1>4, <1>5, <1>6, <2>1, TurnLevel, d \in Sides, IsRed(t, y)
<1>14. z # y
  <2>1. IsBlack(t, z) /\ IsRed(t, y)
    BY <1>6
  <2>2. QED
    BY <2>1 DEF IsBlack
<1>15. IsBlack(r, z)
  <2>1. z # n /\ z \in Keys \cup {Null} /\ IsBlack(t, z)
    BY <1>6
  <2>2. QED
    BY <1>12, <1>14, <2>1 DEF IsBlack
<1>16. z = r.kid[s][q]
  <2>1. ~(q = n /\ s = Opposite(d)) /\ ~(q = y)
    BY <1>6
  <2>2. t.kid[s][q] # n
    BY <1>6
  <2>3. QED
    BY <1>5, <1>6, <2>1, <2>2 DEF Turned
<1>17. QED
  BY ONLY <1>6, <1>12, <1>13, <1>15, <1>16 DEF Lacking

(* A black sibling with black children turns red, and the debt moves up. *)
Lowered(bh, q, w) == [bh EXCEPT ![q] = bh[q] - 1, ![w] = bh[w] - 1]

LEMMA PushUpKeeps ==
  ASSUME NEW t, NEW L, NEW sub, WellFormed(t, L, sub), NEW bh, NEW z, NEW q, NEW s,
         Lacking(t, L, bh, z, q, s), NEW w, w = t.kid[Opposite(s)][q], IsBlack(t, w),
         \A e \in Sides : IsBlack(t, t.kid[e][w]), NEW r, Painted(t, r, w, "red")
  PROVE  Owing(r, L, Lowered(bh, q, w), q, r.p[q])
<1>1. /\ w \in L /\ w \in Keys /\ w # Null /\ w # z /\ w # q /\ z # q /\ z # t.root
      /\ t.p[w] = q /\ bh[w] = bh[z] + 1 /\ q \in Keys
      /\ z \in L \cup {Null} /\ bh[z] \in Nat /\ bh[q] = bh[z] + Own(t, q) + 1
  BY LackingIs
<1>2. /\ t \in Tree /\ L \subseteq Keys /\ Null \notin Keys /\ t.root \in L \cup {Null}
      /\ t.root # Null => t.p[t.root] = Null
      /\ \A a \in L, e \in Sides : /\ t.kid[e][a] \in L \cup {Null}
                                   /\ t.kid[e][a] \in Keys \cup {Null}
                                   /\ t.kid[e][a] # a
                                   /\ t.kid[e][a] # Null => t.p[t.kid[e][a]] = a
  BY LinksTyped
<1>3. /\ q \in L /\ s \in Sides /\ Opposite(s) \in Sides /\ Opposite(s) # s /\ z = t.kid[s][q]
      /\ Apart(t, L, Null, Null) /\ bh \in Heights /\ bh[Null] = 0
      /\ \A a \in L : LevelAt(t, bh, q, s, a)
      /\ \A e \in Sides : e = s \/ e = Opposite(s)
  BY SidesAre DEF Lacking, Level, Sides
<1>4. /\ r.root = t.root /\ r.p = t.p /\ r.kid = t.kid /\ r \in Tree /\ r.color[w] = "red"
      /\ \A a \in Keys : a # w => r.color[a] = t.color[a]
  BY <1>1 DEF Painted
<1>5. PICK h : h = Lowered(bh, q, w)
  BY Zenon
<1>6. /\ h \in Heights /\ h[q] = bh[z] + Own(t, q) /\ h[w] = bh[z]
      /\ \A a \in Keys \cup {Null} : a # q /\ a # w => h[a] = bh[a]
      /\ \A a \in Keys \cup {Null} : bh[a] \in Nat
  <2>1. \A a \in Keys \cup {Null} : bh[a] \in Nat
    BY <1>3 DEF Heights
  <2>2. Own(t, q) \in Nat
    BY DEF Own
  <2>3. bh[w] - 1 = bh[z] /\ bh[q] - 1 = bh[z] + Own(t, q) /\ bh[z] + Own(t, q) \in Nat
    BY <1>1, <2>2
  <2>4. QED
    BY <1>1, <1>3, <1>5, <2>1, <2>3, Zenon DEF Lowered, Heights
<1>7. ASSUME NEW a \in L, NEW e \in Sides
      PROVE  /\ bh[a] = bh[t.kid[e][a]] + Own(t, a) + Debt(q, s, a, e)
             /\ bh[t.kid[e][a]] \in Nat /\ Own(t, a) \in Nat
  <2>1. LevelAt(t, bh, q, s, a)
    BY ONLY <1>3
  <2>2. QED
    BY <1>2, <1>6, <2>1 DEF LevelAt, Own
<1>8. \A a \in L : a # w => Own(r, a) = Own(t, a)
  BY ONLY <1>2, <1>4 DEF Own, IsBlack, IsRed
<1>9. Own(t, w) = 1 /\ Own(r, w) = 0
  BY <1>1, <1>4 DEF Own, IsBlack, IsRed
(* Without a debt at q's parent, every node but it is level. *)
<1>10. ASSUME NEW a \in L, NEW e \in Sides, t.kid[e][a] # q
       PROVE  h[a] = h[r.kid[e][a]] + Own(r, a)
  <2>1. a \in Keys /\ r.kid[e][a] = t.kid[e][a] /\ t.kid[e][a] \in Keys \cup {Null}
    BY <1>2, <1>4
  <2>2. CASE a = q
    <3>1. CASE e = s
      <4>1. h[z] = bh[z] /\ Own(r, q) = Own(t, q)
        BY <1>1, <1>2, <1>3, <1>6, <1>8
      <4>2. r.kid[e][a] = z
        BY <1>3, <2>1, <2>2, <3>1
      <4>3. QED
        BY <1>6, <2>2, <4>1, <4>2
    <3>2. CASE e = Opposite(s)
      <4>1. h[w] = bh[z] /\ Own(r, q) = Own(t, q)
        BY <1>1, <1>3, <1>6, <1>8
      <4>2. r.kid[e][a] = w
        BY <2>1, <2>2, <3>2
      <4>3. QED
        BY <1>6, <2>2, <4>1, <4>2
    <3>3. QED
      BY <1>3, <3>1, <3>2
  <2>3. CASE a = w
    <3>1. Debt(q, s, w, e) = 0
      BY <1>1 DEF Debt
    <3>2. bh[w] = bh[t.kid[e][w]] + 1 + 0
      BY <1>1, <1>7, <1>9, <2>3, <3>1
    <3>3. t.kid[e][w] # w /\ t.kid[e][w] # q
      BY ONLY <1>1, <1>2, <1>10, <2>3
    <3>4. h[r.kid[e][a]] = bh[t.kid[e][w]] /\ bh[t.kid[e][w]] \in Nat
      BY <1>6, <1>7, <2>1, <2>3, <3>3, Zenon
    <3>5. QED
      <4>1. h[w] = bh[z] /\ bh[w] = bh[z] + 1 /\ bh[z] \in Nat /\ Own(r, w) = 0
        BY <1>1, <1>6, <1>9, <2>3, Zenon
      <4>2. QED
        BY ONLY <2>3, <3>2, <3>4, <4>1
  <2>4. CASE a # q /\ a # w
    <3>1. Debt(q, s, a, e) = 0
      BY <2>4 DEF Debt
    <3>2. t.kid[e][a] # w
      BY <1>1, <1>2, <2>4
    <3>3. h[r.kid[e][a]] = bh[t.kid[e][a]] /\ h[a] = bh[a] /\ Own(r, a) = Own(t, a)
      BY <1>6, <1>8, <1>10, <2>1, <2>4, <3>2
    <3>4. QED
      BY <1>7, <3>1, <3>3
  <2>5. QED
    BY <2>2, <2>3, <2>4
<1>11. Apart(r, L, q, q)
  <2>1. ASSUME NEW a \in L, NEW e \in Sides, IsRed(r, a), IsRed(r, r.kid[e][a]), a # q PROVE FALSE
    <3>1. PairsAt(t, Null, Null, a) /\ a \in Keys /\ t.kid[e][a] \in Keys \cup {Null}
      BY <1>2, <1>3 DEF Apart
    <3>2. t.kid[e][a] # w
      BY <1>1, <1>2, <2>1
    <3>3. IsRed(t, t.kid[e][a])
      BY <1>4, <2>1, <3>1, <3>2 DEF IsRed
    <3>4. CASE a = w
      BY <3>3, <3>4 DEF IsBlack
    <3>5. CASE a # w
      <4>1. IsRed(t, a)
        BY <1>4, <2>1, <3>1, <3>5 DEF IsRed
      <4>2. a = Null \/ t.kid[e][a] = Null
        BY <3>1, <3>3, <4>1 DEF PairsAt
      <4>3. QED
        BY <3>3, <4>1, <4>2 DEF IsRed
    <3>6. QED
      BY <3>4, <3>5
  <2>2. ~IsRed(r, r.root)
    <3>1. w # t.root /\ q # Null
      BY <1>1, <1>2
    <3>2. ~IsRed(t, t.root)
      BY <1>3 DEF Apart, IsRed
    <3>3. QED
      BY <1>2, <1>4, <3>1, <3>2 DEF IsRed
  <2>3. QED
    BY <2>1, <2>2 DEF Apart, PairsAt
<1>12. h[Null] = 0
  BY <1>1, <1>2, <1>3, <1>6
<1>13. CASE q = t.root
  <2>1. ASSUME NEW a \in L PROVE LevelAt(r, h, Null, "l", a)
    <3>1. ASSUME NEW e \in Sides PROVE h[a] = h[r.kid[e][a]] + Own(r, a) + Debt(Null, "l", a, e)
      <4>1. t.kid[e][a] # q
        BY <1>2, <1>3, <1>13, SideIs
      <4>2. r.kid[e][a] \in Keys \cup {Null} /\ Debt(Null, "l", a, e) = 0 /\ a \in Keys
        BY <1>2, <1>4 DEF Debt
      <4>3. h[a] = h[r.kid[e][a]] + Own(r, a) /\ h[r.kid[e][a]] \in Nat /\ Own(r, a) \in Nat
        BY <1>6, <1>10, <4>1, <4>2 DEF Heights, Own
      <4>4. QED
        BY <4>2, <4>3
    <3>2. QED
      BY <3>1 DEF LevelAt
  <2>2. Level(r, L, h, Null, "l")
    BY ONLY <1>6, <1>12, <2>1 DEF Level
  <2>3. r.p[q] = Null /\ q = r.root
    BY <1>1, <1>2, <1>3, <1>4, <1>13, Zenon
  <2>4. QED
    BY <1>3, <1>5, <1>11, <2>2, <2>3 DEF Owing
<1>14. CASE q # t.root
  <2>1. PICK b \in L, d \in Sides : t.p[q] = b /\ t.kid[d][b] = q
    BY <1>3, <1>14, ParentIs
  <2>2. ASSUME NEW a \in L PROVE LevelAt(r, h, b, d, a)
    <3>1. ASSUME NEW e \in Sides PROVE h[a] = h[r.kid[e][a]] + Own(r, a) + Debt(b, d, a, e)
      <4>1. r.kid[e][a] \in Keys \cup {Null} /\ r.kid[e][a] = t.kid[e][a] /\ a \in Keys /\ b \in Keys
        BY <1>2, <1>4, <2>1
      <4>2. h[r.kid[e][a]] \in Nat /\ Own(r, a) \in Nat
        BY <1>6, <4>1 DEF Heights, Own
      <4>3. CASE t.kid[e][a] # q
        <5>1. Debt(b, d, a, e) = 0
          BY <2>1, <4>3 DEF Debt
        <5>2. QED
          BY <1>10, <4>2, <4>3, <5>1
      <4>4. CASE t.kid[e][a] = q
        <5>1. a = b /\ e = d
          BY <1>1, <1>2, <2>1, <4>4, KidUnique
        <5>2. Debt(b, d, a, e) = 1 /\ b # q /\ b # w
          <6>1. b # q
            BY <1>2, <2>1
          <6>2. b # w
            <7>1. q \in Keys /\ q # Null /\ Before(d, q, b) /\ Before(Opposite(s), w, q)
                  /\ sub[q] \subseteq sub[b] /\ b \notin sub[q] /\ w \in sub[q]
              BY <1>1, <1>2, <1>3, <2>1, KidBelow
            <7>2. QED
              BY ONLY <7>1
          <6>3. QED
            BY <5>1, <6>1, <6>2 DEF Debt
        <5>3. bh[b] = bh[q] + Own(t, b) + Debt(q, s, b, d) /\ Debt(q, s, b, d) = 0 /\ bh[q] \in Nat
          BY <1>6, <1>1, <1>7, <2>1, <5>1, <5>2, <4>4 DEF Debt
        <5>4. h[b] = bh[b] /\ Own(r, b) = Own(t, b) /\ Own(t, b) \in Nat /\ h[q] + 1 = bh[q]
          <6>1. h[b] = bh[b] /\ Own(r, b) = Own(t, b)
            BY <1>6, <1>8, <4>1, <5>2, <2>1
          <6>2. Own(t, b) \in Nat /\ Own(t, q) \in Nat
            BY DEF Own
          <6>3. h[q] + 1 = bh[q]
            BY <1>1, <1>6, <6>2
          <6>4. QED
            BY <6>1, <6>2, <6>3
        <5>5. h[q] \in Nat
          BY <4>1, <4>2, <4>4
        <5>6. h[b] = h[q] + Own(r, b) + 1
          BY <5>3, <5>4, <5>5
        <5>7. QED
          BY <4>1, <4>4, <5>1, <5>2, <5>6
      <4>5. QED
        BY <4>3, <4>4
    <3>2. QED
      BY <3>1 DEF LevelAt
  <2>3. Level(r, L, h, b, d)
    BY <1>6, <1>12, <2>2 DEF Level
  <2>4. r.p[q] = b /\ q # r.root /\ r.kid[d][b] = q
    BY <1>4, <1>14, <2>1
  <2>5. QED
    BY <1>3, <1>5, <1>11, <2>1, <2>3, <2>4 DEF Owing
<1>15. QED
  BY <1>13, <1>14

(* The last rotation: a black sibling w with a red child f on its far side *)
(* takes the parent's place and colour, and f turns black in its stead.    *)
Finished(t, r, s, q, w, c, f) ==
  \E v : Painted(t, v, f, "black") /\ Turned(v, r, s, q, w, c)

LEMMA FinishKeeps ==
  ASSUME NEW t, NEW L, NEW sub, WellFormed(t, L, sub), NEW bh, NEW z, NEW q, NEW s,
         Lacking(t, L, bh, z, q, s), NEW w, w = t.kid[Opposite(s)][q], IsBlack(t, w),
         NEW f, f = t.kid[Opposite(s)][w], IsRed(t, f), NEW c, c = t.kid[s][w],
         NEW r, Finished(t, r, s, q, w, c, f)
  PROVE  /\ WellFormed(r, L, RotatedLabels(sub, s, q, w))
         /\ IsBlack(r, z) /\ \E h : Settled(r, L, h)
<1>1. /\ w \in L /\ w \in Keys /\ w # Null /\ w # z /\ w # q /\ z # q /\ z # t.root
      /\ t.p[w] = q /\ bh[w] = bh[z] + 1 /\ q \in Keys
      /\ z \in L \cup {Null} /\ bh[z] \in Nat /\ bh[q] = bh[z] + Own(t, q) + 1
  BY LackingIs
<1>2. /\ t \in Tree /\ L \subseteq Keys /\ Null \notin Keys /\ t.root \in L \cup {Null}
      /\ t.root # Null => t.p[t.root] = Null
      /\ \A a \in L, e \in Sides : /\ t.kid[e][a] \in L \cup {Null}
                                   /\ t.kid[e][a] \in Keys \cup {Null}
                                   /\ t.kid[e][a] # a
                                   /\ t.kid[e][a] # Null => t.p[t.kid[e][a]] = a
  BY LinksTyped, Zenon
<1>3. /\ q \in L /\ s \in Sides /\ Opposite(s) \in Sides /\ Opposite(s) # s /\ z = t.kid[s][q]
      /\ Apart(t, L, Null, Null) /\ bh \in Heights /\ bh[Null] = 0 /\ IsBlack(t, z)
      /\ \A a \in L : LevelAt(t, bh, q, s, a)
      /\ \A e \in Sides : e = s \/ e = Opposite(s)
  BY SidesAre DEF Lacking, Level, Sides
<1>4. PICK v : Painted(t, v, f, "black") /\ Turned(v, r, s, q, w, c)
  BY Zenon DEF Finished
<1>5. /\ f \in L /\ f \in Keys /\ f # Null /\ f # w /\ f # q /\ f # z /\ f # c /\ t.p[f] = w
      /\ c \in L \cup {Null} /\ c \in Keys \cup {Null} /\ c # w /\ c # q /\ (c # z \/ c = Null)
  <2>1. f # Null
    BY Zenon DEF IsRed
  <2>2. f \in L /\ t.p[f] = w /\ f # w
    BY <1>1, <1>2, <1>3, <2>1, Zenon
  <2>3. f # c
    <3>1. w \in L /\ Opposite(s) \in Sides /\ t.kid[Opposite(s)][w] # Null
      BY <1>1, <1>3, <2>1, Zenon
    <3>2. t.kid[Opposite(Opposite(s))][w] # t.kid[Opposite(s)][w]
      BY ONLY <3>1, SideIs, WellFormed(t, L, sub)
    <3>3. QED
      BY <1>3, <3>2, SidesAre, Zenon
  <2>5. q \notin sub[w] /\ \A e \in Sides : t.kid[e][w] # Null => t.kid[e][w] \in sub[w]
    <3>1. w \in L /\ q \in L /\ Opposite(s) \in Sides /\ t.kid[Opposite(s)][q] # Null
      BY <1>1, <1>3, Zenon
    <3>2. q \notin sub[t.kid[Opposite(s)][q]]
      BY ONLY <3>1, KidBelow, WellFormed(t, L, sub)
    <3>3. \A e \in Sides : t.kid[e][w] # Null => t.kid[e][w] \in sub[w]
      BY ONLY <3>1, KidBelow, WellFormed(t, L, sub)
    <3>4. QED
      BY <3>2, <3>3, Zenon
  <2>11. f # q
    BY <1>3, <2>1, <2>5, Zenon
  <2>6. z = Null \/ t.p[z] = q
    BY ONLY <1>2, <1>3
  <2>12. f # z
    BY ONLY <1>1, <2>1, <2>2, <2>6
  <2>7. c \in L \cup {Null} /\ c \in Keys \cup {Null} /\ c # w /\ (c # Null => t.p[c] = w)
    BY <1>1, <1>2, <1>3, Zenon
  <2>8. c # q
    <3>1. c # Null => c \in sub[w]
      BY <1>3, <2>5, Zenon
    <3>2. q # Null
      BY ONLY <1>2, <1>3
    <3>3. QED
      BY ONLY <2>5, <3>1, <3>2
  <2>9. c # z \/ c = Null
    BY ONLY <1>1, <2>6, <2>7
  <2>10. QED
    BY <1>2, <2>1, <2>2, <2>3, <2>7, <2>8, <2>9, <2>11, <2>12, Zenon
<1>6. WellFormed(r, L, RotatedLabels(sub, s, q, w))
  <2>1. WellFormed(v, L, sub)
    BY <1>4, PaintKeeps, Zenon DEF Painted, SameLinks
  <2>2. w = v.kid[Opposite(s)][q] /\ c = v.kid[s][w]
    BY <1>4, Zenon DEF Painted
  <2>3. QED
    BY ONLY <1>1, <1>3, <1>4, <2>1, <2>2, TurnKeeps, Zenon
<1>7. /\ r.root = IF t.root = q THEN w ELSE t.root
      /\ r.kid[s][q] = z /\ r.kid[Opposite(s)][q] = c
      /\ r.kid[s][w] = q /\ r.kid[Opposite(s)][w] = f
      /\ r.color[q] = "black" /\ r.color[f] = "black" /\ r.color[w] = t.color[q]
      /\ \A a \in Keys : a # q /\ a # w /\ a # f => r.color[a] = t.color[a]
      /\ \A a \in Keys, e \in Sides :
           a # q /\ a # w => r.kid[e][a] = IF t.kid[e][a] = q THEN w ELSE t.kid[e][a]
  <2>1. v.root = t.root /\ v.kid = t.kid
    BY ONLY <1>4 DEF Painted
  <2>2. t.color[w] = "black"
    BY <1>1, <1>2, Zenon DEF IsBlack, IsRed, Tree
  <2>3. v.color[w] = "black" /\ v.color[q] = t.color[q] /\ v.color[f] = "black"
    BY <1>1, <1>4, <1>5, <2>2, Zenon DEF Painted
  <2>4. \A a \in Keys : a # f => v.color[a] = t.color[a]
    BY ONLY <1>4 DEF Painted
  <2>5. /\ r.color[q] = "black" /\ r.color[f] = "black" /\ r.color[w] = t.color[q]
        /\ \A a \in Keys : a # q /\ a # w /\ a # f => r.color[a] = t.color[a]
    <3>1. \A a \in Keys : r.color[a] = IF a = q THEN v.color[w]
                                       ELSE IF a = w THEN v.color[q] ELSE v.color[a]
      BY ONLY <1>4 DEF Turned
    <3>2. q # w /\ f # q /\ f # w /\ q \in Keys /\ w \in Keys /\ f \in Keys
      BY ONLY <1>1, <1>5
    <3>3. QED
      BY ONLY <2>3, <2>4, <3>1, <3>2
  <2>6. /\ r.kid[s][q] = z /\ r.kid[Opposite(s)][q] = c
        /\ r.kid[s][w] = q /\ r.kid[Opposite(s)][w] = f
    <3>1. \A a \in Keys, d \in Sides :
            r.kid[d][a] = IF a = q /\ d = Opposite(s) THEN c
                          ELSE IF a = w /\ d = s THEN q
                          ELSE IF t.kid[d][a] = q THEN w ELSE t.kid[d][a]
      <4>1. \A a \in Keys, d \in Sides :
              r.kid[d][a] = IF a = q /\ d = Opposite(s) THEN c
                            ELSE IF a = w /\ d = s THEN q
                            ELSE IF v.kid[d][a] = q THEN w ELSE v.kid[d][a]
        BY ONLY <1>4, Zenon DEF Turned
      <4>2. QED
        BY ONLY <2>1, <4>1
    <3>2. q # w /\ f # q /\ z # q /\ q \in Keys /\ w \in Keys /\ s \in Sides
          /\ Opposite(s) \in Sides /\ Opposite(s) # s /\ z = t.kid[s][q]
      BY <1>1, <1>3, <1>5, Zenon
    <3>3. r.kid[s][q] = z
      BY ONLY <3>1, <3>2
    <3>4. r.kid[Opposite(s)][q] = c
      BY ONLY <3>1, <3>2
    <3>5. r.kid[s][w] = q
      BY ONLY <3>1, <3>2
    <3>6. r.kid[Opposite(s)][w] = f
      BY ONLY <3>1, <3>2, f = t.kid[Opposite(s)][w], Zenon
    <3>7. QED
      BY <3>3, <3>4, <3>5, <3>6, Zenon
  <2>7. /\ r.root = IF t.root = q THEN w ELSE t.root
        /\ \A a \in Keys, e \in Sides :
             a # q /\ a # w => r.kid[e][a] = IF t.kid[e][a] = q THEN w ELSE t.kid[e][a]
    BY ONLY <1>4, <2>1 DEF Turned
  <2>8. QED
    BY <2>5, <2>6, <2>7, Zenon
<1>8. PICK h : h = [bh EXCEPT ![q] = bh[w], ![w] = bh[q], ![f] = bh[f] + 1]
  BY Zenon
<1>9. /\ h \in Heights /\ h[q] = bh[w] /\ h[w] = bh[q] /\ h[f] = bh[f] + 1
      /\ \A a \in Keys \cup {Null} : a # q /\ a # w /\ a # f => h[a] = bh[a]
      /\ \A a \in Keys \cup {Null} : bh[a] \in Nat
  <2>1. \A a \in Keys \cup {Null} : bh[a] \in Nat
    BY <1>3 DEF Heights
  <2>2. bh[w] \in Nat /\ bh[q] \in Nat /\ bh[f] + 1 \in Nat
    <3>1. w \in Keys /\ q \in Keys /\ f \in Keys
      BY <1>1, <1>5, Zenon
    <3>2. QED
      BY ONLY <2>1, <3>1
  <2>3. QED
    <3>1. q \in Keys /\ w \in Keys /\ f \in Keys /\ q # w /\ f # q /\ f # w
          /\ bh \in [Keys \cup {Null} -> Nat]
      BY <1>1, <1>3, <1>5, Zenon DEF Heights
    <3>2. QED
      BY ONLY <1>8, <2>1, <2>2, <3>1 DEF Heights
<1>10. ASSUME NEW a \in L, NEW e \in Sides
       PROVE  /\ bh[a] = bh[t.kid[e][a]] + Own(t, a) + Debt(q, s, a, e)
              /\ bh[t.kid[e][a]] \in Nat /\ Own(t, a) \in Nat
  <2>1. LevelAt(t, bh, q, s, a)
    BY <1>3, Zenon
  <2>2. QED
    BY <1>2, <1>9, <2>1, Zenon DEF LevelAt, Own
<1>11. /\ Own(t, w) = 1 /\ Own(t, f) = 0 /\ Own(r, q) = 1 /\ Own(r, f) = 1 /\ Own(r, w) = Own(t, q)
       /\ \A e \in Sides : Debt(q, s, w, e) = 0 /\ Debt(q, s, f, e) = 0
  BY <1>1, <1>2, <1>3, <1>5, <1>7, Zenon DEF Own, IsBlack, IsRed, Debt
<1>12. bh[c] = bh[z] /\ bh[f] = bh[z]
  <2>1. bh[w] = bh[c] + 1 + 0 /\ bh[w] = bh[f] + 1 + 0 /\ bh[c] \in Nat /\ bh[f] \in Nat
    <3>1. w \in L /\ s \in Sides /\ Opposite(s) \in Sides
      BY <1>1, <1>3, Zenon
    <3>2. /\ bh[w] = bh[t.kid[s][w]] + Own(t, w) + Debt(q, s, w, s)
          /\ bh[w] = bh[t.kid[Opposite(s)][w]] + Own(t, w) + Debt(q, s, w, Opposite(s))
          /\ bh[t.kid[s][w]] \in Nat /\ bh[t.kid[Opposite(s)][w]] \in Nat
      BY ONLY <1>10, <3>1, Zenon
    <3>3. Own(t, w) = 1 /\ Debt(q, s, w, s) = 0 /\ Debt(q, s, w, Opposite(s)) = 0
      BY <1>11, <3>1
    <3>4. QED
      BY ONLY <3>2, <3>3, c = t.kid[s][w], f = t.kid[Opposite(s)][w], Zenon
  <2>2. QED
    BY ONLY <1>1, <2>1
<1>13. ASSUME NEW a \in L PROVE LevelAt(r, h, Null, "l", a)
  <2>1. a \in Keys /\ a # Null /\ \A e \in Sides : Debt(Null, "l", a, e) = 0
    BY <1>2 DEF Debt
  <2>2. SUFFICES ASSUME NEW e \in Sides PROVE h[a] = h[r.kid[e][a]] + Own(r, a)
    <3>1. ASSUME NEW e \in Sides PROVE h[a] \in Nat /\ Debt(Null, "l", a, e) = 0
      BY ONLY <1>9, <2>1 DEF Heights
    <3>2. ASSUME NEW e \in Sides PROVE h[a] = h[r.kid[e][a]] + Own(r, a) + 0
      <4>1. h[a] = h[r.kid[e][a]] + Own(r, a)
        BY ONLY <2>2
      <4>2. r.kid[e][a] \in Keys \cup {Null}
        BY ONLY <1>6, <2>1 DEF WellFormed, Joined, Tree
      <4>3. h[r.kid[e][a]] \in Nat /\ Own(r, a) \in Nat
        BY <1>9, <4>2, Zenon DEF Own, Heights
      <4>4. QED
        BY ONLY <4>1, <4>3
    <3>3. QED
      BY ONLY <3>1, <3>2 DEF LevelAt
  <2>3. CASE a = q
    <3>1. h[z] = bh[z] /\ h[c] = bh[c]
      BY <1>1, <1>2, <1>5, <1>9, Zenon
    <3>2. CASE e = s
      BY <1>1, <1>7, <1>9, <1>11, <2>3, <3>1, <3>2, Zenon
    <3>3. CASE e = Opposite(s)
      BY <1>1, <1>7, <1>9, <1>11, <1>12, <2>3, <3>1, <3>3, Zenon
    <3>4. QED
      BY ONLY <1>3, <3>2, <3>3
  <2>4. CASE a = w
    <3>1. Own(t, q) \in Nat
      BY DEF Own
    <3>2. h[w] = bh[z] + Own(t, q) + 1 /\ h[q] = bh[z] + 1 /\ h[f] = bh[z] + 1
      BY ONLY <1>1, <1>9, <1>12
    <3>3. CASE e = s
      <4>1. r.kid[e][a] = q
        BY ONLY <1>7, <2>4, <3>3
      <4>2. QED
        BY ONLY <1>1, <1>11, <2>4, <3>1, <3>2, <4>1
    <3>4. CASE e = Opposite(s)
      <4>1. r.kid[e][a] = f
        BY <1>7, <2>4, <3>4, Zenon
      <4>2. QED
        BY ONLY <1>1, <1>11, <2>4, <3>1, <3>2, <4>1
    <3>5. QED
      BY <1>3, <3>3, <3>4
  <2>5. CASE a # q /\ a # w
    <3>1. r.kid[e][a] = (IF t.kid[e][a] = q THEN w ELSE t.kid[e][a]) /\ t.kid[e][a] \in Keys \cup {Null}
      BY <1>2, <1>7, <2>1, <2>5, Zenon
    <3>2. t.kid[e][a] # w /\ t.kid[e][a] # f
      <4>1. t.kid[e][a] # Null => t.p[t.kid[e][a]] = a
        BY ONLY <1>2
      <4>2. w # Null /\ f # Null /\ t.p[w] = q /\ t.p[f] = w
        BY ONLY <1>1, <1>5
      <4>3. QED
        BY ONLY <2>5, <4>1, <4>2, Zenon
    <3>3. h[r.kid[e][a]] = bh[t.kid[e][a]]
      BY <1>9, <3>1, <3>2, Zenon
    <3>4. bh[a] = bh[t.kid[e][a]] + Own(t, a) /\ bh[t.kid[e][a]] \in Nat /\ Own(t, a) \in Nat
      <4>1. Debt(q, s, a, e) = 0
        BY ONLY <2>5 DEF Debt
      <4>2. QED
        BY <1>10, <4>1
    <3>5. CASE a = f
      <4>1. bh[f] = bh[t.kid[e][f]] + 0 /\ h[f] = bh[f] + 1 /\ Own(r, f) = 1
        BY <1>9, <1>11, <3>4, <3>5, Zenon
      <4>2. h[f] = bh[t.kid[e][f]] + 1 /\ bh[t.kid[e][f]] \in Nat /\ h[r.kid[e][f]] = bh[t.kid[e][f]]
        <5>1. bh[t.kid[e][f]] \in Nat
          BY <3>4, <3>5, Zenon
        <5>2. QED
          <6>1. h[r.kid[e][f]] = bh[t.kid[e][f]]
            BY ONLY <3>3, <3>5, Zenon
          <6>2. QED
            BY ONLY <4>1, <5>1, <6>1
      <4>3. QED
        BY <3>5, <4>1, <4>2, Zenon
    <3>6. CASE a # f
      <4>1. h[a] = bh[a] /\ Own(r, a) = Own(t, a)
        BY ONLY <1>7, <1>9, <2>1, <2>5, <3>6 DEF Own, IsBlack, IsRed
      <4>2. QED
        BY ONLY <3>3, <3>4, <4>1
    <3>7. QED
      BY <3>5, <3>6, Zenon
  <2>6. QED
    BY ONLY <2>3, <2>4, <2>5
<1>14. Level(r, L, h, Null, "l")
  <2>1. h[Null] = 0
    BY <1>1, <1>2, <1>3, <1>5, <1>9, Zenon
  <2>2. QED
    BY ONLY <1>9, <1>13, <2>1, Zenon DEF Level
<1>15. Apart(r, L, Null, Null)
  <2>1. ASSUME NEW a \in L, NEW e \in Sides, IsRed(r, a), IsRed(r, r.kid[e][a]) PROVE FALSE
    <3>1. a \in Keys /\ t.kid[e][a] \in Keys \cup {Null} /\ PairsAt(t, Null, Null, a)
      BY <1>2, <1>3, Zenon DEF Apart
    <3>2. a # q /\ a # f
      BY ONLY <1>7, <2>1 DEF IsRed
    <3>3. CASE a = w
      <4>1. r.kid[e][a] = q \/ r.kid[e][a] = f
        BY ONLY <1>3, <1>7, <3>3
      <4>2. QED
        BY <1>7, <2>1, <4>1, Zenon DEF IsRed
    <3>4. CASE a # w
      <4>1. IsRed(t, a)
        BY <1>7, <2>1, <3>1, <3>2, <3>4, Zenon DEF IsRed
      <4>2. t.kid[e][a] # w /\ t.kid[e][a] # f
        <5>1. t.kid[e][a] # Null => t.p[t.kid[e][a]] = a
          BY <1>2
        <5>2. w # Null /\ f # Null /\ t.p[w] = q /\ t.p[f] = w
          BY <1>1, <1>5, Zenon
        <5>3. QED
          BY ONLY <3>2, <3>4, <5>1, <5>2
      <4>3. IsRed(t, t.kid[e][a])
        <5>1. CASE t.kid[e][a] = q
          <6>1. r.kid[e][a] = w
            BY ONLY <1>7, <3>1, <3>2, <3>4, <5>1
          <6>2. QED
            <7>1. r.color[w] = "red" /\ r.color[w] = t.color[q] /\ q # Null
              BY ONLY <1>1, <1>2, <1>7, <2>1, <6>1 DEF IsRed
            <7>2. QED
              BY ONLY <5>1, <7>1, Zenon DEF IsRed
        <5>2. CASE t.kid[e][a] # q
          <6>1. r.kid[e][a] = t.kid[e][a]
            BY <1>7, <3>1, <3>2, <3>4, <5>2, Zenon
          <6>2. QED
            BY ONLY <1>7, <2>1, <3>1, <4>2, <5>2, <6>1 DEF IsRed
        <5>3. QED
          BY <5>1, <5>2
      <4>4. QED
        BY <3>1, <4>1, <4>3, Zenon DEF PairsAt, IsRed
    <3>5. QED
      BY ONLY <3>3, <3>4
  <2>2. ~IsRed(r, r.root)
    <3>1. ~IsRed(t, t.root) /\ w # t.root
      <4>1. IsRed(t, t.root) => t.root = Null
        BY <1>3 DEF Apart
      <4>2. t.root # Null => t.p[t.root] = Null
        BY ONLY <1>2
      <4>3. w # Null /\ t.p[w] = q /\ q # Null
        BY <1>1, <1>2
      <4>4. QED
        BY ONLY <4>1, <4>2, <4>3 DEF IsRed
    <3>2. CASE t.root = q
      <4>1. r.root = w /\ r.color[w] = t.color[q] /\ w # Null /\ q # Null
        BY <1>1, <1>2, <1>7, <3>2, Zenon
      <4>2. QED
        BY ONLY <3>1, <3>2, <4>1, Zenon DEF IsRed
    <3>3. CASE t.root # q
      BY ONLY <1>2, <1>7, <3>1, <3>3 DEF IsRed
    <3>4. QED
      BY <3>2, <3>3
  <2>3. QED
    BY <2>1, <2>2 DEF Apart, PairsAt
<1>16. IsBlack(r, z)
  <2>1. z \in Keys \cup {Null}
    BY ONLY <1>1, <1>2
  <2>2. QED
    BY <1>1, <1>3, <1>5, <1>7, <2>1, Zenon DEF IsBlack, IsRed
<1>17. QED
  BY <1>6, <1>14, <1>15, <1>16 DEF Settled

LEMMA FinishIs ==
  ASSUME NEW t, NEW L, NEW sub, WellFormed(t, L, sub), NEW q \in L, NEW s \in Sides,
         NEW w, w = t.kid[Opposite(s)][q], w # Null, IsBlack(t, w),
         NEW f, f = t.kid[Opposite(s)][w], f # Null, NEW c, c = t.kid[s][w],
         NEW u, u = Paint(Paint(Paint(t, w, t.color[q]), q, "black"), f, "black")
  PROVE  Finished(t, Rotate(u, s, q), s, q, w, c, f)
<1>1. /\ t \in Tree /\ Null \notin Keys /\ q \in Keys /\ w \in Keys /\ f \in Keys
      /\ w # q /\ f # w /\ w \in L /\ Opposite(s) \in Sides /\ t.color[q] \in {"red", "black"}
      /\ t.color[w] = "black"
  <2>1. t \in Tree /\ Null \notin Keys /\ L \subseteq Keys /\ Opposite(s) \in Sides /\ q \in Keys
    BY LinksTyped, SidesAre, Zenon
  <2>2. w \in L /\ w # q
    BY <2>1, KidBelow, LinksTyped
  <2>3. f \in L /\ f # w
    BY <2>1, <2>2, LinksTyped
  <2>4. t.color \in [Keys -> {"red", "black"}]
    BY <2>1 DEF Tree
  <2>5. QED
    BY <2>1, <2>2, <2>3, <2>4 DEF IsBlack, IsRed
<1>2. f # q
  <2>1. q \notin sub[w] /\ f \in sub[w]
    BY <1>1, KidBelow
  <2>2. QED
    BY ONLY <2>1
<1>3. PICK u1 : u1 = Paint(t, w, t.color[q])
  OBVIOUS
<1>4. Painted(t, u1, w, t.color[q])
  BY <1>1, <1>3, PaintIs
<1>5. PICK u2 : u2 = Paint(u1, q, "black")
  OBVIOUS
<1>6. Painted(u1, u2, q, "black")
  <2>1. u1 \in Tree
    BY ONLY <1>4 DEF Painted
  <2>2. QED
    BY <1>1, <1>5, <2>1, PaintIs
<1>7. Painted(u2, u, f, "black")
  <2>1. u2 \in Tree /\ u = Paint(u2, f, "black")
    BY <1>3, <1>5, <1>6, Zenon DEF Painted
  <2>2. QED
    BY ONLY <1>1, <2>1, PaintIs
<1>8. /\ SameLinks(t, u) /\ u.color[w] = t.color[q] /\ u.color[q] = "black" /\ u.color[f] = "black"
      /\ \A a \in Keys : a # w /\ a # q /\ a # f => u.color[a] = t.color[a]
  <2>1. SameLinks(t, u)
    BY <1>4, <1>6, <1>7, Zenon DEF Painted, SameLinks
  <2>2. \A a \in Keys : u.color[a] = IF a = f THEN "black" ELSE u2.color[a]
    BY <1>7, Zenon DEF Painted
  <2>3. \A a \in Keys : u2.color[a] = IF a = q THEN "black" ELSE u1.color[a]
    BY <1>6 DEF Painted
  <2>4. \A a \in Keys : u1.color[a] = IF a = w THEN t.color[q] ELSE t.color[a]
    BY ONLY <1>4 DEF Painted
  <2>5. QED
    BY ONLY <1>1, <1>2, <2>1, <2>2, <2>3, <2>4, Zenon
<1>9. WellFormed(u, L, sub)
  BY <1>8, PaintKeeps, Zenon
<1>10. PICK r : r = Rotate(u, s, q)
  OBVIOUS
<1>11. Rotated(u, r, s, q, w, c)
  <2>1. w = u.kid[Opposite(s)][q] /\ c = u.kid[s][w]
    BY <1>8, Zenon DEF SameLinks
  <2>2. QED
    BY ONLY <1>1, <1>9, <1>10, <2>1, RotateIs, q \in L, s \in Sides, Zenon
<1>12. PICK v : v = Paint(t, f, "black")
  BY Zenon
<1>13. Painted(t, v, f, "black")
  BY <1>1, <1>12, PaintIs
<1>14. Turned(v, r, s, q, w, c)
  <2>1. u.root = v.root /\ u.p = v.p /\ u.kid = v.kid
    BY <1>8, <1>13, Zenon DEF SameLinks, Painted
  <2>2. ASSUME NEW a \in Keys
        PROVE  r.color[a] = IF a = q THEN v.color[w] ELSE IF a = w THEN v.color[q] ELSE v.color[a]
    <3>1. r.color[a] = u.color[a]
      BY <1>11, Zenon DEF Rotated
    <3>2. \A b \in Keys : v.color[b] = IF b = f THEN "black" ELSE t.color[b]
      BY <1>13 DEF Painted
    <3>3. QED
      BY ONLY <1>1, <1>2, <1>8, <3>1, <3>2, a \in Keys
  <2>3. QED
    BY ONLY <1>11, <2>1, <2>2 DEF Turned, Rotated
<1>15. QED
  BY <1>10, <1>13, <1>14, Zenon DEF Finished

(* Painting black what is black changes nothing. *)
LEMMA PaintSettled ==
  ASSUME NEW t, NEW L, NEW sub, WellFormed(t, L, sub), NEW bh, Settled(t, L, bh),
         NEW z, IsBlack(t, z), NEW r, Painted(t, r, z, "black")
  PROVE  Settled(r, L, bh)
<1>1. /\ t \in Tree /\ L \subseteq Keys /\ Null \notin Keys /\ t.root \in L \cup {Null}
      /\ \A a \in L, e \in Sides : t.kid[e][a] \in Keys \cup {Null}
  BY LinksTyped
<1>2. r.root = t.root /\ r.kid = t.kid
  BY DEF Painted
<1>3. ASSUME NEW a \in Keys \cup {Null} PROVE IsRed(r, a) <=> IsRed(t, a)
  BY <1>1 DEF Painted, IsBlack, IsRed, Tree
<1>4. \A a \in L : Own(r, a) = Own(t, a)
  BY <1>1, <1>3 DEF Own, IsBlack
<1>5. Level(r, L, bh, Null, "l")
  BY <1>2, <1>4 DEF Settled, Level, LevelAt
<1>6. Apart(r, L, Null, Null)
  <2>1. ASSUME NEW a \in L PROVE PairsAt(r, Null, Null, a)
    <3>1. PairsAt(t, Null, Null, a) /\ a \in Keys
      BY <1>1 DEF Settled, Apart
    <3>2. QED
      BY <1>1, <1>2, <1>3, <3>1 DEF PairsAt
  <2>2. QED
    BY <1>1, <1>2, <1>3, <2>1 DEF Settled, Apart
<1>7. QED
  BY <1>5, <1>6 DEF Settled

(* _remove_fix_up, second half: the sibling is black after its first step. *)
LEMMA BlackSiblingIs ==
  ASSUME NEW L, NEW sub, WellFormed(tree, L, sub), NEW bh, NEW s,
         Lacking(tree, L, bh, x, par, s), NEW t, t = BlackSibling(s)
  PROVE  \E v, h : /\ WellFormed(t, L, v) /\ Lacking(t, L, h, x, par, s)
                   /\ IsBlack(t, t.kid[Opposite(s)][par])
<1>1. PICK w : w = tree.kid[Opposite(s)][par]
  OBVIOUS
<1>2. CASE IsBlack(tree, w)
  <2>1. t = tree
    BY <1>1, <1>2 DEF BlackSibling, IsBlack
  <2>2. QED
    BY <1>1, <1>2, <2>1
<1>3. CASE IsRed(tree, w)
  <2>1. /\ w \in L /\ w \in Keys /\ w # Null /\ w # x /\ w # par /\ x # par /\ par \in Keys /\ par \in L
        /\ s \in Sides /\ Opposite(s) \in Sides /\ x = tree.kid[s][par] /\ IsBlack(tree, x)
        /\ Opposite(s) # s
    BY <1>1, LackingIs, SidesAre DEF Lacking
  <2>2. IsBlack(tree, par)
    <3>1. PairsAt(tree, Null, Null, par)
      BY <2>1 DEF Lacking, Apart
    <3>2. QED
      BY <1>1, <1>3, <2>1, <3>1, KeysAre DEF PairsAt, IsBlack
  <2>3. t = Rotate(Paint(Paint(tree, w, "black"), par, "red"), s, par)
    BY <1>1, <1>3 DEF BlackSibling
  <2>4. PICK c : c = tree.kid[s][w]
    OBVIOUS
  <2>5. Turned(tree, t, s, par, w, c)
    BY ONLY <1>1, <1>3, <2>1, <2>2, <2>3, <2>4, PaintsThenTurns, WellFormed(tree, L, sub)
  <2>6. Lacking(t, L, Exchanged(bh, par, w), x, par, s)
    BY ONLY <1>1, <1>3, <2>1, <2>4, <2>5, LackingTurned, WellFormed(tree, L, sub),
            Lacking(tree, L, bh, x, par, s)
  <2>7. WellFormed(t, L, RotatedLabels(sub, s, par, w))
    BY ONLY <1>1, <2>1, <2>4, <2>5, TurnKeeps, WellFormed(tree, L, sub)
  <2>8. t.kid[Opposite(s)][par] = c
    BY <2>1, <2>5 DEF Turned
  <2>9. IsBlack(t, c)
    <3>1. PairsAt(tree, Null, Null, w)
      BY <2>1 DEF Lacking, Apart
    <3>2. IsBlack(tree, c)
      BY <1>3, <2>1, <2>4, <3>1, KeysAre DEF PairsAt, IsBlack, IsRed
    <3>3. c \in Keys \cup {Null} /\ c # w /\ (c # Null => c \in sub[w])
      BY <2>1, <2>4, LinksTyped, KidBelow
    <3>4. par \notin sub[w]
      BY <1>1, <2>1, KidBelow
    <3>5. c # par
      BY <2>1, <3>3, <3>4, KeysAre
    <3>6. c \in Keys => t.color[c] = tree.color[c]
      BY <2>5, <3>3, <3>5 DEF Turned
    <3>7. QED
      BY <3>2, <3>3, <3>6, KeysAre DEF IsBlack, IsRed
  <2>10. QED
    BY <2>6, <2>7, <2>8, <2>9
<1>4. QED
  BY <1>2, <1>3 DEF IsBlack

(* If it has a red child, the tree is repaired. *)
LEMMA RepairKeeps ==
  ASSUME NEW L, NEW t, NEW sub, WellFormed(t, L, sub), NEW bh, NEW s,
         Lacking(t, L, bh, x, par, s), NEW w, w = t.kid[Opposite(s)][par], IsBlack(t, w),
         IsRed(t, t.kid["l"][w]) \/ IsRed(t, t.kid["r"][w]),
         NEW r, r = Paint(Repaired(s, t, w), x, "black")
  PROVE  \E v, h : WellFormed(r, L, v) /\ Settled(r, L, h)
<1>1. PICK o, near, far : o = Opposite(s) /\ near = t.kid[s][w] /\ far = t.kid[o][w]
  OBVIOUS
<1>2. PICK u : u = IF IsBlack(t, far)
                   THEN Rotate(Paint(Paint(t, near, "black"), w, "red"), o, w) ELSE t
  OBVIOUS
<1>3. /\ w \in L /\ w \in Keys /\ w # Null /\ w # x /\ w # par /\ x # par /\ par \in Keys /\ par \in L
      /\ s \in Sides /\ o \in Sides /\ x = t.kid[s][par] /\ o # s /\ Opposite(o) = s
      /\ \A e \in Sides : e = s \/ e = o
  <2>1. Opposite(Opposite(s)) = s /\ Opposite(s) # s /\ Opposite(s) \in Sides /\ s \in Sides
        /\ \A e \in Sides : e = s \/ e = Opposite(s)
    BY SidesAre DEF Lacking, Sides
  <2>2. QED
    BY <1>1, <2>1, LackingIs DEF Lacking
<1>4. \E v, h : /\ WellFormed(u, L, v) /\ Lacking(u, L, h, x, par, s)
                /\ IsBlack(u, u.kid[o][par]) /\ IsRed(u, u.kid[o][u.kid[o][par]])
  <2>1. CASE IsRed(t, far)
    <3>1. u = t
      BY <1>2, <2>1 DEF IsBlack
    <3>2. QED
      BY <1>1, <2>1, <3>1
  <2>2. CASE IsBlack(t, far)
    <3>1. IsRed(t, near)
      BY <1>1, <1>3, <2>2, Zenon DEF IsBlack, Sides
    <3>2. near # Null /\ near = t.kid[Opposite(o)][w]
      BY <1>1, <1>3, <3>1, Zenon DEF IsRed
    <3>3. u = Rotate(Paint(Paint(t, near, "black"), w, "red"), o, w)
      BY <1>2, <2>2
    <3>4. PICK c : c = t.kid[o][near]
      OBVIOUS
    <3>5. Turned(t, u, o, w, near, c)
      BY ONLY <1>3, <3>1, <3>2, <3>3, <3>4, PaintsThenTurns, WellFormed(t, L, sub), IsBlack(t, w)
    <3>6. near # par /\ near \in L /\ near \in Keys /\ near # w
      <4>1. near \in L /\ near \in sub[w] /\ near # w /\ near \in Keys
        BY ONLY <1>3, <3>2, KidBelow, LinksTyped, WellFormed(t, L, sub)
      <4>2. par \notin sub[w]
        BY <1>1, <1>3, KidBelow
      <4>3. QED
        BY <4>1, <4>2, Zenon
    <3>7. Lacking(u, L, Exchanged(bh, w, near), x, par, s)
      <4>1. (w = par => o = s) /\ x # w /\ IsBlack(t, t.kid[o][w])
        BY <1>1, <1>3, <2>2
      <4>2. QED
        BY ONLY <1>3, <3>1, <3>2, <3>4, <3>5, <3>6, <4>1, LackingTurned, WellFormed(t, L, sub),
                Lacking(t, L, bh, x, par, s)
    <3>8. WellFormed(u, L, RotatedLabels(sub, o, w, near))
      BY ONLY <1>3, <3>2, <3>4, <3>5, TurnKeeps, WellFormed(t, L, sub)
    <3>9. u.kid[o][par] = near
      <4>1. t.kid[o][par] = w
        BY <1>1
      <4>2. \A a \in Keys, d \in Sides :
              u.kid[d][a] = IF a = w /\ d = Opposite(o) THEN c
                            ELSE IF a = near /\ d = o THEN w
                            ELSE IF t.kid[d][a] = w THEN near ELSE t.kid[d][a]
        BY ONLY <3>5, Zenon DEF Turned
      <4>3. QED
        BY ONLY <1>3, <3>6, <4>1, <4>2
    <3>10. u.kid[o][near] = w
      BY ONLY <1>3, <3>5, <3>6 DEF Turned
    <3>11. IsBlack(u, near) /\ IsRed(u, w)
      <4>1. t.color[w] = "black" /\ t.color[near] = "red"
        <5>1. t.color \in [Keys -> {"red", "black"}]
          BY LinksTyped DEF Tree
        <5>2. QED
          BY <1>3, <3>1, <5>1 DEF IsBlack, IsRed
      <4>2. u.color[near] = "black" /\ u.color[w] = "red"
        BY <1>3, <3>5, <3>6, <4>1 DEF Turned
      <4>3. QED
        BY ONLY <1>3, <4>2 DEF IsBlack, IsRed
    <3>12. QED
      BY <3>7, <3>8, <3>9, <3>10, <3>11
  <2>3. QED
    BY <2>1, <2>2 DEF IsBlack
<1>5. PICK v, h : /\ WellFormed(u, L, v) /\ Lacking(u, L, h, x, par, s)
                  /\ IsBlack(u, u.kid[o][par]) /\ IsRed(u, u.kid[o][u.kid[o][par]])
  BY <1>4
<1>6. PICK top, f, c : top = u.kid[o][par] /\ f = u.kid[o][top] /\ c = u.kid[s][top]
  BY Zenon
<1>7. PICK u2 : u2 = Paint(Paint(Paint(u, top, u.color[par]), par, "black"), f, "black")
  OBVIOUS
<1>8. Repaired(s, t, w) = Rotate(u2, s, par)
  BY <1>1, <1>2, <1>6, <1>7, Zenon DEF Repaired
<1>9. PICK done : done = Rotate(u2, s, par)
  OBVIOUS
<1>10. top \in L /\ top # Null /\ IsBlack(u, top) /\ IsRed(u, f) /\ f # Null
       /\ top = u.kid[Opposite(s)][par] /\ f = u.kid[Opposite(s)][top]
  <2>1. top = u.kid[Opposite(s)][par] /\ f = u.kid[Opposite(s)][top] /\ IsBlack(u, top) /\ IsRed(u, f)
    BY <1>1, <1>5, <1>6
  <2>2. top \in L /\ top # Null
    BY ONLY <1>5, <2>1, LackingIs
  <2>3. QED
    BY <2>1, <2>2 DEF IsRed
<1>11. Finished(u, done, s, par, top, c, f)
  BY ONLY <1>3, <1>5, <1>6, <1>7, <1>9, <1>10, FinishIs, Zenon
<1>12. /\ WellFormed(done, L, RotatedLabels(v, s, par, top))
       /\ IsBlack(done, x) /\ \E e : Settled(done, L, e)
  BY ONLY <1>5, <1>6, <1>10, <1>11, FinishKeeps, Zenon
<1>13. PICK e : Settled(done, L, e)
  BY <1>12
<1>14. Painted(done, r, x, "black")
  <2>1. done \in Tree /\ x \in Keys \cup {Null}
    BY <1>3, <1>12, LinksTyped
  <2>2. r = Paint(done, x, "black")
    BY <1>8, <1>9
  <2>3. QED
    BY <2>1, <2>2, PaintIs
<1>15. Settled(r, L, e)
  BY ONLY <1>12, <1>13, <1>14, PaintSettled
<1>16. WellFormed(r, L, RotatedLabels(v, s, par, top))
  BY <1>12, <1>14, PaintKeeps DEF Painted, SameLinks
<1>17. QED
  BY <1>15, <1>16

(* The end of _remove_fix_up: a red node or the root pays by turning black. *)
LEMMA RemoveDoneKeeps ==
  ASSUME NEW t, NEW L, NEW sub, WellFormed(t, L, sub), NEW bh, NEW z, NEW q,
         Owing(t, L, bh, z, q), z = t.root \/ IsRed(t, z), NEW r, Painted(t, r, z, "black")
  PROVE  \E h : Settled(r, L, h)
<1>1. /\ t \in Tree /\ L \subseteq Keys /\ Null \notin Keys /\ t.root \in L \cup {Null}
      /\ \A a \in L, e \in Sides : /\ t.kid[e][a] \in Keys \cup {Null}
                                   /\ t.kid[e][a] # a
  BY LinksTyped
<1>2. r.root = t.root /\ r.kid = t.kid /\ z \in L \cup {Null}
  BY DEF Painted, Owing
<1>3. ASSUME NEW a \in Keys \cup {Null}, IsRed(r, a) PROVE IsRed(t, a) /\ a # z
  BY <1>3 DEF Painted, IsRed
<1>4. Apart(r, L, Null, Null)
  <2>1. ASSUME NEW a \in L, NEW e \in Sides, IsRed(r, a), IsRed(r, r.kid[e][a]) PROVE FALSE
    <3>1. IsRed(t, a) /\ IsRed(t, t.kid[e][a]) /\ a # z /\ t.kid[e][a] # z
      BY <1>1, <1>2, <1>3, <2>1
    <3>2. PairsAt(t, z, z, a)
      BY DEF Owing, Apart
    <3>3. QED
      BY <3>1, <3>2 DEF PairsAt
  <2>2. ~IsRed(r, r.root)
    <3>1. IsRed(t, t.root) => t.root = z
      BY DEF Owing, Apart
    <3>2. QED
      BY <1>1, <1>2, <1>3, <3>1
  <2>3. QED
    BY <2>1, <2>2 DEF Apart, PairsAt
<1>5. CASE z = t.root
  <2>1. Level(t, L, bh, Null, "l") /\ Painted(t, r, t.root, "black")
    BY <1>5 DEF Owing
  <2>2. PICK h : Level(r, L, h, Null, "l")
    BY ONLY <2>1, BlackRoot, WellFormed(t, L, sub)
  <2>3. QED
    BY <1>4, <2>2 DEF Settled
<1>6. CASE z # t.root /\ IsRed(t, z)
  <2>1. z \in L /\ z # Null /\ z \in Keys
    BY <1>1, <1>2, <1>6 DEF IsRed
  <2>2. PICK d \in Sides : q \in L /\ t.kid[d][q] = z /\ Level(t, L, bh, q, d)
    BY <1>6 DEF Owing
  <2>3. bh \in Heights /\ bh[Null] = 0 /\ \A a \in L : LevelAt(t, bh, q, d, a)
    BY <2>2 DEF Level
  <2>4. \A a \in Keys \cup {Null} : bh[a] \in Nat
    BY <2>3 DEF Heights
  <2>5. PICK h : h = [bh EXCEPT ![z] = bh[z] + 1]
    OBVIOUS
  <2>6. /\ h \in Heights /\ h[z] = bh[z] + 1
        /\ \A a \in Keys \cup {Null} : a # z => h[a] = bh[a]
    <3>1. bh[z] + 1 \in Nat
      BY <2>1, <2>4
    <3>2. QED
      BY <2>1, <2>3, <2>5, <3>1 DEF Heights
  <2>7. Own(t, z) = 0 /\ Own(r, z) = 1
    BY <1>6, <2>1 DEF Painted, Own, IsBlack, IsRed
  <2>8. ASSUME NEW a \in L, NEW e \in Sides
        PROVE  h[a] = h[r.kid[e][a]] + Own(r, a) + Debt(Null, "l", a, e)
    <3>1. /\ bh[a] = bh[t.kid[e][a]] + Own(t, a) + Debt(q, d, a, e)
          /\ bh[t.kid[e][a]] \in Nat /\ Own(t, a) \in Nat
          /\ a \in Keys /\ a # Null /\ t.kid[e][a] \in Keys \cup {Null} /\ t.kid[e][a] # a
      <4>1. LevelAt(t, bh, q, d, a)
        BY <2>3
      <4>2. a \in Keys /\ a # Null /\ t.kid[e][a] \in Keys \cup {Null} /\ t.kid[e][a] # a
        BY <1>1
      <4>3. QED
        BY <2>4, <4>1, <4>2 DEF LevelAt, Own
    <3>2. Debt(Null, "l", a, e) = 0 /\ r.kid[e][a] = t.kid[e][a]
      BY <1>2, <3>1 DEF Debt
    <3>3. CASE a = z
      <4>1. Debt(q, d, a, e) = 0
        BY <1>1, <2>2, <3>3 DEF Debt
      <4>2. bh[z] = bh[t.kid[e][z]] + 0 + 0 /\ bh[t.kid[e][z]] \in Nat /\ h[t.kid[e][z]] = bh[t.kid[e][z]]
        BY <2>6, <2>7, <3>1, <3>3, <4>1
      <4>3. QED
        BY <2>6, <2>7, <3>2, <3>3, <4>2
    <3>4. CASE a # z
      <4>1. h[a] = bh[a] /\ Own(r, a) = Own(t, a)
        BY <2>6, <3>1, <3>4 DEF Painted, Own, IsBlack, IsRed
      <4>2. CASE t.kid[e][a] = z
        <5>1. a = q /\ e = d
          BY <2>1, <2>2, <4>2, KidUnique
        <5>2. Debt(q, d, a, e) = 1 /\ h[r.kid[e][a]] = bh[z] + 1 /\ bh[z] \in Nat
          BY <2>1, <2>4, <2>6, <3>2, <4>2, <5>1 DEF Debt
        <5>3. bh[a] = bh[z] + Own(t, a) + 1
          BY <3>1, <4>2, <5>2
        <5>4. QED
          BY <3>1, <3>2, <4>1, <5>2, <5>3
      <4>3. CASE t.kid[e][a] # z
        <5>1. Debt(q, d, a, e) = 0
          BY <2>2, <4>3 DEF Debt
        <5>2. h[r.kid[e][a]] = bh[t.kid[e][a]]
          BY <2>6, <3>1, <3>2, <4>3
        <5>3. QED
          BY <3>1, <3>2, <4>1, <5>1, <5>2
      <4>4. QED
        BY <4>2, <4>3
    <3>5. QED
      BY <3>3, <3>4
  <2>9. h[Null] = 0
    BY <1>1, <2>1, <2>3, <2>6
  <2>10. Level(r, L, h, Null, "l")
    BY <2>6, <2>8, <2>9 DEF Level, LevelAt
  <2>11. QED
    BY <1>4, <2>10 DEF Settled
<1>7. QED
  BY <1>5, <1>6

(* _remove_fix_up, first half: a black node that leaves is owed by the one *)
(* that takes its place, a red one is not missed.                          *)
LEMMA SpliceLevel ==
  ASSUME NEW t, NEW L, NEW sub, WellFormed(t, L, sub), NEW bh, Settled(t, L, bh), NEW n \in L,
         NEW s \in Sides, NEW c, c = t.kid[s][n], t.kid[Opposite(s)][n] = Null,
         NEW r, Spliced(t, r, n, c)
  PROVE  /\ IsBlack(t, n) => Owing(r, L \ {n}, bh, c, t.p[n])
         /\ IsRed(t, n) => Settled(r, L \ {n}, bh)
<1>1. /\ t \in Tree /\ L \subseteq Keys /\ Null \notin Keys /\ t.root \in L \cup {Null}
      /\ t.root # Null => t.p[t.root] = Null
      /\ \A a \in L, e \in Sides : /\ t.kid[e][a] \in L \cup {Null}
                                   /\ t.kid[e][a] \in Keys \cup {Null}
                                   /\ t.kid[e][a] # a
                                   /\ t.kid[e][a] # Null => t.p[t.kid[e][a]] = a
  BY LinksTyped
<1>2. /\ bh \in Heights /\ bh[Null] = 0 /\ \A a \in L : LevelAt(t, bh, Null, "l", a)
      /\ Apart(t, L, Null, Null) /\ ~IsRed(t, t.root)
  BY DEF Settled, Level, Apart, IsRed
<1>3. /\ r.root = (IF t.root = n THEN c ELSE t.root)
      /\ \A a \in L \ {n}, e \in Sides : r.kid[e][a] = IF t.kid[e][a] = n THEN c ELSE t.kid[e][a]
      /\ \A a \in Keys : a # n => r.color[a] = t.color[a]
  BY <1>1 DEF Spliced
<1>4. n \in Keys /\ n # Null /\ c \in L \cup {Null} /\ c \in Keys \cup {Null} /\ c # n
      /\ c \in (L \ {n}) \cup {Null}
  BY <1>1
<1>5. \A a \in Keys \cup {Null} : bh[a] \in Nat
  BY <1>2 DEF Heights
<1>6. \A a \in L : Own(t, a) \in Nat
  BY DEF Own
<1>7. ASSUME NEW a \in L, NEW e \in Sides
      PROVE  bh[a] = bh[t.kid[e][a]] + Own(t, a) /\ bh[t.kid[e][a]] \in Nat
  <2>1. LevelAt(t, bh, Null, "l", a) /\ Debt(Null, "l", a, e) = 0
    BY <1>1, <1>2 DEF Debt
  <2>2. bh[t.kid[e][a]] \in Nat
    BY <1>1, <1>5
  <2>3. bh[a] = bh[t.kid[e][a]] + Own(t, a) + Debt(Null, "l", a, e)
    BY <2>1 DEF LevelAt
  <2>4. QED
    BY <1>6, <2>1, <2>2, <2>3
<1>8. \A a \in Keys \cup {Null} : a # n => (IsRed(r, a) <=> IsRed(t, a))
  BY <1>3 DEF IsRed
<1>9. \A a \in L \ {n} : Own(r, a) = Own(t, a)
  BY <1>1, <1>8 DEF Own, IsBlack
(* Without n on a way, nothing changes; with it, n's own is missing. *)
<1>10. ASSUME NEW a \in L \ {n}, NEW e \in Sides
       PROVE  bh[a] = bh[r.kid[e][a]] + Own(r, a) + (IF t.kid[e][a] = n THEN Own(t, n) ELSE 0)
  <2>1. bh[a] = bh[t.kid[e][a]] + Own(t, a) /\ bh[t.kid[e][a]] \in Nat /\ Own(r, a) = Own(t, a)
        /\ Own(t, a) \in Nat
    BY <1>6, <1>7, <1>9
  <2>2. CASE t.kid[e][a] = n
    <3>1. bh[n] = bh[c] + Own(t, n) /\ bh[c] \in Nat /\ Own(t, n) \in Nat
      BY <1>6, <1>7
    <3>2. r.kid[e][a] = c
      BY <1>3, <2>2
    <3>3. QED
      BY <2>1, <2>2, <3>1, <3>2
  <2>3. CASE t.kid[e][a] # n
    <3>1. r.kid[e][a] = t.kid[e][a]
      BY <1>3, <2>3
    <3>2. QED
      BY <2>1, <2>3, <3>1
  <2>4. QED
    BY <2>2, <2>3
<1>11. ASSUME NEW a \in L \ {n}, NEW e \in Sides, IsRed(r, a), IsRed(r, r.kid[e][a])
       PROVE  t.kid[e][a] = n /\ r.kid[e][a] = c /\ IsBlack(t, n)
  <2>1. IsRed(t, a) /\ a # Null /\ PairsAt(t, Null, Null, a)
    BY <1>1, <1>2, <1>8, <1>11 DEF Apart
  <2>2. ~IsRed(t, t.kid[e][a])
    BY <2>1 DEF PairsAt, IsRed
  <2>3. t.kid[e][a] = n
    BY <1>1, <1>3, <1>8, <1>11, <2>2
  <2>4. QED
    BY <1>3, <2>2, <2>3 DEF IsBlack
<1>12. IsRed(r, r.root) => r.root = c
  BY <1>1, <1>2, <1>3, <1>8
<1>13. CASE IsBlack(t, n)
  <2>1. Own(t, n) = 1 /\ ~IsRed(t, n)
    BY <1>13 DEF Own, IsBlack
  <2>2. Apart(r, L \ {n}, c, c)
    BY <1>11, <1>12 DEF Apart, PairsAt
  <2>3. CASE n = t.root
    <3>1. ASSUME NEW a \in L \ {n}, NEW e \in Sides
          PROVE  bh[a] = bh[r.kid[e][a]] + Own(r, a) + Debt(Null, "l", a, e)
      <4>1. t.kid[e][a] # n
        BY <1>1, <1>4, <2>3, SideIs
      <4>2. Debt(Null, "l", a, e) = 0
        BY <1>1 DEF Debt
      <4>3. QED
        BY <1>10, <4>1, <4>2
    <3>2. Level(r, L \ {n}, bh, Null, "l")
      BY <1>2, <3>1 DEF Level, LevelAt
    <3>3. r.root = c /\ t.p[n] = Null
      BY <1>1, <1>3, <1>4, <2>3
    <3>4. QED
      BY <1>4, <2>1, <2>2, <3>2, <3>3 DEF Owing
  <2>4. CASE n # t.root
    <3>1. PICK b \in L, d \in Sides : t.p[n] = b /\ t.kid[d][b] = n
      BY <2>4, ParentIs
    <3>2. b # n /\ b \in L \ {n}
      BY <1>1, <3>1
    <3>3. ASSUME NEW a \in L \ {n}, NEW e \in Sides
          PROVE  bh[a] = bh[r.kid[e][a]] + Own(r, a) + Debt(b, d, a, e)
      <4>1. CASE t.kid[e][a] = n
        <5>1. a = b /\ e = d
          BY <1>4, <3>1, <4>1, KidUnique
        <5>2. Debt(b, d, a, e) = 1
          BY <5>1 DEF Debt
        <5>3. QED
          BY <1>10, <2>1, <4>1, <5>2
      <4>2. CASE t.kid[e][a] # n
        <5>1. Debt(b, d, a, e) = 0
          BY <3>1, <4>2 DEF Debt
        <5>2. QED
          BY <1>10, <4>2, <5>1
      <4>3. QED
        BY <4>1, <4>2
    <3>4. Level(r, L \ {n}, bh, b, d)
      BY <1>2, <3>3 DEF Level, LevelAt
    <3>5. r.root = t.root /\ r.kid[d][b] = c
      BY <1>3, <2>4, <3>1, <3>2
    <3>6. c # r.root
      <4>1. CASE c = Null
        <5>1. t.root # Null
          BY <1>4 DEF WellFormed, Ordered
        <5>2. QED
          BY <3>5, <4>1, <5>1
      <4>2. CASE c # Null
        BY <1>1, <3>5, <4>2, SideIs
      <4>3. QED
        BY <4>1, <4>2
    <3>7. QED
      BY <1>4, <2>1, <2>2, <3>1, <3>2, <3>4, <3>5, <3>6 DEF Owing
  <2>5. QED
    BY <2>3, <2>4
<1>14. CASE IsRed(t, n)
  <2>1. Own(t, n) = 0 /\ ~IsBlack(t, n) /\ n # t.root
    BY <1>2, <1>14 DEF Own, IsBlack
  <2>2. Apart(r, L \ {n}, Null, Null)
    <3>1. ~IsRed(r, r.root)
      BY <1>1, <1>2, <1>3, <1>8, <2>1
    <3>2. QED
      BY <1>11, <2>1, <3>1 DEF Apart, PairsAt
  <2>3. ASSUME NEW a \in L \ {n}, NEW e \in Sides
        PROVE  bh[a] = bh[r.kid[e][a]] + Own(r, a) + Debt(Null, "l", a, e)
    <3>1. Debt(Null, "l", a, e) = 0
      BY <1>1 DEF Debt
    <3>2. QED
      BY <1>10, <2>1, <3>1
  <2>4. Level(r, L \ {n}, bh, Null, "l")
    BY <1>2, <2>3 DEF Level, LevelAt
  <2>5. QED
    BY <2>1, <2>2, <2>4 DEF Settled
<1>15. QED
  BY <1>13, <1>14 DEF IsBlack

(* y in the place of n: the tree is the same but for a name. *)
Moved(a, n, y) == IF a = n THEN y ELSE a
Renamed(bh, n, y) == [bh EXCEPT ![y] = bh[n]]

LEMMA ReplaceLevel ==
  ASSUME NEW t, NEW L, NEW sub, WellFormed(t, L, sub), NEW n \in L, NEW y \in Keys \ L,
         NEW r, Replaced(t, r, n, y), NEW bh, NEW q \in L \cup {Null}, NEW e,
         Level(t, L, bh, q, e), NEW z \in L \cup {Null}, Apart(t, L, z, z)
  PROVE  /\ Level(r, (L \ {n}) \cup {y}, Renamed(bh, n, y), Moved(q, n, y), e)
         /\ Apart(r, (L \ {n}) \cup {y}, Moved(z, n, y), Moved(z, n, y))
<1>1. /\ t \in Tree /\ L \subseteq Keys /\ Null \notin Keys /\ t.root \in L \cup {Null}
      /\ \A a \in L, d \in Sides : /\ t.kid[d][a] \in L \cup {Null}
                                   /\ t.kid[d][a] \in Keys \cup {Null}
                                   /\ t.kid[d][a] # a
      /\ n \in Keys /\ y \in Keys /\ y \notin L /\ y # n /\ y # Null /\ n # Null
  BY LinksTyped
<1>2. bh \in Heights /\ bh[Null] = 0 /\ \A a \in L : LevelAt(t, bh, q, e, a)
  BY DEF Level
<1>3. PICK h : h = Renamed(bh, n, y)
  OBVIOUS
<1>4. h \in Heights /\ h[y] = bh[n] /\ \A a \in Keys \cup {Null} : a # y => h[a] = bh[a]
  <2>1. \A a \in Keys \cup {Null} : bh[a] \in Nat
    BY <1>2 DEF Heights
  <2>2. bh[n] \in Nat
    BY <1>1, <2>1
  <2>3. QED
    BY <1>1, <1>2, <1>3, <2>2 DEF Renamed, Heights
<1>5. /\ r.root = Moved(t.root, n, y)
      /\ \A a \in L, d \in Sides : r.kid[d][Moved(a, n, y)] = Moved(t.kid[d][a], n, y)
      /\ \A a \in L : r.color[Moved(a, n, y)] = t.color[a]
  <2>1. r.root = Moved(t.root, n, y)
    BY DEF Replaced, Moved
  <2>2. ASSUME NEW a \in L PROVE r.color[Moved(a, n, y)] = t.color[a]
    <3>1. \A b \in Keys : r.color[b] = IF b = n THEN "black"
                                       ELSE IF b = y THEN t.color[n] ELSE t.color[b]
      BY DEF Replaced
    <3>2. QED
      BY <1>1, <3>1 DEF Moved
  <2>3. ASSUME NEW a \in L, NEW d \in Sides
        PROVE  r.kid[d][Moved(a, n, y)] = Moved(t.kid[d][a], n, y)
    <3>1. \A b \in Keys, g \in Sides :
            r.kid[g][b] = IF b = n THEN Null ELSE IF b = y THEN t.kid[g][n]
                          ELSE IF t.kid[g][b] = n THEN y ELSE t.kid[g][b]
      BY DEF Replaced
    <3>2. CASE a = n
      <4>1. r.kid[d][y] = t.kid[d][n] /\ t.kid[d][n] # n
        BY <1>1, <3>1
      <4>2. QED
        BY <3>2, <4>1 DEF Moved
    <3>3. CASE a # n
      <4>1. r.kid[d][a] = IF t.kid[d][a] = n THEN y ELSE t.kid[d][a]
        BY <1>1, <3>1, <3>3
      <4>2. QED
        BY <3>3, <4>1 DEF Moved
    <3>4. QED
      BY <3>2, <3>3
  <2>4. QED
    BY <2>1, <2>2, <2>3
<1>6. ASSUME NEW a \in L \cup {Null}
      PROVE  /\ h[Moved(a, n, y)] = bh[a]
             /\ IsRed(r, Moved(a, n, y)) <=> IsRed(t, a)
             /\ \A b \in L \cup {Null} : Moved(a, n, y) = Moved(b, n, y) <=> a = b
  <2>1. h[Moved(a, n, y)] = bh[a]
    BY <1>1, <1>4 DEF Moved
  <2>2. \A b \in L \cup {Null} : Moved(a, n, y) = Moved(b, n, y) <=> a = b
    BY <1>1 DEF Moved
  <2>3. Moved(Null, n, y) = Null /\ (a \in L => Moved(a, n, y) # Null /\ a # Null)
    BY <1>1 DEF Moved
  <2>4. IsRed(r, Moved(a, n, y)) <=> IsRed(t, a)
    <3>1. CASE a = Null
      BY <2>3, <3>1 DEF IsRed
    <3>2. CASE a \in L
      BY <1>5, <2>3, <3>2 DEF IsRed
    <3>3. QED
      BY <3>1, <3>2
  <2>5. QED
    BY <2>1, <2>2, <2>4
<1>7. \A b \in (L \ {n}) \cup {y} : \E a \in L : b = Moved(a, n, y)
  <2>1. ASSUME NEW b \in (L \ {n}) \cup {y} PROVE \E a \in L : b = Moved(a, n, y)
    <3>1. CASE b = y
      <4>1. b = Moved(n, n, y)
        BY <3>1 DEF Moved
      <4>2. QED
        BY <4>1
    <3>2. CASE b \in L \ {n}
      <4>1. b = Moved(b, n, y)
        BY <3>2 DEF Moved
      <4>2. QED
        BY <3>2, <4>1
    <3>3. QED
      BY <3>1, <3>2
  <2>2. QED
    BY <2>1
<1>8. ASSUME NEW b \in (L \ {n}) \cup {y} PROVE LevelAt(r, h, Moved(q, n, y), e, b)
  <2>1. PICK a \in L : b = Moved(a, n, y)
    BY <1>7
  <2>2. ASSUME NEW d \in Sides PROVE h[b] = h[r.kid[d][b]] + Own(r, b) + Debt(Moved(q, n, y), e, b, d)
    <3>1. bh[a] = bh[t.kid[d][a]] + Own(t, a) + Debt(q, e, a, d)
      BY <1>2 DEF LevelAt
    <3>2. t.kid[d][a] \in L \cup {Null}
      BY <1>1
    <3>3. h[b] = bh[a] /\ h[r.kid[d][b]] = bh[t.kid[d][a]]
      <4>1. r.kid[d][b] = Moved(t.kid[d][a], n, y)
        BY <1>5, <2>1
      <4>2. QED
        BY <1>6, <2>1, <3>2, <4>1
    <3>4. Own(r, b) = Own(t, a)
      BY <1>6, <2>1 DEF Own, IsBlack
    <3>5. Debt(Moved(q, n, y), e, b, d) = Debt(q, e, a, d)
      BY <1>6, <2>1 DEF Debt
    <3>6. QED
      BY ONLY <3>1, <3>3, <3>4, <3>5
  <2>3. QED
    BY <2>2 DEF LevelAt
<1>9. Level(r, (L \ {n}) \cup {y}, h, Moved(q, n, y), e)
  <2>1. h[Null] = 0
    BY <1>1, <1>2, <1>4
  <2>2. QED
    BY <1>4, <1>8, <2>1 DEF Level
<1>10. Apart(r, (L \ {n}) \cup {y}, Moved(z, n, y), Moved(z, n, y))
  <2>1. ASSUME NEW b \in (L \ {n}) \cup {y}, NEW d \in Sides,
               IsRed(r, b), IsRed(r, r.kid[d][b])
        PROVE  b = Moved(z, n, y) \/ r.kid[d][b] = Moved(z, n, y)
    <3>1. PICK a \in L : b = Moved(a, n, y)
      BY <1>7
    <3>2. r.kid[d][b] = Moved(t.kid[d][a], n, y) /\ t.kid[d][a] \in L \cup {Null}
      BY <1>1, <1>5, <3>1
    <3>3. IsRed(t, a) /\ IsRed(t, t.kid[d][a])
      BY <1>6, <2>1, <3>1, <3>2
    <3>4. a = z \/ t.kid[d][a] = z
      BY <3>3 DEF Apart, PairsAt
    <3>5. QED
      BY <3>1, <3>2, <3>4
  <2>2. IsRed(r, r.root) => r.root = Moved(z, n, y)
    <3>1. IsRed(t, t.root) => t.root = z
      BY DEF Apart
    <3>2. IsRed(r, r.root) <=> IsRed(t, t.root)
      BY <1>1, <1>5, <1>6
    <3>3. QED
      BY <1>5, <3>1, <3>2
  <2>3. QED
    BY <2>1, <2>2 DEF Apart, PairsAt
<1>11. QED
  BY <1>3, <1>9, <1>10

LEMMA ReplaceOwes ==
  ASSUME NEW t, NEW L, NEW sub, WellFormed(t, L, sub), NEW n \in L, NEW y \in Keys \ L,
         NEW r, Replaced(t, r, n, y), NEW bh, NEW z, z # n, NEW q, Owing(t, L, bh, z, q)
  PROVE  Owing(r, (L \ {n}) \cup {y}, Renamed(bh, n, y), z, Moved(q, n, y))
<1>1. z \in L \cup {Null} /\ Apart(t, L, z, z) /\ Moved(z, n, y) = z
  BY DEF Owing, Moved
<1>2. L \subseteq Keys /\ Null \notin Keys /\ t.root \in L \cup {Null} /\ y # z /\ y \notin L /\ n # Null
      /\ n \in Keys /\ y \in Keys
  BY <1>1, LinksTyped
<1>3. z = r.root <=> z = t.root
  BY <1>2 DEF Replaced
<1>4. PICK h : h = Renamed(bh, n, y)
  OBVIOUS
<1>5. CASE z = t.root /\ q = Null /\ Level(t, L, bh, Null, "l")
  <2>1. Moved(Null, n, y) = Null /\ Null \in L \cup {Null}
    BY <1>2 DEF Moved
  <2>2. /\ Level(r, (L \ {n}) \cup {y}, h, Moved(Null, n, y), "l")
        /\ Apart(r, (L \ {n}) \cup {y}, Moved(z, n, y), Moved(z, n, y))
    BY ONLY <1>1, <1>4, <1>5, <2>1, ReplaceLevel, WellFormed(t, L, sub), n \in L, y \in Keys \ L,
            Replaced(t, r, n, y)
  <2>3. QED
    BY <1>1, <1>3, <1>4, <1>5, <2>1, <2>2 DEF Owing
<1>6. CASE z # t.root /\ q \in L /\ \E e \in Sides : t.kid[e][q] = z /\ Level(t, L, bh, q, e)
  <2>1. PICK e \in Sides : t.kid[e][q] = z /\ Level(t, L, bh, q, e)
    BY <1>6
  <2>2. /\ Level(r, (L \ {n}) \cup {y}, h, Moved(q, n, y), e)
        /\ Apart(r, (L \ {n}) \cup {y}, Moved(z, n, y), Moved(z, n, y))
    <3>1. q \in L \cup {Null}
      BY <1>6
    <3>2. QED
      BY ONLY <1>1, <1>4, <2>1, <3>1, ReplaceLevel, WellFormed(t, L, sub), n \in L, y \in Keys \ L,
              Replaced(t, r, n, y)
  <2>3. Moved(q, n, y) \in (L \ {n}) \cup {y}
    BY <1>6 DEF Moved
  <2>4. r.kid[e][Moved(q, n, y)] = z
    <3>1. \A b \in Keys : r.kid[e][b] = IF b = n THEN Null ELSE IF b = y THEN t.kid[e][n]
                                        ELSE IF t.kid[e][b] = n THEN y ELSE t.kid[e][b]
      BY DEF Replaced
    <3>2. q \in Keys /\ q # y
      BY <1>2, <1>6
    <3>3. QED
      BY <1>2, <2>1, <3>1, <3>2 DEF Moved
  <2>5. QED
    BY <1>1, <1>3, <1>4, <1>6, <2>2, <2>3, <2>4 DEF Owing
<1>7. QED
  BY <1>5, <1>6 DEF Owing

LEMMA ReplaceSettled ==
  ASSUME NEW t, NEW L, NEW sub, WellFormed(t, L, sub), NEW n \in L, NEW y \in Keys \ L,
         NEW r, Replaced(t, r, n, y), NEW bh, Settled(t, L, bh)
  PROVE  Settled(r, (L \ {n}) \cup {y}, Renamed(bh, n, y))
<1>1. Moved(Null, n, y) = Null /\ Null \in L \cup {Null}
  BY LinksTyped DEF Moved
<1>2. Level(t, L, bh, Null, "l") /\ Apart(t, L, Null, Null)
  BY DEF Settled
<1>3. /\ Level(r, (L \ {n}) \cup {y}, Renamed(bh, n, y), Moved(Null, n, y), "l")
      /\ Apart(r, (L \ {n}) \cup {y}, Moved(Null, n, y), Moved(Null, n, y))
  BY ONLY <1>1, <1>2, ReplaceLevel, WellFormed(t, L, sub), n \in L, y \in Keys \ L, Replaced(t, r, n, y)
<1>4. QED
  BY <1>1, <1>3 DEF Settled

-----------------------------------------------------------------------------
(* What a whole step makes of the tree. *)

(* r is a balanced search tree of the nodes L. *)
Sound(r, L) == \E v, h : WellFormed(r, L, v) /\ Settled(r, L, h)
(* r is a search tree that owes a black node on the ways through z. *)
Lossy(r, L, z, q) == \E v, h : WellFormed(r, L, v) /\ Owing(r, L, h, z, q)
(* r is a search tree whose node z is red. *)
Rising(r, L, z) == \E v, h : WellFormed(r, L, v) /\ Growing(r, L, h, z)

(* _remove_fix_up, first half *)
LEMMA SpliceOutKeeps ==
  ASSUME NEW L, NEW sub, WellFormed(tree, L, sub), NEW bh, Settled(tree, L, bh), NEW n \in L,
         tree.kid["l"][n] = Null \/ tree.kid["r"][n] = Null,
         NEW cut, cut = SpliceOut(n), NEW r, r = Forget(cut.t, n)
  PROVE  /\ cut.lost => Lossy(r, L \ {n}, cut.x, cut.par)
         /\ ~cut.lost => Sound(r, L \ {n})
<1>1. PICK c : c = IF tree.kid["l"][n] = Null THEN tree.kid["r"][n] ELSE tree.kid["l"][n]
  OBVIOUS
<1>2. PICK s \in Sides : c = tree.kid[s][n] /\ tree.kid[Opposite(s)][n] = Null
  <2>1. "l" \in Sides /\ "r" \in Sides /\ Opposite("l") = "r" /\ Opposite("r") = "l"
    BY DEF Sides, Opposite
  <2>2. CASE tree.kid["l"][n] = Null
    <3>1. c = tree.kid["r"][n] /\ tree.kid[Opposite("r")][n] = Null
      BY <1>1, <2>1, <2>2
    <3>2. QED
      BY <2>1, <3>1
  <2>3. CASE tree.kid["l"][n] # Null
    <3>1. c = tree.kid["l"][n] /\ tree.kid[Opposite("l")][n] = Null
      BY <1>1, <2>1, <2>3
    <3>2. QED
      BY <2>1, <3>1
  <2>4. QED
    BY <2>2, <2>3
<1>3. /\ cut.t = RelinkParent(Supplant(tree, n, c), c, tree.p[n])
      /\ cut.lost = IsBlack(tree, n) /\ cut.x = c /\ cut.par = tree.p[n]
  BY <1>1 DEF SpliceOut
<1>4. Spliced(tree, r, n, c)
  <2>1. tree \in Tree /\ n \in Keys /\ c \in Keys \cup {Null}
    BY <1>2, LinksTyped
  <2>2. Held(tree, n)
    BY NodesHeld
  <2>3. r = Forget(RelinkParent(Supplant(tree, n, c), c, tree.p[n]), n)
    BY <1>3
  <2>4. QED
    BY ONLY <2>1, <2>2, <2>3, SpliceIs
<1>5. WellFormed(r, L \ {n}, SplicedLabels(sub, n))
  BY ONLY <1>2, <1>4, SpliceKeeps, WellFormed(tree, L, sub), n \in L
<1>6. /\ IsBlack(tree, n) => Owing(r, L \ {n}, bh, c, tree.p[n])
      /\ IsRed(tree, n) => Settled(r, L \ {n}, bh)
  BY ONLY <1>2, <1>4, SpliceLevel, WellFormed(tree, L, sub), Settled(tree, L, bh), n \in L
<1>7. QED
  BY <1>3, <1>5, <1>6 DEF Lossy, Sound, IsBlack

LEMMA MoveSuccessorKeeps ==
  ASSUME NEW L, NEW sub, WellFormed(tree, L, sub), NEW bh, Settled(tree, L, bh), NEW n \in L,
         tree.kid["l"][n] # Null, tree.kid["r"][n] # Null,
         NEW cut, cut = MoveSuccessor(n), NEW r, r = Forget(cut.t, n)
  PROVE  /\ cut.lost => Lossy(r, L \ {n}, cut.x, cut.par)
         /\ ~cut.lost => Sound(r, L \ {n})
<1>1. PICK y, c : y = Outermost(tree, "l", tree.kid["r"][n]) /\ c = tree.kid["r"][y]
  BY Zenon
<1>2. cut.lost = IsBlack(tree, y) /\ cut.x = c
      /\ cut.par = IF y = tree.kid["r"][n] THEN y ELSE tree.p[y]
  BY <1>1, Zenon DEF MoveSuccessor
<1>3. PICK u : Spliced(tree, u, y, c) /\ Replaced(u, r, n, y)
  <2>1. SuccessorMoved(r, n, y, c)
    BY <1>1, MoveSuccessorIs
  <2>2. QED
    BY <2>1 DEF SuccessorMoved
<1>4. /\ y \in L /\ y \in Keys /\ y # n /\ y \in sub[n] /\ tree.kid["l"][y] = Null
      /\ \A m \in L : (n \in sub[m] \/ m \in sub[n]) /\ m # n /\ m # y
                      => \A s \in Sides : Before(s, m, n) <=> Before(s, m, y)
      /\ \/ y = tree.kid["r"][n] /\ tree.p[y] = n
         \/ y # tree.kid["r"][n] /\ tree.p[y] # n
  <2>1. Successor(tree, L, sub, n, y)
    BY <1>1, SuccessorIs
  <2>2. QED
    BY ONLY <2>1 DEF Successor
<1>5. /\ "r" \in Sides /\ Opposite("r") = "l" /\ tree \in Tree /\ L \subseteq Keys /\ n \in Keys
      /\ Null \notin Keys /\ sub \in Labels
  <2>1. "r" \in Sides /\ Opposite("r") = "l"
    BY DEF Sides, Opposite
  <2>2. sub \in Labels
    BY DEF WellFormed, Ordered
  <2>3. QED
    BY <2>1, <2>2, LinksTyped
<1>6. WellFormed(u, L \ {y}, SplicedLabels(sub, y))
  BY ONLY <1>1, <1>3, <1>4, <1>5, SpliceKeeps, WellFormed(tree, L, sub)
<1>7. /\ IsBlack(tree, y) => Owing(u, L \ {y}, bh, c, tree.p[y])
      /\ IsRed(tree, y) => Settled(u, L \ {y}, bh)
  BY ONLY <1>1, <1>3, <1>4, <1>5, SpliceLevel, WellFormed(tree, L, sub), Settled(tree, L, bh)
<1>8. PICK sub1 : sub1 = SplicedLabels(sub, y)
  OBVIOUS
<1>9. n \in L \ {y} /\ y \in Keys \ (L \ {y}) /\ ((L \ {y}) \ {n}) \cup {y} = L \ {n}
  BY <1>4
<1>10. \A m \in L \ {y}, s \in Sides : (n \in sub1[m] \/ m \in sub1[n]) /\ m # n
                                      => (Before(s, m, n) <=> Before(s, m, y))
  <2>1. \A m \in L \ {y} : sub1[m] = sub[m] \ {y}
    BY <1>5, <1>8 DEF SplicedLabels
  <2>2. QED
    BY <1>4, <1>9, <2>1
<1>11. WellFormed(r, L \ {n}, ReplacedLabels(sub1, n, y))
  <2>1. WellFormed(r, ((L \ {y}) \ {n}) \cup {y}, ReplacedLabels(sub1, n, y))
    BY ONLY <1>3, <1>6, <1>8, <1>9, <1>10, ReplaceKeeps
  <2>2. QED
    BY <1>9, <2>1
<1>12. c # n
  <2>1. c # Null => c \in sub[y]
    BY <1>1, <1>4, <1>5, KidBelow
  <2>2. n \notin sub[y]
    BY <1>4, SubBelow
  <2>3. QED
    BY <1>5, <2>1, <2>2
<1>13. CASE IsBlack(tree, y)
  <2>1. Owing(u, L \ {y}, bh, c, tree.p[y])
    BY <1>7, <1>13
  <2>2. Owing(r, ((L \ {y}) \ {n}) \cup {y}, Renamed(bh, n, y), c, Moved(tree.p[y], n, y))
    BY ONLY <1>3, <1>6, <1>9, <1>12, <2>1, ReplaceOwes
  <2>3. Moved(tree.p[y], n, y) = cut.par
    BY <1>2, <1>4 DEF Moved
  <2>4. Owing(r, L \ {n}, Renamed(bh, n, y), cut.x, cut.par)
    BY <1>2, <1>9, <2>2, <2>3
  <2>5. QED
    BY <1>2, <1>11, <1>13, <2>4 DEF Lossy
<1>14. CASE IsRed(tree, y)
  <2>1. Settled(u, L \ {y}, bh)
    BY <1>7, <1>14
  <2>2. Settled(r, ((L \ {y}) \ {n}) \cup {y}, Renamed(bh, n, y))
    BY ONLY <1>3, <1>6, <1>9, <2>1, ReplaceSettled
  <2>3. Settled(r, L \ {n}, Renamed(bh, n, y))
    BY <1>9, <2>2
  <2>4. QED
    BY <1>2, <1>11, <1>14, <2>3 DEF Sound, IsBlack
<1>15. QED
  BY <1>13, <1>14 DEF IsBlack

(* _insert *)
LEMMA InsertRootKeeps ==
  ASSUME NEW L, NEW sub, WellFormed(tree, L, sub), tree.root = Null, NEW k \in Keys,
         NEW r, r = [tree EXCEPT !.root = k, !.color[k] = "black"]
  PROVE  L = {} /\ Sound(r, {k})
<1>1. L = {} /\ tree \in Tree /\ Null \notin Keys
  BY LinksTyped DEF WellFormed, Ordered
<1>2. /\ r \in Tree /\ r.root = k /\ r.p = tree.p /\ r.kid = tree.kid /\ r.color[k] = "black"
  BY <1>1 DEF Tree
<1>3. \A a \in Keys : tree.p[a] = Null /\ \A s \in Sides : tree.kid[s][a] = Null
  BY <1>1 DEF WellFormed, Joined
<1>4. Joined(r, {k})
  BY <1>1, <1>2, <1>3 DEF Joined
<1>5. PICK v : v = [a \in Keys \cup {Null} |-> IF a = Null THEN {} ELSE {a}]
  OBVIOUS
<1>6. /\ v \in Labels /\ v[Null] = {} /\ v[k] = {k} /\ \A a \in Keys : v[a] = {a}
  BY <1>1, <1>5 DEF Labels
<1>7. ASSUME NEW s \in Sides PROVE v[r.kid[s][k]] = {m \in v[k] : Before(s, m, k)}
  <2>1. ~Before(s, k, k)
    BY BeforeIs
  <2>2. QED
    BY <1>2, <1>3, <1>6, <2>1
<1>8. Ordered(r, {k}, v)
  BY <1>2, <1>6, <1>7 DEF Ordered
<1>9. PICK h : h = [a \in Keys \cup {Null} |-> IF a = k THEN 1 ELSE 0]
  OBVIOUS
<1>10. h \in Heights /\ h[Null] = 0 /\ h[k] = 1
  BY <1>1, <1>9 DEF Heights
<1>11. IsBlack(r, k) /\ Own(r, k) = 1 /\ \A s \in Sides : Debt(Null, "l", k, s) = 0
  BY <1>1, <1>2 DEF IsBlack, IsRed, Own, Debt
<1>12. Level(r, {k}, h, Null, "l")
  BY <1>2, <1>3, <1>10, <1>11 DEF Level, LevelAt
<1>13. Apart(r, {k}, Null, Null)
  BY <1>2, <1>11 DEF Apart, PairsAt, IsBlack
<1>14. QED
  BY <1>1, <1>4, <1>8, <1>12, <1>13 DEF Sound, Settled, WellFormed

LEMMA InsertLeafKeeps ==
  ASSUME NEW L, NEW sub, WellFormed(tree, L, sub), NEW bh, Settled(tree, L, bh),
         tree.root # Null, NEW k \in Keys, Get(tree, k) = Null,
         NEW q, q = SlotParent(tree, k), NEW s, s = SideFor(k, q),
         NEW r, r = [tree EXCEPT !.kid[s][q] = k, !.p[k] = q, !.color[k] = "red"]
  PROVE  k \notin L /\ Rising(r, L \cup {k}, k)
<1>1. k \notin L /\ tree \in Tree /\ L \subseteq Keys /\ k \in Keys \ L
  <2>1. Get(tree, k) = IF k \in L THEN k ELSE Null
    BY GetIs
  <2>2. QED
    BY <2>1, LinksTyped
<1>2. SlotAt(tree, L, sub, k, q)
  BY <1>1, SlotParentIs
<1>3. s \in Sides /\ q \in L /\ q \in Keys /\ tree.kid[s][q] = Null
  BY <1>1, <1>2 DEF SlotAt, SideFor, Sides
<1>4. Grown(tree, r, s, q, k)
  BY ONLY <1>1, <1>3, GrowIs, k \in Keys,
          r = [tree EXCEPT !.kid[s][q] = k, !.p[k] = q, !.color[k] = "red"], Zenon
<1>5. WellFormed(r, L \cup {k}, GrownLabels(sub, k, q))
  BY ONLY <1>1, <1>2, <1>4, GrowKeeps, WellFormed(tree, L, sub), s = SideFor(k, q)
<1>6. \E h : Growing(r, L \cup {k}, h, k)
  BY ONLY <1>1, <1>3, <1>4, GrowLevel, WellFormed(tree, L, sub), Settled(tree, L, bh),
          tree.root # Null
<1>7. QED
  BY <1>1, <1>5, <1>6 DEF Rising

(* _insert_fix_up *)
LEMMA RecolorIs ==
  ASSUME NEW t, t \in Tree, NEW p \in Keys, NEW u \in Keys, NEW gp \in Keys, p # gp, u # gp,
         NEW r, r = Paint(Paint(Paint(t, p, "black"), u, "black"), gp, "red")
  PROVE  Recolored(t, r, p, u, gp)
<1>1. PICK u1 : u1 = Paint(t, p, "black")
  OBVIOUS
<1>2. Painted(t, u1, p, "black")
  BY <1>1, PaintIs
<1>3. PICK u2 : u2 = Paint(u1, u, "black")
  OBVIOUS
<1>4. Painted(u1, u2, u, "black")
  <2>1. u1 \in Tree
    BY <1>2 DEF Painted
  <2>2. QED
    BY <1>3, <2>1, PaintIs
<1>5. Painted(u2, r, gp, "red")
  <2>1. u2 \in Tree /\ r = Paint(u2, gp, "red")
    BY <1>1, <1>3, <1>4 DEF Painted
  <2>2. QED
    BY <2>1, PaintIs
<1>6. SameLinks(t, r)
  BY <1>2, <1>4, <1>5 DEF Painted, SameLinks
<1>7. \A a \in Keys : r.color[a] = IF a = gp THEN "red" ELSE u2.color[a]
  BY <1>5 DEF Painted
<1>8. \A a \in Keys : u2.color[a] = IF a = u THEN "black" ELSE u1.color[a]
  BY <1>4 DEF Painted
<1>9. \A a \in Keys : u1.color[a] = IF a = p THEN "black" ELSE t.color[a]
  BY <1>2 DEF Painted
<1>10. QED
  BY ONLY <1>6, <1>7, <1>8, <1>9 DEF Recolored

(* Two red nodes in a row: the lower is at hand, the upper has a black     *)
(* parent.                                                                 *)
LEMMA RedPairIs ==
  ASSUME NEW L, NEW sub, WellFormed(tree, L, sub), NEW bh, Growing(tree, L, bh, x), RedParent,
         NEW p, p = tree.p[x], NEW gp, gp = tree.p[p], NEW s, s = SideOf(tree, p)
  PROVE  /\ x \in L /\ x # Null /\ p \in L /\ p \in Keys /\ gp \in L /\ gp \in Keys /\ s \in Sides
         /\ p = tree.kid[s][gp] /\ IsRed(tree, x) /\ IsRed(tree, p) /\ IsBlack(tree, gp)
         /\ p # gp /\ x # p /\ \E d \in Sides : x = tree.kid[d][p]
<1>1. x \in L /\ IsRed(tree, x) /\ p # Null /\ IsRed(tree, p) /\ x # Null /\ L \subseteq Keys
      /\ (tree.root # Null => tree.p[tree.root] = Null) /\ tree.root # x
      /\ Null \notin Keys
  <2>1. x \in L /\ IsRed(tree, x) /\ p # Null /\ IsRed(tree, p)
    BY DEF Growing, RedParent
  <2>2. QED
    BY <2>1, LinksTyped DEF IsRed
<1>2. PICK d \in Sides : p \in L /\ tree.kid[d][p] = x
  BY <1>1, ParentIs
<1>3. x # p
  BY <1>2, LinksTyped
<1>4. p # tree.root
  <2>1. IsRed(tree, tree.root) => tree.root = x
    BY DEF Growing, Apart
  <2>2. QED
    BY <1>1, <1>3, <2>1
<1>5. PICK e \in Sides : gp \in L /\ tree.kid[e][gp] = p
  BY <1>2, <1>4, ParentIs
<1>6. s = e
  BY <1>1, <1>5, SideIs
<1>7. gp \in Keys /\ p \in Keys /\ gp # p
  BY <1>1, <1>2, <1>5, LinksTyped
<1>8. IsBlack(tree, gp)
  <2>1. PairsAt(tree, Null, x, gp)
    BY <1>5 DEF Growing, Apart
  <2>2. IsRed(tree, gp) => gp = Null \/ p = x
    BY ONLY <1>1, <1>5, <2>1 DEF PairsAt
  <2>3. QED
    BY <1>1, <1>3, <1>7, <2>2 DEF IsBlack
<1>9. QED
  BY <1>1, <1>2, <1>3, <1>5, <1>6, <1>7, <1>8

(* The red nodes are on the outer side, above a black node. *)
Straight(t, L, s, gp, u) ==
  \E v, h, y, low :
    /\ WellFormed(t, L, v) /\ Growing(t, L, h, low)
    /\ y = t.kid[s][gp] /\ IsRed(t, y) /\ low = t.kid[s][y]
    /\ IsBlack(t, gp) /\ t.kid[Opposite(s)][gp] = u /\ IsBlack(t, u)

LEMMA StraightenIs ==
  ASSUME NEW L, NEW sub, WellFormed(tree, L, sub), NEW bh, Growing(tree, L, bh, x), RedParent,
         NEW p, p = tree.p[x], NEW gp, gp = tree.p[p], NEW s, s = SideOf(tree, p),
         NEW u, u = tree.kid[Opposite(s)][gp], IsBlack(tree, u)
  PROVE  Straight(Straighten(tree, s, x), L, s, gp, u)
<1>1. /\ x \in L /\ x # Null /\ p \in L /\ p \in Keys /\ gp \in L /\ gp \in Keys /\ s \in Sides
      /\ p = tree.kid[s][gp] /\ IsRed(tree, x) /\ IsRed(tree, p) /\ IsBlack(tree, gp)
      /\ p # gp /\ x # p /\ \E d \in Sides : x = tree.kid[d][p]
  BY ONLY RedPairIs, WellFormed(tree, L, sub), Growing(tree, L, bh, x), RedParent, p = tree.p[x],
          gp = tree.p[p], s = SideOf(tree, p)
<1>2. PICK o : o = Opposite(s) /\ o \in Sides /\ o # s /\ \A d \in Sides : d = s \/ d = o
  BY <1>1, SidesAre, Zenon DEF Sides
<1>3. CASE x # tree.kid[o][p]
  <2>1. x = tree.kid[s][p]
    BY <1>1, <1>2, <1>3, Zenon
  <2>2. Straighten(tree, s, x) = tree
    BY <1>2, <1>3, Zenon DEF Straighten
  <2>3. Straight(tree, L, s, gp, u)
    BY <1>1, <1>2, <2>1, Zenon DEF Straight
  <2>4. QED
    BY ONLY <2>2, <2>3
<1>4. CASE x = tree.kid[o][p]
  <2>1. PICK t : t = Rotate(tree, s, p)
    BY Zenon
  <2>2. Straighten(tree, s, x) = t
    BY <1>2, <1>4, <2>1, Zenon DEF Straighten
  <2>3. PICK c : c = tree.kid[s][x]
    BY Zenon
  <2>4. tree.color[p] = tree.color[x] /\ tree.color[x] = "red"
    BY <1>1, Zenon DEF IsRed
  <2>5. x = tree.kid[Opposite(s)][p]
    BY <1>2, <1>4, Zenon
  <2>6. Turned(tree, t, s, p, x, c)
    BY ONLY <1>1, <2>1, <2>3, <2>4, <2>5, TurnsSame, WellFormed(tree, L, sub), Zenon
  <2>7. Growing(t, L, Exchanged(bh, p, x), p) /\ IsRed(t, x)
    BY ONLY <1>1, <2>3, <2>5, <2>6, StraightenKeeps, WellFormed(tree, L, sub), Growing(tree, L, bh, x), Zenon
  <2>8. WellFormed(t, L, RotatedLabels(sub, s, p, x))
    BY ONLY <1>1, <2>3, <2>5, <2>6, TurnKeeps, WellFormed(tree, L, sub), Zenon
  <2>9. x # gp
    <3>1. gp \notin sub[p] /\ x \in sub[p]
      <4>1. tree.kid[s][gp] # Null /\ tree.kid[o][p] # Null
        BY <1>1, <1>4, LinksTyped, Zenon
      <4>2. gp \notin sub[tree.kid[s][gp]] /\ tree.kid[o][p] \in sub[p]
        BY ONLY <1>1, <1>2, <4>1, KidBelow, WellFormed(tree, L, sub)
      <4>3. QED
        BY ONLY <1>1, <1>4, <4>2, Zenon
    <3>2. QED
      BY <3>1
  <2>10. u # p /\ u # x /\ u \in Keys \cup {Null} /\ x \in Keys
    <3>1. u \in Keys \cup {Null} /\ x \in Keys
      BY <1>1, <1>2, LinksTyped, Zenon
    <3>2. QED
      BY <1>1, <3>1, Zenon DEF IsBlack
  <2>11. \A a \in Keys, d \in Sides :
           t.kid[d][a] = IF a = p /\ d = Opposite(s) THEN c
                         ELSE IF a = x /\ d = s THEN p
                         ELSE IF tree.kid[d][a] = p THEN x ELSE tree.kid[d][a]
    BY ONLY <2>6 DEF Turned
  <2>12. t.kid[s][gp] = x /\ t.kid[s][x] = p /\ t.kid[o][gp] = u
    <3>1. tree.kid[s][gp] = p /\ tree.kid[o][gp] = u
      BY <1>1, <1>2, Zenon
    <3>2. t.kid[s][gp] = x
      BY ONLY <1>1, <1>2, <2>9, <2>10, <2>11, <3>1, Zenon
    <3>3. t.kid[s][x] = p
      BY ONLY <1>1, <1>2, <2>9, <2>10, <2>11, <3>1, Zenon
    <3>4. t.kid[o][gp] = u
      BY ONLY <1>1, <1>2, <2>9, <2>10, <2>11, <3>1
    <3>5. QED
      BY ONLY <3>2, <3>3, <3>4
  <2>13. \A a \in Keys : a # p /\ a # x => t.color[a] = tree.color[a]
    BY ONLY <2>6, Zenon DEF Turned
  <2>14. IsBlack(t, gp) /\ IsBlack(t, u)
    BY <1>1, <2>9, <2>10, <2>13, Zenon DEF IsBlack, IsRed
  <2>15. Straight(t, L, s, gp, u)
    BY <1>2, <2>7, <2>8, <2>12, <2>14, Zenon DEF Straight
  <2>16. QED
    BY ONLY <2>2, <2>15
<1>5. QED
  BY ONLY <1>3, <1>4

LEMMA InsertFixUpKeeps ==
  ASSUME NEW L, NEW sub, WellFormed(tree, L, sub), NEW bh, Growing(tree, L, bh, x), RedParent,
         NEW p, p = tree.p[x], NEW gp, gp = tree.p[p], NEW s, s = SideOf(tree, p),
         NEW u, u = tree.kid[Opposite(s)][gp], Recolor(p, gp, u) \/ RotateUp(s, gp, u)
  PROVE  Rising(tree', L, gp) /\ gp \in L
<1>1. /\ x \in L /\ x # Null /\ p \in L /\ p \in Keys /\ gp \in L /\ gp \in Keys /\ s \in Sides
      /\ p = tree.kid[s][gp] /\ IsRed(tree, x) /\ IsRed(tree, p) /\ IsBlack(tree, gp)
      /\ p # gp /\ x # p /\ \E d \in Sides : x = tree.kid[d][p]
  BY RedPairIs
<1>2. PICK r : r = tree'
  BY Zenon
<1>3. CASE Recolor(p, gp, u)
  <2>1. IsRed(tree, u) /\ r = Paint(Paint(Paint(tree, p, "black"), u, "black"), gp, "red")
    BY <1>2, <1>3, Zenon DEF Recolor
  <2>2. tree \in Tree /\ u \in Keys /\ u # gp
    <3>1. Opposite(s) \in Sides
      BY <1>1, SidesAre, Zenon
    <3>2. tree \in Tree /\ u \in Keys \cup {Null} /\ u # gp
      BY ONLY <1>1, <3>1, LinksTyped, WellFormed(tree, L, sub), u = tree.kid[Opposite(s)][gp]
    <3>3. QED
      BY <2>1, <3>2, Zenon DEF IsRed
  <2>3. Recolored(tree, r, p, u, gp)
    BY ONLY <1>1, <2>1, <2>2, RecolorIs, Zenon
  <2>4. PICK d \in Sides : x = tree.kid[d][p]
    BY <1>1, Zenon
  <2>5. Growing(r, L, Raised(bh, p, u), gp)
    BY ONLY <1>1, <2>1, <2>3, <2>4, RecolorKeeps, WellFormed(tree, L, sub), Growing(tree, L, bh, x),
            u = tree.kid[Opposite(s)][gp], Zenon
  <2>6. WellFormed(r, L, sub)
    BY <2>3, PaintKeeps, Zenon DEF Recolored
  <2>7. QED
    BY <1>1, <1>2, <2>5, <2>6, Zenon DEF Rising
<1>4. CASE RotateUp(s, gp, u)
  <2>1. PICK t : t = Straighten(tree, s, x)
    BY Zenon
  <2>2. Straight(t, L, s, gp, u)
    <3>1. IsBlack(tree, u)
      BY ONLY <1>4 DEF RotateUp
    <3>2. QED
      BY <2>1, <3>1, StraightenIs, Zenon
  <2>3. PICK v, h, y, low :
          /\ WellFormed(t, L, v) /\ Growing(t, L, h, low)
          /\ y = t.kid[s][gp] /\ IsRed(t, y) /\ low = t.kid[s][y]
          /\ IsBlack(t, gp) /\ t.kid[Opposite(s)][gp] = u /\ IsBlack(t, u)
    BY <2>2, Zenon DEF Straight
  <2>4. PICK o : o = Opposite(s) /\ o \in Sides /\ Opposite(o) = s
    BY <1>1, SidesAre, Zenon
  <2>5. PICK w : w = Rotate(t, o, gp)
    BY Zenon
  <2>6. r = Paint(Paint(w, w.p[gp], "black"), gp, "red")
    BY <1>2, <1>4, <2>1, <2>4, <2>5, Zenon DEF RotateUp
  <2>7. y = t.kid[Opposite(o)][gp] /\ low = t.kid[Opposite(o)][y] /\ y # Null
        /\ IsBlack(t, t.kid[o][gp])
    BY <2>3, <2>4, Zenon DEF IsRed
  <2>8. Turned(t, r, o, gp, y, t.kid[o][y])
    BY ONLY <1>1, <2>3, <2>4, <2>5, <2>6, <2>7, TurnsThenPaints, Zenon
  <2>9. Growing(r, L, Exchanged(h, gp, y), gp)
    BY ONLY <1>1, <2>3, <2>4, <2>7, <2>8, RiseKeeps, Zenon
  <2>10. WellFormed(r, L, RotatedLabels(v, o, gp, y))
    BY ONLY <1>1, <2>3, <2>4, <2>7, <2>8, TurnKeeps, Zenon
  <2>11. QED
    BY <1>1, <1>2, <2>9, <2>10, Zenon DEF Rising
<1>5. QED
  BY <1>3, <1>4, Zenon

-----------------------------------------------------------------------------
(* The inductive invariant: what holds of the tree in each loop. *)

AtRest ==
  /\ pc \in {"idle", "aborted"} /\ x = Null /\ par = Null
  /\ Sound(tree, live) /\ CachesExact
Inserting ==
  /\ pc = "insert" /\ par = Null
  /\ Rising(tree, live, x) /\ Cardinality(live) = _num_nodes + 1
Removing ==
  /\ pc = "remove"
  /\ Lossy(tree, live, x, par) /\ Cardinality(live) = _num_nodes - 1

(* The nodes deleted before x is at hand: those smaller than x that are not *)
(* above it, and at the end of a right subtree all that is below x.        *)
Gone(L, sub) ==
  {m \in L : m < x /\ x \notin sub[m]} \cup (IF pc = "climb" THEN sub[x] \ {x} ELSE {})
Deleting ==
  /\ pc \in {"clear", "climb"} /\ par = Null
  /\ \E L, sub : /\ WellFormed(tree, L, sub)
                 /\ \/ x = Null /\ pc = "clear" /\ live = {}
                    \/ x \in L /\ live = L \ Gone(L, sub)

CountersTyped ==
  /\ {_cached_min_node, _cached_max_node} \subseteq Keys \cup {Null}
  /\ _num_nodes \in 0 .. Cardinality(Keys)

IInv == CountersTyped /\ (AtRest \/ Inserting \/ Removing \/ Deleting)

(* The ends of the whole tree. *)
LEMMA EndsAre ==
  ASSUME NEW t, NEW L, NEW sub, WellFormed(t, L, sub)
  PROVE  /\ IsMinOf(Outermost(t, "l", t.root), L) /\ IsMaxOf(Outermost(t, "r", t.root), L)
         /\ Outermost(t, "l", t.root) \in Keys \cup {Null}
         /\ Outermost(t, "r", t.root) \in Keys \cup {Null}
<1>1. /\ t.root \in L \cup {Null} /\ sub[t.root] = L /\ sub[Null] = {} /\ L \subseteq Keys
      /\ "l" \in Sides /\ "r" \in Sides /\ \A n \in Keys : n \in Int
  <2>1. sub[t.root] = L /\ sub[Null] = {}
    BY DEF WellFormed, Ordered
  <2>2. QED
    BY <2>1, LinksTyped, KeysAre DEF Sides
<1>2. CASE t.root = Null
  BY <1>1, <1>2 DEF Outermost, IsMinOf, IsMaxOf
<1>3. CASE t.root # Null
  <2>1. PICK e, g : e = Outermost(t, "l", t.root) /\ g = Outermost(t, "r", t.root)
    OBVIOUS
  <2>2. EndOf(t, sub, "l", t.root, e) /\ EndOf(t, sub, "r", t.root, g)
    BY <1>1, <1>3, <2>1, OutermostIs
  <2>3. e \in L /\ \A m \in L : m = e \/ e < m
    BY <1>1, <2>2 DEF EndOf, Before
  <2>4. g \in L /\ \A m \in L : m = g \/ m < g
    BY <1>1, <2>2 DEF EndOf, Before
  <2>5. IsMinOf(e, L) /\ IsMaxOf(g, L)
    BY <1>1, <2>3, <2>4 DEF IsMinOf, IsMaxOf
  <2>6. QED
    BY <1>1, <2>1, <2>3, <2>4, <2>5
<1>4. QED
  BY <1>2, <1>3

LEMMA FiniteNodes ==
  ASSUME NEW L, L \subseteq Keys
  PROVE  /\ IsFiniteSet(L) /\ Cardinality(L) \in Nat /\ Cardinality(Keys) \in Nat
         /\ Cardinality(L) <= Cardinality(Keys)
BY KeysAre, FS_Subset, FS_CardinalityType

(* The tails of _insert and _remove. *)
LEMMA RestReached ==
  ASSUME Sound(tree', live'), NEW count, UpdateCaches(tree', count),
         count = Cardinality(live'), pc' = "idle", x' = Null, par' = Null
  PROVE  IInv'
<1>1. PICK t, L : t = tree' /\ L = live'
  OBVIOUS
<1>2. PICK sub, h : WellFormed(t, L, sub) /\ Settled(t, L, h)
  BY <1>1 DEF Sound
<1>3. L \subseteq Keys
  BY <1>2, LinksTyped
<1>4. IsMinOf(_cached_min_node', L) /\ IsMaxOf(_cached_max_node', L)
      /\ _cached_min_node' \in Keys \cup {Null} /\ _cached_max_node' \in Keys \cup {Null}
      /\ _num_nodes' = count
  BY <1>1, <1>2, EndsAre DEF UpdateCaches
<1>5. _num_nodes' \in 0 .. Cardinality(Keys)
  BY <1>1, <1>3, <1>4, FiniteNodes
<1>6. CountersTyped'
  BY <1>4, <1>5 DEF CountersTyped
<1>7. CachesExact'
  BY <1>1, <1>4 DEF CachesExact
<1>8. AtRest'
  BY <1>7 DEF AtRest
<1>9. QED
  BY <1>6, <1>8 DEF IInv

LEMMA EmptySound == Sound(EmptyTree, {}) /\ EmptyTree \in Tree
<1>1. /\ EmptyTree \in Tree /\ EmptyTree.root = Null
      /\ \A a \in Keys : EmptyTree.p[a] = Null /\ \A s \in Sides : EmptyTree.kid[s][a] = Null
  BY DEF EmptyTree, Tree
<1>2. PICK v : v = [a \in Keys \cup {Null} |-> IF a = Null THEN {} ELSE {a}]
  BY Zenon
<1>3. v \in Labels /\ v[Null] = {} /\ \A a \in Keys : v[a] = {a}
  BY <1>2, KeysAre DEF Labels
<1>4. WellFormed(EmptyTree, {}, v)
  BY <1>1, <1>3 DEF WellFormed, Joined, Ordered
<1>5. PICK h : h = [a \in Keys \cup {Null} |-> 0]
  OBVIOUS
<1>6. h \in Heights /\ h[Null] = 0
  BY <1>5 DEF Heights
<1>7. Level(EmptyTree, {}, h, Null, "l") /\ Apart(EmptyTree, {}, Null, Null)
  BY <1>1, <1>6 DEF Level, Apart, IsRed
<1>8. QED
  BY <1>1, <1>4, <1>7 DEF Sound, Settled

LEMMA InitIInv == Init => IInv
<1> SUFFICES ASSUME Init PROVE IInv
  OBVIOUS
<1>1. Sound(tree, live)
  BY EmptySound DEF Init
<1>2. Cardinality({}) = 0 /\ 0 \in 0 .. Cardinality(Keys)
  BY FS_EmptySet, FiniteNodes
<1>3. CachesExact
  BY <1>2 DEF Init, CachesExact, IsMinOf, IsMaxOf
<1>4. QED
  BY <1>1, <1>2, <1>3 DEF Init, IInv, AtRest, CountersTyped

(* Insertions. *)
LEMMA InsertRootStep == ASSUME IInv, NEW k \in Keys, InsertRoot(k) PROVE IInv'
<1>1. /\ pc = "idle" /\ tree.root = Null /\ live' = live \cup {k}
      /\ tree' = [tree EXCEPT !.root = k, !.color[k] = "black"]
      /\ UpdateCaches(tree', _num_nodes + 1) /\ pc' = pc /\ x' = x /\ par' = par
  BY DEF InsertRoot
<1>2. AtRest
  BY <1>1 DEF IInv, Inserting, Removing, Deleting
<1>3. PICK sub, h : WellFormed(tree, live, sub) /\ Settled(tree, live, h)
  BY <1>2 DEF AtRest, Sound
<1>4. PICK r : r = tree'
  OBVIOUS
<1>5. live = {} /\ Sound(r, {k})
  BY ONLY <1>1, <1>3, <1>4, InsertRootKeeps, k \in Keys, Zenon
<1>6. Cardinality({k}) = 1 /\ _num_nodes = 0
  BY <1>2, <1>5, FS_Singleton, FS_EmptySet DEF AtRest, CachesExact
<1>7. live' = {k} /\ _num_nodes + 1 = Cardinality(live') /\ Sound(tree', live')
  BY <1>1, <1>4, <1>5, <1>6
<1>8. pc' = "idle" /\ x' = Null /\ par' = Null
  BY <1>1, <1>2 DEF AtRest
<1>9. QED
  BY ONLY <1>1, <1>7, <1>8, RestReached

LEMMA InsertLeafStep == ASSUME IInv, NEW k \in Keys, InsertLeaf(k) PROVE IInv'
<1>1. PICK q, s : q = SlotParent(tree, k) /\ s = SideFor(k, q)
  OBVIOUS
<1>2. /\ pc = "idle" /\ tree.root # Null /\ Get(tree, k) = Null
      /\ live' = live \cup {k}
      /\ tree' = [tree EXCEPT !.kid[s][q] = k, !.p[k] = q, !.color[k] = "red"]
      /\ pc' = "insert" /\ x' = k /\ par' = par
      /\ caches' = caches
  BY <1>1 DEF InsertLeaf
<1>3. AtRest
  BY <1>2 DEF IInv, Inserting, Removing, Deleting
<1>4. PICK sub, h : WellFormed(tree, live, sub) /\ Settled(tree, live, h)
  BY <1>3 DEF AtRest, Sound
<1>5. PICK r : r = tree'
  OBVIOUS
<1>6. k \notin live /\ Rising(r, live \cup {k}, k)
  BY ONLY <1>1, <1>2, <1>4, <1>5, InsertLeafKeeps, k \in Keys, Zenon
<1>7. Cardinality(live \cup {k}) = _num_nodes + 1
  <2>1. live \subseteq Keys /\ _num_nodes = Cardinality(live)
    BY <1>3, <1>4, LinksTyped DEF AtRest, CachesExact
  <2>2. QED
    BY <1>6, <2>1, FiniteNodes, FS_AddElement
<1>8. CountersTyped'
  BY <1>2 DEF IInv, CountersTyped, caches
<1>9. Inserting'
  BY <1>2, <1>3, <1>5, <1>6, <1>7 DEF Inserting, AtRest, caches
<1>10. QED
  BY <1>8, <1>9 DEF IInv

LEMMA InsertFixUpStep == ASSUME IInv, InsertFixUp PROVE IInv'
<1>1. PICK p, gp : p = tree.p[x] /\ gp = tree.p[p]
  OBVIOUS
<1>2. PICK s : s = SideOf(tree, p)
  OBVIOUS
<1>3. PICK u : u = tree.kid[Opposite(s)][gp]
  OBVIOUS
<1>4. /\ pc = "insert" /\ RedParent /\ (Recolor(p, gp, u) \/ RotateUp(s, gp, u))
      /\ x' = gp /\ live' = live /\ caches' = caches /\ pc' = pc /\ par' = par
  BY <1>1, <1>2, <1>3 DEF InsertFixUp
<1>5. Inserting
  BY <1>4 DEF IInv, AtRest, Removing, Deleting
<1>6. PICK sub, h : WellFormed(tree, live, sub) /\ Growing(tree, live, h, x)
  BY <1>5 DEF Inserting, Rising
<1>7. Rising(tree', live, gp)
  BY ONLY <1>1, <1>2, <1>3, <1>4, <1>6, InsertFixUpKeeps
<1>8. CountersTyped'
  BY <1>4 DEF IInv, CountersTyped, caches
<1>9. Inserting'
  BY <1>4, <1>5, <1>7 DEF Inserting, caches
<1>10. QED
  BY <1>8, <1>9 DEF IInv

LEMMA InsertDoneStep == ASSUME IInv, InsertDone PROVE IInv'
<1>1. /\ pc = "insert" /\ ~RedParent /\ tree' = Paint(tree, tree.root, "black")
      /\ UpdateCaches(tree', _num_nodes + 1)
      /\ pc' = "idle" /\ x' = Null /\ par' = Null /\ live' = live
  BY DEF InsertDone, Return
<1>2. Inserting
  BY <1>1 DEF IInv, AtRest, Removing, Deleting
<1>3. PICK sub, h : WellFormed(tree, live, sub) /\ Growing(tree, live, h, x)
  BY <1>2 DEF Inserting, Rising
<1>4. PICK r : r = tree'
  OBVIOUS
<1>5. Painted(tree, r, tree.root, "black")
  <2>1. tree \in Tree /\ tree.root \in Keys \cup {Null}
    BY <1>3, LinksTyped
  <2>2. QED
    BY <1>1, <1>4, <2>1, PaintIs
<1>6. \E e : Settled(r, live, e)
  <2>1. ~(tree.p[x] # Null /\ IsRed(tree, tree.p[x]))
    BY <1>1 DEF RedParent
  <2>2. QED
    BY ONLY <1>3, <1>5, <2>1, InsertDoneKeeps
<1>7. WellFormed(r, live, sub)
  BY <1>3, <1>5, PaintKeeps DEF Painted, SameLinks
<1>8. Sound(tree', live')
  BY <1>1, <1>4, <1>6, <1>7 DEF Sound
<1>9. _num_nodes + 1 = Cardinality(live')
  BY <1>1, <1>2 DEF Inserting
<1>10. QED
  BY ONLY <1>1, <1>8, <1>9, RestReached

(* Removals. *)
LEMMA RemoveStep == ASSUME IInv, NEW n \in Keys, Remove(n) PROVE IInv'
<1>1. PICK cut : cut = IF tree.kid["l"][n] # Null /\ tree.kid["r"][n] # Null
                       THEN MoveSuccessor(n) ELSE SpliceOut(n)
  OBVIOUS
<1>2. /\ pc = "idle" /\ n \in live /\ live' = live \ {n} /\ tree' = Forget(cut.t, n)
      /\ \/ /\ cut.lost
            /\ pc' = "remove" /\ x' = cut.x /\ par' = cut.par /\ caches' = caches
         \/ /\ ~cut.lost
            /\ UpdateCaches(tree', _num_nodes - 1)
            /\ pc' = pc /\ x' = x /\ par' = par
  BY <1>1 DEF Remove
<1>3. AtRest
  BY <1>2 DEF IInv, Inserting, Removing, Deleting
<1>4. PICK sub, h : WellFormed(tree, live, sub) /\ Settled(tree, live, h)
  BY <1>3 DEF AtRest, Sound
<1>5. PICK r : r = Forget(cut.t, n)
  OBVIOUS
<1>6. /\ cut.lost => Lossy(r, live \ {n}, cut.x, cut.par)
      /\ ~cut.lost => Sound(r, live \ {n})
  <2>1. CASE tree.kid["l"][n] # Null /\ tree.kid["r"][n] # Null
    <3>1. cut = MoveSuccessor(n)
      BY <1>1, <2>1
    <3>2. QED
      BY ONLY <1>2, <1>4, <1>5, <2>1, <3>1, MoveSuccessorKeeps
  <2>2. CASE tree.kid["l"][n] = Null \/ tree.kid["r"][n] = Null
    <3>1. cut = SpliceOut(n)
      BY <1>1, <2>2
    <3>2. QED
      BY ONLY <1>2, <1>4, <1>5, <2>2, <3>1, SpliceOutKeeps
  <2>3. QED
    BY <2>1, <2>2
<1>7. Cardinality(live \ {n}) = _num_nodes - 1
  <2>1. live \subseteq Keys /\ _num_nodes = Cardinality(live)
    BY <1>3, <1>4, LinksTyped DEF AtRest, CachesExact
  <2>2. QED
    BY <1>2, <2>1, FiniteNodes, FS_RemoveElement
<1>8. CASE cut.lost
  <2>1. /\ pc' = "remove" /\ x' = cut.x /\ par' = cut.par /\ caches' = caches
    BY <1>2, <1>8
  <2>2. CountersTyped'
    BY <2>1 DEF IInv, CountersTyped, caches
  <2>3. Removing'
    BY <1>2, <1>5, <1>6, <1>7, <1>8, <2>1 DEF Removing, caches
  <2>4. QED
    BY <2>2, <2>3 DEF IInv
<1>9. CASE ~cut.lost
  <2>1. UpdateCaches(tree', _num_nodes - 1) /\ pc' = "idle" /\ x' = Null /\ par' = Null
    BY <1>2, <1>3, <1>9 DEF AtRest
  <2>2. Sound(tree', live') /\ _num_nodes - 1 = Cardinality(live')
    BY <1>2, <1>5, <1>6, <1>7, <1>9
  <2>3. QED
    BY ONLY <2>1, <2>2, RestReached
<1>10. QED
  BY <1>8, <1>9

LEMMA RemoveFixUpStep == ASSUME IInv, RemoveFixUp PROVE IInv'
<1>1. PICK s : s = IF x = tree.kid["l"][par] THEN "l" ELSE "r"
  OBVIOUS
<1>2. PICK t : t = BlackSibling(s)
  OBVIOUS
<1>3. PICK w : w = t.kid[Opposite(s)][par]
  BY Zenon
<1>4. pc = "remove" /\ Short /\ (PushUp(s, t, w) \/ Repair(s, t, w))
  BY <1>1, <1>2, <1>3 DEF RemoveFixUp
<1>5. Removing
  BY <1>4 DEF IInv, AtRest, Inserting, Deleting
<1>6. PICK sub, h : WellFormed(tree, live, sub) /\ Owing(tree, live, h, x, par)
  BY <1>5 DEF Removing, Lossy
<1>7. Lacking(tree, live, h, x, par, s)
  <2>1. x # tree.root /\ IsBlack(tree, x)
    BY <1>4 DEF Short
  <2>2. QED
    BY ONLY <1>1, <1>6, <2>1, OwingLacks
<1>8. PICK v, g : /\ WellFormed(t, live, v) /\ Lacking(t, live, g, x, par, s)
                  /\ IsBlack(t, t.kid[Opposite(s)][par])
  BY ONLY <1>2, <1>6, <1>7, BlackSiblingIs
<1>9. IsBlack(t, w)
  BY <1>3, <1>8
<1>10. PICK r : r = tree'
  OBVIOUS
<1>11. CASE PushUp(s, t, w)
  <2>1. /\ IsBlack(t, t.kid["l"][w]) /\ IsBlack(t, t.kid["r"][w]) /\ r = Paint(t, w, "red")
        /\ x' = par /\ par' = t.p[par] /\ live' = live /\ caches' = caches /\ pc' = pc
    BY <1>10, <1>11 DEF PushUp
  <2>2. \A e \in Sides : IsBlack(t, t.kid[e][w])
    BY <2>1 DEF Sides
  <2>3. w \in Keys /\ t \in Tree
    BY <1>3, <1>8, LackingIs, LinksTyped
  <2>4. Painted(t, r, w, "red")
    BY <2>1, <2>3, PaintIs
  <2>5. Owing(r, live, Lowered(g, par, w), par, r.p[par])
    BY ONLY <1>3, <1>8, <1>9, <2>2, <2>4, PushUpKeeps
  <2>6. WellFormed(r, live, v) /\ r.p[par] = t.p[par]
    BY <1>8, <2>4, PaintKeeps DEF Painted, SameLinks
  <2>7. Lossy(tree', live', x', par')
    BY <1>10, <2>1, <2>5, <2>6 DEF Lossy
  <2>8. CountersTyped'
    BY <2>1 DEF IInv, CountersTyped, caches
  <2>9. Removing'
    BY <1>5, <2>1, <2>7 DEF Removing, caches
  <2>10. QED
    BY <2>8, <2>9 DEF IInv
<1>12. CASE Repair(s, t, w)
  <2>1. /\ IsRed(t, t.kid["l"][w]) \/ IsRed(t, t.kid["r"][w])
        /\ r = Paint(Repaired(s, t, w), x, "black")
        /\ UpdateCaches(tree', _num_nodes - 1)
        /\ pc' = "idle" /\ x' = Null /\ par' = Null /\ live' = live
    BY <1>10, <1>12 DEF Repair, Return
  <2>2. \E a, b : WellFormed(r, live, a) /\ Settled(r, live, b)
    BY ONLY <1>3, <1>8, <1>9, <2>1, RepairKeeps
  <2>3. Sound(tree', live')
    BY <1>10, <2>1, <2>2 DEF Sound
  <2>4. _num_nodes - 1 = Cardinality(live')
    BY <1>5, <2>1 DEF Removing
  <2>5. QED
    BY ONLY <2>1, <2>3, <2>4, RestReached
<1>13. QED
  BY <1>4, <1>11, <1>12

LEMMA RemoveDoneStep == ASSUME IInv, RemoveDone PROVE IInv'
<1>1. /\ pc = "remove" /\ ~Short /\ tree' = Paint(tree, x, "black")
      /\ UpdateCaches(tree', _num_nodes - 1)
      /\ pc' = "idle" /\ x' = Null /\ par' = Null /\ live' = live
  BY DEF RemoveDone, Return
<1>2. Removing
  BY <1>1 DEF IInv, AtRest, Inserting, Deleting
<1>3. PICK sub, h : WellFormed(tree, live, sub) /\ Owing(tree, live, h, x, par)
  BY <1>2 DEF Removing, Lossy
<1>4. PICK r : r = tree'
  OBVIOUS
<1>5. Painted(tree, r, x, "black")
  <2>1. tree \in Tree /\ x \in Keys \cup {Null}
    BY <1>3, LinksTyped DEF Owing
  <2>2. QED
    BY <1>1, <1>4, <2>1, PaintIs
<1>6. \E e : Settled(r, live, e)
  <2>1. x = tree.root \/ IsRed(tree, x)
    BY <1>1 DEF Short, IsBlack
  <2>2. QED
    BY ONLY <1>3, <1>5, <2>1, RemoveDoneKeeps
<1>7. WellFormed(r, live, sub)
  BY <1>3, <1>5, PaintKeeps DEF Painted, SameLinks
<1>8. Sound(tree', live')
  BY <1>1, <1>4, <1>6, <1>7 DEF Sound
<1>9. _num_nodes - 1 = Cardinality(live')
  BY <1>1, <1>2 DEF Removing
<1>10. QED
  BY ONLY <1>1, <1>8, <1>9, RestReached

(* Deletion of the whole tree. *)
LEMMA ClearBeginStep == ASSUME IInv, ClearBegin PROVE IInv'
<1>1. /\ pc = "idle" /\ tree' = tree /\ live' = live
      /\ \/ /\ tree.root # Null
            /\ pc' = "clear" /\ x' = Outermost(tree, "l", tree.root)
            /\ caches' = caches /\ par' = par
         \/ /\ tree.root = Null
            /\ _cached_min_node' = Null /\ _cached_max_node' = Null
            /\ _num_nodes' = _num_nodes /\ pc' = pc /\ x' = x /\ par' = par
  BY DEF ClearBegin
<1>2. AtRest
  BY <1>1 DEF IInv, Inserting, Removing, Deleting
<1>3. PICK sub, h : WellFormed(tree, live, sub) /\ Settled(tree, live, h)
  BY <1>2 DEF AtRest, Sound
<1>4. /\ tree.root \in live \cup {Null} /\ sub[tree.root] = live /\ sub[Null] = {} /\ live \subseteq Keys
      /\ \A m \in Keys : m \in Int
  <2>1. sub[tree.root] = live /\ sub[Null] = {}
    BY <1>3 DEF WellFormed, Ordered
  <2>2. QED
    BY <1>3, <2>1, LinksTyped, KeysAre
<1>5. CASE tree.root # Null
  <2>1. PICK e : e = Outermost(tree, "l", tree.root)
    OBVIOUS
  <2>2. pc' = "clear" /\ x' = e /\ caches' = caches /\ par' = par
    BY <1>1, <1>5, <2>1
  <2>3. EndOf(tree, sub, "l", tree.root, e)
    BY <1>3, <1>4, <1>5, <2>1, OutermostIs DEF Sides
  <2>4. e \in live /\ \A m \in live : m = e \/ e < m
    BY <1>4, <2>3 DEF EndOf, Before
  <2>5. Gone(live, sub)' = {m \in live : m < e /\ e \notin sub[m]}
    BY <1>1, <1>3, <2>2 DEF Gone
  <2>6. \A m \in live : ~(m < e)
    BY <1>4, <2>4
  <2>7. live' = live \ {m \in live : m < e /\ e \notin sub[m]}
    BY <1>1, <2>6
  <2>8. Deleting'
    <3>1. PICK L, v : L = live /\ v = sub
      OBVIOUS
    <3>2. Gone(L, v)' = {m \in live : m < e /\ e \notin sub[m]}
      BY <2>2, <3>1 DEF Gone
    <3>3. WellFormed(tree, L, v)' /\ x' \in L /\ live' = L \ Gone(L, v)'
      BY <1>1, <1>3, <2>2, <2>4, <2>7, <3>1, <3>2
    <3>4. QED
      BY <1>2, <2>2, <3>3 DEF Deleting, AtRest
  <2>9. CountersTyped'
    BY <2>2 DEF IInv, CountersTyped, caches
  <2>10. QED
    BY <2>8, <2>9 DEF IInv
<1>6. CASE tree.root = Null
  <2>1. /\ _cached_min_node' = Null /\ _cached_max_node' = Null
        /\ _num_nodes' = _num_nodes /\ pc' = pc /\ x' = x /\ par' = par
    BY <1>1, <1>6
  <2>2. live = {} /\ _num_nodes = Cardinality(live)
    BY <1>2, <1>4, <1>6 DEF AtRest, CachesExact
  <2>3. CachesExact'
    BY <1>1, <2>1, <2>2 DEF CachesExact, IsMinOf, IsMaxOf
  <2>4. AtRest'
    BY <1>1, <1>2, <2>1, <2>3 DEF AtRest
  <2>5. CountersTyped'
    BY <2>1 DEF IInv, CountersTyped
  <2>6. QED
    BY <2>4, <2>5 DEF IInv
<1>7. QED
  BY <1>5, <1>6

(* The nodes deleted because they come before z. *)
Passed(L, sub, z) == {m \in L : m < z /\ z \notin sub[m]}

(* To a node outside a node's subtree all of the subtree is alike. *)
LEMMA OutsideIs ==
  ASSUME NEW t, NEW L, NEW sub, WellFormed(t, L, sub), NEW a \in L, NEW z \in sub[a],
         NEW m \in L, m \notin sub[a]
  PROVE  m < a <=> m < z
BY Contiguous DEF Sides, Before

(* _delete_node_tree goes down to the least node of the right subtree. *)
LEMMA DescentIs ==
  ASSUME NEW t, NEW L, NEW sub, WellFormed(t, L, sub), NEW n \in L, t.kid["r"][n] # Null,
         NEW y, y = Outermost(t, "l", t.kid["r"][n])
  PROVE  y \in L /\ Passed(L, sub, y) = Passed(L, sub, n)
<1>1. PICK c : c = t.kid["r"][n]
  OBVIOUS
<1>2. "l" \in Sides /\ "r" \in Sides
  BY DEF Sides
<1>3. c \in L /\ c \in sub[n] /\ sub[c] \subseteq sub[n] /\ n \notin sub[c]
  BY <1>1, <1>2, KidBelow
<1>4. /\ L \subseteq Keys /\ sub[n] \subseteq L /\ n \in sub[n] /\ \A m \in L : m \in Int /\ m \in sub[m]
      /\ sub[c] = {m \in sub[n] : n < m}
      /\ sub[t.kid["l"][n]] = {m \in sub[n] : m < n}
  BY <1>1, <1>2, KeysAre DEF WellFormed, Joined, Ordered, Before
<1>5. EndOf(t, sub, "l", c, y)
  BY <1>1, <1>2, <1>3, OutermostIs
<1>6. y \in sub[c] /\ y \in sub[n] /\ y \in L /\ n < y /\ \A m \in sub[c] : m = y \/ y < m
  BY <1>3, <1>4, <1>5 DEF EndOf, Before
<1>7. ASSUME NEW m \in L, m \in sub[n]
      PROVE  (m < y /\ y \notin sub[m]) <=> (m < n /\ n \notin sub[m])
  <2>1. m \in Int /\ n \in Int /\ y \in Int
    BY <1>4, <1>6
  <2>2. CASE m = n
    BY <1>6, <2>1, <2>2
  <2>3. CASE n < m
    BY <1>4, <1>6, <1>7, <2>1, <2>3
  <2>4. CASE m < n
    <3>1. n \notin sub[m]
      BY <1>7, <2>1, <2>4, SubBelow
    <3>2. m \in sub[t.kid["l"][n]]
      BY <1>4, <1>7, <2>4
    <3>3. t.kid["l"][n] \in L
      <4>1. t.kid["l"][n] # Null
        BY <3>2 DEF WellFormed, Ordered
      <4>2. QED
        BY <1>2, <4>1, KidBelow
    <3>4. sub[m] \subseteq sub[t.kid["l"][n]]
      BY <3>2, <3>3, SubBelow
    <3>5. \A z \in sub[m] : z < n
      BY <1>4, <3>4
    <3>6. ~(y < n)
      BY <1>6, <2>1
    <3>7. QED
      BY <1>6, <2>1, <2>4, <3>1, <3>5, <3>6
  <2>5. QED
    BY <2>1, <2>2, <2>3, <2>4
<1>8. ASSUME NEW m \in L, m \notin sub[n]
      PROVE  (m < y /\ y \notin sub[m]) <=> (m < n /\ n \notin sub[m])
  <2>1. m < n <=> m < y
    BY <1>6, <1>8, OutsideIs
  <2>2. n \in sub[m] => y \in sub[m]
    BY <1>6, SubBelow
  <2>3. ASSUME m < n, n \notin sub[m], y \in sub[m] PROVE FALSE
    <3>1. n < m <=> n < y
      BY <2>3, OutsideIs
    <3>2. m \in Int /\ n \in Int
      BY <1>4
    <3>3. QED
      BY <1>6, <2>3, <3>1, <3>2
  <2>4. QED
    BY <2>1, <2>2, <2>3
<1>9. QED
  BY <1>6, <1>7, <1>8 DEF Passed

(* After the last node of a subtree comes the node above it. *)
LEMMA AscentIs ==
  ASSUME NEW t, NEW L, NEW sub, WellFormed(t, L, sub), NEW a \in L, NEW s \in Sides,
         NEW n \in L, t.kid[s][a] = n
  PROVE  Passed(L, sub, n) \cup sub[n]
           = Passed(L, sub, a) \cup (IF s = "r" THEN sub[a] \ {a} ELSE {})
<1>1. /\ L \subseteq Keys /\ sub[a] \subseteq L /\ a \in sub[a]
      /\ sub[n] = {m \in sub[a] : Before(s, m, a)}
      /\ n \in sub[n] /\ a \in Int /\ n \in Int /\ n # Null /\ \A m \in L : m \in Int
      /\ s = "l" \/ s = "r"
  BY KeysAre DEF WellFormed, Joined, Ordered, Sides
<1>2. n \in sub[a] /\ a \notin sub[n] /\ t.p[n] = a /\ sub[n] \subseteq sub[a]
  BY <1>1, KidBelow
<1>3. ASSUME NEW m \in L, m \notin sub[a]
      PROVE  /\ (m < n /\ n \notin sub[m]) <=> (m < a /\ a \notin sub[m])
             /\ m \notin sub[n]
  <2>1. m < a <=> m < n
    BY <1>2, <1>3, OutsideIs
  <2>2. a \in sub[m] => n \in sub[m]
    BY <1>2, SubBelow
  <2>3. ASSUME n \in sub[m] PROVE a \in sub[m]
    <3>1. n # m
      BY <1>2, <1>3
    <3>2. QED
      BY <1>2, <2>3, <3>1, ParentBelow
  <2>4. QED
    BY <1>2, <1>3, <2>1, <2>2, <2>3
<1>4. ASSUME NEW m \in L, m \in sub[a], m # a
      PROVE  a \notin sub[m] /\ (m \notin sub[n] => n \notin sub[m])
  <2>1. a \notin sub[m]
    BY <1>4, SubBelow
  <2>2. ASSUME n \in sub[m], m \notin sub[n] PROVE FALSE
    <3>1. n # m
      BY <1>1, <2>2
    <3>2. QED
      BY <1>2, <2>1, <2>2, <3>1, ParentBelow
  <2>3. QED
    BY <2>1, <2>2
<1>5. CASE s = "l"
  <2>1. sub[n] = {m \in sub[a] : m < a} /\ n < a
    BY <1>1, <1>5 DEF Before
  <2>2. ASSUME NEW m \in L
        PROVE  ((m < n /\ n \notin sub[m]) \/ m \in sub[n]) <=> (m < a /\ a \notin sub[m])
    <3>1. CASE m \notin sub[a]
      BY <1>3, <3>1
    <3>2. CASE m = a
      BY <1>1, <1>2, <2>1, <3>2
    <3>3. CASE m \in sub[a] /\ m # a
      BY <1>1, <1>4, <2>1, <3>3
    <3>4. QED
      BY <3>1, <3>2, <3>3
  <2>3. sub[n] \subseteq L
    BY <1>1, <1>2
  <2>4. QED
    BY <1>5, <2>2, <2>3 DEF Passed
<1>6. CASE s = "r"
  <2>1. sub[n] = {m \in sub[a] : a < m} /\ a < n
    BY <1>1, <1>6 DEF Before
  <2>2. ASSUME NEW m \in L
        PROVE  ((m < n /\ n \notin sub[m]) \/ m \in sub[n])
                 <=> ((m < a /\ a \notin sub[m]) \/ (m \in sub[a] /\ m # a))
    <3>1. CASE m \notin sub[a]
      BY <1>3, <3>1
    <3>2. CASE m = a
      BY <1>1, <1>2, <2>1, <3>2
    <3>3. CASE m \in sub[a] /\ m # a
      BY <1>1, <1>4, <2>1, <3>3
    <3>4. QED
      BY <3>1, <3>2, <3>3
  <2>3. sub[n] \subseteq L
    BY <1>1, <1>2
  <2>4. QED
    BY <1>1, <1>6, <2>2, <2>3 DEF Passed
<1>7. QED
  BY <1>1, <1>5, <1>6

(* When the node at hand is deleted, so is all below it. *)
LEMMA DeletedIs ==
  ASSUME NEW L, NEW sub, WellFormed(tree, L, sub), x \in L, pc \in {"clear", "climb"},
         pc = "clear" => tree.kid["r"][x] = Null
  PROVE  Gone(L, sub) \cup {x} = Passed(L, sub, x) \cup sub[x]
<1>1. /\ sub[x] \subseteq L /\ x \in sub[x] /\ \A m \in L : m \in Int
      /\ sub[tree.kid["r"][x]] = {m \in sub[x] : x < m}
      /\ sub[Null] = {}
  BY KeysAre DEF WellFormed, Joined, Ordered, Before, Sides
<1>2. CASE pc = "climb"
  BY <1>1, <1>2 DEF Gone, Passed
<1>3. CASE pc = "clear"
  <2>1. \A m \in sub[x] : m = x \/ m < x
    BY <1>1, <1>3
  <2>2. \A m \in sub[x] : m # x => x \notin sub[m]
    BY SubBelow
  <2>3. Gone(L, sub) = Passed(L, sub, x)
    BY <1>3 DEF Gone, Passed
  <2>4. QED
    BY <1>1, <2>1, <2>2, <2>3 DEF Passed
<1>4. QED
  BY <1>2, <1>3

LEMMA ClearDescendStep == ASSUME IInv, ClearDescend PROVE IInv'
<1>1. PICK y : y = Outermost(tree, "l", tree.kid["r"][x])
  OBVIOUS
<1>2. /\ pc = "clear" /\ x # Null /\ tree.kid["r"][x] # Null /\ x' = y
      /\ tree' = tree /\ live' = live /\ caches' = caches /\ pc' = pc /\ par' = par
  BY <1>1 DEF ClearDescend
<1>3. Deleting
  BY <1>2 DEF IInv, AtRest, Inserting, Removing
<1>4. PICK L, sub : WellFormed(tree, L, sub) /\ x \in L /\ live = L \ Gone(L, sub)
  BY <1>2, <1>3 DEF Deleting
<1>5. y \in L /\ Passed(L, sub, y) = Passed(L, sub, x)
  BY ONLY <1>1, <1>2, <1>4, DescentIs
<1>6. Gone(L, sub) = Passed(L, sub, x) /\ Gone(L, sub)' = Passed(L, sub, y)
  BY <1>2 DEF Gone, Passed
<1>7. WellFormed(tree, L, sub)' /\ x' \in L /\ live' = L \ Gone(L, sub)'
  BY <1>2, <1>4, <1>5, <1>6
<1>8. Deleting'
  BY <1>2, <1>3, <1>7 DEF Deleting
<1>9. CountersTyped'
  BY <1>2 DEF IInv, CountersTyped, caches
<1>10. QED
  BY <1>8, <1>9 DEF IInv

LEMMA ClearDeleteStep == ASSUME IInv, ClearDelete PROVE IInv'
<1>1. /\ pc \in {"clear", "climb"} /\ x # Null /\ (pc = "clear" => tree.kid["r"][x] = Null)
      /\ live' = live \ {x} /\ x' = tree.p[x]
      /\ pc' = IF tree.p[x] # Null /\ x = tree.kid["r"][tree.p[x]] THEN "climb" ELSE "clear"
      /\ tree' = tree /\ caches' = caches /\ par' = par
  BY DEF ClearDelete
<1>2. Deleting
  BY <1>1 DEF IInv, AtRest, Inserting, Removing
<1>3. PICK L, sub : WellFormed(tree, L, sub) /\ x \in L /\ live = L \ Gone(L, sub)
  BY <1>1, <1>2 DEF Deleting
<1>4. live' = L \ (Passed(L, sub, x) \cup sub[x])
  <2>1. Gone(L, sub) \cup {x} = Passed(L, sub, x) \cup sub[x]
    BY ONLY <1>1, <1>3, DeletedIs
  <2>2. QED
    BY <1>1, <1>3, <2>1
<1>5. CountersTyped'
  BY <1>1 DEF IInv, CountersTyped, caches
<1>6. /\ tree.root \in L \cup {Null} /\ (tree.root # Null => tree.p[tree.root] = Null)
      /\ sub[tree.root] = L /\ L \subseteq Keys /\ Null \notin Keys
  BY <1>3, LinksTyped DEF WellFormed, Ordered
<1>7. CASE x = tree.root
  <2>1. tree.p[x] = Null /\ sub[x] = L
    BY <1>1, <1>6, <1>7
  <2>2. x' = Null /\ pc' = "clear" /\ live' = {}
    BY <1>1, <1>4, <2>1
  <2>3. Deleting'
    BY <1>1, <1>2, <1>3, <2>2 DEF Deleting
  <2>4. QED
    BY <1>5, <2>3 DEF IInv
<1>8. CASE x # tree.root
  <2>1. PICK a \in L, s \in Sides : tree.p[x] = a /\ tree.kid[s][a] = x
    BY <1>3, <1>8, ParentIs
  <2>2. Passed(L, sub, x) \cup sub[x]
           = Passed(L, sub, a) \cup (IF s = "r" THEN sub[a] \ {a} ELSE {})
    BY ONLY <1>3, <2>1, AscentIs
  <2>3. a # Null
    BY <1>6, <2>1
  <2>4. x = tree.kid["r"][a] <=> s = "r"
    <3>1. s = "l" => Opposite(s) = "r"
      BY DEF Opposite
    <3>2. tree.kid[Opposite(s)][a] # x
      BY <1>1, <1>3, <2>1, SideIs
    <3>3. QED
      BY <2>1, <3>1, <3>2 DEF Sides
  <2>5. x' = a /\ pc' = IF s = "r" THEN "climb" ELSE "clear"
    BY <1>1, <2>1, <2>3, <2>4
  <2>6. Gone(L, sub)' = Passed(L, sub, a) \cup (IF s = "r" THEN sub[a] \ {a} ELSE {})
    BY <2>5 DEF Gone, Passed
  <2>7. WellFormed(tree, L, sub)' /\ x' \in L /\ live' = L \ Gone(L, sub)'
    BY <1>1, <1>3, <1>4, <2>1, <2>2, <2>5, <2>6
  <2>8. pc' \in {"clear", "climb"} /\ par' = Null
    BY <1>1, <1>2, <2>5 DEF Deleting
  <2>9. Deleting'
    BY <2>7, <2>8 DEF Deleting
  <2>10. QED
    BY <1>5, <2>9 DEF IInv
<1>9. QED
  BY <1>7, <1>8

LEMMA ClearDoneStep == ASSUME IInv, ClearDone PROVE IInv'
<1>1. /\ pc = "clear" /\ x = Null /\ tree' = EmptyTree
      /\ _cached_min_node' = Null /\ _cached_max_node' = Null /\ _num_nodes' = 0
      /\ pc' = "idle" /\ x' = Null /\ par' = Null /\ live' = live
  BY DEF ClearDone, Return
<1>2. Deleting
  BY <1>1 DEF IInv, AtRest, Inserting, Removing
<1>3. live = {}
  <2>1. PICK L, sub : WellFormed(tree, L, sub) /\ (live = {} \/ x \in L)
    BY <1>2 DEF Deleting
  <2>2. x \notin L
    BY <1>1, <2>1, LinksTyped
  <2>3. QED
    BY <2>1, <2>2
<1>4. Sound(tree', live')
  BY <1>1, <1>3, EmptySound
<1>5. Cardinality({}) = 0 /\ 0 \in 0 .. Cardinality(Keys)
  BY FS_EmptySet, FiniteNodes
<1>6. CachesExact'
  BY <1>1, <1>3, <1>5 DEF CachesExact, IsMinOf, IsMaxOf
<1>7. AtRest'
  BY <1>1, <1>4, <1>6 DEF AtRest
<1>8. CountersTyped'
  BY <1>1, <1>5 DEF CountersTyped
<1>9. QED
  BY <1>7, <1>8 DEF IInv

(* What IInv reads. *)
LEMMA IInvSame ==
  ASSUME IInv, tree' = tree, live' = live, caches' = caches, x' = x, par' = par,
         pc' = pc \/ (pc = "idle" /\ pc' = "aborted")
  PROVE  IInv'
<1>1. CountersTyped'
  BY DEF IInv, CountersTyped, caches
<1>2. CASE pc' = pc
  <2>1. AtRest => AtRest'
    BY <1>2 DEF AtRest, CachesExact, caches
  <2>2. Inserting => Inserting'
    BY <1>2 DEF Inserting, caches
  <2>3. Removing => Removing'
    BY <1>2 DEF Removing, caches
  <2>4. Deleting => Deleting'
    BY <1>2 DEF Deleting, Gone
  <2>5. QED
    BY <1>1, <2>1, <2>2, <2>3, <2>4 DEF IInv
<1>3. CASE pc = "idle" /\ pc' = "aborted"
  <2>1. AtRest
    BY <1>3 DEF IInv, Inserting, Removing, Deleting
  <2>2. CachesExact'
    BY <2>1 DEF AtRest, CachesExact, caches
  <2>3. AtRest'
    BY <1>3, <2>1, <2>2 DEF AtRest
  <2>4. QED
    BY <1>1, <2>3 DEF IInv
<1>4. QED
  BY <1>2, <1>3

LEMMA NextIInv == IInv /\ [Next]_vars => IInv'
<1> SUFFICES ASSUME IInv, [Next]_vars PROVE IInv'
  OBVIOUS
<1>1. ASSUME NEW k \in Keys, InsertNothing(k) PROVE IInv'
  <2>1. /\ tree' = tree /\ live' = live /\ caches' = caches /\ x' = x /\ par' = par /\ pc' = pc
    BY <1>1 DEF InsertNothing
  <2>2. QED
    BY <2>1, IInvSame
<1>2. ASSUME NEW k \in Keys, InsertNodePresent(k) PROVE IInv'
  <2>1. /\ tree' = tree /\ live' = live /\ caches' = caches /\ x' = x /\ par' = par
        /\ pc = "idle" /\ pc' = "aborted"
    BY <1>2 DEF InsertNodePresent
  <2>2. QED
    BY <2>1, IInvSame
<1>3. ASSUME NEW k \in Keys, InsertRoot(k) \/ InsertLeaf(k) \/ Remove(k) PROVE IInv'
  BY <1>3, InsertRootStep, InsertLeafStep, RemoveStep
<1>4. ASSUME ClearBegin \/ Loop PROVE IInv'
  BY <1>4, ClearBeginStep, InsertFixUpStep, InsertDoneStep, RemoveFixUpStep, RemoveDoneStep,
     ClearDescendStep, ClearDeleteStep, ClearDoneStep DEF Loop
<1>5. ASSUME UNCHANGED vars PROVE IInv'
  <2>1. /\ tree' = tree /\ live' = live /\ caches' = caches /\ x' = x /\ par' = par /\ pc' = pc
    BY <1>5 DEF vars
  <2>2. QED
    BY <2>1, IInvSame
<1>6. QED
  BY <1>1, <1>2, <1>3, <1>4, <1>5 DEF Next

LEMMA Inductive == Spec => []IInv
<1>1. IInv /\ [Next]_vars => IInv'
  BY NextIInv
<1>2. QED
  BY InitIInv, <1>1, PTL DEF Spec

-----------------------------------------------------------------------------
(* What the invariant implies. *)

(* Outside a deletion of the whole tree its nodes are the allocated ones. *)
LEMMA Formed ==
  ASSUME IInv, ~Clearing
  PROVE  \E sub : WellFormed(tree, live, sub)
BY DEF IInv, Clearing, AtRest, Inserting, Removing, Deleting, Sound, Rising, Lossy

LEMMA TypeHolds == ASSUME IInv PROVE TypeOK
<1>1. CountersTyped
  BY DEF IInv
<1>2. pc \in {"idle", "insert", "remove", "clear", "climb", "aborted"}
  BY DEF IInv, AtRest, Inserting, Removing, Deleting
<1>3. CASE ~Clearing
  <2>1. PICK sub : WellFormed(tree, live, sub)
    BY <1>3, Formed
  <2>2. tree \in Tree /\ live \subseteq Keys
    BY <2>1, LinksTyped
  <2>3. x \in live \cup {Null} /\ par \in live \cup {Null}
    BY <1>3 DEF IInv, Clearing, AtRest, Inserting, Removing, Deleting, Rising, Lossy, Growing, Owing
  <2>4. QED
    BY <1>1, <1>2, <2>2, <2>3 DEF TypeOK, CountersTyped
<1>4. CASE Clearing
  <2>1. Deleting
    BY <1>4 DEF IInv, Clearing, AtRest, Inserting, Removing
  <2>2. PICK L, sub : WellFormed(tree, L, sub) /\ live \subseteq L /\ x \in L \cup {Null} /\ par = Null
    BY <2>1 DEF Deleting
  <2>3. tree \in Tree /\ L \subseteq Keys
    BY <2>2, LinksTyped
  <2>4. QED
    BY <1>1, <1>2, <2>2, <2>3 DEF TypeOK, CountersTyped
<1>5. QED
  BY <1>3, <1>4

LEMMA LinksAgreeHolds == ASSUME IInv PROVE LinksAgree
<1> SUFFICES ASSUME ~Clearing
             PROVE  /\ Subtree(tree, tree.root) = live
                    /\ tree.root # Null => tree.p[tree.root] = Null
                    /\ \A n \in live, s \in Sides :
                         tree.kid[s][n] # Null => tree.p[tree.kid[s][n]] = n
  BY DEF LinksAgree
<1>1. PICK sub : WellFormed(tree, live, sub)
  BY Formed
<1>2. /\ tree.root \in live \cup {Null} /\ (tree.root # Null => tree.p[tree.root] = Null)
      /\ \A n \in live, s \in Sides : tree.kid[s][n] # Null => tree.p[tree.kid[s][n]] = n
  BY <1>1, LinksTyped
<1>3. Subtree(tree, tree.root) = sub[tree.root]
  BY <1>1, <1>2, SubtreeIs
<1>4. sub[tree.root] = live
  BY <1>1 DEF WellFormed, Ordered
<1>5. QED
  BY <1>2, <1>3, <1>4

LEMMA SearchOrderHolds == ASSUME IInv PROVE SearchOrder
<1> SUFFICES ASSUME ~Clearing, NEW n \in live
             PROVE  /\ \A m \in Subtree(tree, tree.kid["l"][n]) : m < n
                    /\ \A m \in Subtree(tree, tree.kid["r"][n]) : n < m
  BY DEF SearchOrder
<1>1. PICK sub : WellFormed(tree, live, sub)
  BY Formed
<1>2. "l" \in Sides /\ "r" \in Sides
  BY DEF Sides
<1>3. tree.kid["l"][n] \in live \cup {Null} /\ tree.kid["r"][n] \in live \cup {Null}
  BY <1>1, <1>2, LinksTyped
<1>4. /\ Subtree(tree, tree.kid["l"][n]) = sub[tree.kid["l"][n]]
      /\ Subtree(tree, tree.kid["r"][n]) = sub[tree.kid["r"][n]]
  BY <1>1, <1>3, SubtreeIs
<1>5. /\ sub[tree.kid["l"][n]] = {m \in sub[n] : Before("l", m, n)}
      /\ sub[tree.kid["r"][n]] = {m \in sub[n] : Before("r", m, n)}
  BY <1>1, <1>2 DEF WellFormed, Ordered
<1>6. QED
  BY <1>4, <1>5 DEF Before

LEMMA ClearReadsLiveHolds == ASSUME IInv PROVE ClearReadsLive
<1> SUFFICES ASSUME Clearing, x # Null
             PROVE  /\ {x, tree.p[x]} \subseteq live \cup {Null}
                    /\ pc = "clear" => RightSpine(x) \subseteq live
  BY DEF ClearReadsLive
<1>1. Deleting
  BY DEF IInv, Clearing, AtRest, Inserting, Removing
<1>2. PICK L, sub : WellFormed(tree, L, sub) /\ x \in L /\ live = L \ Gone(L, sub)
  BY <1>1 DEF Deleting
<1>3. /\ L \subseteq Keys /\ sub[x] \subseteq L /\ x \in sub[x] /\ \A m \in L : m \in Int
      /\ (tree.root # Null => tree.p[tree.root] = Null)
  BY <1>2, KeysAre DEF WellFormed, Joined, Ordered
<1>4. x \in live
  BY <1>2, <1>3 DEF Gone
<1>5. tree.p[x] \in live \cup {Null}
  <2>1. CASE x = tree.root
    BY <1>3, <2>1
  <2>2. CASE x # tree.root
    <3>1. PICK a \in L, s \in Sides : tree.p[x] = a /\ tree.kid[s][a] = x
      BY <1>2, <2>2, ParentIs
    <3>2. x \in sub[a] /\ a \notin sub[x]
      BY <1>2, <3>1, KidBelow
    <3>3. a \notin Gone(L, sub)
      BY <3>2 DEF Gone
    <3>4. QED
      BY <1>2, <3>1, <3>3
  <2>3. QED
    BY <2>1, <2>2
<1>6. ASSUME pc = "clear" PROVE RightSpine(x) \subseteq live
  <2>1. RightSpine(x) \subseteq {m \in sub[x] : x < m}
    BY <1>2, RightSpineIs
  <2>2. \A m \in sub[x] : x < m => m \notin Gone(L, sub)
    BY <1>3, <1>6 DEF Gone
  <2>3. QED
    BY <1>2, <1>3, <2>1, <2>2
<1>7. QED
  BY <1>4, <1>5, <1>6

(* The counters and links have their types, the links up and down agree,   *)
(* the tree is a search tree of the allocated nodes in every state of      *)
(* every loop, and a deletion of the whole tree reads no node it deleted.  *)
(* For every set of keys and every sequence of calls.                      *)
THEOREM ShapeKept == Spec => []TreeShape
<1>1. IInv => TreeShape
  BY TypeHolds, LinksAgreeHolds, SearchOrderHolds, ClearReadsLiveHolds DEF TreeShape
<1>2. QED
  BY Inductive, <1>1, PTL

LEMMA NearestEnds ==
  ASSUME NEW S, S \subseteq Keys, NEW n \in Keys, NEW e
  PROVE  /\ Nearest(S, "r", n, e) => IsMinOf(e, {m \in S : m > n})
         /\ Nearest(S, "l", n, e) => IsMaxOf(e, {m \in S : m < n})
<1>1. \A m \in S : m \in Int
  BY KeysAre
<1>2. n \in Int
  BY KeysAre
<1>3. ASSUME Nearest(S, "r", n, e) PROVE IsMinOf(e, {m \in S : m > n})
  <2>1. CASE e = Null /\ \A m \in S : ~Before("r", m, n)
    BY <1>1, <1>2, <2>1 DEF Before, IsMinOf
  <2>2. CASE e \in S /\ Before("r", e, n) /\ \A m \in S : Before("r", m, n) => m = e \/ Before("r", m, e)
    BY <1>1, <1>2, <2>2 DEF Before, IsMinOf
  <2>3. QED
    BY <1>3, <2>1, <2>2 DEF Nearest
<1>4. ASSUME Nearest(S, "l", n, e) PROVE IsMaxOf(e, {m \in S : m < n})
  <2>1. CASE e = Null /\ \A m \in S : ~Before("l", m, n)
    BY <1>1, <1>2, <2>1 DEF Before, IsMaxOf
  <2>2. CASE e \in S /\ Before("l", e, n) /\ \A m \in S : Before("l", m, n) => m = e \/ Before("l", m, e)
    BY <1>1, <1>2, <2>2 DEF Before, IsMaxOf
  <2>3. QED
    BY <1>4, <2>1, <2>2 DEF Nearest
<1>5. QED
  BY <1>3, <1>4

LEMMA QueriesHold == ASSUME IInv PROVE QueriesExact
<1> SUFFICES ASSUME pc = "idle"
             PROVE  /\ CachesExact
                    /\ \A k \in Keys :
                         /\ IsMaxOf(GetMaxLteq(tree, k), {n \in live : n <= k})
                         /\ Get(tree, k) = IF k \in live THEN k ELSE Null
                    /\ \A n \in live : /\ IsMinOf(Step(tree, "r", n), {m \in live : m > n})
                                       /\ IsMaxOf(Step(tree, "l", n), {m \in live : m < n})
  BY DEF QueriesExact
<1>1. AtRest
  BY DEF IInv, Inserting, Removing, Deleting
<1>2. PICK sub : WellFormed(tree, live, sub)
  BY <1>1 DEF AtRest, Sound
<1>3. \A k \in Keys : /\ IsMaxOf(GetMaxLteq(tree, k), {n \in live : n <= k})
                      /\ Get(tree, k) = IF k \in live THEN k ELSE Null
  BY <1>2, GetMaxLteqIs, GetIs
<1>4. live \subseteq Keys /\ "l" \in Sides /\ "r" \in Sides
  BY <1>2, LinksTyped DEF Sides
<1>5. ASSUME NEW n \in live
      PROVE  /\ IsMinOf(Step(tree, "r", n), {m \in live : m > n})
             /\ IsMaxOf(Step(tree, "l", n), {m \in live : m < n})
  <2>1. Nearest(live, "r", n, Step(tree, "r", n)) /\ Nearest(live, "l", n, Step(tree, "l", n))
    BY <1>2, <1>4, StepIs
  <2>2. n \in Keys
    BY <1>4
  <2>3. PICK a, b : a = Step(tree, "r", n) /\ b = Step(tree, "l", n)
    OBVIOUS
  <2>4. IsMinOf(a, {m \in live : m > n}) /\ IsMaxOf(b, {m \in live : m < n})
    BY <1>4, <2>1, <2>2, <2>3, NearestEnds
  <2>5. QED
    BY <2>3, <2>4
<1>6. QED
  BY <1>1, <1>3, <1>5 DEF AtRest

(* Between calls the cached ends and the size are the tree's, and get,     *)
(* get_max_lteq and both iterators' steps find what a search of the set of *)
(* keys would, in every tree that calls build.                             *)
THEOREM QueriesRight == Spec => []QueriesExact
<1>1. IInv => QueriesExact
  BY QueriesHold
<1>2. QED
  BY Inductive, <1>1, PTL

-----------------------------------------------------------------------------
(* The tree is an ordered set. *)

LEMMA LinkedIs ==
  ASSUME NEW t, NEW L, NEW sub, WellFormed(t, L, sub)
  PROVE  {n \in Keys : \/ t.root = n
                       \/ /\ t.p[n] # Null
                          /\ \E s \in Sides : t.kid[s][t.p[n]] = n} = L
<1>1. /\ L \subseteq Keys /\ Null \notin Keys /\ t \in Tree /\ t.root \in L \cup {Null}
      /\ \A a \in L, s \in Sides : t.kid[s][a] \in L \cup {Null}
      /\ \A n \in Keys \ L : t.p[n] = Null
  BY KeysAre DEF WellFormed, Joined
<1>2. ASSUME NEW n \in L
      PROVE  t.root = n \/ (t.p[n] # Null /\ \E s \in Sides : t.kid[s][t.p[n]] = n)
  BY <1>1, ParentIs
<1>3. ASSUME NEW n \in Keys, t.root = n \/ t.p[n] # Null PROVE n \in L
  BY <1>1, <1>3
<1>4. QED
  BY <1>1, <1>2, <1>3

(* What a client sees. *)
Shown == IF Clearing THEN {} ELSE Linked

LEMMA ShownIs == IInv => Shown = IF Clearing THEN {} ELSE live
<1> SUFFICES ASSUME IInv, ~Clearing PROVE Linked = live
  BY DEF Shown
<1>1. PICK sub : WellFormed(tree, live, sub)
  BY Formed
<1>2. QED
  BY <1>1, LinkedIs DEF Linked

(* The same of the next state. *)
LEMMA ShownNext == IInv' => Shown' = IF Clearing' THEN {} ELSE live'
<1> SUFFICES ASSUME IInv', ~Clearing' PROVE Linked' = live'
  BY DEF Shown
<1>1. PICK t, L : t = tree' /\ L = live'
  OBVIOUS
<1>2. PICK sub : WellFormed(t, L, sub)
  BY <1>1 DEF IInv, Clearing, AtRest, Inserting, Removing, Deleting, Sound, Rising, Lossy
<1>3. QED
  BY <1>1, <1>2, LinkedIs DEF Linked

LEMMA InitSet == Init => Shown = {} /\ call = NoCall
<1> SUFFICES ASSUME Init PROVE Shown = {} /\ call = NoCall
  OBVIOUS
<1>1. live = {} /\ call = NoCall /\ ~Clearing
  BY DEF Init, Clearing
<1>2. QED
  BY <1>1, InitIInv, ShownIs

LEMMA NextSet ==
  IInv /\ IInv' /\ [Next]_vars => [Set!Next]_<<Shown, call>>
<1> SUFFICES ASSUME IInv, IInv', [Next]_vars PROVE [Set!Next]_<<Shown, call>>
  OBVIOUS
<1>1. /\ Shown = IF Clearing THEN {} ELSE live
      /\ Shown' = IF Clearing' THEN {} ELSE live'
  BY ShownIs, ShownNext
<1>2. ASSUME NEW k \in Keys, call' = <<"insert", k>>, Shown' \in {Shown, Shown \cup {k}}
      PROVE  Set!Next
  BY <1>2 DEF Set!Next, Set!Insert, Shown
<1>3. ASSUME NEW k \in Keys, InsertNothing(k) \/ InsertNodePresent(k) \/ InsertRoot(k) \/ InsertLeaf(k)
      PROVE  Set!Next
  <2>1. /\ pc = "idle" /\ pc' \in {"idle", "insert", "aborted"} /\ call' = <<"insert", k>>
        /\ live' = live \/ live' = live \cup {k}
    BY <1>3 DEF InsertNothing, InsertNodePresent, InsertRoot, InsertLeaf
  <2>2. ~Clearing /\ ~Clearing'
    BY <2>1 DEF Clearing
  <2>3. QED
    BY <1>1, <1>2, <2>1, <2>2
<1>4. ASSUME NEW n \in Keys, Remove(n) PROVE Set!Next
  <2>1. /\ pc = "idle" /\ pc' \in {"idle", "remove"} /\ call' = <<"remove", n>>
        /\ n \in live /\ live' = live \ {n}
    BY <1>4 DEF Remove
  <2>2. n \in Shown /\ Shown' = Shown \ {n}
    BY <1>1, <2>1 DEF Clearing
  <2>3. QED
    BY <2>1, <2>2 DEF Set!Next, Set!Remove, Shown
<1>5. CASE ClearBegin
  <2>1. /\ pc = "idle" /\ call' = <<"clear">> /\ live' = live
        /\ pc' = "clear" \/ (pc' = "idle" /\ tree.root = Null)
    BY <1>5 DEF ClearBegin
  <2>2. ASSUME tree.root = Null PROVE live = {}
    <3>1. ~Clearing
      BY <2>1 DEF Clearing
    <3>2. PICK sub : WellFormed(tree, live, sub)
      BY <3>1, Formed
    <3>3. sub[tree.root] = live /\ sub[Null] = {}
      BY <3>2 DEF WellFormed, Ordered
    <3>4. QED
      BY <2>2, <3>3
  <2>3. Shown' = {}
    BY <1>1, <2>1, <2>2 DEF Clearing
  <2>4. QED
    BY <2>1, <2>3 DEF Set!Next, Set!Clear, Shown
<1>6. ASSUME live' = live, call' = call, Clearing' <=> Clearing
      PROVE  UNCHANGED <<Shown, call>>
  BY <1>1, <1>6
<1>7. CASE InsertFixUp \/ InsertDone \/ RemoveFixUp \/ RemoveDone
  <2>1. /\ live' = live /\ call' = call
        /\ pc \in {"insert", "remove"} /\ pc' \in {"idle", "insert", "remove"}
    BY <1>7, Zenon DEF InsertFixUp, InsertDone, RemoveFixUp, RemoveDone, PushUp, Repair, Return
  <2>2. QED
    BY ONLY <1>6, <2>1 DEF Clearing
<1>8. CASE ClearDescend \/ ClearDelete
  <2>1. call' = call /\ Clearing /\ Clearing'
    BY <1>8 DEF ClearDescend, ClearDelete, Clearing
  <2>2. QED
    BY <1>1, <2>1
<1>9. CASE ClearDone
  <2>1. /\ pc = "clear" /\ x = Null /\ live' = live /\ call' = call /\ pc' = "idle"
    BY <1>9 DEF ClearDone, Return
  <2>2. Deleting
    BY <2>1 DEF IInv, AtRest, Inserting, Removing
  <2>3. PICK L, sub : WellFormed(tree, L, sub) /\ (live = {} \/ x \in L)
    BY <2>2 DEF Deleting
  <2>4. live = {}
    BY <2>1, <2>3, LinksTyped
  <2>5. QED
    BY <1>1, <2>1, <2>4 DEF Clearing
<1>10. CASE UNCHANGED vars
  <2>1. live' = live /\ call' = call /\ pc' = pc
    BY <1>10 DEF vars
  <2>2. QED
    BY <1>6, <2>1 DEF Clearing
<1>11. QED
  BY <1>3, <1>4, <1>5, <1>7, <1>8, <1>9, <1>10 DEF Next, Loop

(* The tree implements an ordered set: each call makes exactly the change  *)
(* it asks for, and no iteration of the loops that restore the balance or  *)
(* that delete the tree shows.                                             *)
THEOREM ImplementsSet == Spec => SetSpec
<1>1. Init => Set!Init
  BY InitSet DEF Set!Init, Shown
<1>2. IInv /\ IInv' /\ [Next]_vars => [Set!Next]_<<IF Clearing THEN {} ELSE Linked, call>>
  BY NextSet DEF Shown
<1>3. QED
  BY <1>1, <1>2, Inductive, PTL DEF Spec, SetSpec, Set!Spec

-----------------------------------------------------------------------------
(* The balance, as the ways down measure it. *)

Extra(m, r) == IF pc = "remove" /\ m = x /\ r = par THEN 1 ELSE 0

(* From each node of L all ways down, with the debt, are as long. *)
Even(L, bh) ==
  /\ bh \in Heights /\ bh[Null] = 0
  /\ \A n \in L, s \in Sides :
       bh[n] = bh[tree.kid[s][n]] + Own(tree, n) + Extra(tree.kid[s][n], n)

LEMMA OneMore ==
  ASSUME NEW c \in Nat, NEW d \in Nat
  PROVE  {c + b : b \in {d} \cup {d}} = {c + d}
OBVIOUS

LEMMA HeightsAre ==
  ASSUME NEW L, NEW sub, WellFormed(tree, L, sub), NEW bh, Even(L, bh),
         NEW node \in L \cup {Null}, NEW q \in Keys \cup {Null}
  PROVE  BlackHeights(node, q) = {bh[node] + Extra(node, q)}
<1> DEFINE D == (Keys \cup {Null}) \X (Keys \cup {Null})
           Below(g, n) == g[<<tree.kid["l"][n], n>>] \cup g[<<tree.kid["r"][n], n>>]
           Eq(g) == [e \in D |-> IF e[1] = Null THEN {Extra(e[1], e[2])}
                                 ELSE {Own(tree, e[1]) + Extra(e[1], e[2]) + b :
                                         b \in Below(g, e[1])}]
           h == CHOOSE g : g = Eq(g)
           Bad == {n \in L : \E r \in Keys \cup {Null} : h[<<n, r>>] # {bh[n] + Extra(n, r)}}
<1>1. /\ L \subseteq Keys /\ Null \notin Keys /\ bh \in Heights /\ bh[Null] = 0
      /\ \A n \in L, s \in Sides : tree.kid[s][n] \in L \cup {Null}
      /\ \A n \in Keys \ L, s \in Sides : tree.kid[s][n] = Null
      /\ "l" \in Sides /\ "r" \in Sides
  BY KeysAre DEF WellFormed, Joined, Sides, Even
<1>2. \A m, r : Own(tree, m) \in Nat /\ Extra(m, r) \in Nat
  BY DEF Own, Extra
<1>3. \A n \in L, s \in Sides :
        bh[n] = bh[tree.kid[s][n]] + Own(tree, n) + Extra(tree.kid[s][n], n)
  BY DEF Even
<1>4. ASSUME NEW a \in L \cup {Null} PROVE bh[a] \in Nat
  BY <1>1 DEF Heights
<1>5. ASSUME NEW n \in L
      PROVE  \E d \in Nat : /\ bh[n] = Own(tree, n) + d
                            /\ d = bh[tree.kid["l"][n]] + Extra(tree.kid["l"][n], n)
                            /\ d = bh[tree.kid["r"][n]] + Extra(tree.kid["r"][n], n)
  <2>1. PICK a, b : a = tree.kid["l"][n] /\ b = tree.kid["r"][n]
    OBVIOUS
  <2>2. bh[n] = bh[a] + Own(tree, n) + Extra(a, n) /\ bh[n] = bh[b] + Own(tree, n) + Extra(b, n)
    BY <1>1, <1>3, <2>1
  <2>3. a \in L \cup {Null} /\ b \in L \cup {Null}
    BY <1>1, <2>1
  <2>4. bh[a] \in Nat /\ bh[b] \in Nat /\ bh[n] \in Nat
    BY <1>4, <2>3
  <2>5. Own(tree, n) \in Nat /\ Extra(a, n) \in Nat /\ Extra(b, n) \in Nat
    BY <1>2
  <2>6. PICK d : d = bh[a] + Extra(a, n)
    OBVIOUS
  <2>7. d \in Nat /\ bh[n] = Own(tree, n) + d /\ d = bh[b] + Extra(b, n)
    BY ONLY <2>2, <2>4, <2>5, <2>6
  <2>8. QED
    BY <2>1, <2>6, <2>7
<1>6. h = Eq(h)
  <2>1. PICK b2 : b2 = [m \in Keys \cup {Null} |->
                          IF m \in L \cup {Null} THEN bh[m] ELSE Own(tree, m) + Extra(Null, m)]
    OBVIOUS
  <2>2. PICK g : g = [e \in D |-> {b2[e[1]] + Extra(e[1], e[2])}]
    OBVIOUS
  <2>3. \A m, r \in Keys \cup {Null} : g[<<m, r>>] = {b2[m] + Extra(m, r)}
    BY <2>2
  <2>4. b2[Null] = 0 /\ \A n \in L : b2[n] = bh[n]
    BY <1>1, <2>1
  <2>5. ASSUME NEW n \in Keys, NEW r \in Keys \cup {Null}
        PROVE  g[<<n, r>>] = {Own(tree, n) + Extra(n, r) + b : b \in Below(g, n)}
    <3>1. CASE n \in L
      <4>1. PICK d \in Nat : /\ bh[n] = Own(tree, n) + d
                             /\ d = bh[tree.kid["l"][n]] + Extra(tree.kid["l"][n], n)
                             /\ d = bh[tree.kid["r"][n]] + Extra(tree.kid["r"][n], n)
        BY <1>5, <3>1
      <4>2. PICK a, c : a = tree.kid["l"][n] /\ c = tree.kid["r"][n]
        BY Zenon
      <4>3. a \in L \cup {Null} /\ c \in L \cup {Null}
        BY <1>1, <3>1, <4>2
      <4>4. b2[a] = bh[a] /\ b2[c] = bh[c] /\ b2[n] = bh[n]
        BY <1>1, <2>4, <3>1, <4>3
      <4>5. g[<<a, n>>] = {d} /\ g[<<c, n>>] = {d} /\ g[<<n, r>>] = {bh[n] + Extra(n, r)}
        <5>1. /\ b2[a] + Extra(a, n) = d /\ b2[c] + Extra(c, n) = d
              /\ b2[n] + Extra(n, r) = bh[n] + Extra(n, r)
          BY ONLY <4>1, <4>2, <4>4
        <5>2. /\ g[<<a, n>>] = {b2[a] + Extra(a, n)} /\ g[<<c, n>>] = {b2[c] + Extra(c, n)}
              /\ g[<<n, r>>] = {b2[n] + Extra(n, r)}
          BY ONLY <1>1, <2>3, <4>3, n \in Keys, r \in Keys \cup {Null}
        <5>3. QED
          BY <5>1, <5>2, Zenon
      <4>6. Below(g, n) = {d} \cup {d}
        BY <4>2, <4>5
      <4>7. PICK o, k : o = Own(tree, n) /\ k = Extra(n, r)
        OBVIOUS
      <4>8. o \in Nat /\ k \in Nat /\ o + k \in Nat
        BY <1>2, <4>7
      <4>9. {o + k + b : b \in {d} \cup {d}} = {o + k + d}
        BY <4>8, OneMore
      <4>10. bh[n] + k = o + k + d
        BY <4>1, <4>7, <4>8
      <4>11. QED
        BY <4>5, <4>6, <4>7, <4>9, <4>10
    <3>2. CASE n \notin L
      <4>1. tree.kid["l"][n] = Null /\ tree.kid["r"][n] = Null
        BY <1>1, <3>2
      <4>2. g[<<Null, n>>] = {b2[Null] + Extra(Null, n)}
        BY <2>3
      <4>3. PICK o, k, d : o = Own(tree, n) /\ k = Extra(n, r) /\ d = Extra(Null, n)
        OBVIOUS
      <4>4. o \in Nat /\ k \in Nat /\ d \in Nat /\ o + k \in Nat
        BY <1>2, <4>3
      <4>5. Below(g, n) = {d} \cup {d}
        BY <2>4, <4>1, <4>2, <4>3, <4>4
      <4>6. {o + k + b : b \in {d} \cup {d}} = {o + k + d}
        BY <4>4, OneMore
      <4>7. b2[n] = o + d
        BY <1>1, <2>1, <3>2, <4>3
      <4>8. g[<<n, r>>] = {b2[n] + k} /\ b2[n] + k = o + k + d
        BY <2>3, <4>3, <4>4, <4>7
      <4>9. QED
        BY <4>3, <4>5, <4>6, <4>8
    <3>3. QED
      BY <3>1, <3>2
  <2>6. ASSUME NEW r \in Keys \cup {Null} PROVE g[<<Null, r>>] = {Extra(Null, r)}
    BY <1>2, <2>3, <2>4
  <2>7. g = Eq(g)
    <3>1. g = [e \in D |-> g[e]]
      BY <2>2
    <3>2. ASSUME NEW e \in D
          PROVE  g[e] = IF e[1] = Null THEN {Extra(e[1], e[2])}
                        ELSE {Own(tree, e[1]) + Extra(e[1], e[2]) + b : b \in Below(g, e[1])}
      <4>1. PICK n, r \in Keys \cup {Null} : e = <<n, r>>
        OBVIOUS
      <4>2. e[1] = n /\ e[2] = r
        BY <4>1
      <4>3. CASE n = Null
        BY <2>6, <4>1, <4>2, <4>3
      <4>4. CASE n # Null
        <5>1. n \in Keys
          BY <4>1, <4>4
        <5>2. g[<<n, r>>] = {Own(tree, n) + Extra(n, r) + b : b \in Below(g, n)}
          BY <2>5, <4>1, <5>1
        <5> HIDE DEF Below
        <5>3. QED
          BY <4>1, <4>2, <4>4, <5>2
      <4>5. QED
        BY <4>3, <4>4
    <3> HIDE DEF Below
    <3>3. QED
      BY <3>1, <3>2
  <2>8. QED
    BY <2>7, Zenon
<1>7. BlackHeights(node, q) = h[<<node, q>>]
  BY DEF BlackHeights, Extra, Own
<1> HIDE DEF h
<1>8. \A r \in Keys \cup {Null} : h[<<Null, r>>] = {Extra(Null, r)}
  BY <1>6
<1>9. ASSUME NEW n \in Keys, NEW r \in Keys \cup {Null}
      PROVE  h[<<n, r>>] = {Own(tree, n) + Extra(n, r) + b : b \in Below(h, n)}
  <2> HIDE DEF Below
  <2>1. PICK e : e = <<n, r>>
    OBVIOUS
  <2>2. n # Null /\ e \in D /\ e[1] = n /\ e[2] = r
    BY <1>1, <2>1
  <2>3. h[e] = IF e[1] = Null THEN {Extra(e[1], e[2])}
               ELSE {Own(tree, e[1]) + Extra(e[1], e[2]) + b : b \in Below(h, e[1])}
    BY <1>6, <2>2, Zenon
  <2>4. h[e] = {Own(tree, n) + Extra(n, r) + b : b \in Below(h, n)}
    BY <2>2, <2>3
  <2>5. QED
    BY <2>1, <2>4
<1>10. Bad = {}
  <2>1. SUFFICES ASSUME Bad # {} PROVE FALSE
    OBVIOUS
  <2>2. PICK n \in Bad : \A d \in Sides : tree.kid[d][n] \notin Bad
    <3>1. Bad \subseteq L
      OBVIOUS
    <3> HIDE DEF Bad
    <3>2. QED
      BY <2>1, <3>1, LeastBad
  <2>3. PICK r \in Keys \cup {Null} : h[<<n, r>>] # {bh[n] + Extra(n, r)}
    OBVIOUS
  <2>4. n \in L /\ n \in Keys
    BY <1>1
  <2>5. PICK d \in Nat : /\ bh[n] = Own(tree, n) + d
                         /\ d = bh[tree.kid["l"][n]] + Extra(tree.kid["l"][n], n)
                         /\ d = bh[tree.kid["r"][n]] + Extra(tree.kid["r"][n], n)
    BY <1>5, <2>4
  <2>6. ASSUME NEW s \in Sides
        PROVE  h[<<tree.kid[s][n], n>>] = {bh[tree.kid[s][n]] + Extra(tree.kid[s][n], n)}
    <3>1. PICK c : c = tree.kid[s][n]
      OBVIOUS
    <3>2. c \in L \cup {Null} /\ c \notin Bad
      BY <1>1, <2>2, <2>4, <3>1
    <3>3. CASE c = Null
      BY <1>1, <1>2, <1>8, <2>4, <3>1, <3>3
    <3>4. CASE c # Null
      BY <2>4, <3>1, <3>2, <3>4
    <3>5. QED
      BY <3>3, <3>4
  <2>7. h[<<tree.kid["l"][n], n>>] = {d} /\ h[<<tree.kid["r"][n], n>>] = {d}
    BY <1>1, <2>5, <2>6
  <2>8. Below(h, n) = {d} \cup {d}
    BY <2>7
  <2>9. PICK o, k : o = Own(tree, n) /\ k = Extra(n, r)
    OBVIOUS
  <2>10. o \in Nat /\ k \in Nat /\ o + k \in Nat
    BY <1>2, <2>9
  <2>11. {o + k + b : b \in {d} \cup {d}} = {o + k + d}
    BY <2>10, OneMore
  <2>12. h[<<n, r>>] = {o + k + d}
    BY <1>9, <2>4, <2>8, <2>9, <2>11
  <2>13. bh[n] + k = o + k + d
    BY <2>5, <2>9, <2>10
  <2>14. QED
    BY <2>3, <2>9, <2>12, <2>13
<1>11. CASE node = Null
  BY <1>1, <1>2, <1>7, <1>8, <1>11
<1>12. CASE node # Null
  BY <1>7, <1>10, <1>12
<1>13. QED
  BY <1>11, <1>12

(* Without a debt in the tree the labels are even. *)
LEMMA LevelIsEven ==
  ASSUME NEW L, NEW sub, WellFormed(tree, L, sub), NEW bh, Level(tree, L, bh, Null, "l"),
         pc = "remove" => par \notin L
  PROVE  Even(L, bh)
<1>1. /\ bh \in Heights /\ bh[Null] = 0 /\ \A n \in L : LevelAt(tree, bh, Null, "l", n)
  BY DEF Level
<1>2. ASSUME NEW n \in L, NEW s \in Sides
      PROVE  bh[n] = bh[tree.kid[s][n]] + Own(tree, n) + Extra(tree.kid[s][n], n)
  <2>1. n # Null
    BY LinksTyped
  <2>2. Debt(Null, "l", n, s) = 0 /\ Extra(tree.kid[s][n], n) = 0
    BY <2>1 DEF Debt, Extra
  <2>3. QED
    BY <1>1, <2>2 DEF LevelAt
<1>3. QED
  BY <1>1, <1>2 DEF Even

(* The debt of Owing is the one the ways down count. *)
LEMMA OwingIsEven ==
  ASSUME pc = "remove", NEW L, NEW sub, WellFormed(tree, L, sub),
         NEW bh, Owing(tree, L, bh, x, par)
  PROVE  Even(L, bh)
<1>1. CASE x = tree.root /\ par = Null /\ Level(tree, L, bh, Null, "l")
  <2>1. par \notin L
    BY <1>1, LinksTyped
  <2>2. QED
    BY <1>1, <2>1, LevelIsEven
<1>2. CASE x # tree.root /\ par \in L /\ \E e \in Sides : tree.kid[e][par] = x /\ Level(tree, L, bh, par, e)
  <2>1. PICK e \in Sides : tree.kid[e][par] = x /\ Level(tree, L, bh, par, e)
    BY <1>2
  <2>2. bh \in Heights /\ bh[Null] = 0 /\ \A n \in L : LevelAt(tree, bh, par, e, n)
    BY <2>1 DEF Level
  <2>3. ASSUME NEW s \in Sides, s # e PROVE tree.kid[s][par] # x
    <3>1. s = Opposite(e)
      BY <2>3, SidesAre DEF Sides
    <3>2. CASE x = Null
      <4>1. IsBlack(tree, x)
        BY <3>2 DEF IsBlack, IsRed
      <4>2. Apart(tree, L, Null, Null)
        BY <3>2 DEF Owing
      <4>3. Lacking(tree, L, bh, x, par, e)
        BY <1>2, <2>1, <4>1, <4>2 DEF Lacking
      <4>4. QED
        BY <3>1, <4>3, LackingIs
    <3>3. CASE x # Null
      BY <1>2, <2>1, <3>1, <3>3, SideIs
    <3>4. QED
      BY <3>2, <3>3
  <2>4. ASSUME NEW n \in L, NEW s \in Sides
        PROVE  bh[n] = bh[tree.kid[s][n]] + Own(tree, n) + Extra(tree.kid[s][n], n)
    <3>1. Extra(tree.kid[s][n], n) = Debt(par, e, n, s)
      BY <2>1, <2>3 DEF Extra, Debt
    <3>2. bh[n] = bh[tree.kid[s][n]] + Own(tree, n) + Debt(par, e, n, s)
      BY <2>2 DEF LevelAt
    <3>3. QED
      BY <3>1, <3>2
  <2>5. QED
    BY <2>2, <2>4 DEF Even
<1>3. QED
  BY <1>1, <1>2 DEF Owing

(* What Apart says of a node and its parent. *)
LEMMA ApartUp ==
  ASSUME NEW t, NEW L, NEW sub, WellFormed(t, L, sub), NEW u, NEW w, Apart(t, L, u, w),
         NEW n \in L, IsRed(t, n), IsRed(t, t.p[n])
  PROVE  n = w \/ t.p[n] = u
<1>1. t.root # Null => t.p[t.root] = Null
  BY LinksTyped
<1>2. n # t.root
  BY <1>1 DEF IsRed
<1>3. PICK a \in L, s \in Sides : t.p[n] = a /\ t.kid[s][a] = n
  BY <1>2, ParentIs
<1>4. PairsAt(t, u, w, a)
  BY DEF Apart
<1>5. QED
  BY <1>3, <1>4 DEF PairsAt

LEMMA BalanceHolds == ASSUME IInv PROVE Balance
<1> SUFFICES ASSUME ~Clearing
             PROVE  /\ Cardinality(BlackHeights(tree.root, Null)) = 1
                    /\ \A n \in live : IsRed(tree, n) /\ IsRed(tree, tree.p[n]) =>
                                          pc # "idle" /\ x \in {n, tree.p[n]}
                    /\ IsRed(tree, tree.root) => pc # "idle" /\ tree.root = x
  BY DEF Balance
<1>1. ASSUME NEW sub, WellFormed(tree, live, sub), NEW bh, Even(live, bh)
      PROVE  Cardinality(BlackHeights(tree.root, Null)) = 1
  <2>1. tree.root \in live \cup {Null} /\ Null \in Keys \cup {Null}
    BY <1>1, LinksTyped
  <2>2. BlackHeights(tree.root, Null) = {bh[tree.root] + Extra(tree.root, Null)}
    BY <1>1, <2>1, HeightsAre
  <2>3. QED
    BY <2>2, FS_Singleton
<1>2. ASSUME NEW sub, WellFormed(tree, live, sub), Apart(tree, live, Null, Null)
      PROVE  /\ \A n \in live : ~(IsRed(tree, n) /\ IsRed(tree, tree.p[n]))
             /\ ~IsRed(tree, tree.root)
  <2>1. \A n \in live : IsRed(tree, n) /\ IsRed(tree, tree.p[n]) => n = Null \/ tree.p[n] = Null
    BY <1>2, ApartUp
  <2>2. IsRed(tree, tree.root) => tree.root = Null
    BY <1>2 DEF Apart
  <2>3. QED
    BY <2>1, <2>2 DEF IsRed
<1>3. CASE AtRest
  <2>1. PICK sub, h : WellFormed(tree, live, sub) /\ Settled(tree, live, h)
    BY <1>3 DEF AtRest, Sound
  <2>2. Even(live, h)
    BY <1>3, <2>1, LevelIsEven DEF AtRest, Settled
  <2>3. Apart(tree, live, Null, Null)
    BY <2>1 DEF Settled
  <2>4. QED
    BY <1>1, <1>2, <2>1, <2>2, <2>3
<1>4. CASE Inserting
  <2>1. PICK sub, h : WellFormed(tree, live, sub) /\ Growing(tree, live, h, x)
    BY <1>4 DEF Inserting, Rising
  <2>2. Even(live, h)
    BY <1>4, <2>1, LevelIsEven DEF Inserting, Growing
  <2>3. Apart(tree, live, Null, x)
    BY <2>1 DEF Growing
  <2>4. \A n \in live : IsRed(tree, n) /\ IsRed(tree, tree.p[n]) => n = x \/ tree.p[n] = Null
    BY <2>1, <2>3, ApartUp
  <2>5. IsRed(tree, tree.root) => tree.root = x
    BY <2>3 DEF Apart
  <2>6. pc # "idle"
    BY <1>4 DEF Inserting
  <2>7. Cardinality(BlackHeights(tree.root, Null)) = 1
    BY <1>1, <2>1, <2>2
  <2>8. QED
    BY <2>4, <2>5, <2>6, <2>7 DEF IsRed
<1>5. CASE Removing
  <2>1. PICK sub, h : WellFormed(tree, live, sub) /\ Owing(tree, live, h, x, par)
    BY <1>5 DEF Removing, Lossy
  <2>2. Even(live, h)
    BY <1>5, <2>1, OwingIsEven DEF Removing
  <2>3. Apart(tree, live, x, x)
    BY <2>1 DEF Owing
  <2>4. \A n \in live : IsRed(tree, n) /\ IsRed(tree, tree.p[n]) => n = x \/ tree.p[n] = x
    BY <2>1, <2>3, ApartUp
  <2>5. IsRed(tree, tree.root) => tree.root = x
    BY <2>3 DEF Apart
  <2>6. pc # "idle"
    BY <1>5 DEF Removing
  <2>7. Cardinality(BlackHeights(tree.root, Null)) = 1
    BY <1>1, <2>1, <2>2
  <2>8. QED
    BY <2>4, <2>5, <2>6, <2>7
<1>6. QED
  BY <1>3, <1>4, <1>5 DEF IInv, Deleting, Clearing

(* In every state of every loop all ways down the tree have the same       *)
(* number of black nodes, counting the debt of a removal in progress, and  *)
(* of two red nodes in a row one is the node the loop is at.  Between      *)
(* calls it is what _verify demands.                                       *)
THEOREM BalanceKept == Spec => []Balance
<1>1. IInv => Balance
  BY BalanceHolds
<1>2. QED
  BY Inductive, <1>1, PTL
=============================================================================
