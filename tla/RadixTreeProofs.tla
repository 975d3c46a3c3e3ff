-------------------------- MODULE RadixTreeProofs --------------------------
(***************************************************************************)
(* Theorems about RadixTree for every set of keys whose bits               *)
(* count_leading_zero counts rightly (RadixTreeWord): paths spell keys     *)
(* while an insertion grows the tree or gives up, the destructor frees     *)
(* every node and reads none it has freed, the tree is a set of keys,      *)
(* lookups find them, and walks and iterators visit leaves and keys in     *)
(* their order.                                                            *)
(***************************************************************************)
EXTENDS RadixTreeWord, FiniteSetTheorems, WellFoundedInduction, NaturalsInduction, TLAPS

-----------------------------------------------------------------------------
(* Loops are recursive functions.  Two functions that start alike and go   *)
(* on alike are alike: there is no first place where they differ.          *)
LEMMA SmallestOf ==
  ASSUME NEW T, T \subseteq Nat, T # {}
  PROVE  \E x \in T : \A y \in T : x <= y
<1> DEFINE less == {ss \in Nat \X Nat : ss[1] < ss[2]}
<1>1. IsWellFoundedOn(less, Nat)
  <2>1. less = OpToRel(<, Nat)
    BY DEF OpToRel
  <2>2. QED
    BY <2>1, NatLessThanWellFounded
<1>2. \A x, y \in Nat : <<y, x>> \in less <=> y < x
  OBVIOUS
<1> HIDE DEF less
<1>3. PICK x \in T : \A y \in T : ~ (<<y, x>> \in less)
  BY <1>1, WFMin
<1>4. ASSUME NEW y \in T PROVE x <= y
  <2>1. x \in Nat /\ y \in Nat
    OBVIOUS
  <2>2. ~ (y < x)
    BY <1>2, <1>3, <2>1
  <2>3. QED
    BY <2>1, <2>2
<1>5. QED
  BY <1>4

LEMMA Agree ==
  ASSUME NEW n \in Nat, NEW f, NEW g, f[0] = g[0],
         \A m \in 1 .. n : f[m - 1] = g[m - 1] => f[m] = g[m]
  PROVE  \A m \in 0 .. n : f[m] = g[m]
<1> DEFINE T == {m \in 0 .. n : f[m] # g[m]}
<1>1. SUFFICES ASSUME T # {} PROVE FALSE
  OBVIOUS
<1>2. PICK m \in T : \A k \in T : m <= k
  <2>1. T \subseteq Nat
    OBVIOUS
  <2>2. QED
    BY <1>1, <2>1, SmallestOf
<1>3. m \in 0 .. n /\ m # 0 /\ f[m] # g[m]
  BY <1>2
<1>4. m \in 1 .. n /\ m - 1 \in 0 .. n
  BY <1>3
<1>5. m - 1 \notin T
  BY <1>2, <1>4
<1>6. QED
  BY <1>3, <1>4, <1>5

(* Shifts. *)

Halves(k, f, n) == f = [s \in 0 .. n |-> IF s = 0 THEN k ELSE f[s - 1] \div 2]

(* A function that halves exists for every number of steps. *)
LEMMA HalvesExist == ASSUME NEW k \in Nat, NEW n \in Nat PROVE \E f : Halves(k, f, n)
<1> DEFINE T == {m \in Nat : ~ \E f : Halves(k, f, m)}
<1>1. SUFFICES ASSUME T # {} PROVE FALSE
  OBVIOUS
<1>2. PICK m \in T : \A x \in T : m <= x
  <2>1. T \subseteq Nat
    OBVIOUS
  <2>2. QED
    BY <1>1, <2>1, SmallestOf
<1>3. m # 0
  <2>1. Halves(k, [s \in 0 .. 0 |-> k], 0)
    BY DEF Halves
  <2>2. QED
    BY <1>2, <2>1
<1>4. PICK f : Halves(k, f, m - 1)
  <2>1. m - 1 \in Nat /\ ~ (m <= m - 1)
    BY <1>2, <1>3
  <2>2. QED
    BY <1>2, <2>1
<1> DEFINE g == [s \in 0 .. m |-> IF s = m THEN f[m - 1] \div 2 ELSE f[s]]
<1>5. ASSUME NEW s \in 0 .. m
      PROVE  g[s] = IF s = 0 THEN k ELSE g[s - 1] \div 2
  <2>1. CASE s = 0
    BY <1>2, <1>3, <1>4, <2>1 DEF Halves
  <2>2. CASE s # 0
    <3>1. s - 1 \in 0 .. m - 1 /\ s - 1 # m /\ g[s - 1] = f[s - 1]
      BY <1>2, <2>2
    <3>2. CASE s = m
      BY <2>2, <3>1, <3>2
    <3>3. CASE s # m
      <4>1. s \in 0 .. m - 1 /\ g[s] = f[s]
        BY <1>2, <3>3
      <4>2. f[s] = f[s - 1] \div 2
        BY <1>4, <2>2, <4>1 DEF Halves
      <4>3. QED
        BY <2>2, <3>1, <4>1, <4>2
    <3>4. QED
      BY <3>2, <3>3
  <2>3. QED
    BY <2>1, <2>2
<1>6. Halves(k, g, m)
  <2>1. g = [s \in 0 .. m |-> g[s]]
    OBVIOUS
  <2> HIDE DEF g
  <2>2. QED
    BY <1>5, <2>1, Zenon DEF Halves
<1>7. QED
  BY <1>2, <1>6

Half(k, n) == CHOOSE f : Halves(k, f, n)

LEMMA HalfIs ==
  ASSUME NEW k \in Nat, NEW n \in Nat
  PROVE  /\ Shifted(k, n) = Half(k, n)[n]
         /\ Half(k, n)[0] = k
         /\ \A s \in 1 .. n : Half(k, n)[s] = Half(k, n)[s - 1] \div 2
<1>1. Halves(k, Half(k, n), n)
  BY HalvesExist, Zenon DEF Half
<1>2. Shifted(k, n) = Half(k, n)[n]
  BY Zenon DEF Shifted, Half, Halves
<1>3. QED
  BY <1>1, <1>2 DEF Halves

(* The recursion that the rest of the proofs uses. *)
LEMMA ShiftedNext ==
  ASSUME NEW k \in Nat, NEW n \in Nat
  PROVE  Shifted(k, 0) = k /\ Shifted(k, n + 1) = Shifted(k, n) \div 2
<1>1. Shifted(k, 0) = k
  BY HalfIs
<1>2. PICK x : x = Half(k, n)
  OBVIOUS
<1>3. PICK y : y = Half(k, n + 1)
  OBVIOUS
<1>4. /\ x[0] = k /\ \A s \in 1 .. n : x[s] = x[s - 1] \div 2
      /\ Shifted(k, n) = x[n]
  BY <1>2, HalfIs
<1>5. /\ y[0] = k /\ \A s \in 1 .. n + 1 : y[s] = y[s - 1] \div 2
      /\ Shifted(k, n + 1) = y[n + 1]
  BY <1>3, HalfIs
<1>6. PICK m \in Nat : m = n
  OBVIOUS
<1>7. \A s \in 0 .. n : x[s] = y[s]
  <2>1. x[0] = y[0] /\ \A s \in 1 .. m : x[s - 1] = y[s - 1] => x[s] = y[s]
    BY <1>4, <1>5, <1>6
  <2>2. \A s \in 0 .. m : x[s] = y[s]
    BY ONLY m \in Nat, <2>1, Agree, SMTT(60)
  <2>3. QED
    BY <1>6, <2>2
<1>8. y[n + 1] = y[n] \div 2
  BY <1>5
<1>9. QED
  BY <1>1, <1>4, <1>5, <1>7, <1>8

LEMMA ShiftedNat == ASSUME NEW k \in Nat, NEW n \in Nat PROVE Shifted(k, n) \in Nat
<1> DEFINE T == {m \in Nat : Shifted(k, m) \notin Nat}
<1>1. SUFFICES ASSUME T # {} PROVE FALSE
  OBVIOUS
<1>2. PICK m \in T : \A x \in T : m <= x
  <2>1. T \subseteq Nat
    OBVIOUS
  <2>2. QED
    BY <1>1, <2>1, SmallestOf
<1>3. m # 0
  BY <1>2, ShiftedNext
<1>4. m - 1 \in Nat /\ m - 1 \notin T
  BY <1>2, <1>3
<1>5. Shifted(k, m) = Shifted(k, m - 1) \div 2
  <2>1. (m - 1) + 1 = m
    BY <1>2
  <2>2. Shifted(k, (m - 1) + 1) = Shifted(k, m - 1) \div 2
    BY <1>4, ShiftedNext
  <2>3. QED
    BY <2>1, <2>2
<1>6. QED
  BY <1>2, <1>4, <1>5

LEMMA ShiftedTwice ==
  ASSUME NEW k \in Nat, NEW m \in Nat, NEW n \in Nat
  PROVE  Shifted(Shifted(k, m), n) = Shifted(k, m + n)
<1> DEFINE T == {x \in Nat : Shifted(Shifted(k, m), x) # Shifted(k, m + x)}
<1>1. SUFFICES ASSUME T # {} PROVE FALSE
  OBVIOUS
<1>2. PICK x \in T : \A y \in T : x <= y
  <2>1. T \subseteq Nat
    OBVIOUS
  <2>2. QED
    BY <1>1, <2>1, SmallestOf
<1>3. Shifted(k, m) \in Nat
  BY ShiftedNat
<1>4. x # 0
  <2>1. Shifted(Shifted(k, m), 0) = Shifted(k, m) /\ m + 0 = m
    BY <1>3, ShiftedNext
  <2>2. QED
    BY <1>2, <2>1
<1>5. x - 1 \in Nat /\ x - 1 \notin T /\ (x - 1) + 1 = x /\ m + (x - 1) \in Nat
      /\ (m + (x - 1)) + 1 = m + x
  BY <1>2, <1>4
<1>6. Shifted(Shifted(k, m), (x - 1) + 1) = Shifted(Shifted(k, m), x - 1) \div 2
  BY <1>3, <1>5, ShiftedNext
<1>7. Shifted(k, (m + (x - 1)) + 1) = Shifted(k, m + (x - 1)) \div 2
  BY <1>5, ShiftedNext
<1>8. QED
  BY <1>2, <1>5, <1>6, <1>7

(* A shift by one less leaves one bit more. *)
LEMMA ShiftedBit ==
  ASSUME NEW k \in Nat, NEW n \in Nat \ {0}
  PROVE  /\ Bit(k, n - 1) \in 0 .. 1
         /\ Shifted(k, n - 1) = 2 * Shifted(k, n) + Bit(k, n - 1)
<1>1. n - 1 \in Nat /\ (n - 1) + 1 = n
  OBVIOUS
<1>2. Shifted(k, n - 1) \in Nat
  BY <1>1, ShiftedNat
<1>3. Shifted(k, (n - 1) + 1) = Shifted(k, n - 1) \div 2
  BY <1>1, ShiftedNext
<1>4. ASSUME NEW x \in Nat PROVE x % 2 \in 0 .. 1 /\ x = 2 * (x \div 2) + (x % 2)
  OBVIOUS
<1>5. Bit(k, n - 1) = Shifted(k, n - 1) % 2
  BY Zenon DEF Bit
<1>6. QED
  BY <1>1, <1>2, <1>3, <1>4, <1>5

LEMMA ShiftedZero ==
  ASSUME NEW k \in Nat, NEW m \in Nat, NEW n \in Nat, m <= n, Shifted(k, m) = 0
  PROVE  Shifted(k, n) = 0
<1> DEFINE T == {x \in Nat : m <= x /\ Shifted(k, x) # 0}
<1>1. SUFFICES ASSUME T # {} PROVE FALSE
  OBVIOUS
<1>2. PICK x \in T : \A y \in T : x <= y
  <2>1. T \subseteq Nat
    OBVIOUS
  <2>2. QED
    BY <1>1, <2>1, SmallestOf
<1>3. x # m
  BY <1>2
<1>4. x - 1 \in Nat /\ x - 1 \notin T /\ (x - 1) + 1 = x /\ m <= x - 1
  BY <1>2, <1>3
<1>5. Shifted(k, (x - 1) + 1) = Shifted(k, x - 1) \div 2
  BY <1>4, ShiftedNext
<1>6. QED
  BY <1>2, <1>4, <1>5

(* The highest bit of a key is the one count_leading_zero stops at. *)
TopBit(k, b) == Bit(k, b) = 1 /\ \A c \in b + 1 .. ClzBits - 1 : Bit(k, c) = 0

LEMMA TopBitExists ==
  ASSUME NEW k \in Keys, k # 0
  PROVE  \E b \in 0 .. ClzBits - 1 : TopBit(k, b)
<1> DEFINE T == {x \in Nat : x <= ClzBits - 1 /\ Bit(k, ClzBits - 1 - x) = 1}
<1>1. ClzBits \in Nat \ {0}
  BY WidthAssumption
<1>2. T # {}
  <2>1. PICK b \in 0 .. ClzBits - 1 : Bit(k, b) = 1
    BY KeysFit
  <2>2. /\ ClzBits - 1 - b \in Nat /\ ClzBits - 1 - b <= ClzBits - 1
        /\ ClzBits - 1 - (ClzBits - 1 - b) = b
    BY <1>1
  <2>3. QED
    BY <2>1, <2>2
<1>3. PICK x \in T : \A y \in T : x <= y
  <2>1. T \subseteq Nat
    OBVIOUS
  <2>2. QED
    BY <1>2, <2>1, SmallestOf
<1>4. PICK b : b = ClzBits - 1 - x
  OBVIOUS
<1>5. b \in 0 .. ClzBits - 1 /\ Bit(k, b) = 1
  BY <1>1, <1>3, <1>4
<1>6. ASSUME NEW c \in b + 1 .. ClzBits - 1 PROVE Bit(k, c) = 0
  <2>1. /\ c \in Nat /\ ClzBits - 1 - c \in Nat /\ ClzBits - 1 - c < x
        /\ ClzBits - 1 - (ClzBits - 1 - c) = c /\ ClzBits - 1 - c <= ClzBits - 1
    BY <1>1, <1>3, <1>4, <1>5
  <2>2. ClzBits - 1 - c \notin T
    BY <1>3, <2>1
  <2>3. Bit(k, c) # 1
    BY <2>1, <2>2
  <2>4. Shifted(k, c) \in Nat
    BY <2>1, ShiftedNat, KeyAssumption
  <2>5. QED
    BY <2>3, <2>4 DEF Bit
<1>7. QED
  BY <1>5, <1>6 DEF TopBit

LEMMA NothingAboveTop ==
  ASSUME NEW k \in Keys, NEW b \in 0 .. ClzBits - 1, TopBit(k, b)
  PROVE  Shifted(k, b + 1) = 0 /\ Shifted(k, b) # 0
<1> DEFINE T == {m \in Nat : b + 1 <= m /\ m <= ClzBits /\ Shifted(k, m) = 0}
<1>1. ClzBits \in Nat \ {0} /\ k \in Nat /\ b \in Nat
  BY WidthAssumption, KeyAssumption
<1>2. PICK m \in T : \A y \in T : m <= y
  <2>1. T \subseteq Nat
    OBVIOUS
  <2>2. ClzBits \in T
    BY <1>1, KeysFit, WordAssumption
  <2>3. QED
    BY <2>1, <2>2, SmallestOf
<1>3. ASSUME m # b + 1 PROVE FALSE
  <2>1. PICK c \in Nat : c = m - 1
    BY <1>1, <1>2
  <2>2. c + 1 = m /\ c \in b + 1 .. ClzBits - 1 /\ c \notin T
    BY <1>1, <1>2, <1>3, <2>1
  <2>3. Shifted(k, c + 1) = Shifted(k, c) \div 2 /\ Shifted(k, c) \in Nat
    BY <1>1, ShiftedNext, ShiftedNat
  <2>4. Shifted(k, c) % 2 = 0
    BY <2>2 DEF TopBit, Bit
  <2>5. Shifted(k, c) = 0
    BY <1>2, <2>2, <2>3, <2>4
  <2>6. QED
    BY <1>1, <2>2, <2>5
<1>4. Shifted(k, b) # 0
  BY DEF TopBit, Bit
<1>5. QED
  BY <1>2, <1>3, <1>4

(* A key has no bits at HeightOf and above, and some bit below. *)
LEMMA HeightIs ==
  ASSUME NEW k \in Keys
  PROVE  /\ HeightOf(k) \in Nat \ {0} /\ Shifted(k, HeightOf(k)) = 0
         /\ \A h \in Nat \ {0} : Shifted(k, h) = 0 <=> HeightOf(k) <= h
<1>1. k \in Nat
  BY KeyAssumption
<1>2. PICK m : m = HeightOf(k)
  OBVIOUS
<1>3. m \in Nat \ {0} /\ Shifted(k, m) = 0 /\ (m = 1 \/ Shifted(k, m - 1) # 0)
  <2>1. CASE k = 0
    <3>1. Shifted(k, 0) = 0
      BY <2>1, ShiftedNext
    <3>2. Shifted(k, 1) = 0
      BY <1>1, <3>1, ShiftedZero
    <3>3. QED
      BY <1>2, <2>1, <3>2 DEF HeightOf
  <2>2. CASE k # 0
    <3>1. PICK b : b = CHOOSE x \in 0 .. ClzBits - 1 : TopBit(k, x)
      OBVIOUS
    <3>2. b \in 0 .. ClzBits - 1 /\ TopBit(k, b)
      BY <2>2, <3>1, TopBitExists
    <3>3. count_leading_zero(k) = ClzBits - 1 - b
      BY <2>2, <3>1, Zenon DEF count_leading_zero, TopBit
    <3>4. m = b + 1 /\ b \in Nat
      BY <1>2, <2>2, <3>2, <3>3, WidthAssumption, WordAssumption DEF HeightOf
    <3>5. QED
      BY <3>2, <3>4, NothingAboveTop
  <2>3. QED
    BY <2>1, <2>2
<1>4. ASSUME NEW h \in Nat \ {0} PROVE Shifted(k, h) = 0 <=> m <= h
  <2>1. ASSUME m <= h PROVE Shifted(k, h) = 0
    BY <1>1, <1>3, <2>1, ShiftedZero
  <2>2. ASSUME Shifted(k, h) = 0, ~ (m <= h) PROVE FALSE
    <3>1. h <= m - 1 /\ m - 1 \in Nat /\ m # 1
      BY <1>3, <2>2
    <3>2. Shifted(k, m - 1) = 0
      BY <1>1, <2>2, <3>1, ShiftedZero
    <3>3. QED
      BY <1>3, <3>1, <3>2
  <2>3. QED
    BY <2>1, <2>2
<1>5. QED
  BY <1>2, <1>3, <1>4

-----------------------------------------------------------------------------
(* The inductive invariant. *)

Names == (Nat \ {0}) \X Nat
NodeRecords == [p : Names \cup {Null}, children : [0 .. 1 -> Names \cup {Null}],
                has_value : [0 .. 1 -> BOOLEAN], height : Nat, offset : 0 .. 1]

Typed(f) == DOMAIN f \subseteq Names /\ f \in [DOMAIN f -> NodeRecords]

(* Of nodes f with a root of height h: names spell paths, links agree in   *)
(* both directions, links lead to nodes.                                   *)
Spelled(f, h) ==
  \A n \in DOMAIN f :
    /\ n[1] \in 1 .. h /\ Shifted(n[2], h - n[1]) = 0 /\ f[n].height = n[1]
    /\ \A o \in 0 .. 1 :
         /\ f[n].has_value[o] => n[1] = 1
         /\ f[n].children[o] # Null => f[n].children[o] = <<n[1] - 1, 2 * n[2] + o>>

Parents(f, h) ==
  \A n \in DOMAIN f :
    IF n = <<h, 0>> THEN f[n].p = Null /\ f[n].offset = 0
    ELSE f[n].p \in DOMAIN f /\ f[f[n].p].children[f[n].offset] = n

Rooted(f, h) ==
  /\ Typed(f) /\ h \in Nat \ {0} /\ <<h, 0>> \in DOMAIN f
  /\ Spelled(f, h) /\ Parents(f, h)

Tree(f, h) ==
  /\ Rooted(f, h)
  /\ \A n \in DOMAIN f, o \in 0 .. 1 : f[n].children[o] \in DOMAIN f \cup {Null}

(* The node of height h that is, or would be, n or above n.                *)
Up(n, h) == <<h, Shifted(n[2], h - n[1])>>
Path(k, h) == <<h, Shifted(k, h)>>

(* The nodes that an insertion has added and would take away again: those  *)
(* of these heights on the path of the key.                                *)
NewHeights ==
  {h \in 1 .. _height : _height - h - 1 \in insertion_flags /\ _height - h - 1 < i}
    \cup (IF arg.planted THEN {_height} ELSE {})
NewNodes(k, H) == {Path(k, h) : h \in H}
New == IF pc \in {"grow_node", "rollback"} THEN NewNodes(arg.key, NewHeights) ELSE {}

(* Without the nodes in new, every leaf of the tree holds a value.         *)
Useful(f, new) ==
  \A n \in DOMAIN f \ new : \E o \in 0 .. 1 :
    f[n].has_value[o] \/ f[n].children[o] \notin new \cup {Null}

(* The new nodes are a chain that ends in n, and hold nothing.             *)
Chain(f, n, k, H, top) ==
  /\ H \subseteq n[1] .. top
  /\ \A h \in H : h > n[1] => h - 1 \in H
  /\ NewNodes(k, H) \subseteq DOMAIN f
  /\ \A m \in NewNodes(k, H), o \in 0 .. 1 :
       /\ ~f[m].has_value[o]
       /\ f[m].children[o] \in NewNodes(k, H) \cup {Null}
       /\ m = n => f[m].children[o] = Null

Growing ==
  /\ i \in 0 .. _height - 1 /\ node = Path(arg.key, _height - i) /\ node \in DOMAIN nodes
  /\ insertion_flags \subseteq Nat
  /\ pc = "grow_node" => level = _height - i /\ insertion_flags \subseteq 0 .. i - 1
  /\ Shifted(arg.key, _height) = 0
  /\ arg.planted => arg.first = Null /\ DOMAIN nodes = NewNodes(arg.key, NewHeights)
  /\ Chain(nodes, node, arg.key, NewHeights, _height)

(* Of the destructor: it has freed what is left of the path to node.       *)
Above(n, h) == {Up(n, l) : l \in n[1] .. h}
LeftIsGone(n, f, h) ==
  \A a \in DOMAIN f :
    /\ a \notin Above(n, h) => f[a].children[0] \in DOMAIN f \cup {Null}
    /\ a = n \/ (a \in Above(n, h) /\ f[a].children[1] \in Above(n, h)) =>
         f[a].children[0] \notin DOMAIN f
Dying ==
  IF node = Null THEN DOMAIN nodes = {}
  ELSE /\ node \in DOMAIN nodes /\ Rooted(nodes, _height)
       /\ \A n \in DOMAIN nodes : Child(n, 1) \in DOMAIN nodes \cup {Null}
       /\ LeftIsGone(node, nodes, _height)

Standing == pc \in {"idle", "grow_height", "grow_node", "rollback"}

IInv ==
  /\ Typed(nodes) /\ _height \in Nat
  /\ Standing /\ _root = Null => DOMAIN nodes = {} /\ pc = "idle"
  /\ Standing /\ _root # Null =>
       _root = <<_height, 0>> /\ Tree(nodes, _height) /\ Useful(nodes, New)
  /\ pc \in {"grow_height", "grow_node", "rollback"} => arg.key \in Keys
  /\ pc = "grow_height" => _height <= HeightOf(arg.key) /\ ~arg.planted
  /\ pc \in {"grow_node", "rollback"} => Growing
  /\ pc = "destroy" => Dying
  /\ pc = "gone" => DOMAIN nodes = {}

-----------------------------------------------------------------------------
(* Trees. *)

LEMMA NamesAreNot == Null \notin Names
BY NullAssumption DEF Names

(* What is known of a node by itself. *)
LEMMA NodeIs ==
  ASSUME NEW f, NEW h, Rooted(f, h), NEW n \in DOMAIN f
  PROVE  /\ n \in Names /\ n[1] \in 1 .. h /\ n[2] \in Nat /\ n = <<n[1], n[2]>> /\ n # Null
         /\ h \in Nat /\ f[n].height = n[1] /\ Shifted(n[2], h - n[1]) = 0
         /\ f[n].p \in Names \cup {Null} /\ f[n].offset \in 0 .. 1
         /\ \A o \in 0 .. 1 :
              /\ f[n].has_value[o] \in BOOLEAN /\ (f[n].has_value[o] => n[1] = 1)
              /\ f[n].children[o] \in Names \cup {Null}
              /\ f[n].children[o] # Null => f[n].children[o] = <<n[1] - 1, 2 * n[2] + o>>
<1>1. n \in Names /\ f[n] \in NodeRecords /\ h \in Nat
  BY DEF Rooted, Typed
<1>2. n[1] \in 1 .. h /\ n[2] \in Nat /\ n = <<n[1], n[2]>> /\ n # Null
  BY <1>1, NamesAreNot DEF Rooted, Spelled, Names
<1>3. /\ f[n].height = n[1] /\ Shifted(n[2], h - n[1]) = 0
      /\ \A o \in 0 .. 1 :
           /\ f[n].has_value[o] => n[1] = 1
           /\ f[n].children[o] # Null => f[n].children[o] = <<n[1] - 1, 2 * n[2] + o>>
  BY DEF Rooted, Spelled
<1>4. /\ f[n].p \in Names \cup {Null} /\ f[n].offset \in 0 .. 1
      /\ \A o \in 0 .. 1 :
           f[n].has_value[o] \in BOOLEAN /\ f[n].children[o] \in Names \cup {Null}
  BY <1>1 DEF NodeRecords
<1>5. QED
  BY <1>1, <1>2, <1>3, <1>4

LEMMA ParentIs ==
  ASSUME NEW f, NEW h, Rooted(f, h), NEW n \in DOMAIN f, n # <<h, 0>>
  PROVE  /\ n[1] < h /\ f[n].p = <<n[1] + 1, n[2] \div 2>> /\ f[n].p = Up(n, n[1] + 1)
         /\ f[n].p \in DOMAIN f /\ f[n].p # Null /\ f[n].offset = n[2] % 2
         /\ f[f[n].p].children[n[2] % 2] = n
<1>1. f[n].p \in DOMAIN f /\ f[f[n].p].children[f[n].offset] = n
  BY DEF Rooted, Parents
<1>2. PICK m, o : m = f[n].p /\ o = f[n].offset
  OBVIOUS
<1>3. /\ n \in Names /\ n[1] \in Nat \ {0} /\ n[2] \in Nat /\ n # Null /\ o \in 0 .. 1
      /\ n = <<n[1], n[2]>>
  BY <1>2, NodeIs DEF Names
<1>4. /\ m \in DOMAIN f /\ m[1] \in 1 .. h /\ m[2] \in Nat /\ m = <<m[1], m[2]>> /\ h \in Nat
      /\ f[m].children[o] = n /\ n = <<m[1] - 1, 2 * m[2] + o>> /\ m # Null
  BY <1>1, <1>2, <1>3, NodeIs
<1>5. n[1] = m[1] - 1 /\ n[2] = 2 * m[2] + o
  BY <1>4
<1>6. m[1] = n[1] + 1 /\ m[2] = n[2] \div 2 /\ o = n[2] % 2 /\ n[1] < h
  BY <1>3, <1>4, <1>5
<1>7. Up(n, n[1] + 1) = <<n[1] + 1, n[2] \div 2>>
  <2>1. (n[1] + 1) - n[1] = 1 /\ 1 = 0 + 1
    BY <1>3
  <2>2. Shifted(n[2], 1) = n[2] \div 2
    BY <1>3, <2>1, ShiftedNext
  <2>3. QED
    BY <2>1, <2>2 DEF Up
<1>8. QED
  BY <1>2, <1>4, <1>6, <1>7

(* The root is the only node of its height, and has no parent. *)
LEMMA RootIs ==
  ASSUME NEW f, NEW h, Rooted(f, h)
  PROVE  /\ <<h, 0>> \in DOMAIN f /\ f[<<h, 0>>].p = Null
         /\ \A n \in DOMAIN f : n[1] = h => n = <<h, 0>>
         /\ \A n \in DOMAIN f : f[n].p = Null => n = <<h, 0>>
<1>1. <<h, 0>> \in DOMAIN f /\ f[<<h, 0>>].p = Null
  BY DEF Rooted, Parents
<1>2. ASSUME NEW n \in DOMAIN f, n # <<h, 0>> PROVE n[1] # h /\ f[n].p # Null
  BY <1>2, ParentIs, NodeIs
<1>3. QED
  BY <1>1, <1>2

(* A child that a node could have is linked to that node, if it is there.  *)
LEMMA ChildIs ==
  ASSUME NEW f, NEW h, Rooted(f, h), NEW n \in DOMAIN f, NEW o \in 0 .. 1,
         NEW m \in DOMAIN f, m = <<n[1] - 1, 2 * n[2] + o>>
  PROVE  f[n].children[o] = m /\ f[m].p = n
<1>1. m = <<n[1] - 1, 2 * n[2] + o>>
  OBVIOUS
<1>2. n[1] \in 1 .. h /\ n[2] \in Nat /\ n = <<n[1], n[2]>> /\ h \in Nat
  BY NodeIs
<1>3. m[1] = n[1] - 1 /\ m[2] = 2 * n[2] + o
  BY <1>1
<1>4. m # <<h, 0>>
  BY <1>2, <1>3
<1>5. f[m].p = <<m[1] + 1, m[2] \div 2>> /\ f[f[m].p].children[m[2] % 2] = m
  BY <1>4, ParentIs
<1>6. m[1] + 1 = n[1] /\ m[2] \div 2 = n[2] /\ m[2] % 2 = o
  BY <1>2, <1>3
<1>7. QED
  BY <1>1, <1>2, <1>5, <1>6

-----------------------------------------------------------------------------
(* What the changes of the tree leave in every field. *)

LEMMA NewNodeIs ==
  ASSUME NEW h \in Nat, NEW p \in Names \cup {Null}, NEW o \in 0 .. 1
  PROVE  LET r == NewNode(h, p, o)
         IN /\ r \in NodeRecords /\ r.p = p /\ r.height = h /\ r.offset = o
            /\ \A x \in 0 .. 1 : r.children[x] = Null /\ ~r.has_value[x]
BY DEF NewNode, NodeRecords

(* The record of a node with another parent, another child, a value. *)
PutP(r, m) == [r EXCEPT !.p = m]
PutC(r, o, m) == [r EXCEPT !.children[o] = m]
PutV(r, o) == [r EXCEPT !.has_value[o] = TRUE]

LEMMA PutParent ==
  ASSUME NEW r \in NodeRecords, NEW m \in Names \cup {Null}
  PROVE  LET q == PutP(r, m)
         IN /\ q \in NodeRecords /\ q.p = m /\ q.children = r.children
            /\ q.has_value = r.has_value /\ q.height = r.height /\ q.offset = r.offset
BY DEF NodeRecords, PutP

LEMMA PutChild ==
  ASSUME NEW r \in NodeRecords, NEW o \in 0 .. 1, NEW m \in Names \cup {Null}
  PROVE  LET q == PutC(r, o, m)
         IN /\ q \in NodeRecords /\ q.p = r.p /\ q.has_value = r.has_value
            /\ \A x \in 0 .. 1 : q.children[x] = IF x = o THEN m ELSE r.children[x]
            /\ q.height = r.height /\ q.offset = r.offset
<1>1. PutC(r, o, m) = [r EXCEPT !.children = [r.children EXCEPT ![o] = m]]
  BY DEF NodeRecords, PutC
<1>2. PICK c : c = [r.children EXCEPT ![o] = m]
  OBVIOUS
<1>3. c \in [0 .. 1 -> Names \cup {Null}]
      /\ \A x \in 0 .. 1 : c[x] = IF x = o THEN m ELSE r.children[x]
  BY <1>2 DEF NodeRecords
<1>4. PICK q : q = PutC(r, o, m)
  OBVIOUS
<1>5. q = [r EXCEPT !.children = c]
  BY <1>1, <1>2, <1>4
<1>6. q \in NodeRecords /\ q.p = r.p /\ q.children = c /\ q.has_value = r.has_value
      /\ q.height = r.height /\ q.offset = r.offset
  BY <1>3, <1>5 DEF NodeRecords
<1>7. QED
  BY <1>3, <1>4, <1>6

LEMMA PutValue ==
  ASSUME NEW r \in NodeRecords, NEW o \in 0 .. 1
  PROVE  LET q == PutV(r, o)
         IN /\ q \in NodeRecords /\ q.p = r.p /\ q.children = r.children
            /\ \A x \in 0 .. 1 : q.has_value[x] <=> (x = o \/ r.has_value[x])
            /\ q.height = r.height /\ q.offset = r.offset
<1>1. PutV(r, o) = [r EXCEPT !.has_value = [r.has_value EXCEPT ![o] = TRUE]]
  BY DEF NodeRecords, PutV
<1>2. PICK c : c = [r.has_value EXCEPT ![o] = TRUE]
  OBVIOUS
<1>3. c \in [0 .. 1 -> BOOLEAN]
      /\ \A x \in 0 .. 1 : c[x] = IF x = o THEN TRUE ELSE r.has_value[x]
  BY <1>2 DEF NodeRecords
<1>4. PICK q : q = PutV(r, o)
  OBVIOUS
<1>5. q = [r EXCEPT !.has_value = c]
  BY <1>1, <1>2, <1>4
<1>6. q \in NodeRecords /\ q.p = r.p /\ q.has_value = c /\ q.children = r.children
      /\ q.height = r.height /\ q.offset = r.offset
  BY <1>3, <1>5 DEF NodeRecords
<1>7. ASSUME NEW x \in 0 .. 1 PROVE q.has_value[x] <=> (x = o \/ r.has_value[x])
  <2>1. c[x] = IF x = o THEN TRUE ELSE r.has_value[x]
    BY <1>3
  <2>2. q.has_value[x] = c[x]
    BY <1>6
  <2>3. QED
    BY <2>1, <2>2, Zenon
<1>8. QED
  BY <1>4, <1>6, <1>7, Zenon

(* The new root, above a tree. *)
AfterRerooting(g, root) ==
  /\ Typed(g) /\ DOMAIN g = DOMAIN nodes \cup {root} /\ root \notin DOMAIN nodes
  /\ g[root].p = Null /\ g[root].height = _height + 1 /\ g[root].offset = 0
  /\ \A x \in 0 .. 1 : g[root].children[x] = (IF x = 0 THEN _root ELSE Null)
                       /\ ~g[root].has_value[x]
  /\ \A n \in DOMAIN nodes :
       /\ g[n].p = IF n = _root THEN root ELSE nodes[n].p
       /\ g[n].children = nodes[n].children /\ g[n].has_value = nodes[n].has_value
       /\ g[n].height = nodes[n].height /\ g[n].offset = nodes[n].offset

LEMMA RerootIs ==
  ASSUME Tree(nodes, _height), _root = <<_height, 0>>,
         NEW root, root = <<_height + 1, 0>>
  PROVE  AfterRerooting(Reroot(root), root)
<1>0. PICK g : g = Reroot(root)
  OBVIOUS
<1>1. /\ Typed(nodes) /\ _height \in Nat \ {0} /\ _root \in DOMAIN nodes /\ Rooted(nodes, _height)
  BY DEF Tree, Rooted
<1>2. root \in Names /\ _root \in Names
  BY <1>1 DEF Names
<1>3. root \notin DOMAIN nodes
  BY <1>1, NodeIs
<1>4. PICK a : a = NewNode(_height + 1, Null, 0)
  OBVIOUS
<1>5. /\ a \in NodeRecords /\ a.p = Null /\ a.height = _height + 1 /\ a.offset = 0
      /\ \A x \in 0 .. 1 : a.children[x] = Null /\ ~a.has_value[x]
  <2>1. _height + 1 \in Nat /\ Null \in Names \cup {Null} /\ 0 \in 0 .. 1
    BY <1>1
  <2>2. QED
    BY ONLY <2>1, <1>4, NewNodeIs
<1>6. PICK b : b = PutC(a, 0, _root)
  OBVIOUS
<1>7. /\ b \in NodeRecords /\ b.p = a.p /\ b.has_value = a.has_value
      /\ \A x \in 0 .. 1 : b.children[x] = IF x = 0 THEN _root ELSE a.children[x]
      /\ b.height = a.height /\ b.offset = a.offset
  <2>1. _root \in Names \cup {Null} /\ 0 \in 0 .. 1
    BY <1>2
  <2>2. QED
    BY ONLY <2>1, <1>5, <1>6, PutChild
<1>8. PICK r : r = nodes[_root]
  OBVIOUS
<1>9. r \in NodeRecords
  BY <1>1, <1>8 DEF Typed
<1>10. PICK q : q = PutP(r, root)
  OBVIOUS
<1>11. /\ q \in NodeRecords /\ q.p = root /\ q.children = r.children
       /\ q.has_value = r.has_value /\ q.height = r.height /\ q.offset = r.offset
  BY <1>2, <1>9, <1>10, PutParent
<1>12. PICK w : w = With(root, b)
  OBVIOUS
<1>13. w = [m \in DOMAIN nodes \cup {root} |-> IF m = root THEN b ELSE nodes[m]]
  BY <1>12, Zenon DEF With
<1>14. g = [w EXCEPT ![_root].p = root]
  BY <1>0, <1>4, <1>6, <1>12, Zenon DEF Reroot, PutC
<1>15. w[_root] = r
  BY <1>1, <1>3, <1>8, <1>13
<1>16. g = [w EXCEPT ![_root] = q]
  BY <1>10, <1>14, <1>15 DEF PutP
<1>17. g = [m \in DOMAIN nodes \cup {root} |->
              IF m = _root THEN q ELSE IF m = root THEN b ELSE nodes[m]]
  BY <1>13, <1>16
<1>18. g[root] = b /\ g[_root] = q /\ \A n \in DOMAIN nodes : n # _root => g[n] = nodes[n]
  BY <1>1, <1>3, <1>17
<1>19. DOMAIN g = DOMAIN nodes \cup {root} /\ Typed(g)
  BY <1>1, <1>2, <1>7, <1>11, <1>17 DEF Typed
<1>20. AfterRerooting(g, root)
  BY <1>3, <1>5, <1>7, <1>8, <1>11, <1>18, <1>19 DEF AfterRerooting
<1>21. QED
  BY <1>0, <1>20

(* A new node, the child of node that the name says. *)
AfterLinking(g, new, o) ==
  /\ Typed(g) /\ DOMAIN g = DOMAIN nodes \cup {new}
  /\ g[new].p = node /\ g[new].height = new[1] /\ g[new].offset = o
  /\ \A x \in 0 .. 1 : g[new].children[x] = Null /\ ~g[new].has_value[x]
  /\ \A n \in DOMAIN nodes :
       /\ \A x \in 0 .. 1 : g[n].children[x] =
            IF n = node /\ x = o THEN new ELSE nodes[n].children[x]
       /\ g[n].p = nodes[n].p /\ g[n].has_value = nodes[n].has_value
       /\ g[n].height = nodes[n].height /\ g[n].offset = nodes[n].offset

LEMMA LinkedIs ==
  ASSUME Tree(nodes, _height), node \in DOMAIN nodes, level = node[1], level > 1,
         NEW o \in 0 .. 1, Offset = o,
         NEW new, new = <<node[1] - 1, 2 * node[2] + o>>, new \notin DOMAIN nodes
  PROVE  AfterLinking(Linked(new), new, o)
<1>0. PICK g : g = Linked(new)
  OBVIOUS
<1>1. Typed(nodes) /\ Rooted(nodes, _height)
  BY DEF Tree, Rooted
<1>2. /\ node \in Names /\ node[1] \in Nat /\ node[2] \in Nat
  BY <1>1, NodeIs
<1>3. new \in Names /\ new[1] = level - 1 /\ level - 1 \in Nat
  BY <1>2 DEF Names
<1>4. PICK a : a = NewNode(level - 1, node, o)
  OBVIOUS
<1>5. /\ a \in NodeRecords /\ a.p = node /\ a.height = level - 1 /\ a.offset = o
      /\ \A x \in 0 .. 1 : a.children[x] = Null /\ ~a.has_value[x]
  <2>1. node \in Names \cup {Null} /\ o \in 0 .. 1
    BY <1>2
  <2>2. QED
    BY ONLY <2>1, <1>3, <1>4, NewNodeIs
<1>6. PICK r : r = nodes[node]
  OBVIOUS
<1>7. r \in NodeRecords
  BY <1>1, <1>6 DEF Typed
<1>8. PICK q : q = PutC(r, o, new)
  OBVIOUS
<1>9. /\ q \in NodeRecords /\ q.p = r.p /\ q.has_value = r.has_value
      /\ \A x \in 0 .. 1 : q.children[x] = IF x = o THEN new ELSE r.children[x]
      /\ q.height = r.height /\ q.offset = r.offset
  <2>1. new \in Names \cup {Null} /\ o \in 0 .. 1
    BY <1>3
  <2>2. QED
    BY ONLY <2>1, <1>7, <1>8, PutChild
<1>10. PICK w : w = With(new, a)
  OBVIOUS
<1>11. w = [m \in DOMAIN nodes \cup {new} |-> IF m = new THEN a ELSE nodes[m]]
  BY <1>10, Zenon DEF With
<1>12. g = [w EXCEPT ![node].children[o] = new]
  BY <1>0, <1>4, <1>10, Zenon DEF Linked
<1>13. w[node] = r
  BY <1>6, <1>11
<1>14. g = [w EXCEPT ![node] = q]
  BY <1>8, <1>12, <1>13 DEF PutC
<1>15. g = [m \in DOMAIN nodes \cup {new} |->
              IF m = node THEN q ELSE IF m = new THEN a ELSE nodes[m]]
  BY <1>11, <1>14
<1>16. g[new] = a /\ g[node] = q /\ \A n \in DOMAIN nodes : n # node => g[n] = nodes[n]
  BY <1>15
<1>17. DOMAIN g = DOMAIN nodes \cup {new} /\ Typed(g)
  BY <1>1, <1>3, <1>5, <1>9, <1>15 DEF Typed
<1>18. AfterLinking(g, new, o)
  BY <1>3, <1>5, <1>6, <1>9, <1>16, <1>17 DEF AfterLinking
<1>19. QED
  BY <1>0, <1>18

(* A node taken away from its parent. *)
AfterUnlinking(g) ==
  /\ Typed(g) /\ DOMAIN g = DOMAIN nodes \ {node}
  /\ \A n \in DOMAIN g :
       /\ \A x \in 0 .. 1 : g[n].children[x] =
            IF nodes[n].children[x] = node THEN Null ELSE nodes[n].children[x]
       /\ g[n].p = nodes[n].p /\ g[n].has_value = nodes[n].has_value
       /\ g[n].height = nodes[n].height /\ g[n].offset = nodes[n].offset

LEMMA UnlinkedIs ==
  ASSUME Tree(nodes, _height), node \in DOMAIN nodes, node # <<_height, 0>>
  PROVE  AfterUnlinking(Unlinked)
<1>0. PICK g : g = Unlinked
  OBVIOUS
<1>1. Typed(nodes) /\ Rooted(nodes, _height)
  BY DEF Tree, Rooted
<1>2. PICK p, o : p = nodes[node].p /\ o = nodes[node].offset
  OBVIOUS
<1>3. /\ p \in DOMAIN nodes /\ p # node /\ o \in 0 .. 1 /\ nodes[p].children[o] = node
      /\ p = <<node[1] + 1, node[2] \div 2>> /\ o = node[2] % 2
      /\ node[1] \in Nat /\ node[2] \in Nat /\ node # Null /\ node = <<node[1], node[2]>>
  BY <1>1, <1>2, NodeIs, ParentIs
<1>4. PICK r : r = nodes[p]
  OBVIOUS
<1>5. r \in NodeRecords
  BY <1>1, <1>3, <1>4 DEF Typed
<1>6. PICK q : q = PutC(r, o, Null)
  OBVIOUS
<1>7. /\ q \in NodeRecords /\ q.p = r.p /\ q.has_value = r.has_value
      /\ \A x \in 0 .. 1 : q.children[x] = IF x = o THEN Null ELSE r.children[x]
      /\ q.height = r.height /\ q.offset = r.offset
  <2>1. Null \in Names \cup {Null}
    OBVIOUS
  <2>2. QED
    BY ONLY <2>1, <1>3, <1>5, <1>6, PutChild
<1>8. PICK w : w = [nodes EXCEPT ![p].children[o] = Null]
  OBVIOUS
<1>9. w = [nodes EXCEPT ![p] = q]
  BY <1>4, <1>6, <1>8 DEF PutC
<1>10. nodes = [m \in DOMAIN nodes |-> nodes[m]]
  BY <1>1 DEF Typed
<1>11. w = [m \in DOMAIN nodes |-> IF m = p THEN q ELSE nodes[m]]
  BY <1>9, <1>10
<1>12. g = [m \in DOMAIN w \ {node} |-> w[m]]
  BY <1>0, <1>2, <1>8, Zenon DEF Unlinked, Without
<1>13. /\ DOMAIN g = DOMAIN nodes \ {node}
       /\ \A n \in DOMAIN g : g[n] = IF n = p THEN q ELSE nodes[n]
       /\ g = [m \in DOMAIN g |-> g[m]]
  BY <1>11, <1>12
<1>14. Typed(g)
  BY <1>1, <1>7, <1>13 DEF Typed
<1>15. ASSUME NEW n \in DOMAIN nodes, NEW x \in 0 .. 1
       PROVE  nodes[n].children[x] = node <=> n = p /\ x = o
  <2>1. SUFFICES ASSUME nodes[n].children[x] = node PROVE n = p /\ x = o
    BY <1>3
  <2>2. n[1] \in Nat /\ n[2] \in Nat /\ n = <<n[1], n[2]>> /\ node = <<n[1] - 1, 2 * n[2] + x>>
    BY <1>1, <1>3, <2>1, NodeIs
  <2>3. node[1] = n[1] - 1 /\ node[2] = 2 * n[2] + x
    BY <2>2
  <2>4. node[1] + 1 = n[1] /\ node[2] \div 2 = n[2] /\ node[2] % 2 = x
    BY <2>2, <2>3
  <2>5. QED
    BY <1>3, <2>2, <2>4
<1>16. ASSUME NEW n \in DOMAIN g
       PROVE  /\ \A x \in 0 .. 1 : g[n].children[x] =
                   IF nodes[n].children[x] = node THEN Null ELSE nodes[n].children[x]
              /\ g[n].p = nodes[n].p /\ g[n].has_value = nodes[n].has_value
              /\ g[n].height = nodes[n].height /\ g[n].offset = nodes[n].offset
  <2>1. n \in DOMAIN nodes /\ g[n] = IF n = p THEN q ELSE nodes[n]
    BY <1>13
  <2>2. QED
    BY <1>4, <1>7, <1>15, <2>1
<1>17. AfterUnlinking(g)
  BY <1>13, <1>14, <1>16, Zenon DEF AfterUnlinking
<1>18. QED
  BY <1>0, <1>17

(* A value stored in node. *)
Stored(o) == [nodes EXCEPT ![node].has_value[o] = TRUE]
AfterStoring(g, o) ==
  /\ Typed(g) /\ DOMAIN g = DOMAIN nodes
  /\ \A n \in DOMAIN g :
       /\ \A x \in 0 .. 1 : g[n].has_value[x] <=>
            ((n = node /\ x = o) \/ nodes[n].has_value[x])
       /\ g[n].p = nodes[n].p /\ g[n].children = nodes[n].children
       /\ g[n].height = nodes[n].height /\ g[n].offset = nodes[n].offset

LEMMA StoredIs ==
  ASSUME Tree(nodes, _height), node \in DOMAIN nodes, NEW o \in 0 .. 1
  PROVE  AfterStoring(Stored(o), o)
<1>0. PICK g : g = Stored(o)
  OBVIOUS
<1>1. Typed(nodes) /\ Rooted(nodes, _height)
  BY DEF Tree, Rooted
<1>2. PICK r : r = nodes[node]
  OBVIOUS
<1>3. r \in NodeRecords
  BY <1>1, <1>2 DEF Typed
<1>4. PICK q : q = PutV(r, o)
  OBVIOUS
<1>5. /\ q \in NodeRecords /\ q.p = r.p /\ q.children = r.children
      /\ \A x \in 0 .. 1 : q.has_value[x] <=> (x = o \/ r.has_value[x])
      /\ q.height = r.height /\ q.offset = r.offset
  <2>1. o \in 0 .. 1
    OBVIOUS
  <2>2. QED
    BY ONLY <2>1, <1>3, <1>4, PutValue
<1>6. g = [nodes EXCEPT ![node] = q]
  BY <1>0, <1>2, <1>4 DEF PutV, Stored
<1>7. nodes = [m \in DOMAIN nodes |-> nodes[m]]
  BY <1>1 DEF Typed
<1>8. g = [m \in DOMAIN nodes |-> IF m = node THEN q ELSE nodes[m]]
  BY <1>6, <1>7
<1>9. Typed(g) /\ DOMAIN g = DOMAIN nodes
      /\ g[node] = q /\ \A n \in DOMAIN nodes : n # node => g[n] = nodes[n]
  BY <1>1, <1>5, <1>8 DEF Typed
<1>10. ASSUME NEW n \in DOMAIN g, NEW x \in 0 .. 1
       PROVE  g[n].has_value[x] <=> ((n = node /\ x = o) \/ nodes[n].has_value[x])
  <2>1. nodes[n].has_value[x] \in BOOLEAN
    BY <1>1, <1>9, NodeIs
  <2>2. CASE n = node
    <3>1. (q.has_value[x] <=> (x = o \/ r.has_value[x])) /\ g[n] = q /\ nodes[n] = r
      BY <1>2, <1>5, <1>9, <2>2
    <3>2. QED
      BY <2>2, <3>1, Zenon
  <2>3. CASE n # node
    BY <1>9, <2>1, <2>3, Zenon
  <2>4. QED
    BY <2>2, <2>3
<1>11. AfterStoring(g, o)
  BY <1>2, <1>5, <1>9, <1>10 DEF AfterStoring
<1>12. QED
  BY <1>0, <1>11

-----------------------------------------------------------------------------
(* A tree stays a tree. *)

(* What Tree says, a node at a time. *)
NodeFits(f, h, n) ==
  /\ n[1] \in 1 .. h /\ Shifted(n[2], h - n[1]) = 0 /\ f[n].height = n[1]
  /\ IF n = <<h, 0>> THEN f[n].p = Null /\ f[n].offset = 0
     ELSE f[n].p \in DOMAIN f /\ f[f[n].p].children[f[n].offset] = n
  /\ \A o \in 0 .. 1 :
       /\ f[n].has_value[o] => n[1] = 1
       /\ f[n].children[o] \in DOMAIN f \cup {Null}
       /\ f[n].children[o] # Null => f[n].children[o] = <<n[1] - 1, 2 * n[2] + o>>

LEMMA TreeIs ==
  ASSUME NEW f, NEW h
  PROVE  Tree(f, h) <=> /\ Typed(f) /\ h \in Nat \ {0} /\ <<h, 0>> \in DOMAIN f
                        /\ \A n \in DOMAIN f : NodeFits(f, h, n)
<1>1. ASSUME Tree(f, h) PROVE \A n \in DOMAIN f : NodeFits(f, h, n)
  BY <1>1, Zenon DEF Tree, Rooted, Spelled, Parents, NodeFits
<1>2. ASSUME \A n \in DOMAIN f : NodeFits(f, h, n)
      PROVE  /\ Spelled(f, h) /\ Parents(f, h)
             /\ \A n \in DOMAIN f, o \in 0 .. 1 : f[n].children[o] \in DOMAIN f \cup {Null}
  BY <1>2, Zenon DEF Spelled, Parents, NodeFits
<1>3. QED
  BY <1>1, <1>2, Zenon DEF Tree, Rooted

LEMMA RerootKeeps ==
  ASSUME Tree(nodes, _height), _root = <<_height, 0>>
  PROVE  Tree(Reroot(<<_height + 1, 0>>), _height + 1)
<1>0. PICK g : g = Reroot(<<_height + 1, 0>>)
  OBVIOUS
<1>1. PICK root : root = <<_height + 1, 0>>
  OBVIOUS
<1>2. /\ Typed(g) /\ DOMAIN g = DOMAIN nodes \cup {root} /\ root \notin DOMAIN nodes
      /\ g[root].p = Null /\ g[root].height = _height + 1 /\ g[root].offset = 0
      /\ \A x \in 0 .. 1 : g[root].children[x] = (IF x = 0 THEN _root ELSE Null)
                           /\ ~g[root].has_value[x]
      /\ \A n \in DOMAIN nodes :
           /\ g[n].p = IF n = _root THEN root ELSE nodes[n].p
           /\ g[n].children = nodes[n].children /\ g[n].has_value = nodes[n].has_value
           /\ g[n].height = nodes[n].height /\ g[n].offset = nodes[n].offset
  <2>1. AfterRerooting(g, root)
    BY <1>0, <1>1, RerootIs
  <2>2. QED
    BY <2>1, Zenon DEF AfterRerooting
<1>3. /\ _height \in Nat \ {0} /\ _root \in DOMAIN nodes /\ Rooted(nodes, _height)
      /\ \A n \in DOMAIN nodes : NodeFits(nodes, _height, n)
  BY TreeIs DEF Tree
<1>4. NodeFits(g, _height + 1, root)
  <2>1. root[1] = _height + 1 /\ root[2] = 0 /\ Shifted(0, 0) = 0
    BY <1>1, ShiftedNext
  <2>2. (_height + 1) - root[1] = 0 /\ root[1] \in 1 .. _height + 1
    BY <1>3, <2>1
  <2>3. _root = <<root[1] - 1, 2 * root[2] + 0>>
    BY <1>3, <2>1
  <2>4. QED
    BY <1>1, <1>2, <1>3, <2>1, <2>2, <2>3 DEF NodeFits
<1>5. ASSUME NEW n \in DOMAIN nodes PROVE NodeFits(g, _height + 1, n)
  <2>1. /\ n[1] \in 1 .. _height /\ n[2] \in Nat /\ n # Null /\ Shifted(n[2], _height - n[1]) = 0
        /\ nodes[n].height = n[1]
    BY <1>3, NodeIs
  <2>2. Shifted(n[2], (_height + 1) - n[1]) = 0
    <3>1. _height - n[1] \in Nat /\ (_height + 1) - n[1] \in Nat
          /\ _height - n[1] <= (_height + 1) - n[1]
      BY <1>3, <2>1
    <3>2. QED
      BY <2>1, <3>1, ShiftedZero
  <2>3. n # root
    BY <1>2
  <2>4. g[n].p \in DOMAIN g /\ g[g[n].p].children[g[n].offset] = n
    <3>1. CASE n = _root
      <4>1. nodes[n].offset = 0
        BY <1>3, <3>1 DEF NodeFits
      <4>2. QED
        BY <1>2, <1>3, <3>1, <4>1
    <3>2. CASE n # _root
      <4>1. nodes[n].p \in DOMAIN nodes /\ nodes[nodes[n].p].children[nodes[n].offset] = n
        BY <1>3, <3>2 DEF NodeFits
      <4>2. QED
        BY <1>2, <3>2, <4>1
    <3>3. QED
      BY <3>1, <3>2
  <2>5. \A o \in 0 .. 1 :
          /\ g[n].has_value[o] => n[1] = 1
          /\ g[n].children[o] \in DOMAIN g \cup {Null}
          /\ g[n].children[o] # Null => g[n].children[o] = <<n[1] - 1, 2 * n[2] + o>>
    BY <1>2, <1>3 DEF NodeFits
  <2>6. n[1] \in 1 .. _height + 1 /\ g[n].height = n[1]
    BY <1>2, <1>3, <2>1
  <2>7. QED
    BY <1>1, <2>2, <2>3, <2>4, <2>5, <2>6, Zenon DEF NodeFits
<1>6. \A n \in DOMAIN g : NodeFits(g, _height + 1, n)
  BY <1>2, <1>4, <1>5
<1>7. _height + 1 \in Nat \ {0} /\ <<_height + 1, 0>> \in DOMAIN g
  BY <1>1, <1>2, <1>3
<1>8. Tree(g, _height + 1)
  BY <1>2, <1>6, <1>7, TreeIs, Zenon
<1>9. QED
  BY <1>0, <1>8

LEMMA LinkedKeeps ==
  ASSUME Tree(nodes, _height), node \in DOMAIN nodes, level = node[1], level > 1,
         NEW o \in 0 .. 1, Offset = o, Child(node, o) = Null,
         NEW new, new = <<node[1] - 1, 2 * node[2] + o>>
  PROVE  Tree(Linked(new), _height) /\ new \notin DOMAIN nodes
<1>0. PICK g : g = Linked(new)
  OBVIOUS
<1>1. /\ _height \in Nat \ {0} /\ Rooted(nodes, _height) /\ <<_height, 0>> \in DOMAIN nodes
      /\ \A n \in DOMAIN nodes : NodeFits(nodes, _height, n)
  BY TreeIs DEF Tree
<1>2. new \notin DOMAIN nodes
  <2>1. SUFFICES ASSUME new \in DOMAIN nodes PROVE FALSE
    OBVIOUS
  <2>2. nodes[node].children[o] = new
    <3>1. new \in DOMAIN nodes /\ new = <<node[1] - 1, 2 * node[2] + o>>
      BY <2>1
    <3>2. QED
      BY ONLY <1>1, <3>1, node \in DOMAIN nodes, o \in 0 .. 1, ChildIs
  <2>3. new # Null
    BY <1>1, <2>1, NodeIs
  <2>4. QED
    BY <2>2, <2>3 DEF Child
<1>3. /\ Typed(g) /\ DOMAIN g = DOMAIN nodes \cup {new}
      /\ g[new].p = node /\ g[new].height = new[1] /\ g[new].offset = o
      /\ \A x \in 0 .. 1 : g[new].children[x] = Null /\ ~g[new].has_value[x]
      /\ \A n \in DOMAIN nodes :
           /\ \A x \in 0 .. 1 : g[n].children[x] =
                IF n = node /\ x = o THEN new ELSE nodes[n].children[x]
           /\ g[n].p = nodes[n].p /\ g[n].has_value = nodes[n].has_value
           /\ g[n].height = nodes[n].height /\ g[n].offset = nodes[n].offset
  <2>1. AfterLinking(g, new, o)
    BY <1>0, <1>2, LinkedIs
  <2>2. QED
    BY <2>1, Zenon DEF AfterLinking
<1>4. /\ node[1] \in 1 .. _height /\ node[2] \in Nat /\ Shifted(node[2], _height - node[1]) = 0
      /\ _height \in Nat
  BY <1>1, NodeIs
<1>5. NodeFits(g, _height, new)
  <2>1. new[1] = node[1] - 1 /\ new[2] = 2 * node[2] + o /\ new[1] \in 1 .. _height
        /\ new[2] \in Nat /\ new[2] \div 2 = node[2]
    <3>1. PICK a \in Nat, b \in Nat : a = node[1] /\ b = node[2]
      BY <1>4
    <3>2. (2 * b + o) \div 2 = b /\ 2 * b + o \in Nat
      OBVIOUS
    <3>3. QED
      BY <1>4, <3>1, <3>2
  <2>2. Shifted(new[2], _height - new[1]) = 0
    <3>1. /\ _height - node[1] \in Nat /\ _height - new[1] = 1 + (_height - node[1])
          /\ 0 + 1 = 1
      BY <1>4, <2>1
    <3>2. Shifted(new[2], 1) = node[2]
      BY <2>1, <3>1, ShiftedNext
    <3>3. Shifted(Shifted(new[2], 1), _height - node[1]) = Shifted(new[2], 1 + (_height - node[1]))
      <4>1. PICK a \in Nat, d \in Nat : a = new[2] /\ d = _height - node[1]
        BY <2>1, <3>1
      <4>2. Shifted(Shifted(a, 1), d) = Shifted(a, 1 + d)
        BY ShiftedTwice
      <4>3. QED
        BY <4>1, <4>2
    <3>4. QED
      BY <1>4, <3>1, <3>2, <3>3
  <2>3. new # <<_height, 0>>
    <3>1. SUFFICES ASSUME new = <<_height, 0>> PROVE FALSE
      OBVIOUS
    <3>2. new[1] = _height
      BY ONLY <3>1
    <3>3. QED
      BY ONLY <1>4, <2>1, <3>2
  <2>4. g[g[new].p].children[g[new].offset] = new
    BY <1>3
  <2>5. QED
    BY <1>3, <2>1, <2>2, <2>3, <2>4 DEF NodeFits
<1>6. ASSUME NEW n \in DOMAIN nodes PROVE NodeFits(g, _height, n)
  <2>1. NodeFits(nodes, _height, n) /\ n \in DOMAIN g
    BY <1>1, <1>3
  <2>2. /\ n[1] \in 1 .. _height /\ Shifted(n[2], _height - n[1]) = 0 /\ g[n].height = n[1]
        /\ \A x \in 0 .. 1 : g[n].has_value[x] => n[1] = 1
    BY <1>3, <2>1 DEF NodeFits
  <2>3. n = <<_height, 0>> => g[n].p = Null /\ g[n].offset = 0
    BY <1>3, <2>1 DEF NodeFits
  <2>4. n # <<_height, 0>> => g[n].p \in DOMAIN g /\ g[g[n].p].children[g[n].offset] = n
    <3>1. SUFFICES ASSUME n # <<_height, 0>>
                   PROVE g[n].p \in DOMAIN g /\ g[g[n].p].children[g[n].offset] = n
      OBVIOUS
    <3>2. PICK p, x : p = nodes[n].p /\ x = nodes[n].offset
      OBVIOUS
    <3>3. p \in DOMAIN nodes /\ nodes[p].children[x] = n /\ x \in 0 .. 1
          /\ g[n].p = p /\ g[n].offset = x /\ n # Null
      <4>1. p \in DOMAIN nodes /\ nodes[p].children[x] = n
        BY <2>1, <3>1, <3>2, Zenon DEF NodeFits
      <4>2. x \in 0 .. 1 /\ n # Null
        BY <1>1, <3>2, NodeIs
      <4>3. QED
        BY <1>3, <3>2, <4>1, <4>2
    <3>4. ~ (p = node /\ x = o)
      BY <3>3 DEF Child
    <3>5. QED
      BY <1>3, <3>3, <3>4
  <2>5. ASSUME NEW x \in 0 .. 1
        PROVE  /\ g[n].children[x] \in DOMAIN g \cup {Null}
               /\ g[n].children[x] # Null => g[n].children[x] = <<n[1] - 1, 2 * n[2] + x>>
    <3>1. CASE n = node /\ x = o
      BY <1>3, <3>1
    <3>2. CASE ~ (n = node /\ x = o)
      <4>1. g[n].children[x] = nodes[n].children[x]
        BY <1>3, <3>2
      <4>2. QED
        BY <1>3, <2>1, <4>1 DEF NodeFits
    <3>3. QED
      BY <3>1, <3>2
  <2>6. QED
    BY <2>2, <2>3, <2>4, <2>5, Zenon DEF NodeFits
<1>7. \A n \in DOMAIN g : NodeFits(g, _height, n)
  BY <1>3, <1>5, <1>6
<1>8. <<_height, 0>> \in DOMAIN g
  BY <1>1, <1>3
<1>9. Tree(g, _height)
  BY <1>1, <1>3, <1>7, <1>8, TreeIs, Zenon
<1>10. QED
  BY <1>0, <1>2, <1>9

LEMMA UnlinkedKeeps ==
  ASSUME Tree(nodes, _height), node \in DOMAIN nodes, node # <<_height, 0>>, IsLeaf(node)
  PROVE  Tree(Unlinked, _height)
<1>0. PICK g : g = Unlinked
  OBVIOUS
<1>1. /\ _height \in Nat \ {0} /\ Rooted(nodes, _height) /\ <<_height, 0>> \in DOMAIN nodes
      /\ \A n \in DOMAIN nodes : NodeFits(nodes, _height, n)
  BY TreeIs DEF Tree
<1>2. /\ Typed(g) /\ DOMAIN g = DOMAIN nodes \ {node}
      /\ \A n \in DOMAIN g :
           /\ \A x \in 0 .. 1 : g[n].children[x] =
                IF nodes[n].children[x] = node THEN Null ELSE nodes[n].children[x]
           /\ g[n].p = nodes[n].p /\ g[n].has_value = nodes[n].has_value
           /\ g[n].height = nodes[n].height /\ g[n].offset = nodes[n].offset
  <2>1. AfterUnlinking(g)
    BY <1>0, UnlinkedIs
  <2>2. QED
    BY <2>1, Zenon DEF AfterUnlinking
<1>3. ASSUME NEW n \in DOMAIN g PROVE NodeFits(g, _height, n)
  <2>1. n \in DOMAIN nodes /\ n # node /\ NodeFits(nodes, _height, n)
    BY <1>1, <1>2
  <2>2. /\ n[1] \in 1 .. _height /\ Shifted(n[2], _height - n[1]) = 0 /\ g[n].height = n[1]
        /\ \A x \in 0 .. 1 : g[n].has_value[x] => n[1] = 1
    BY <1>2, <2>1 DEF NodeFits
  <2>3. n = <<_height, 0>> => g[n].p = Null /\ g[n].offset = 0
    BY <1>2, <2>1 DEF NodeFits
  <2>4. n # <<_height, 0>> => g[n].p \in DOMAIN g /\ g[g[n].p].children[g[n].offset] = n
    <3>1. SUFFICES ASSUME n # <<_height, 0>>
                   PROVE g[n].p \in DOMAIN g /\ g[g[n].p].children[g[n].offset] = n
      OBVIOUS
    <3>2. PICK p, x : p = nodes[n].p /\ x = nodes[n].offset
      OBVIOUS
    <3>3. p \in DOMAIN nodes /\ nodes[p].children[x] = n /\ x \in 0 .. 1
          /\ g[n].p = p /\ g[n].offset = x /\ n # Null
      BY <1>1, <1>2, <2>1, <3>1, <3>2, NodeIs DEF NodeFits
    <3>4. p # node
      BY <3>3 DEF IsLeaf, Child
    <3>5. p \in DOMAIN g
      BY <1>2, <3>3, <3>4
    <3>6. QED
      BY <1>2, <2>1, <3>3, <3>5
  <2>5. ASSUME NEW x \in 0 .. 1
        PROVE  /\ g[n].children[x] \in DOMAIN g \cup {Null}
               /\ g[n].children[x] # Null => g[n].children[x] = <<n[1] - 1, 2 * n[2] + x>>
    <3>1. nodes[n].children[x] \in DOMAIN nodes \cup {Null}
          /\ (nodes[n].children[x] # Null => nodes[n].children[x] = <<n[1] - 1, 2 * n[2] + x>>)
      BY <2>1 DEF NodeFits
    <3>2. QED
      BY <1>2, <3>1
  <2>6. QED
    BY <2>2, <2>3, <2>4, <2>5, Zenon DEF NodeFits
<1>4. <<_height, 0>> \in DOMAIN g
  BY <1>1, <1>2
<1>5. Tree(g, _height)
  BY <1>1, <1>2, <1>3, <1>4, TreeIs, Zenon
<1>6. QED
  BY <1>0, <1>5

LEMMA StoredKeeps ==
  ASSUME Tree(nodes, _height), node \in DOMAIN nodes, node[1] = 1, NEW o \in 0 .. 1
  PROVE  Tree(Stored(o), _height)
<1>0. PICK g : g = Stored(o)
  OBVIOUS
<1>1. /\ _height \in Nat \ {0} /\ Rooted(nodes, _height) /\ <<_height, 0>> \in DOMAIN nodes
      /\ \A n \in DOMAIN nodes : NodeFits(nodes, _height, n)
  BY TreeIs DEF Tree
<1>2. /\ Typed(g) /\ DOMAIN g = DOMAIN nodes
      /\ \A n \in DOMAIN g :
           /\ \A x \in 0 .. 1 : g[n].has_value[x] <=>
                ((n = node /\ x = o) \/ nodes[n].has_value[x])
           /\ g[n].p = nodes[n].p /\ g[n].children = nodes[n].children
           /\ g[n].height = nodes[n].height /\ g[n].offset = nodes[n].offset
  <2>1. AfterStoring(g, o)
    BY <1>0, StoredIs
  <2>2. QED
    BY <2>1, Zenon DEF AfterStoring
<1>3. ASSUME NEW n \in DOMAIN g PROVE NodeFits(g, _height, n)
  <2>1. n \in DOMAIN nodes /\ NodeFits(nodes, _height, n)
    BY <1>1, <1>2
  <2>2. /\ n[1] \in 1 .. _height /\ Shifted(n[2], _height - n[1]) = 0 /\ g[n].height = n[1]
        /\ \A x \in 0 .. 1 : g[n].has_value[x] => n[1] = 1
    BY <1>2, <2>1 DEF NodeFits
  <2>3. n = <<_height, 0>> => g[n].p = Null /\ g[n].offset = 0
    BY <1>2, <2>1 DEF NodeFits
  <2>4. n # <<_height, 0>> => g[n].p \in DOMAIN g /\ g[g[n].p].children[g[n].offset] = n
    BY <1>2, <2>1 DEF NodeFits
  <2>5. \A x \in 0 .. 1 :
          /\ g[n].children[x] \in DOMAIN g \cup {Null}
          /\ g[n].children[x] # Null => g[n].children[x] = <<n[1] - 1, 2 * n[2] + x>>
    BY <1>2, <2>1 DEF NodeFits
  <2>6. QED
    BY <2>2, <2>3, <2>4, <2>5, Zenon DEF NodeFits
<1>4. Tree(g, _height)
  BY <1>1, <1>2, <1>3, TreeIs, Zenon
<1>5. QED
  BY <1>0, <1>4

-----------------------------------------------------------------------------
(* The path of a key, and the new nodes on it. *)

LEMMA PathIs ==
  ASSUME NEW k \in Nat, NEW h \in Nat \ {0}
  PROVE  /\ Path(k, h) = <<h, Shifted(k, h)>> /\ Path(k, h)[1] = h /\ Path(k, h)[2] = Shifted(k, h)
         /\ Path(k, h)[2] \in Nat /\ Path(k, h) \in Nat \X Nat /\ Path(k, h) # Null
<1>1. Shifted(k, h) \in Nat
  BY ShiftedNat
<1>2. QED
  BY <1>1, NullAssumption DEF Path

LEMMA PathDown ==
  ASSUME NEW k \in Nat, NEW h \in Nat, h > 1
  PROVE  /\ Bit(k, h - 1) \in 0 .. 1
         /\ Path(k, h - 1) = <<Path(k, h)[1] - 1, 2 * Path(k, h)[2] + Bit(k, h - 1)>>
BY PathIs, ShiftedBit DEF Path

LEMMA NewIs ==
  ASSUME NEW k \in Nat, NEW H, H \subseteq Nat \ {0}
  PROVE  /\ \A h \in H : Path(k, h) \in NewNodes(k, H)
         /\ \A h \in Nat \ {0} : Path(k, h) \in NewNodes(k, H) => h \in H
         /\ \A n \in NewNodes(k, H) : n[1] \in H /\ n = Path(k, n[1])
<1>1. \A h \in H : Path(k, h) \in NewNodes(k, H)
  BY DEF NewNodes
<1>2. ASSUME NEW n \in NewNodes(k, H) PROVE n[1] \in H /\ n = Path(k, n[1])
  <2>1. PICK h \in H : n = Path(k, h)
    BY DEF NewNodes
  <2>2. n[1] = h
    BY <2>1, PathIs
  <2>3. QED
    BY <2>1, <2>2
<1>3. ASSUME NEW h \in Nat \ {0}, Path(k, h) \in NewNodes(k, H) PROVE h \in H
  BY <1>2, <1>3, PathIs
<1>4. QED
  BY <1>1, <1>2, <1>3

(* A chain begins with nothing, or with a root.                            *)
LEMMA NoChain ==
  ASSUME NEW f, NEW n, NEW k, NEW top, NEW h
  PROVE  NewNodes(k, {}) = {} /\ Chain(f, n, k, {}, top)
BY DEF NewNodes, Chain

(* The node for the next bit is added to the chain.                        *)
LEMMA LinkedChain ==
  ASSUME Tree(nodes, _height), node \in DOMAIN nodes, NEW k \in Nat, level \in Nat, level > 1,
         node = Path(k, level), Offset = Bit(k, level - 1), Child(node, Offset) = Null,
         NEW H, Useful(nodes, NewNodes(k, H)), Chain(nodes, node, k, H, _height),
         NEW new, new = Path(k, level - 1)
  PROVE  /\ Tree(Linked(new), _height) /\ new \notin DOMAIN nodes
         /\ DOMAIN Linked(new) = DOMAIN nodes \cup {new}
         /\ NewNodes(k, H \cup {level - 1}) = NewNodes(k, H) \cup {new}
         /\ Useful(Linked(new), NewNodes(k, H \cup {level - 1}))
         /\ Chain(Linked(new), new, k, H \cup {level - 1}, _height)
<1>1. PICK o : o = Offset
  OBVIOUS
<1>2. /\ o \in 0 .. 1 /\ new = <<node[1] - 1, 2 * node[2] + o>> /\ level = node[1]
      /\ new[1] = level - 1 /\ level - 1 \in Nat \ {0} /\ new # Null
  <2>1. Bit(k, level - 1) \in 0 .. 1
        /\ new = <<Path(k, level)[1] - 1, 2 * Path(k, level)[2] + Bit(k, level - 1)>>
    BY PathDown
  <2>2. level - 1 \in Nat \ {0} /\ level \in Nat \ {0}
    OBVIOUS
  <2>3. level = node[1] /\ new[1] = level - 1 /\ new # Null
    BY <2>2, PathIs
  <2>4. QED
    BY <1>1, <2>1, <2>2, <2>3
<1>3. Tree(Linked(new), _height) /\ new \notin DOMAIN nodes
  BY <1>1, <1>2, LinkedKeeps
<1>4. PICK g : g = Linked(new)
  OBVIOUS
<1>5. AfterLinking(g, new, o)
  BY <1>1, <1>2, <1>3, <1>4, LinkedIs
<1>6. /\ DOMAIN g = DOMAIN nodes \cup {new}
      /\ \A x \in 0 .. 1 : g[new].children[x] = Null /\ ~g[new].has_value[x]
      /\ \A n \in DOMAIN nodes :
           /\ \A x \in 0 .. 1 : g[n].children[x] =
                IF n = node /\ x = o THEN new ELSE nodes[n].children[x]
           /\ g[n].has_value = nodes[n].has_value
  BY <1>5 DEF AfterLinking
<1>7. PICK N, M : N = NewNodes(k, H) /\ M = NewNodes(k, H \cup {level - 1})
  OBVIOUS
<1>8. M = N \cup {new}
  BY <1>7 DEF NewNodes
<1>9. /\ H \subseteq node[1] .. _height /\ N \subseteq DOMAIN nodes
      /\ \A h \in H : h > node[1] => h - 1 \in H
      /\ \A m \in N, x \in 0 .. 1 :
           /\ ~nodes[m].has_value[x]
           /\ nodes[m].children[x] \in N \cup {Null}
           /\ m = node => nodes[m].children[x] = Null
  BY <1>7 DEF Chain
<1>10. \A n \in DOMAIN nodes, x \in 0 .. 1 : nodes[n].children[x] \in DOMAIN nodes \cup {Null}
  BY DEF Tree
<1>11. nodes[node].children[o] = Null
  BY <1>1 DEF Child
<1>12. Useful(g, M)
  <2>1. SUFFICES ASSUME NEW n \in DOMAIN g \ M
                 PROVE \E x \in 0 .. 1 : g[n].has_value[x] \/ g[n].children[x] \notin M \cup {Null}
    BY DEF Useful
  <2>2. n \in DOMAIN nodes \ N
    BY <1>6, <1>8
  <2>3. PICK x \in 0 .. 1 : nodes[n].has_value[x] \/ nodes[n].children[x] \notin N \cup {Null}
    BY <1>7, <2>2 DEF Useful
  <2>4. CASE nodes[n].has_value[x]
    BY <1>6, <2>2, <2>4
  <2>5. CASE nodes[n].children[x] \notin N \cup {Null}
    <3>1. nodes[n].children[x] # new /\ ~ (n = node /\ x = o)
      BY <1>3, <1>10, <1>11, <2>2, <2>5
    <3>2. g[n].children[x] = nodes[n].children[x]
      BY <1>6, <2>2, <3>1
    <3>3. QED
      BY <1>8, <2>5, <3>1, <3>2
  <2>6. QED
    BY <2>3, <2>4, <2>5
<1>13. Chain(g, new, k, H \cup {level - 1}, _height)
  <2>1. _height \in Nat /\ level <= _height
    <3>1. Rooted(nodes, _height)
      BY DEF Tree
    <3>2. QED
      BY <1>2, <3>1, NodeIs
  <2>2. H \cup {level - 1} \subseteq new[1] .. _height
    <3>1. ASSUME NEW h \in H PROVE h \in new[1] .. _height
      <4>1. h \in level .. _height
        BY <1>2, <1>9
      <4>2. QED
        BY <1>2, <2>1, <4>1
    <3>2. level - 1 \in new[1] .. _height
      BY <1>2, <2>1
    <3>3. QED
      BY <3>1, <3>2
  <2>3. ASSUME NEW h \in H \cup {level - 1}, h > new[1] PROVE h - 1 \in H \cup {level - 1}
    <3>1. h \in H /\ h \in level .. _height
      BY <1>2, <1>9, <2>1, <2>3
    <3>2. CASE h = level
      BY <3>2
    <3>3. CASE h # level
      BY <1>2, <1>9, <2>1, <3>1, <3>3
    <3>4. QED
      BY <3>2, <3>3
  <2>4. M \subseteq DOMAIN g
    BY <1>6, <1>8, <1>9
  <2>5. ASSUME NEW m \in M, NEW x \in 0 .. 1
        PROVE  /\ ~g[m].has_value[x] /\ g[m].children[x] \in M \cup {Null}
               /\ m = new => g[m].children[x] = Null
    <3>1. CASE m = new
      BY <1>6, <3>1
    <3>2. CASE m # new
      <4>1. m \in N /\ m \in DOMAIN nodes
        BY <1>8, <1>9, <3>2
      <4>2. ~g[m].has_value[x]
        BY <1>6, <1>9, <4>1
      <4>3. g[m].children[x] \in M \cup {Null}
        BY <1>6, <1>8, <1>9, <4>1
      <4>4. QED
        BY <3>2, <4>2, <4>3
    <3>3. QED
      BY <3>1, <3>2
  <2>6. QED
    BY <1>7, <2>2, <2>3, <2>4, <2>5, Zenon DEF Chain
<1>14. QED
  BY <1>3, <1>4, <1>6, <1>7, <1>8, <1>12, <1>13

(* The chain where the path leads to a node that is there: then no node on *)
(* it is new.                                                              *)
LEMMA FollowedChain ==
  ASSUME Tree(nodes, _height), node \in DOMAIN nodes, NEW k \in Nat, level \in Nat, level > 1,
         node = Path(k, level), NEW o \in 0 .. 1, o = Bit(k, level - 1), Child(node, o) # Null,
         NEW H, Chain(nodes, node, k, H, _height)
  PROVE  /\ Child(node, o) = Path(k, level - 1) /\ Child(node, o) \in DOMAIN nodes
         /\ Chain(nodes, Path(k, level - 1), k, H, _height)
<1>1. /\ _height \in Nat \ {0} /\ Rooted(nodes, _height) /\ level - 1 \in Nat \ {0}
      /\ level \in Nat \ {0}
  BY DEF Tree, Rooted
<1>2. node[1] = level /\ Path(k, level - 1)[1] = level - 1
  BY <1>1, PathIs
<1>3. nodes[node].children[o] = Path(k, level - 1)
  <2>1. Path(k, level - 1) = <<node[1] - 1, 2 * node[2] + o>>
    BY PathDown
  <2>2. nodes[node].children[o] = <<node[1] - 1, 2 * node[2] + o>>
    BY <1>1, NodeIs DEF Child
  <2>3. QED
    BY <2>1, <2>2
<1>4. nodes[node].children[o] \in DOMAIN nodes
  BY DEF Tree, Child
<1>5. /\ H \subseteq level .. _height /\ NewNodes(k, H) \subseteq DOMAIN nodes
      /\ \A h \in H : h > level => h - 1 \in H
      /\ \A m \in NewNodes(k, H), x \in 0 .. 1 :
           /\ ~nodes[m].has_value[x]
           /\ nodes[m].children[x] \in NewNodes(k, H) \cup {Null}
           /\ m = node => nodes[m].children[x] = Null
  BY <1>2 DEF Chain
<1>6. H \subseteq Nat \ {0}
  BY <1>1, <1>5
<1>7. node \notin NewNodes(k, H)
  BY <1>5 DEF Child
<1>8. level \notin H
  BY <1>6, <1>7, NewIs
<1>9. Chain(nodes, Path(k, level - 1), k, H, _height)
  <2>1. H \subseteq level - 1 .. _height
    <3>1. ASSUME NEW h \in H PROVE h \in level - 1 .. _height
      <4>1. h \in level .. _height
        BY <1>5
      <4>2. QED
        BY <1>1, <4>1
    <3>2. QED
      BY <3>1
  <2>2. ASSUME NEW h \in H, h > level - 1 PROVE h - 1 \in H
    BY <1>1, <1>5, <1>8, <2>2
  <2>3. Path(k, level - 1) \notin NewNodes(k, H)
    <3>1. level - 1 \notin H
      BY <1>1, <1>5
    <3>2. QED
      BY <1>1, <1>6, <3>1, NewIs
  <2>4. QED
    BY <1>2, <1>5, <2>1, <2>2, <2>3, Zenon DEF Chain
<1>10. QED
  BY <1>3, <1>4, <1>9 DEF Child

(* The chain without its last node. *)
LEMMA UnlinkedChain ==
  ASSUME Tree(nodes, _height), node \in DOMAIN nodes, NEW k \in Nat, NEW l \in Nat \ {0},
         l < _height, node = Path(k, l), NEW H, l \in H,
         Useful(nodes, NewNodes(k, H)), Chain(nodes, node, k, H, _height)
  PROVE  /\ nodes[node].p = Path(k, l + 1) /\ Path(k, l + 1) \in DOMAIN Unlinked
         /\ Tree(Unlinked, _height) /\ DOMAIN Unlinked = DOMAIN nodes \ {node}
         /\ NewNodes(k, H \ {l}) = NewNodes(k, H) \ {node}
         /\ Useful(Unlinked, NewNodes(k, H \ {l}))
         /\ Chain(Unlinked, Path(k, l + 1), k, H \ {l}, _height)
<1>1. /\ _height \in Nat \ {0} /\ Rooted(nodes, _height) /\ l + 1 \in Nat \ {0}
  BY DEF Tree, Rooted
<1>2. node[1] = l /\ Path(k, l + 1)[1] = l + 1 /\ node[2] \in Nat
      /\ Path(k, l + 1) = <<l + 1, node[2] \div 2>>
  <2>1. Shifted(k, l + 1) = Shifted(k, l) \div 2
    BY ShiftedNext
  <2>2. node[1] = l /\ node[2] = Shifted(k, l) /\ node[2] \in Nat
    BY PathIs
  <2>3. Path(k, l + 1) = <<l + 1, Shifted(k, l + 1)>> /\ Path(k, l + 1)[1] = l + 1
    BY <1>1, PathIs
  <2>4. QED
    BY <2>1, <2>2, <2>3
<1>3. node # <<_height, 0>>
  BY <1>1, <1>2
<1>4. /\ H \subseteq l .. _height /\ NewNodes(k, H) \subseteq DOMAIN nodes
      /\ \A h \in H : h > l => h - 1 \in H
      /\ \A m \in NewNodes(k, H), x \in 0 .. 1 :
           /\ ~nodes[m].has_value[x]
           /\ nodes[m].children[x] \in NewNodes(k, H) \cup {Null}
           /\ m = node => nodes[m].children[x] = Null
  BY <1>2 DEF Chain
<1>5. H \subseteq Nat \ {0} /\ node \in NewNodes(k, H)
  <2>1. H \subseteq Nat \ {0}
    BY <1>1, <1>4
  <2>2. QED
    BY <2>1, NewIs
<1>6. IsLeaf(node)
  BY <1>4, <1>5 DEF IsLeaf, Child
<1>7. Tree(Unlinked, _height)
  BY <1>3, <1>6, UnlinkedKeeps
<1>8. nodes[node].p = Path(k, l + 1) /\ nodes[node].p \in DOMAIN nodes /\ nodes[node].p # node
  BY <1>1, <1>2, <1>3, ParentIs
<1>9. PICK g : g = Unlinked
  OBVIOUS
<1>10. AfterUnlinking(g)
  BY <1>3, <1>9, UnlinkedIs
<1>11. /\ DOMAIN g = DOMAIN nodes \ {node}
       /\ \A n \in DOMAIN g :
            /\ \A x \in 0 .. 1 : g[n].children[x] =
                 IF nodes[n].children[x] = node THEN Null ELSE nodes[n].children[x]
            /\ g[n].has_value = nodes[n].has_value
  BY <1>10 DEF AfterUnlinking
<1>12. PICK N, M : N = NewNodes(k, H) /\ M = NewNodes(k, H \ {l})
  OBVIOUS
<1>13. M = N \ {node}
  <2>1. M \subseteq N
    BY <1>12 DEF NewNodes
  <2>2. ASSUME NEW n \in N PROVE n \in M <=> n # node
    <3>1. n[1] \in H /\ n = Path(k, n[1])
      BY <1>5, <1>12, NewIs
    <3>2. n # node => n \in M
      BY <1>12, <3>1 DEF NewNodes
    <3>3. H \ {l} \subseteq Nat \ {0}
      BY <1>5
    <3>4. n \in M => n[1] \in H \ {l}
      BY <1>12, <3>3, NewIs
    <3>5. QED
      BY <1>2, <3>2, <3>4
  <2>3. QED
    BY <2>1, <2>2
<1>14. Useful(g, M)
  <2>1. SUFFICES ASSUME NEW n \in DOMAIN g \ M
                 PROVE \E x \in 0 .. 1 : g[n].has_value[x] \/ g[n].children[x] \notin M \cup {Null}
    BY DEF Useful
  <2>2. n \in DOMAIN nodes \ N
    BY <1>11, <1>13
  <2>3. PICK x \in 0 .. 1 : nodes[n].has_value[x] \/ nodes[n].children[x] \notin N \cup {Null}
    BY <1>12, <2>2 DEF Useful
  <2>4. CASE nodes[n].has_value[x]
    BY <1>11, <2>1, <2>4
  <2>5. CASE nodes[n].children[x] \notin N \cup {Null}
    <3>1. nodes[n].children[x] # node
      BY <1>5, <1>12, <2>5
    <3>2. g[n].children[x] = nodes[n].children[x]
      BY <1>11, <2>1, <3>1
    <3>3. QED
      BY <1>13, <2>5, <3>2
  <2>6. QED
    BY <2>3, <2>4, <2>5
<1>15. Chain(g, Path(k, l + 1), k, H \ {l}, _height)
  <2>1. H \ {l} \subseteq l + 1 .. _height
    <3>1. ASSUME NEW h \in H \ {l} PROVE h \in l + 1 .. _height
      <4>1. h \in l .. _height /\ h # l
        BY <1>4
      <4>2. QED
        BY <1>1, <4>1
    <3>2. QED
      BY <3>1
  <2>2. ASSUME NEW h \in H \ {l}, h > l + 1 PROVE h - 1 \in H \ {l}
    <3>1. h \in l .. _height /\ h \in H /\ l \in Nat
      BY <1>1, <1>4
    <3>2. h > l => h - 1 \in H
      BY <1>4, <3>1
    <3>3. h > l /\ h - 1 # l
      BY <2>2, <3>1
    <3>4. QED
      BY <3>2, <3>3
  <2>3. M \subseteq DOMAIN g
    BY <1>4, <1>11, <1>12, <1>13
  <2>4. ASSUME NEW m \in M, NEW x \in 0 .. 1
        PROVE  /\ ~g[m].has_value[x] /\ g[m].children[x] \in M \cup {Null}
               /\ m = Path(k, l + 1) => g[m].children[x] = Null
    <3>1. m \in N /\ m \in DOMAIN g /\ m \in DOMAIN nodes
      BY <1>4, <1>12, <1>13, <2>3
    <3>2. ~g[m].has_value[x]
      BY <1>4, <1>11, <1>12, <3>1
    <3>3. g[m].children[x] \in M \cup {Null}
      <4>1. PICK c : c = nodes[m].children[x]
        OBVIOUS
      <4>2. c \in N \cup {Null} /\ g[m].children[x] = IF c = node THEN Null ELSE c
        BY <1>4, <1>11, <1>12, <3>1, <4>1
      <4>3. QED
        BY <1>13, <4>2
    <3>4. ASSUME m = Path(k, l + 1), g[m].children[x] # Null PROVE FALSE
      <4>1. PICK c : c = g[m].children[x]
        OBVIOUS
      <4>2. c \in M /\ c = nodes[m].children[x] /\ c # Null
        BY <1>11, <3>1, <3>3, <3>4, <4>1
      <4>3. c[1] = m[1] - 1
        BY <1>1, <3>1, <4>2, NodeIs
      <4>4. c[1] = l
        BY <1>2, <3>4, <4>3
      <4>5. c[1] \in H \ {l}
        <5>1. PICK J : J = H \ {l}
          OBVIOUS
        <5>2. J \subseteq Nat \ {0} /\ c \in NewNodes(k, J)
          BY <1>5, <1>12, <4>2, <5>1
        <5>3. c[1] \in J
          BY <5>2, NewIs
        <5>4. QED
          BY <5>1, <5>3
      <4>6. QED
        BY <4>4, <4>5
    <3>5. QED
      BY <3>2, <3>3, <3>4
  <2>5. QED
    BY <1>2, <1>12, <2>1, <2>2, <2>3, <2>4, Zenon DEF Chain
<1>16. QED
  BY <1>7, <1>8, <1>9, <1>11, <1>12, <1>13, <1>14, <1>15

(* Back from a node that is not new: no node above it is. *)
LEMMA LeftChain ==
  ASSUME Tree(nodes, _height), node \in DOMAIN nodes, NEW k \in Nat, NEW l \in Nat \ {0},
         l < _height, node = Path(k, l), NEW H, l \notin H,
         Chain(nodes, node, k, H, _height)
  PROVE  /\ nodes[node].p = Path(k, l + 1) /\ Path(k, l + 1) \in DOMAIN nodes
         /\ Chain(nodes, Path(k, l + 1), k, H, _height)
<1>1. /\ _height \in Nat \ {0} /\ Rooted(nodes, _height) /\ l + 1 \in Nat \ {0}
  BY DEF Tree, Rooted
<1>2. node[1] = l /\ Path(k, l + 1)[1] = l + 1 /\ node[2] \in Nat
      /\ Path(k, l + 1) = <<l + 1, node[2] \div 2>>
  <2>1. Shifted(k, l + 1) = Shifted(k, l) \div 2
    BY ShiftedNext
  <2>2. node[1] = l /\ node[2] = Shifted(k, l) /\ node[2] \in Nat
    BY PathIs
  <2>3. Path(k, l + 1) = <<l + 1, Shifted(k, l + 1)>> /\ Path(k, l + 1)[1] = l + 1
    BY <1>1, PathIs
  <2>4. QED
    BY <2>1, <2>2, <2>3
<1>3. node # <<_height, 0>>
  BY <1>1, <1>2
<1>4. /\ H \subseteq l .. _height /\ NewNodes(k, H) \subseteq DOMAIN nodes
      /\ \A h \in H : h > l => h - 1 \in H
      /\ \A m \in NewNodes(k, H), x \in 0 .. 1 :
           /\ ~nodes[m].has_value[x]
           /\ nodes[m].children[x] \in NewNodes(k, H) \cup {Null}
  BY <1>2 DEF Chain
<1>5. nodes[node].p = Path(k, l + 1) /\ nodes[node].p \in DOMAIN nodes
  BY <1>1, <1>2, <1>3, ParentIs
<1>6. H \subseteq l + 1 .. _height
  <2>1. ASSUME NEW h \in H PROVE h \in l + 1 .. _height
    <3>1. h \in l .. _height /\ h # l
      BY <1>4
    <3>2. QED
      BY <1>1, <3>1
  <2>2. QED
    BY <2>1
<1>7. \A h \in H : h > l + 1 => h - 1 \in H
  BY <1>1, <1>4, <1>6
<1>8. Path(k, l + 1) \notin NewNodes(k, H)
  <2>1. l + 1 \notin H
    BY <1>1, <1>4
  <2>2. H \subseteq Nat \ {0}
    BY <1>1, <1>4
  <2>3. QED
    BY <1>1, <2>1, <2>2, NewIs
<1>9. QED
  BY <1>2, <1>4, <1>5, <1>6, <1>7, <1>8, Zenon DEF Chain

(* A tree of one node, the root. *)
LEMMA FirstIs ==
  ASSUME DOMAIN nodes = {}, NEW h \in Nat \ {0}, NEW k \in Nat, Shifted(k, h) = 0,
         NEW root, root = <<h, 0>>
  PROVE  LET g == With(root, NewNode(h, Null, 0))
         IN /\ Tree(g, h) /\ DOMAIN g = {root} /\ root = Path(k, h)
            /\ NewNodes(k, {h}) = {root} /\ Useful(g, {root}) /\ Chain(g, root, k, {h}, h)
            /\ \A o \in 0 .. 1 : ~g[root].has_value[o]
<1>1. PICK a : a = NewNode(h, Null, 0)
  OBVIOUS
<1>2. /\ a \in NodeRecords /\ a.p = Null /\ a.height = h /\ a.offset = 0
      /\ \A x \in 0 .. 1 : a.children[x] = Null /\ ~a.has_value[x]
  <2>1. Null \in Names \cup {Null} /\ 0 \in 0 .. 1
    OBVIOUS
  <2>2. QED
    BY ONLY h \in Nat \ {0}, <2>1, <1>1, NewNodeIs
<1>3. PICK g : g = With(root, a)
  OBVIOUS
<1>4. g = [m \in {root} |-> a]
  BY <1>3 DEF With
<1>5. root = Path(k, h) /\ NewNodes(k, {h}) = {root}
  BY DEF Path, NewNodes
<1>6. root[1] = h /\ root[2] = 0 /\ root \in Names /\ h - h = 0 /\ Shifted(0, 0) = 0
  <2>1. root[1] = h /\ root[2] = 0 /\ root \in Names /\ h - h = 0
    BY DEF Names
  <2>2. Shifted(0, 0) = 0
    BY ShiftedNext
  <2>3. QED
    BY <2>1, <2>2
<1>7. Tree(g, h)
  <2>1. Typed(g)
    BY <1>2, <1>4, <1>6 DEF Typed
  <2>2. DOMAIN g = {root} /\ g[root] = a
    BY <1>4
  <2>3. NodeFits(g, h, root)
    BY <1>2, <1>6, <2>2 DEF NodeFits
  <2>4. QED
    BY <2>1, <2>2, <2>3, TreeIs
<1>8. Useful(g, {root})
  BY <1>4 DEF Useful
<1>9. Chain(g, root, k, {h}, h)
  <2>1. /\ {h} \subseteq root[1] .. h /\ \A l \in {h} : l > root[1] => l - 1 \in {h}
        /\ {root} \subseteq DOMAIN g
    BY <1>4, <1>6
  <2>2. \A m \in {root}, o \in 0 .. 1 :
          /\ ~g[m].has_value[o] /\ g[m].children[o] \in {root} \cup {Null}
          /\ m = root => g[m].children[o] = Null
    BY <1>2, <1>4
  <2>3. PICK H : H = {h}
    OBVIOUS
  <2>4. NewNodes(k, H) = {root}
    BY <1>5, <2>3
  <2>5. /\ H \subseteq root[1] .. h /\ \A l \in H : l > root[1] => l - 1 \in H
        /\ NewNodes(k, H) \subseteq DOMAIN g
    BY <2>1, <2>3, <2>4
  <2>6. \A m \in NewNodes(k, H), o \in 0 .. 1 :
          /\ ~g[m].has_value[o] /\ g[m].children[o] \in NewNodes(k, H) \cup {Null}
          /\ m = root => g[m].children[o] = Null
    BY <2>2, <2>4
  <2>7. Chain(g, root, k, H, h)
    BY <2>5, <2>6, Zenon DEF Chain
  <2>8. QED
    BY <2>3, <2>7
<1>10. g = With(root, NewNode(h, Null, 0))
  BY <1>1, <1>3
<1>11. DOMAIN g = {root} /\ \A o \in 0 .. 1 : ~g[root].has_value[o]
  BY <1>2, <1>4
<1>12. QED
  BY <1>5, <1>7, <1>8, <1>9, <1>10, <1>11, Zenon

(* The value ends the chain: every leaf holds one. *)
LEMMA StoredUseful ==
  ASSUME Tree(nodes, _height), node \in DOMAIN nodes, NEW k \in Nat, node = Path(k, 1),
         NEW H, Useful(nodes, NewNodes(k, H)), Chain(nodes, node, k, H, _height),
         NEW o \in 0 .. 1
  PROVE  Tree(Stored(o), _height) /\ Useful(Stored(o), {})
<1>1. Rooted(nodes, _height) /\ node[1] = 1 /\ _height \in Nat
  BY PathIs DEF Tree, Rooted
<1>2. Tree(Stored(o), _height)
  BY <1>1, StoredKeeps
<1>3. PICK g : g = Stored(o)
  OBVIOUS
<1>4. AfterStoring(g, o)
  BY <1>3, StoredIs
<1>5. /\ DOMAIN g = DOMAIN nodes
      /\ \A n \in DOMAIN g :
           /\ \A x \in 0 .. 1 : g[n].has_value[x] <=>
                ((n = node /\ x = o) \/ nodes[n].has_value[x])
           /\ g[n].children = nodes[n].children
  BY <1>4, Zenon DEF AfterStoring
<1>6. PICK N : N = NewNodes(k, H)
  OBVIOUS
<1>7. /\ H \subseteq 1 .. _height /\ N \subseteq DOMAIN nodes
      /\ \A h \in H : h > 1 => h - 1 \in H
  BY <1>1, <1>6 DEF Chain
<1>8. ASSUME NEW n \in DOMAIN g \ {}
      PROVE  \E x \in 0 .. 1 : g[n].has_value[x] \/ g[n].children[x] \notin {} \cup {Null}
  <2>1. n \in DOMAIN nodes
    BY <1>5
  <2>2. CASE n \notin N
    <3>1. PICK x \in 0 .. 1 : nodes[n].has_value[x] \/ nodes[n].children[x] \notin N \cup {Null}
      BY <1>6, <2>1, <2>2 DEF Useful
    <3>2. nodes[n].has_value[x] => g[n].has_value[x]
      BY <1>5, <3>1, Zenon
    <3>3. g[n].children[x] = nodes[n].children[x]
      BY <1>5
    <3>4. QED
      BY <3>1, <3>2, <3>3
  <2>3. CASE n = node
    <3>1. g[n].has_value[o]
      BY <1>5, <2>3, Zenon
    <3>2. QED
      BY <3>1
  <2>4. CASE n \in N /\ n # node
    <3>1. H \subseteq Nat \ {0}
      BY <1>1, <1>7
    <3>2. n[1] \in H /\ n = Path(k, n[1])
      BY <1>6, <2>4, <3>1, NewIs
    <3>3. PICK h \in Nat : h = n[1] /\ h > 1 /\ h - 1 \in H
      <4>1. n[1] # 1 /\ n[1] \in 1 .. _height
        BY <1>7, <2>4, <3>2
      <4>2. n[1] \in Nat /\ n[1] > 1
        BY <1>1, <4>1
      <4>3. QED
        BY <1>7, <3>2, <4>2
    <3>4. PICK x \in 0 .. 1 : Path(k, h - 1) = <<n[1] - 1, 2 * n[2] + x>>
      BY <3>2, <3>3, PathDown
    <3>5. Path(k, h - 1) \in DOMAIN nodes /\ Path(k, h - 1) # Null
      <4>1. Path(k, h - 1) \in N
        BY <1>6, <3>3 DEF NewNodes
      <4>2. QED
        BY <1>1, <1>7, <4>1, NodeIs
    <3>6. nodes[n].children[x] = Path(k, h - 1)
      <4>1. PICK c : c = Path(k, h - 1)
        OBVIOUS
      <4>2. c \in DOMAIN nodes /\ c = <<n[1] - 1, 2 * n[2] + x>>
        BY <3>4, <3>5, <4>1
      <4>3. x \in 0 .. 1
        BY <3>4
      <4>4. nodes[n].children[x] = c
        BY ONLY <1>1, <2>1, <4>2, <4>3, ChildIs
      <4>5. QED
        BY <4>1, <4>4
    <3>7. QED
      BY <1>5, <3>5, <3>6
  <2>5. QED
    BY <2>2, <2>3, <2>4
<1>9. Useful(g, {})
  BY <1>8, Zenon DEF Useful
<1>10. QED
  BY <1>2, <1>3, <1>9

(* A new root keeps the leaves. *)
LEMMA RerootUseful ==
  ASSUME Tree(nodes, _height), _root = <<_height, 0>>, Useful(nodes, {}),
         NEW root, root = <<_height + 1, 0>>
  PROVE  Tree(Reroot(root), _height + 1) /\ Useful(Reroot(root), {})
<1>1. Tree(Reroot(root), _height + 1)
  BY RerootKeeps
<1>2. PICK g : g = Reroot(root)
  OBVIOUS
<1>3. AfterRerooting(g, root)
  BY <1>2, RerootIs
<1>4. /\ DOMAIN g = DOMAIN nodes \cup {root}
      /\ g[root].children[0] = _root
      /\ \A n \in DOMAIN nodes :
           g[n].children = nodes[n].children /\ g[n].has_value = nodes[n].has_value
  BY <1>3 DEF AfterRerooting
<1>5. _root # Null
  <2>1. Rooted(nodes, _height) /\ _root \in DOMAIN nodes
    BY DEF Tree, Rooted
  <2>2. QED
    BY <2>1, NodeIs
<1>6. ASSUME NEW n \in DOMAIN g \ {}
      PROVE  \E x \in 0 .. 1 : g[n].has_value[x] \/ g[n].children[x] \notin {} \cup {Null}
  <2>1. CASE n = root
    BY <1>4, <1>5, <2>1
  <2>2. CASE n \in DOMAIN nodes
    <3>1. \E x \in 0 .. 1 : nodes[n].has_value[x] \/ nodes[n].children[x] \notin {} \cup {Null}
      BY <2>2 DEF Useful
    <3>2. QED
      BY <1>4, <2>2, <3>1
  <2>3. QED
    BY <1>4, <2>1, <2>2
<1>7. Useful(g, {})
  BY <1>6, Zenon DEF Useful
<1>8. QED
  BY <1>1, <1>2, <1>7

-----------------------------------------------------------------------------
(* The invariant, one value of pc at a time. *)

LEMMA IdleInv ==
  ASSUME pc' \in {"idle", "grow_height"},
         _root' = Null => pc' = "idle" /\ Typed(nodes') /\ _height' \in Nat /\ DOMAIN nodes' = {},
         _root' # Null =>
           _root' = <<_height', 0>> /\ Tree(nodes', _height') /\ Useful(nodes', {}),
         pc' = "grow_height" =>
           arg'.key \in Keys /\ _height' <= HeightOf(arg'.key) /\ ~arg'.planted /\ _root' # Null
  PROVE  IInv'
<1>1. New' = {}
  BY DEF New
<1>2. Typed(nodes') /\ _height' \in Nat
  BY DEF Tree, Rooted
<1>3. QED
  BY <1>1, <1>2 DEF IInv, Standing

LEMMA GrowingInv ==
  ASSUME pc' \in {"grow_node", "rollback"}, arg'.key \in Keys,
         _root' = <<_height', 0>>, Tree(nodes', _height'),
         Useful(nodes', NewNodes(arg'.key, NewHeights')), Growing'
  PROVE  IInv'
<1>1. New' = NewNodes(arg'.key, NewHeights')
  BY DEF New
<1>2. Typed(nodes') /\ _height' \in Nat /\ _root' # Null
  <2>1. Rooted(nodes', _height') /\ _root' \in DOMAIN nodes'
    BY DEF Tree, Rooted
  <2>2. _root' # Null
    BY <2>1, NodeIs
  <2>3. QED
    BY <2>1, <2>2 DEF Rooted
<1>3. QED
  BY <1>1, <1>2 DEF IInv, Standing

LEMMA IdleIs ==
  ASSUME IInv, pc \in {"idle", "grow_height"}
  PROVE  /\ Typed(nodes) /\ _height \in Nat
         /\ _root = Null => pc = "idle" /\ DOMAIN nodes = {}
         /\ _root # Null => _root = <<_height, 0>> /\ Tree(nodes, _height) /\ Useful(nodes, {})
         /\ pc = "grow_height" => arg.key \in Keys /\ _height <= HeightOf(arg.key) /\ ~arg.planted
<1>1. New = {}
  BY DEF New
<1>2. QED
  BY <1>1 DEF IInv, Standing

LEMMA GrowingIs ==
  ASSUME IInv, pc \in {"grow_node", "rollback"}
  PROVE  /\ arg.key \in Keys /\ arg.key \in Nat /\ _height \in Nat \ {0}
         /\ _root = <<_height, 0>> /\ Tree(nodes, _height)
         /\ Useful(nodes, NewNodes(arg.key, NewHeights)) /\ Growing
<1>1. New = NewNodes(arg.key, NewHeights)
  BY DEF New
<1>2. arg.key \in Keys /\ _root # Null /\ Growing
  BY DEF IInv, Standing
<1>3. _root = <<_height, 0>> /\ Tree(nodes, _height) /\ Useful(nodes, New)
  BY <1>2 DEF IInv, Standing
<1>4. QED
  BY <1>1, <1>2, <1>3, KeyAssumption DEF Tree, Rooted

(* How _grow_node begins, in a tree that is there. *)
LEMMA BeginGrowing ==
  ASSUME Tree(nodes, _height), _root = <<_height, 0>>, Useful(nodes, {}),
         arg'.key \in Keys, HeightOf(arg'.key) <= _height, ~arg'.planted,
         GrowNodeFrom(_root, _height), UNCHANGED tree
  PROVE  IInv'
<1>1. PICK k \in Nat : k = arg'.key
  BY KeyAssumption
<1>2. /\ _height \in Nat \ {0} /\ Rooted(nodes, _height) /\ _root \in DOMAIN nodes
  BY DEF Tree, Rooted
<1>3. Shifted(k, _height) = 0
  BY <1>1, <1>2, HeightIs
<1>4. /\ pc' = "grow_node" /\ node' = _root /\ level' = _height /\ i' = 0 /\ insertion_flags' = {}
      /\ _root' = _root /\ _height' = _height /\ nodes' = nodes
  BY DEF GrowNodeFrom, tree
<1>5. NewHeights' = {}
  BY <1>4 DEF NewHeights
<1>6. NewNodes(k, {}) = {} /\ Chain(nodes, _root, k, {}, _height)
  BY NoChain
<1>7. _root = Path(k, _height - 0)
  BY <1>2, <1>3 DEF Path
<1>8. Growing'
  BY <1>1, <1>2, <1>3, <1>4, <1>5, <1>6, <1>7 DEF Growing
<1>9. /\ pc' \in {"grow_node", "rollback"} /\ _root' = <<_height', 0>>
      /\ Tree(nodes', _height') /\ Useful(nodes', NewNodes(arg'.key, NewHeights'))
  BY <1>1, <1>4, <1>5, <1>6
<1>10. QED
  BY <1>8, <1>9, GrowingInv, Zenon

LEMMA InitInv == Init => IInv
<1>1. SUFFICES ASSUME Init PROVE IInv
  OBVIOUS
<1>2. pc = "idle" /\ _root = Null /\ _height = 0 /\ nodes = <<>>
  BY <1>1, Zenon DEF Init
<1>3. DOMAIN nodes = {} /\ nodes \in [{} -> NodeRecords]
  BY <1>2
<1>4. Typed(nodes) /\ _height \in Nat
  BY <1>2, <1>3 DEF Typed
<1>5. QED
  BY <1>2, <1>3, <1>4 DEF IInv, Standing

LEMMA InsertRootInv ==
  ASSUME IInv, NEW k \in Keys, InsertRoot(k) PROVE IInv'
<1>1. PICK h : h = HeightOf(k)
  OBVIOUS
<1>2. k \in Nat /\ h \in Nat \ {0} /\ Shifted(k, h) = 0
  BY <1>1, KeyAssumption, HeightIs
<1>3. pc = "idle" /\ _root = Null /\ DOMAIN nodes = {} /\ Typed(nodes) /\ _height \in Nat
  BY IdleIs DEF InsertRoot
<1>4. PICK root : root = <<h, 0>>
  OBVIOUS
<1>5. CASE /\ nodes' = With(root, NewNode(h, Null, 0)) /\ _root' = root /\ _height' = h
           /\ arg' = [NoArg EXCEPT !.key = k, !.planted = TRUE]
           /\ GrowNodeFrom(root, h)
  <2>1. /\ Tree(nodes', h) /\ DOMAIN nodes' = {root} /\ root = Path(k, h)
        /\ NewNodes(k, {h}) = {root} /\ Useful(nodes', {root}) /\ Chain(nodes', root, k, {h}, h)
    <3>1. LET g == With(root, NewNode(h, Null, 0))
          IN /\ Tree(g, h) /\ DOMAIN g = {root} /\ root = Path(k, h)
             /\ NewNodes(k, {h}) = {root} /\ Useful(g, {root}) /\ Chain(g, root, k, {h}, h)
      BY <1>2, <1>3, <1>4, FirstIs
    <3>2. QED
      BY <1>5, <3>1, Zenon
  <2>2. /\ pc' = "grow_node" /\ node' = root /\ level' = h /\ i' = 0 /\ insertion_flags' = {}
        /\ arg'.key = k /\ arg'.planted /\ arg'.first = Null
    BY <1>5 DEF GrowNodeFrom, NoArg
  <2>3. NewHeights' = {h}
    BY <1>5, <2>2 DEF NewHeights
  <2>4. Growing'
    <3>1. /\ i' \in 0 .. _height' - 1 /\ _height' - i' = h /\ insertion_flags' \subseteq 0 .. i' - 1
          /\ insertion_flags' \subseteq Nat
      BY <1>2, <1>5, <2>2
    <3>2. /\ node' = Path(arg'.key, _height' - i') /\ node' \in DOMAIN nodes'
          /\ level' = _height' - i' /\ Shifted(arg'.key, _height') = 0
          /\ arg'.first = Null
      BY <1>2, <1>5, <2>1, <2>2, <3>1
    <3>3. NewNodes(arg'.key, NewHeights') = {root}
      BY <2>1, <2>2, <2>3
    <3>4. Chain(nodes', node', arg'.key, NewHeights', _height')
      BY <1>5, <2>1, <2>2, <2>3
    <3>5. QED
      BY <2>1, <3>1, <3>2, <3>3, <3>4, Zenon DEF Growing
  <2>5. QED
    BY <1>4, <1>5, <2>1, <2>2, <2>3, <2>4, GrowingInv
<1>6. CASE UNCHANGED <<tree, pc, arg, regs>>
  <2>1. pc' = "idle" /\ _root' = Null /\ DOMAIN nodes' = {} /\ Typed(nodes') /\ _height' \in Nat
    BY <1>3, <1>6 DEF tree
  <2>2. QED
    BY <2>1, IdleInv
<1>7. QED
  BY <1>1, <1>4, <1>5, <1>6, Zenon DEF InsertRoot

LEMMA InsertBeginInv ==
  ASSUME IInv, NEW k \in Keys, InsertBegin(k) PROVE IInv'
<1>1. /\ pc = "idle" /\ _root # Null /\ arg' = [NoArg EXCEPT !.key = k] /\ UNCHANGED tree
  BY DEF InsertBegin
<1>2. _root = <<_height, 0>> /\ Tree(nodes, _height) /\ Useful(nodes, {}) /\ _height \in Nat
  BY <1>1, IdleIs
<1>3. arg'.key = k /\ ~arg'.planted
  BY <1>1 DEF NoArg
<1>4. HeightOf(k) \in Nat
  BY KeyAssumption, HeightIs
<1>5. CASE HeightOf(k) > _height
  <2>1. pc' = "grow_height"
    BY <1>5 DEF InsertBegin
  <2>2. _root' = _root /\ _height' = _height /\ nodes' = nodes
    BY <1>1 DEF tree
  <2>3. QED
    BY <1>1, <1>2, <1>3, <1>4, <1>5, <2>1, <2>2, IdleInv
<1>6. CASE ~ (HeightOf(k) > _height)
  <2>1. GrowNodeFrom(_root, _height)
    BY <1>6 DEF InsertBegin
  <2>2. HeightOf(arg'.key) <= _height
    BY <1>2, <1>3, <1>4, <1>6
  <2>3. QED
    BY <1>1, <1>2, <1>3, <2>1, <2>2, BeginGrowing
<1>7. QED
  BY <1>5, <1>6

LEMMA GrowHeightInv == ASSUME IInv, GrowHeight PROVE IInv'
<1>1. PICK root : root = <<_height + 1, 0>>
  OBVIOUS
<1>2. /\ pc = "grow_height" /\ _height < HeightOf(arg.key) /\ nodes' = Reroot(root)
      /\ _root' = root /\ _height' = _height + 1 /\ pc' = pc
      /\ arg' = [arg EXCEPT !.first = IF @ = Null THEN root ELSE @]
  BY <1>1, Zenon DEF GrowHeight
<1>3. /\ _root = <<_height, 0>> /\ Tree(nodes, _height) /\ Useful(nodes, {}) /\ _height \in Nat
      /\ arg.key \in Keys /\ ~arg.planted
  BY <1>2, IdleIs
<1>4. Tree(nodes', _height') /\ Useful(nodes', {})
  BY ONLY <1>1, <1>2, <1>3, RerootUseful
<1>5. arg'.key = arg.key /\ arg'.planted = arg.planted
  BY <1>2
<1>6. HeightOf(arg.key) \in Nat
  BY <1>3, KeyAssumption, HeightIs
<1>7. _root' # Null
  <2>1. Rooted(nodes', _height') /\ _root' \in DOMAIN nodes'
    BY <1>1, <1>2, <1>4 DEF Tree, Rooted
  <2>2. QED
    BY <2>1, NodeIs
<1>8. QED
  BY <1>1, <1>2, <1>3, <1>4, <1>5, <1>6, <1>7, IdleInv

LEMMA GrowHeightNoMemoryInv == ASSUME IInv, GrowHeightNoMemory PROVE IInv'
<1>1. pc = "grow_height" /\ UNCHANGED tree
  BY DEF GrowHeightNoMemory
<1>2. /\ _root = <<_height, 0>> /\ Tree(nodes, _height) /\ Useful(nodes, {}) /\ _height \in Nat
      /\ Typed(nodes) /\ _root # Null
  BY <1>1, IdleIs
<1>3. _root' = _root /\ _height' = _height /\ nodes' = nodes
  BY <1>1 DEF tree
<1>4. CASE pc' = "idle"
  BY <1>2, <1>3, <1>4, IdleInv
<1>5. CASE pc' = "undefined"
  BY <1>2, <1>3, <1>5 DEF IInv, Standing
<1>6. QED
  BY <1>4, <1>5 DEF GrowHeightNoMemory, Return

LEMMA GrowHeightDoneInv == ASSUME IInv, GrowHeightDone PROVE IInv'
<1>1. /\ pc = "grow_height" /\ _height = HeightOf(arg.key) /\ GrowNodeFrom(_root, _height)
      /\ UNCHANGED tree /\ arg' = arg
  BY DEF GrowHeightDone
<1>2. /\ _root = <<_height, 0>> /\ Tree(nodes, _height) /\ Useful(nodes, {}) /\ _height \in Nat
      /\ arg.key \in Keys /\ ~arg.planted
  BY <1>1, IdleIs
<1>3. QED
  BY <1>1, <1>2, BeginGrowing

(* NewHeights, as the loops of an insertion change i and insertion_flags. *)
LEMMA HeightsForward ==
  ASSUME _height \in Nat, i \in 0 .. _height - 1, insertion_flags \subseteq 0 .. i - 1,
         i + 1 < _height, _height' = _height, arg' = arg, i' = i + 1
  PROVE  /\ insertion_flags' = insertion_flags => NewHeights' = NewHeights
         /\ insertion_flags' = insertion_flags \cup {i} =>
              NewHeights' = NewHeights \cup {_height - i - 1}
<1>1. \A h \in 1 .. _height : _height - h - 1 \in insertion_flags => _height - h - 1 < i
  OBVIOUS
<1>2. ASSUME NEW h \in 1 .. _height
      PROVE  /\ (_height - h - 1 \in insertion_flags /\ _height - h - 1 < i + 1)
                <=> (_height - h - 1 \in insertion_flags /\ _height - h - 1 < i)
             /\ (_height - h - 1 \in insertion_flags \cup {i} /\ _height - h - 1 < i + 1)
                <=> ((_height - h - 1 \in insertion_flags /\ _height - h - 1 < i)
                     \/ h = _height - i - 1)
  BY <1>1
<1>3. _height - i - 1 \in 1 .. _height
  OBVIOUS
<1>4. CASE insertion_flags' = insertion_flags
  BY <1>2, <1>4 DEF NewHeights
<1>5. CASE insertion_flags' = insertion_flags \cup {i}
  <2>1. {h \in 1 .. _height : _height - h - 1 \in insertion_flags' /\ _height - h - 1 < i'}
        = {h \in 1 .. _height : _height - h - 1 \in insertion_flags /\ _height - h - 1 < i}
            \cup {_height - i - 1}
    BY <1>2, <1>3, <1>5
  <2>2. PICK A, B : /\ A = {h \in 1 .. _height :
                              _height - h - 1 \in insertion_flags /\ _height - h - 1 < i}
                    /\ B = (IF arg.planted THEN {_height} ELSE {})
    OBVIOUS
  <2>3. NewHeights = A \cup B /\ NewHeights' = (A \cup {_height - i - 1}) \cup B
    BY <2>1, <2>2, Zenon DEF NewHeights
  <2>4. i \notin insertion_flags
    OBVIOUS
  <2>5. QED
    BY <1>5, <2>3, <2>4
<1>6. QED
  BY <1>4, <1>5

LEMMA HeightsBack ==
  ASSUME _height \in Nat, i \in 1 .. _height - 1, insertion_flags \subseteq Nat,
         UNCHANGED <<_height, arg, insertion_flags>>, i' = i - 1
  PROVE  /\ (_height - i) \in NewHeights <=> i - 1 \in insertion_flags
         /\ i - 1 \in insertion_flags => NewHeights' = NewHeights \ {_height - i}
         /\ i - 1 \notin insertion_flags => NewHeights' = NewHeights
<1>1. ASSUME NEW h \in 1 .. _height
      PROVE  /\ h = _height - i <=> _height - h - 1 = i - 1
             /\ _height - h - 1 < i - 1 <=> (_height - h - 1 < i /\ h # _height - i)
  OBVIOUS
<1>2. _height - i \in 1 .. _height /\ _height - i # _height
  OBVIOUS
<1>3. PICK A, B : /\ A = {h \in 1 .. _height :
                            _height - h - 1 \in insertion_flags /\ _height - h - 1 < i}
                  /\ B = (IF arg.planted THEN {_height} ELSE {})
  OBVIOUS
<1>4. PICK C : C = {h \in 1 .. _height :
                      _height - h - 1 \in insertion_flags /\ _height - h - 1 < i - 1}
  OBVIOUS
<1>5. NewHeights = A \cup B /\ NewHeights' = C \cup B
  BY <1>3, <1>4, Zenon DEF NewHeights
<1>6. _height - i \notin B
  BY <1>2, <1>3
<1>7. _height - i \in A <=> i - 1 \in insertion_flags
  <2>1. _height - (_height - i) - 1 = i - 1 /\ i - 1 < i
    OBVIOUS
  <2>2. QED
    BY <1>2, <1>3, <2>1
<1>8. C = A \ {_height - i}
  BY <1>1, <1>3, <1>4
<1>9. QED
  BY <1>5, <1>6, <1>7, <1>8

LEMMA GrowNodeInv == ASSUME IInv, GrowNode PROVE IInv'
<1>1. /\ pc = "grow_node" /\ level > 1 /\ level' = level - 1 /\ i' = i + 1
      /\ _root' = _root /\ _height' = _height /\ pc' = pc /\ arg' = arg
  BY Zenon DEF GrowNode
<1>2. PICK k : k = arg.key
  OBVIOUS
<1>3. PICK H : H = NewHeights
  OBVIOUS
<1>4. /\ k \in Keys /\ k \in Nat /\ _height \in Nat \ {0} /\ _root = <<_height, 0>>
      /\ Tree(nodes, _height) /\ Useful(nodes, NewNodes(k, H)) /\ Growing
  BY <1>1, <1>2, <1>3, GrowingIs
<1>5. /\ i \in 0 .. _height - 1 /\ node = Path(k, _height - i) /\ node \in DOMAIN nodes
      /\ level = _height - i /\ insertion_flags \subseteq 0 .. i - 1 /\ Shifted(k, _height) = 0
      /\ arg.planted => arg.first = Null /\ DOMAIN nodes = NewNodes(k, H)
      /\ Chain(nodes, node, k, H, _height)
  BY <1>1, <1>2, <1>3, <1>4, Zenon DEF Growing
<1>6. /\ level \in Nat /\ node = Path(k, level) /\ i + 1 < _height /\ i' \in 0 .. _height - 1
      /\ level - 1 = _height - i' /\ level - 1 = _height - i - 1
  BY <1>1, <1>4, <1>5
<1>7. Offset = Bit(k, level - 1) /\ Bit(k, level - 1) \in 0 .. 1
  BY <1>1, <1>2, <1>4, <1>6, PathDown DEF Offset
<1>8. PICK new : new = Path(k, level - 1)
  OBVIOUS
<1>9. CASE Child(node, Offset) # Null /\ node' = Child(node, Offset)
           /\ UNCHANGED <<nodes, insertion_flags>>
  <2>1. /\ Child(node, Offset) = new /\ new \in DOMAIN nodes
        /\ Chain(nodes, new, k, H, _height)
    BY <1>1, <1>4, <1>5, <1>6, <1>7, <1>8, <1>9, FollowedChain
  <2>2. NewHeights' = H
    BY <1>1, <1>3, <1>4, <1>5, <1>6, <1>9, HeightsForward
  <2>3. Growing'
    <3>1. /\ i' \in 0 .. _height' - 1 /\ node' = Path(arg'.key, _height' - i')
          /\ node' \in DOMAIN nodes' /\ level' = _height' - i'
          /\ insertion_flags' \subseteq 0 .. i' - 1 /\ insertion_flags' \subseteq Nat
      BY <1>1, <1>2, <1>4, <1>5, <1>6, <1>8, <1>9, <2>1
    <3>2. /\ Shifted(arg'.key, _height') = 0
          /\ arg'.planted => arg'.first = Null /\ DOMAIN nodes' = NewNodes(arg'.key, NewHeights')
          /\ Chain(nodes', node', arg'.key, NewHeights', _height')
      BY <1>1, <1>2, <1>5, <1>9, <2>1, <2>2, Zenon
    <3>3. QED
      BY <3>1, <3>2, Zenon DEF Growing
  <2>4. QED
    BY <1>1, <1>2, <1>4, <1>9, <2>2, <2>3, GrowingInv
<1>10. CASE Child(node, Offset) = Null /\ node' = new /\ nodes' = Linked(new)
            /\ insertion_flags' = insertion_flags \cup {i}
  <2>1. /\ Tree(Linked(new), _height) /\ new \notin DOMAIN nodes
        /\ DOMAIN Linked(new) = DOMAIN nodes \cup {new}
        /\ NewNodes(k, H \cup {level - 1}) = NewNodes(k, H) \cup {new}
        /\ Useful(Linked(new), NewNodes(k, H \cup {level - 1}))
        /\ Chain(Linked(new), new, k, H \cup {level - 1}, _height)
    BY <1>1, <1>4, <1>5, <1>6, <1>7, <1>8, <1>10, LinkedChain
  <2>2. NewHeights' = H \cup {level - 1}
    BY <1>1, <1>3, <1>4, <1>5, <1>6, <1>10, HeightsForward
  <2>3. Growing'
    <3>1. /\ i' \in 0 .. _height' - 1 /\ node' = Path(arg'.key, _height' - i')
          /\ node' \in DOMAIN nodes' /\ level' = _height' - i'
          /\ insertion_flags' \subseteq 0 .. i' - 1 /\ insertion_flags' \subseteq Nat
      BY <1>1, <1>2, <1>4, <1>5, <1>6, <1>8, <1>10, <2>1
    <3>2. /\ Shifted(arg'.key, _height') = 0
          /\ arg'.planted => arg'.first = Null /\ DOMAIN nodes' = NewNodes(arg'.key, NewHeights')
          /\ Chain(nodes', node', arg'.key, NewHeights', _height')
      BY <1>1, <1>2, <1>5, <1>10, <2>1, <2>2, Zenon
    <3>3. QED
      BY <3>1, <3>2, Zenon DEF Growing
  <2>4. QED
    BY <1>1, <1>2, <1>4, <1>10, <2>1, <2>2, <2>3, GrowingInv
<1>11. QED
  BY <1>2, <1>8, <1>9, <1>10, Zenon DEF GrowNode, Path

LEMMA GrowNodeNoMemoryInv == ASSUME IInv, GrowNodeNoMemory PROVE IInv'
<1>1. pc = "grow_node" /\ pc' = "rollback" /\ UNCHANGED <<tree, arg, regs>>
  BY DEF GrowNodeNoMemory
<1>2. /\ _root' = _root /\ _height' = _height /\ nodes' = nodes /\ arg' = arg
      /\ node' = node /\ i' = i /\ insertion_flags' = insertion_flags
  BY <1>1 DEF tree, regs
<1>3. /\ arg.key \in Keys /\ _root = <<_height, 0>> /\ Tree(nodes, _height)
      /\ Useful(nodes, NewNodes(arg.key, NewHeights)) /\ Growing
  BY <1>1, GrowingIs
<1>4. NewHeights' = NewHeights
  BY <1>2, Zenon DEF NewHeights
<1>5. Growing'
  BY <1>1, <1>2, <1>3, <1>4 DEF Growing
<1>6. QED
  BY <1>1, <1>2, <1>3, <1>4, <1>5, GrowingInv, Zenon

LEMMA RollbackInv == ASSUME IInv, Rollback PROVE IInv'
<1>1. /\ pc = "rollback" /\ i > 0 /\ i' = i - 1 /\ node' = nodes[node].p
      /\ nodes' = (IF i - 1 \in insertion_flags THEN Unlinked ELSE nodes)
      /\ _root' = _root /\ _height' = _height /\ pc' = pc /\ arg' = arg
      /\ insertion_flags' = insertion_flags
  BY Zenon DEF Rollback
<1>2. PICK k : k = arg.key
  OBVIOUS
<1>3. PICK H : H = NewHeights
  OBVIOUS
<1>4. /\ k \in Keys /\ k \in Nat /\ _height \in Nat \ {0} /\ _root = <<_height, 0>>
      /\ Tree(nodes, _height) /\ Useful(nodes, NewNodes(k, H)) /\ Growing
  BY <1>1, <1>2, <1>3, GrowingIs
<1>5. /\ i \in 0 .. _height - 1 /\ node = Path(k, _height - i) /\ node \in DOMAIN nodes
      /\ insertion_flags \subseteq Nat /\ Shifted(k, _height) = 0
      /\ arg.planted => arg.first = Null /\ DOMAIN nodes = NewNodes(k, H)
      /\ Chain(nodes, node, k, H, _height)
  BY <1>1, <1>2, <1>3, <1>4, Zenon DEF Growing
<1>6. PICK l : l = _height - i
  OBVIOUS
<1>7. /\ l \in Nat \ {0} /\ l < _height /\ node = Path(k, l) /\ i \in 1 .. _height - 1
      /\ i' \in 0 .. _height - 1 /\ l + 1 = _height - i'
  BY <1>1, <1>4, <1>5, <1>6
<1>8. /\ l \in H <=> i - 1 \in insertion_flags
      /\ i - 1 \in insertion_flags => NewHeights' = H \ {l}
      /\ i - 1 \notin insertion_flags => NewHeights' = H
  BY <1>1, <1>3, <1>4, <1>5, <1>6, <1>7, HeightsBack
<1>9. CASE i - 1 \in insertion_flags
  <2>1. /\ nodes[node].p = Path(k, l + 1) /\ Path(k, l + 1) \in DOMAIN Unlinked
        /\ Tree(Unlinked, _height) /\ DOMAIN Unlinked = DOMAIN nodes \ {node}
        /\ NewNodes(k, H \ {l}) = NewNodes(k, H) \ {node}
        /\ Useful(Unlinked, NewNodes(k, H \ {l}))
        /\ Chain(Unlinked, Path(k, l + 1), k, H \ {l}, _height)
    BY <1>4, <1>5, <1>7, <1>8, <1>9, UnlinkedChain
  <2>2. nodes' = Unlinked /\ NewHeights' = H \ {l} /\ node' = Path(k, l + 1)
    BY <1>1, <1>8, <1>9, <2>1
  <2>3. Growing'
    <3>1. /\ i' \in 0 .. _height' - 1 /\ node' = Path(arg'.key, _height' - i')
          /\ node' \in DOMAIN nodes' /\ insertion_flags' \subseteq Nat /\ pc' # "grow_node"
      BY <1>1, <1>2, <1>5, <1>7, <2>1, <2>2
    <3>2. /\ Shifted(arg'.key, _height') = 0
          /\ arg'.planted => arg'.first = Null /\ DOMAIN nodes' = NewNodes(arg'.key, NewHeights')
          /\ Chain(nodes', node', arg'.key, NewHeights', _height')
      BY <1>1, <1>2, <1>5, <2>1, <2>2, Zenon
    <3>3. QED
      BY <3>1, <3>2, Zenon DEF Growing
  <2>4. QED
    BY <1>1, <1>2, <1>4, <2>1, <2>2, <2>3, GrowingInv
<1>10. CASE i - 1 \notin insertion_flags
  <2>1. /\ nodes[node].p = Path(k, l + 1) /\ Path(k, l + 1) \in DOMAIN nodes
        /\ Chain(nodes, Path(k, l + 1), k, H, _height)
    BY <1>4, <1>5, <1>7, <1>8, <1>10, LeftChain
  <2>2. nodes' = nodes /\ NewHeights' = H /\ node' = Path(k, l + 1)
    BY <1>1, <1>8, <1>10, <2>1
  <2>3. Growing'
    <3>1. /\ i' \in 0 .. _height' - 1 /\ node' = Path(arg'.key, _height' - i')
          /\ node' \in DOMAIN nodes' /\ insertion_flags' \subseteq Nat /\ pc' # "grow_node"
      BY <1>1, <1>2, <1>5, <1>7, <2>1, <2>2
    <3>2. /\ Shifted(arg'.key, _height') = 0
          /\ arg'.planted => arg'.first = Null /\ DOMAIN nodes' = NewNodes(arg'.key, NewHeights')
          /\ Chain(nodes', node', arg'.key, NewHeights', _height')
      BY <1>1, <1>2, <1>5, <2>1, <2>2, Zenon
    <3>3. QED
      BY <3>1, <3>2, Zenon DEF Growing
  <2>4. QED
    BY <1>1, <1>2, <1>4, <2>1, <2>2, <2>3, GrowingInv
<1>11. QED
  BY <1>9, <1>10

(* Nothing new is left when the rollback has reached the root. *)
LEMMA NothingNew ==
  ASSUME _height \in Nat, i = 0, insertion_flags \subseteq Nat
  PROVE  NewHeights = IF arg.planted THEN {_height} ELSE {}
<1>1. {h \in 1 .. _height : _height - h - 1 \in insertion_flags /\ _height - h - 1 < i} = {}
  OBVIOUS
<1>2. QED
  BY <1>1 DEF NewHeights

LEMMA RollbackDoneInv == ASSUME IInv, RollbackDone PROVE IInv'
<1>1. pc = "rollback" /\ i = 0
  BY DEF RollbackDone
<1>2. /\ arg.key \in Nat /\ _height \in Nat \ {0} /\ _root = <<_height, 0>>
      /\ Tree(nodes, _height) /\ Useful(nodes, NewNodes(arg.key, NewHeights)) /\ Growing
      /\ Typed(nodes) /\ _root # Null
  <2>1. arg.key \in Nat /\ _root = <<_height, 0>> /\ Tree(nodes, _height) /\ _height \in Nat \ {0}
    BY <1>1, GrowingIs
  <2>2. Rooted(nodes, _height) /\ _root \in DOMAIN nodes /\ Typed(nodes)
    BY <2>1 DEF Tree, Rooted
  <2>3. QED
    BY <1>1, <2>1, <2>2, GrowingIs, NodeIs
<1>3. /\ insertion_flags \subseteq Nat /\ Shifted(arg.key, _height) = 0
      /\ arg.planted => DOMAIN nodes = NewNodes(arg.key, NewHeights)
  BY <1>2, Zenon DEF Growing
<1>4. CASE arg.planted /\ Return /\ nodes' = Without(_root, nodes) /\ _root' = Null
           /\ UNCHANGED _height
  <2>1. NewHeights = {_height}
    BY <1>1, <1>2, <1>3, <1>4, NothingNew
  <2>2. DOMAIN nodes = {_root}
    BY <1>2, <1>3, <1>4, <2>1 DEF NewNodes, Path
  <2>3. DOMAIN nodes' = {} /\ nodes' \in [{} -> NodeRecords]
    BY <1>4, <2>2 DEF Without
  <2>4. Typed(nodes') /\ _height' \in Nat
    BY <1>2, <1>4, <2>3 DEF Typed
  <2>5. pc' = "idle"
    BY <1>4 DEF Return
  <2>6. QED
    BY <1>4, <2>3, <2>4, <2>5, IdleInv
<1>5. CASE ~arg.planted /\ Return /\ UNCHANGED tree
  <2>1. NewHeights = {} /\ NewNodes(arg.key, {}) = {}
    BY <1>1, <1>2, <1>3, <1>5, NothingNew DEF NewNodes
  <2>2. pc' = "idle" /\ _root' = _root /\ _height' = _height /\ nodes' = nodes
    BY <1>5 DEF Return, tree
  <2>3. QED
    BY <1>2, <2>1, <2>2, IdleInv
<1>6. CASE pc' = "undefined" /\ UNCHANGED tree
  <2>1. _root' = _root /\ _height' = _height /\ nodes' = nodes
    BY <1>6 DEF tree
  <2>2. QED
    BY <1>2, <1>6, <2>1 DEF IInv, Standing
<1>7. QED
  BY <1>4, <1>5, <1>6, Zenon DEF RollbackDone

LEMMA StoreInv == ASSUME IInv, Store PROVE IInv'
<1>1. pc = "grow_node" /\ level = 1
  BY DEF Store
<1>2. PICK k : k = arg.key
  OBVIOUS
<1>3. PICK H : H = NewHeights
  OBVIOUS
<1>4. /\ k \in Keys /\ k \in Nat /\ _height \in Nat \ {0} /\ _root = <<_height, 0>>
      /\ Tree(nodes, _height) /\ Useful(nodes, NewNodes(k, H)) /\ Growing
  BY <1>1, <1>2, <1>3, GrowingIs
<1>5. /\ i \in 0 .. _height - 1 /\ node = Path(k, _height - i) /\ node \in DOMAIN nodes
      /\ level = _height - i /\ Chain(nodes, node, k, H, _height)
  BY <1>1, <1>2, <1>3, <1>4, Zenon DEF Growing
<1>6. Typed(nodes) /\ _root # Null
  BY <1>4, NodeIs DEF Tree, Rooted
<1>7. PICK o : o = Offset
  OBVIOUS
<1>8. o \in 0 .. 1
  <2>1. level - 1 = 0
    BY <1>1
  <2>2. o = Shifted(k, 0) % 2
    BY <1>2, <1>7, <2>1, Zenon DEF Offset, Bit
  <2>3. Shifted(k, 0) \in Nat
    BY <1>4, ShiftedNat
  <2>4. QED
    BY <2>2, <2>3
<1>9. CASE pc' = "aborted" /\ UNCHANGED tree
  <2>1. _root' = _root /\ _height' = _height /\ nodes' = nodes
    BY <1>9 DEF tree
  <2>2. QED
    BY <1>4, <1>6, <1>9, <2>1 DEF IInv, Standing
<1>10. CASE nodes' = [nodes EXCEPT ![node].has_value[Offset] = TRUE] /\ Return
            /\ UNCHANGED <<_root, _height>>
  <2>1. Tree(Stored(o), _height) /\ Useful(Stored(o), {})
    <3>1. node = Path(k, 1)
      BY <1>1, <1>5
    <3>2. QED
      BY <1>4, <1>5, <1>8, <3>1, StoredUseful
  <2>2. nodes' = Stored(o) /\ _root' = _root /\ _height' = _height
    BY <1>7, <1>10, Zenon DEF Stored
  <2>3. pc' = "idle"
    BY <1>10, Zenon DEF Return
  <2>4. QED
    BY <1>4, <1>6, <2>1, <2>2, <2>3, IdleInv
<1>11. QED
  BY <1>9, <1>10, Zenon DEF Store

-----------------------------------------------------------------------------
(* Ancestors. *)

LEMMA UpIs ==
  ASSUME NEW n, n[1] \in Nat, n[2] \in Nat, NEW l \in Nat, n[1] <= l, NEW j \in Nat, l <= j
  PROVE  /\ Up(n, l)[1] = l /\ Up(n, l)[2] \in Nat /\ Up(Up(n, l), j) = Up(n, j)
<1>1. l - n[1] \in Nat /\ j - l \in Nat /\ (l - n[1]) + (j - l) = j - n[1]
  OBVIOUS
<1>2. Up(n, l)[1] = l /\ Up(n, l)[2] = Shifted(n[2], l - n[1])
  BY DEF Up
<1>3. Up(Up(n, l), j) = <<j, Shifted(Shifted(n[2], l - n[1]), j - l)>>
  BY <1>2, Zenon DEF Up
<1>4. Shifted(Shifted(n[2], l - n[1]), j - l) = Shifted(n[2], j - n[1])
  <2>1. PICK k \in Nat, a \in Nat, b \in Nat : k = n[2] /\ a = l - n[1] /\ b = j - l
    BY <1>1
  <2>2. k \in Nat /\ a \in Nat /\ b \in Nat
    OBVIOUS
  <2>3. Shifted(Shifted(k, a), b) = Shifted(k, a + b)
    BY ONLY <2>2, ShiftedTwice
  <2>4. a + b = j - n[1]
    BY <1>1, <2>1
  <2>5. QED
    BY <2>1, <2>3, <2>4, Zenon
<1>5. Shifted(n[2], l - n[1]) \in Nat
  BY <1>1, ShiftedNat
<1>6. Up(n, j) = <<j, Shifted(n[2], j - n[1])>>
  BY Zenon DEF Up
<1>7. QED
  BY <1>1, <1>2, <1>3, <1>4, <1>5, <1>6, Zenon

(* All nodes above a node of a tree are there, up to the root. *)
LEMMA AboveIs ==
  ASSUME NEW f, NEW h, Rooted(f, h), NEW n \in DOMAIN f
  PROVE  /\ Up(n, n[1]) = n /\ Up(n, h) = <<h, 0>>
         /\ \A l \in n[1] .. h : Up(n, l) \in DOMAIN f /\ Up(n, l)[1] = l
         /\ \A l \in n[1] .. h - 1 :
              Up(n, l) # <<h, 0>> /\ f[Up(n, l)].p = Up(n, l + 1)
         /\ \A l \in n[1] .. h : \A j \in l .. h : Up(Up(n, l), j) = Up(n, j)
<1>1. /\ n[1] \in 1 .. h /\ n[1] \in Nat /\ n[2] \in Nat /\ n = <<n[1], n[2]>> /\ h \in Nat
      /\ Shifted(n[2], h - n[1]) = 0
  BY NodeIs
<1>2. Up(n, n[1]) = n /\ Up(n, h) = <<h, 0>>
  <2>1. n[1] - n[1] = 0 /\ Shifted(n[2], 0) = n[2]
    BY <1>1, ShiftedNext
  <2>2. QED
    BY <1>1, <2>1 DEF Up
<1>3. ASSUME NEW l \in n[1] .. h
      PROVE  /\ l \in Nat /\ n[1] <= l /\ Up(n, l)[1] = l
             /\ \A j \in l .. h : Up(Up(n, l), j) = Up(n, j)
  <2>1. l \in Nat /\ n[1] <= l
    BY <1>1
  <2>2. \A j \in l .. h : j \in Nat /\ l <= j
    BY <1>1, <2>1
  <2>3. QED
    BY <1>1, <2>1, <2>2, UpIs
<1>4. ASSUME NEW l \in n[1] .. h - 1, Up(n, l) \in DOMAIN f
      PROVE  /\ Up(n, l) # <<h, 0>> /\ f[Up(n, l)].p = Up(n, l + 1)
             /\ Up(n, l + 1) \in DOMAIN f
  <2>1. PICK m : m = Up(n, l)
    OBVIOUS
  <2>2. l \in n[1] .. h /\ l + 1 \in l .. h /\ l # h
    BY <1>1
  <2>3. m \in DOMAIN f /\ m[1] = l /\ Up(m, l + 1) = Up(n, l + 1)
    BY <1>3, <1>4, <2>1, <2>2
  <2>4. m # <<h, 0>>
    BY <2>2, <2>3
  <2>5. f[m].p = Up(m, m[1] + 1) /\ f[m].p \in DOMAIN f
    BY <2>3, <2>4, ParentIs
  <2>6. QED
    BY <2>1, <2>3, <2>4, <2>5
<1>5. \A l \in n[1] .. h : Up(n, l) \in DOMAIN f
  <2> DEFINE T == {l \in n[1] .. h : Up(n, l) \notin DOMAIN f}
  <2>1. SUFFICES ASSUME T # {} PROVE FALSE
    OBVIOUS
  <2>2. PICK l \in T : \A x \in T : l <= x
    <3>1. T \subseteq Nat
      BY <1>1
    <3>2. QED
      BY <2>1, <3>1, SmallestOf
  <2>3. l # n[1]
    BY <1>2, <2>2
  <2>4. l - 1 \in n[1] .. h - 1 /\ l - 1 \in n[1] .. h /\ ~ (l <= l - 1) /\ (l - 1) + 1 = l
    BY <1>1, <2>2, <2>3
  <2>5. Up(n, l - 1) \in DOMAIN f
    BY <2>2, <2>4
  <2>6. QED
    BY <1>4, <2>2, <2>4, <2>5
<1>6. \A l \in n[1] .. h - 1 : l \in n[1] .. h
  BY <1>1
<1>7. QED
  BY <1>2, <1>3, <1>4, <1>5, <1>6

(* A child that is there. *)
LEMMA LinkIs ==
  ASSUME NEW f, NEW h, Rooted(f, h), NEW n \in DOMAIN f, NEW o \in 0 .. 1,
         NEW c \in DOMAIN f, f[n].children[o] = c
  PROVE  /\ c # Null /\ c[1] = n[1] - 1 /\ c[1] < n[1] /\ f[c].p = n /\ c # <<h, 0>>
         /\ n = Up(c, n[1])
<1>1. /\ c # Null /\ n[1] \in Nat /\ n[1] \in 1 .. h /\ n[2] \in Nat /\ h \in Nat
      /\ c = <<n[1] - 1, 2 * n[2] + o>>
  BY NodeIs
<1>2. c[1] = n[1] - 1 /\ f[c].p = n
  BY <1>1, ChildIs
<1>3. c # <<h, 0>>
  BY <1>1, <1>2
<1>4. f[c].p = Up(c, c[1] + 1) /\ c[1] + 1 = n[1]
  BY <1>1, <1>2, <1>3, ParentIs
<1>5. QED
  BY <1>1, <1>2, <1>3, <1>4

(* The node at which _get_min_node or _get_max_node ends. *)
Far(f, D, side) ==
  f = [m \in D |-> IF IsLeaf(m) THEN m
                   ELSE IF Child(m, side) # Null THEN f[Child(m, side)]
                   ELSE f[Child(m, 1 - side)]]
FarUpTo(f, D, side, h) ==
  /\ f = [m \in D |-> f[m]]
  /\ \A m \in D : m[1] <= h =>
       f[m] = IF IsLeaf(m) THEN m
              ELSE IF Child(m, side) # Null THEN f[Child(m, side)]
              ELSE f[Child(m, 1 - side)]

(* D is closed under children, which have smaller heights. *)
Closed(D, h) ==
  \A m \in D : /\ m[1] \in Nat /\ m[1] <= h
               /\ \A o \in 0 .. 1 : Child(m, o) # Null =>
                    Child(m, o) \in D /\ Child(m, o)[1] < m[1]

LEMMA FarExists ==
  ASSUME NEW D, NEW h \in Nat, Closed(D, h), NEW side \in 0 .. 1
  PROVE  \E f : Far(f, D, side)
<1>0. 1 - side \in 0 .. 1
  OBVIOUS
<1> DEFINE T == {x \in Nat : ~ \E f : FarUpTo(f, D, side, x)}
<1>1. T = {}
  <2>1. SUFFICES ASSUME T # {} PROVE FALSE
    OBVIOUS
  <2>2. PICK x \in T : \A y \in T : x <= y
    <3>1. T \subseteq Nat
      OBVIOUS
    <3>2. QED
      BY <2>1, <3>1, SmallestOf
  <2>3. PICK f : /\ f = [m \in D |-> f[m]]
                 /\ \A m \in D : m[1] < x =>
                      f[m] = IF IsLeaf(m) THEN m
                             ELSE IF Child(m, side) # Null THEN f[Child(m, side)]
                             ELSE f[Child(m, 1 - side)]
    <3>1. CASE x = 0
      <4>1. \A m \in D : ~ (m[1] < x)
        BY <3>1 DEF Closed
      <4>2. PICK f : f = [m \in D |-> m]
        OBVIOUS
      <4>3. f = [m \in D |-> f[m]]
        BY <4>2
      <4>4. QED
        BY <4>1, <4>3, Zenon
    <3>2. CASE x # 0
      <4>1. x - 1 \in Nat /\ ~ (x <= x - 1)
        BY <2>2, <3>2
      <4>2. PICK f : FarUpTo(f, D, side, x - 1)
        BY <2>2, <4>1
      <4>3. \A m \in D : m[1] < x => m[1] <= x - 1
        BY <2>2 DEF Closed
      <4>4. QED
        BY <4>2, <4>3, Zenon DEF FarUpTo
    <3>3. QED
      BY <3>1, <3>2
  <2>4. PICK g : g = [m \in D |-> IF m[1] = x
                                  THEN IF IsLeaf(m) THEN m
                                       ELSE IF Child(m, side) # Null THEN f[Child(m, side)]
                                       ELSE f[Child(m, 1 - side)]
                                  ELSE f[m]]
    OBVIOUS
  <2>5. ASSUME NEW m \in D, m[1] # x PROVE g[m] = f[m]
    BY <2>4, <2>5, Zenon
  <2>6. ASSUME NEW m \in D, m[1] <= x, NEW o \in 0 .. 1, Child(m, o) # Null
        PROVE  g[Child(m, o)] = f[Child(m, o)]
    <3>1. PICK c : c = Child(m, o)
      OBVIOUS
    <3>2. c \in D /\ c[1] < m[1] /\ m[1] \in Nat /\ c[1] \in Nat
      BY <2>6, <3>1, Zenon DEF Closed
    <3>3. c[1] # x
      BY <2>2, <2>6, <3>2
    <3>4. QED
      BY <2>5, <3>1, <3>2, <3>3
  <2>7. ASSUME NEW m \in D, m[1] <= x
        PROVE  g[m] = IF IsLeaf(m) THEN m
                      ELSE IF Child(m, side) # Null THEN f[Child(m, side)]
                      ELSE f[Child(m, 1 - side)]
    <3>1. CASE m[1] = x
      BY <2>4, <3>1, Zenon
    <3>2. CASE m[1] # x
      <4>1. m[1] < x
        BY <2>2, <2>7, <3>2 DEF Closed
      <4>2. QED
        BY <2>3, <2>5, <3>2, <4>1, Zenon
    <3>3. QED
      BY <3>1, <3>2
  <2>8. ASSUME NEW m \in D, ~IsLeaf(m), Child(m, side) = Null
        PROVE  Child(m, 1 - side) # Null
    BY <2>8 DEF IsLeaf
  <2>9. ASSUME NEW m \in D, m[1] <= x
        PROVE  g[m] = IF IsLeaf(m) THEN m
                      ELSE IF Child(m, side) # Null THEN g[Child(m, side)]
                      ELSE g[Child(m, 1 - side)]
    BY <1>0, <2>6, <2>7, <2>8, <2>9, Zenon
  <2>10. g = [m \in D |-> g[m]]
    BY <2>4
  <2>11. FarUpTo(g, D, side, x)
    BY <2>9, <2>10, Zenon DEF FarUpTo
  <2>12. QED
    BY <2>2, <2>11
<1>2. PICK f : FarUpTo(f, D, side, h)
  BY <1>1
<1>3. \A m \in D : m[1] <= h
  BY Zenon DEF Closed
<1>4. Far(f, D, side)
  BY <1>2, <1>3, Zenon DEF Far, FarUpTo
<1>5. QED
  BY <1>4

(* All nodes up to n in height have both or no child there. *)
Whole(f, n) ==
  \A m \in DOMAIN f : m[1] <= n[1] =>
    \A o \in 0 .. 1 : f[m].children[o] \in DOMAIN f \cup {Null}

LEMMA FarIs ==
  ASSUME NEW h, Rooted(nodes, h), NEW n \in DOMAIN nodes, Whole(nodes, n), NEW side \in 0 .. 1
  PROVE  \E f : /\ Outermost(n, side) = f[n]
                /\ \A m \in DOMAIN nodes : m[1] <= n[1] =>
                     f[m] = IF IsLeaf(m) THEN m
                            ELSE IF Child(m, side) # Null THEN f[Child(m, side)]
                            ELSE f[Child(m, 1 - side)]
<1>1. PICK D : D = {m \in DOMAIN nodes : m[1] <= n[1]}
  OBVIOUS
<1>2. n[1] \in Nat
  BY NodeIs
<1>3. Closed(D, n[1])
  <2>1. ASSUME NEW m \in D
        PROVE  m[1] \in Nat /\ m[1] <= n[1]
    BY <1>1, NodeIs
  <2>2. ASSUME NEW m \in D, NEW o \in 0 .. 1, Child(m, o) # Null
        PROVE  Child(m, o) \in D /\ Child(m, o)[1] < m[1]
    <3>1. m \in DOMAIN nodes /\ m[1] <= n[1] /\ m[1] \in Nat
      BY <1>1, <2>1
    <3>2. PICK c : c = nodes[m].children[o]
      OBVIOUS
    <3>3. c \in DOMAIN nodes
      BY <2>2, <3>1, <3>2, Zenon DEF Whole, Child
    <3>4. c[1] = m[1] - 1 /\ c[1] < m[1]
      BY <3>1, <3>2, <3>3, LinkIs
    <3>5. c[1] <= n[1]
      BY <1>2, <3>1, <3>4
    <3>6. QED
      BY <1>1, <3>2, <3>3, <3>4, <3>5 DEF Child
  <2>3. QED
    BY <2>1, <2>2, Zenon DEF Closed
<1>4. PICK f : f = CHOOSE x : Far(x, D, side)
  OBVIOUS
<1>5. Far(f, D, side)
  BY <1>2, <1>3, <1>4, FarExists, Zenon
<1>6. Outermost(n, side) = f[n]
  BY <1>1, <1>4, Zenon DEF Outermost, Far
<1>7. ASSUME NEW m \in DOMAIN nodes, m[1] <= n[1]
      PROVE  f[m] = IF IsLeaf(m) THEN m
                    ELSE IF Child(m, side) # Null THEN f[Child(m, side)]
                    ELSE f[Child(m, 1 - side)]
  <2>1. m \in D
    BY <1>1, <1>7
  <2>2. f = [x \in D |-> IF IsLeaf(x) THEN x
                         ELSE IF Child(x, side) # Null THEN f[Child(x, side)]
                         ELSE f[Child(x, 1 - side)]]
    BY <1>5, Zenon DEF Far
  <2>3. QED
    BY <2>1, <2>2, Zenon
<1>8. QED
  BY <1>6, <1>7

(* It is a leaf below n, and wherever the way down leaves the side it      *)
(* keeps to, that side has no child.                                       *)
IsOutermost(n, side, x) ==
  /\ x \in DOMAIN nodes /\ x[1] <= n[1] /\ IsLeaf(x) /\ Up(x, n[1]) = n
  /\ \A l \in x[1] + 1 .. n[1] :
       Child(Up(x, l), side) = Null \/ Child(Up(x, l), side) = Up(x, l - 1)

LEMMA OutermostIs ==
  ASSUME NEW h, Rooted(nodes, h), NEW n \in DOMAIN nodes, Whole(nodes, n), NEW side \in 0 .. 1
  PROVE  IsOutermost(n, side, Outermost(n, side))
<1>1. PICK f : /\ Outermost(n, side) = f[n]
               /\ \A m \in DOMAIN nodes : m[1] <= n[1] =>
                    f[m] = IF IsLeaf(m) THEN m
                           ELSE IF Child(m, side) # Null THEN f[Child(m, side)]
                           ELSE f[Child(m, 1 - side)]
  BY FarIs
<1>2. n[1] \in Nat /\ 1 - side \in 0 .. 1 /\ h \in Nat /\ n[1] \in 1 .. h
  BY NodeIs
<1> DEFINE T == {x \in Nat : \E m \in DOMAIN nodes :
                   m[1] = x /\ m[1] <= n[1] /\ ~IsOutermost(m, side, f[m])}
<1>3. SUFFICES ASSUME T # {} PROVE FALSE
  <2>1. n[1] \notin T => IsOutermost(n, side, f[n])
    BY <1>2
  <2>2. QED
    BY <1>1, <2>1
<1>4. PICK x \in T : \A y \in T : x <= y
  <2>1. T \subseteq Nat
    OBVIOUS
  <2>2. QED
    BY <1>3, <2>1, SmallestOf
<1>5. PICK m \in DOMAIN nodes : m[1] = x /\ m[1] <= n[1] /\ ~IsOutermost(m, side, f[m])
  BY <1>4
<1>6. ASSUME NEW c \in DOMAIN nodes, c[1] < m[1] PROVE IsOutermost(c, side, f[c])
  <2>1. c[1] \in Nat /\ m[1] \in Nat /\ c[1] <= n[1] /\ ~ (x <= c[1])
    BY <1>2, <1>5, <1>6, NodeIs
  <2>2. c[1] \notin T
    BY <1>4, <2>1
  <2>3. QED
    BY <2>1, <2>2
<1> HIDE DEF T
<1>7. f[m] = IF IsLeaf(m) THEN m
             ELSE IF Child(m, side) # Null THEN f[Child(m, side)]
             ELSE f[Child(m, 1 - side)]
  BY <1>1, <1>5
<1>8. m[1] \in Nat /\ m[1] \in 1 .. h
  BY NodeIs
<1>9. ASSUME NEW o \in 0 .. 1, NEW c, c = Child(m, o), c # Null, f[m] = f[c],
             o = side \/ Child(m, side) = Null
      PROVE  IsOutermost(m, side, f[m])
  <2>1. c \in DOMAIN nodes /\ nodes[m].children[o] = c
    BY <1>5, <1>9 DEF Whole, Child
  <2>2. c[1] = m[1] - 1 /\ c[1] < m[1] /\ c # <<h, 0>> /\ m = Up(c, m[1]) /\ c[1] \in 1 .. h
    BY <2>1, LinkIs, NodeIs
  <2>3. PICK y : y = f[m]
    OBVIOUS
  <2>4. /\ y \in DOMAIN nodes /\ y[1] <= c[1] /\ IsLeaf(y) /\ Up(y, c[1]) = c
        /\ \A l \in y[1] + 1 .. c[1] :
             Child(Up(y, l), side) = Null \/ Child(Up(y, l), side) = Up(y, l - 1)
    <3>1. IsOutermost(c, side, f[c]) /\ f[c] = y
      BY <1>6, <1>9, <2>1, <2>2, <2>3
    <3>2. IsOutermost(c, side, y)
      BY <3>1
    <3>3. QED
      BY <3>2, Zenon DEF IsOutermost
  <2>5. y[1] \in Nat /\ y[1] <= m[1] /\ m[1] \in c[1] .. h /\ c[1] \in y[1] .. h
    BY <1>8, <2>2, <2>4, NodeIs
  <2>6. Up(y, m[1]) = m
    BY <2>2, <2>4, <2>5, AboveIs
  <2>7. ASSUME NEW l \in y[1] + 1 .. m[1]
        PROVE  Child(Up(y, l), side) = Null \/ Child(Up(y, l), side) = Up(y, l - 1)
    <3>1. CASE l = m[1]
      <4>1. Up(y, l) = m /\ Up(y, l - 1) = c
        BY <2>2, <2>4, <2>6, <3>1
      <4>2. QED
        BY <1>9, <4>1
    <3>2. CASE l # m[1]
      <4>1. l \in y[1] + 1 .. c[1]
        BY <2>2, <2>5, <3>2, <1>8
      <4>2. QED
        BY <2>4, <4>1
    <3>3. QED
      BY <3>1, <3>2
  <2>8. QED
    BY <2>3, <2>4, <2>5, <2>6, <2>7, Zenon DEF IsOutermost
<1>10. CASE IsLeaf(m)
  <2>1. f[m] = m /\ Up(m, m[1]) = m
    BY <1>7, <1>10, AboveIs
  <2>2. m[1] <= m[1] /\ m[1] + 1 .. m[1] = {}
    BY <1>8
  <2>3. IsOutermost(m, side, m)
    BY <1>10, <2>1, <2>2 DEF IsOutermost
  <2>4. QED
    BY <1>5, <2>1, <2>3
<1>11. CASE ~IsLeaf(m) /\ Child(m, side) # Null
  BY <1>5, <1>7, <1>9, <1>11
<1>12. CASE ~IsLeaf(m) /\ Child(m, side) = Null
  <2>1. Child(m, 1 - side) # Null
    BY <1>12 DEF IsLeaf
  <2>2. f[m] = f[Child(m, 1 - side)]
    BY <1>7, <1>12
  <2>3. QED
    BY <1>2, <1>5, <1>9, <1>12, <2>1, <2>2
<1>13. QED
  BY <1>10, <1>11, <1>12

-----------------------------------------------------------------------------
(* The nodes that end with a node: those above it, up to the first that is *)
(* not a right child.                                                      *)
Ends(n, h, t) ==
  /\ t \in n[1] .. h /\ ~FromRight(Up(n, t))
  /\ \A j \in n[1] .. t - 1 : FromRight(Up(n, j))
Run(n, t) == {Up(n, l) : l \in n[1] .. t}

LEMMA EndsExists ==
  ASSUME NEW h, Rooted(nodes, h), NEW n \in DOMAIN nodes
  PROVE  \E t : Ends(n, h, t)
<1>1. n[1] \in Nat /\ h \in Nat /\ n[1] \in 1 .. h
  BY NodeIs
<1>2. Up(n, h) = <<h, 0>> /\ nodes[<<h, 0>>].p = Null
  BY AboveIs, RootIs
<1>3. ~FromRight(Up(n, h))
  BY <1>2 DEF FromRight
<1> DEFINE T == {l \in n[1] .. h : ~FromRight(Up(n, l))}
<1>4. T # {} /\ T \subseteq Nat
  BY <1>1, <1>3
<1>5. PICK t \in T : \A l \in T : t <= l
  BY <1>4, SmallestOf
<1>6. \A j \in n[1] .. t - 1 : j \in n[1] .. h /\ ~ (t <= j)
  BY <1>1, <1>5
<1>7. \A j \in n[1] .. t - 1 : FromRight(Up(n, j))
  BY <1>5, <1>6
<1>8. Ends(n, h, t)
  BY <1>5, <1>7 DEF Ends
<1>9. QED
  BY <1>8

LEMMA EndsOnce ==
  ASSUME NEW n, n[1] \in Nat, NEW h \in Nat, NEW t, NEW u, Ends(n, h, t), Ends(n, h, u)
  PROVE  t = u
<1>1. t \in n[1] .. h /\ u \in n[1] .. h
  BY DEF Ends
<1>2. t \in Nat /\ u \in Nat
  BY <1>1
<1>3. ~ (t < u)
  <2>1. t \notin n[1] .. u - 1
    BY DEF Ends
  <2>2. QED
    BY <1>1, <1>2, <2>1
<1>4. ~ (u < t)
  <2>1. u \notin n[1] .. t - 1
    BY DEF Ends
  <2>2. QED
    BY <1>1, <1>2, <2>1
<1>5. QED
  BY <1>2, <1>3, <1>4

LEMMA EndsHere ==
  ASSUME NEW h, Rooted(nodes, h), NEW n \in DOMAIN nodes, NEW t, Ends(n, h, t), ~FromRight(n)
  PROVE  Run(n, t) = {n}
<1>1. n[1] \in Nat /\ h \in Nat /\ Up(n, n[1]) = n
  BY NodeIs, AboveIs
<1>2. t \in n[1] .. h /\ n[1] \notin n[1] .. t - 1
  BY <1>1, Zenon DEF Ends
<1>3. n[1] .. t = {n[1]}
  BY <1>1, <1>2
<1>4. QED
  BY <1>1, <1>3 DEF Run

LEMMA EndsAbove ==
  ASSUME NEW h, Rooted(nodes, h), NEW n \in DOMAIN nodes, NEW t, Ends(n, h, t), FromRight(n),
         NEW p, p = nodes[n].p
  PROVE  /\ p \in DOMAIN nodes /\ p[1] = n[1] + 1 /\ h - p[1] \in Nat /\ h - p[1] < h - n[1]
         /\ Ends(p, h, t) /\ Run(n, t) = {n} \cup Run(p, t)
<1>1. n[1] \in Nat /\ h \in Nat /\ n[1] \in 1 .. h /\ Up(n, n[1]) = n
  BY NodeIs, AboveIs
<1>2. n # <<h, 0>>
  BY RootIs DEF FromRight
<1>3. p = Up(n, n[1] + 1) /\ p \in DOMAIN nodes /\ n[1] < h
  BY <1>2, ParentIs
<1>4. n[1] + 1 \in n[1] .. h
  BY <1>1, <1>3
<1>5. p[1] = n[1] + 1 /\ \A j \in n[1] + 1 .. h : Up(p, j) = Up(n, j)
  BY <1>3, <1>4, AboveIs
<1>6. t \in n[1] .. h /\ ~FromRight(Up(n, t)) /\ \A j \in n[1] .. t - 1 : FromRight(Up(n, j))
  BY DEF Ends
<1>7. t # n[1]
  BY <1>1, <1>6
<1>8. /\ t \in n[1] + 1 .. h /\ n[1] .. t = {n[1]} \cup (n[1] + 1 .. t)
      /\ \A j \in n[1] + 1 .. t : j \in n[1] + 1 .. h
      /\ \A j \in n[1] + 1 .. t - 1 : j \in n[1] .. t - 1 /\ j \in n[1] + 1 .. h
  BY <1>1, <1>6, <1>7
<1>9. Ends(p, h, t)
  BY <1>5, <1>6, <1>8 DEF Ends
<1>10. Run(n, t) = {n} \cup Run(p, t)
  BY <1>1, <1>5, <1>8 DEF Run
<1>11. h - p[1] \in Nat /\ h - p[1] < h - n[1]
  BY <1>1, <1>3, <1>5
<1>12. QED
  BY <1>3, <1>5, <1>9, <1>10, <1>11

Climb(f) == f = [n \in DOMAIN nodes |->
                  IF FromRight(n) THEN {n} \cup f[nodes[n].p] ELSE {n}]

LEMMA ClimbExists == ASSUME NEW h, Rooted(nodes, h) PROVE \E f : Climb(f)
<1> DEFINE end(n) == CHOOSE t : Ends(n, h, t)
           f == [n \in DOMAIN nodes |-> Run(n, end(n))]
<1>1. ASSUME NEW n \in DOMAIN nodes PROVE Ends(n, h, end(n))
  BY EndsExists
<1>2. ASSUME NEW n \in DOMAIN nodes
      PROVE  f[n] = IF FromRight(n) THEN {n} \cup f[nodes[n].p] ELSE {n}
  <2>1. PICK t : t = end(n) /\ Ends(n, h, t) /\ f[n] = Run(n, t)
    BY <1>1
  <2>2. CASE FromRight(n)
    <3>1. PICK p : p = nodes[n].p
      OBVIOUS
    <3>2. /\ p \in DOMAIN nodes /\ p[1] = n[1] + 1 /\ h - p[1] \in Nat
          /\ Ends(p, h, t) /\ Run(n, t) = {n} \cup Run(p, t)
      BY <2>1, <2>2, <3>1, EndsAbove
    <3>3. p[1] \in Nat /\ h \in Nat
      BY <3>2, NodeIs
    <3>4. Ends(p, h, end(p))
      BY <1>1, <3>2
    <3>5. end(p) = t
      <4>1. PICK u : u = end(p)
        OBVIOUS
      <4>2. Ends(p, h, u)
        BY <3>4, <4>1
      <4>3. u = t
        BY <3>2, <3>3, <4>2, EndsOnce
      <4>4. QED
        BY <4>1, <4>3
    <3>6. f[p] = Run(p, t)
      BY <3>2, <3>5
    <3>7. QED
      BY <2>1, <2>2, <3>1, <3>2, <3>6
  <2>3. CASE ~FromRight(n)
    BY <2>1, <2>3, EndsHere
  <2>4. QED
    BY <2>2, <2>3
<1>3. f = [n \in DOMAIN nodes |-> f[n]]
  OBVIOUS
<1> HIDE DEF f
<1>4. Climb(f)
  BY <1>2, <1>3, Zenon DEF Climb
<1>5. QED
  BY <1>4

LEMMA FinishedIs ==
  ASSUME NEW h, Rooted(nodes, h), node \in DOMAIN nodes, NEW t, Ends(node, h, t)
  PROVE  Finished = Run(node, t)
<1>1. PICK f : f = CHOOSE x : Climb(x)
  OBVIOUS
<1>2. Climb(f)
  BY <1>1, ClimbExists, Zenon
<1>3. Finished = f[node]
  BY <1>1, Zenon DEF Finished, Climb
<1>4. \A n \in DOMAIN nodes : f[n] = IF FromRight(n) THEN {n} \cup f[nodes[n].p] ELSE {n}
  BY <1>2, Zenon DEF Climb
<1>5. ASSUME NEW n \in DOMAIN nodes PROVE h - n[1] \in Nat
  BY NodeIs
<1> DEFINE T == {d \in Nat : \E n \in DOMAIN nodes : \E u :
                   h - n[1] = d /\ Ends(n, h, u) /\ f[n] # Run(n, u)}
<1>6. SUFFICES ASSUME T # {} PROVE FALSE
  <2>1. h - node[1] \notin T
    BY <1>6
  <2>2. QED
    BY <1>3, <1>5, <2>1
<1>7. PICK d \in T : \A x \in T : d <= x
  <2>1. T \subseteq Nat
    OBVIOUS
  <2>2. QED
    BY <1>6, <2>1, SmallestOf
<1>8. PICK n \in DOMAIN nodes : \E u : h - n[1] = d /\ Ends(n, h, u) /\ f[n] # Run(n, u)
  BY <1>7
<1>9. PICK u : h - n[1] = d /\ Ends(n, h, u) /\ f[n] # Run(n, u)
  BY <1>8
<1>10. CASE FromRight(n)
  <2>1. PICK p : p = nodes[n].p
    OBVIOUS
  <2>2. /\ p \in DOMAIN nodes /\ h - p[1] \in Nat /\ h - p[1] < h - n[1]
        /\ Ends(p, h, u) /\ Run(n, u) = {n} \cup Run(p, u)
    BY <1>9, <1>10, <2>1, EndsAbove
  <2>3. h - p[1] \notin T
    BY <1>5, <1>7, <1>9, <2>2
  <2>4. f[p] = Run(p, u)
    BY <2>2, <2>3
  <2>5. QED
    BY <1>4, <1>9, <1>10, <2>1, <2>2, <2>4
<1>11. CASE ~FromRight(n)
  <2>1. Run(n, u) = {n}
    BY <1>9, <1>11, EndsHere
  <2>2. QED
    BY <1>4, <1>9, <1>11, <2>1
<1>12. QED
  BY <1>10, <1>11

LEMMA TopIs ==
  ASSUME NEW h, Rooted(nodes, h), node \in DOMAIN nodes, NEW t, Ends(node, h, t)
  PROVE  (CHOOSE n \in Finished : ~FromRight(n)) = Up(node, t)
<1>1. node[1] \in Nat /\ h \in Nat
  BY NodeIs
<1>2. /\ t \in node[1] .. h /\ ~FromRight(Up(node, t))
      /\ \A j \in node[1] .. t - 1 : FromRight(Up(node, j))
  BY DEF Ends
<1>3. t \in node[1] .. t /\ \A l \in node[1] .. t : l # t => l \in node[1] .. t - 1
  BY <1>1, <1>2
<1>4. PICK top : top = Up(node, t)
  OBVIOUS
<1>5. top \in Run(node, t) /\ \A n \in Run(node, t) : ~FromRight(n) => n = top
  BY <1>2, <1>3, <1>4 DEF Run
<1>6. PICK F : F = Finished
  OBVIOUS
<1>7. F = Run(node, t)
  BY <1>6, FinishedIs
<1>8. top \in F /\ ~FromRight(top) /\ \A n \in F : ~FromRight(n) => n = top
  BY <1>2, <1>4, <1>5, <1>7
<1>9. (CHOOSE n \in F : ~FromRight(n)) = top
  BY <1>8
<1>10. QED
  BY <1>4, <1>6, <1>9

(* No node is left below the nodes that are freed. *)
LEMMA RunCloses ==
  ASSUME NEW h, Rooted(nodes, h), node \in DOMAIN nodes, LeftIsGone(node, nodes, h),
         Child(node, 1) = Null, NEW t, Ends(node, h, t),
         NEW m \in DOMAIN nodes, nodes[m].p \in Run(node, t)
  PROVE  m \in Run(node, t)
<1>1. node[1] \in Nat /\ h \in Nat /\ m # Null /\ node # Null
  BY NodeIs
<1>2. /\ t \in node[1] .. h
      /\ \A j \in node[1] .. t - 1 : FromRight(Up(node, j))
  BY Zenon DEF Ends
<1>3. PICK l \in node[1] .. t : nodes[m].p = Up(node, l)
  BY DEF Run
<1>4. PICK p : p = Up(node, l)
  OBVIOUS
<1>5. l \in node[1] .. h
  BY <1>1, <1>2
<1>6. p \in DOMAIN nodes /\ p # Null /\ p \in Above(node, h)
  BY <1>4, <1>5, AboveIs, NodeIs DEF Above
<1>7. m # <<h, 0>>
  BY <1>3, <1>4, <1>6, RootIs
<1>8. PICK o \in 0 .. 1 : nodes[p].children[o] = m
  <2>1. nodes[nodes[m].p].children[m[2] % 2] = m /\ m[2] \in Nat
    BY <1>7, ParentIs, NodeIs
  <2>2. m[2] % 2 \in 0 .. 1
    BY <2>1
  <2>3. QED
    BY <1>3, <1>4, <2>1, <2>2
<1>9. /\ p = node => nodes[p].children[0] \notin DOMAIN nodes
      /\ nodes[p].children[1] \in Above(node, h) => nodes[p].children[0] \notin DOMAIN nodes
  BY <1>6, Zenon DEF LeftIsGone
<1>10. CASE l = node[1]
  <2>1. p = node
    BY <1>4, <1>10, AboveIs
  <2>2. o # 1
    BY <1>1, <1>8, <2>1 DEF Child
  <2>3. o = 0
    BY <2>2
  <2>4. QED
    BY <1>8, <1>9, <2>1, <2>3
<1>11. CASE l # node[1]
  <2>1. PICK j : j = l - 1
    OBVIOUS
  <2>2. /\ j \in node[1] .. t - 1 /\ j \in node[1] .. h - 1 /\ j \in node[1] .. h
        /\ j \in node[1] .. t /\ j + 1 = l
    BY <1>1, <1>2, <1>5, <1>11, <2>1
  <2>3. nodes[Up(node, j)].p = p /\ FromRight(Up(node, j))
    BY <1>2, <1>4, <2>2, AboveIs
  <2>4. nodes[p].children[1] = Up(node, j)
    BY <2>3 DEF FromRight, Child
  <2>5. Up(node, j) \in Above(node, h) /\ Up(node, j) \in Run(node, t)
    BY <2>2 DEF Above, Run
  <2>6. CASE o = 1
    BY <1>8, <2>4, <2>5, <2>6
  <2>7. CASE o = 0
    BY <1>8, <1>9, <2>4, <2>5, <2>7
  <2>8. QED
    BY <2>6, <2>7
<1>12. QED
  BY <1>10, <1>11

(* When nothing is above them, nothing is left. *)
LEMMA RunIsAll ==
  ASSUME NEW h, Rooted(nodes, h), node \in DOMAIN nodes, LeftIsGone(node, nodes, h),
         Child(node, 1) = Null, Ends(node, h, h)
  PROVE  DOMAIN nodes \subseteq Run(node, h)
<1>1. h \in Nat /\ node[1] \in Nat /\ node[1] \in 1 .. h
  BY NodeIs
<1>2. <<h, 0>> \in Run(node, h)
  BY <1>1, AboveIs DEF Run
<1> DEFINE T == {d \in Nat : \E m \in DOMAIN nodes : h - m[1] = d /\ m \notin Run(node, h)}
<1>3. SUFFICES ASSUME T # {} PROVE FALSE
  <2>1. \A m \in DOMAIN nodes : h - m[1] \in Nat
    BY NodeIs
  <2>2. QED
    BY <1>3, <2>1
<1>4. PICK d \in T : \A x \in T : d <= x
  <2>1. T \subseteq Nat
    OBVIOUS
  <2>2. QED
    BY <1>3, <2>1, SmallestOf
<1>5. PICK m \in DOMAIN nodes : h - m[1] = d /\ m \notin Run(node, h)
  BY <1>4
<1>6. m[1] \in Nat /\ m # <<h, 0>>
  BY <1>2, <1>5, NodeIs
<1>7. PICK p : p = nodes[m].p
  OBVIOUS
<1>8. p \in DOMAIN nodes /\ p[1] = m[1] + 1 /\ p[1] \in 1 .. h
  <2>1. p = <<m[1] + 1, m[2] \div 2>> /\ p \in DOMAIN nodes
    BY <1>6, <1>7, ParentIs
  <2>2. QED
    BY <2>1, NodeIs
<1>9. h - p[1] \in Nat /\ ~ (d <= h - p[1])
  BY <1>1, <1>5, <1>6, <1>8
<1>10. h - p[1] \notin T
  BY <1>4, <1>9
<1>11. p \in Run(node, h)
  BY <1>8, <1>9, <1>10
<1>12. m \in Run(node, h)
  BY <1>7, <1>11, RunCloses
<1>13. QED
  BY <1>5, <1>12

(* When the run ends below a node, that node is next. *)
LEMMA FreedRun ==
  ASSUME NEW h, Rooted(nodes, h), node \in DOMAIN nodes, LeftIsGone(node, nodes, h),
         \A n \in DOMAIN nodes : Child(n, 1) \in DOMAIN nodes \cup {Null},
         Child(node, 1) = Null, NEW t, Ends(node, h, t), t # h,
         NEW g, Typed(g), DOMAIN g = DOMAIN nodes \ Run(node, t),
         \A m \in DOMAIN g : g[m] = nodes[m],
         NEW q, q = nodes[Up(node, t)].p
  PROVE  /\ q \in DOMAIN g /\ Rooted(g, h) /\ LeftIsGone(q, g, h)
         /\ \A n \in DOMAIN g : g[n].children[1] \in DOMAIN g \cup {Null}
<1>1. h \in Nat /\ h # 0 /\ node[1] \in Nat /\ node[1] \in 1 .. h
  BY NodeIs
<1>2. /\ t \in node[1] .. h /\ ~FromRight(Up(node, t))
      /\ \A j \in node[1] .. t - 1 : FromRight(Up(node, j))
  BY Zenon DEF Ends
<1>3. PICK top : top = Up(node, t)
  OBVIOUS
<1>4. t \in node[1] .. h - 1 /\ t + 1 \in node[1] .. h /\ t \in Nat
  BY <1>1, <1>2
<1>5. /\ q = Up(node, t + 1) /\ q \in DOMAIN nodes /\ q # Null /\ top \in DOMAIN nodes
      /\ top # <<h, 0>> /\ q[1] = t + 1 /\ top[1] = t
  BY <1>3, <1>4, AboveIs, NodeIs
<1>6. \A m \in Run(node, t) : m[1] <= t /\ m[1] \in Nat /\ m \in Above(node, h)
  <2>1. \A l \in node[1] .. t : l \in node[1] .. h /\ l <= t /\ l \in Nat
    BY <1>1, <1>2
  <2>2. \A l \in node[1] .. t : Up(node, l)[1] = l /\ Up(node, l) \in Above(node, h)
    BY <2>1, AboveIs DEF Above
  <2>3. QED
    BY <2>1, <2>2 DEF Run
<1>7. q \in DOMAIN g /\ <<h, 0>> \in DOMAIN g
  <2>1. q \notin Run(node, t)
    BY <1>4, <1>5, <1>6
  <2>2. <<h, 0>> \notin Run(node, t)
    <3>1. <<h, 0>>[1] = h /\ ~ (h <= t)
      BY <1>1, <1>4
    <3>2. QED
      BY <1>6, <3>1
  <2>3. QED
    BY <1>5, <2>1, <2>2, RootIs
(* The parent of a freed node is freed too, or q. *)
<1>8. ASSUME NEW m \in Run(node, t), m \in DOMAIN nodes
      PROVE  \/ m = top /\ nodes[m].p = q
             \/ nodes[m].p \in Run(node, t) /\ m # top /\ FromRight(m)
  <2>1. PICK l \in node[1] .. t : m = Up(node, l)
    BY DEF Run
  <2>2. CASE l = t
    BY <1>3, <2>1, <2>2
  <2>3. CASE l # t
    <3>1. l \in node[1] .. t - 1 /\ l + 1 \in node[1] .. t /\ l \in node[1] .. h - 1 /\ l \in node[1] .. h
      BY <1>1, <1>4, <2>3
    <3>2. FromRight(m) /\ nodes[m].p = Up(node, l + 1) /\ m[1] = l
      BY <1>2, <2>1, <3>1, AboveIs
    <3>3. QED
      BY <1>5, <2>3, <3>1, <3>2 DEF Run
  <2>4. QED
    BY <2>2, <2>3
<1>9. Rooted(g, h)
  <2>1. Spelled(g, h)
    <3>1. ASSUME NEW n \in DOMAIN g
          PROVE  /\ n[1] \in 1 .. h /\ Shifted(n[2], h - n[1]) = 0 /\ g[n].height = n[1]
                 /\ \A o \in 0 .. 1 :
                      /\ g[n].has_value[o] => n[1] = 1
                      /\ g[n].children[o] # Null =>
                           g[n].children[o] = <<n[1] - 1, 2 * n[2] + o>>
      <4>1. n \in DOMAIN nodes /\ g[n] = nodes[n]
        OBVIOUS
      <4>2. QED
        BY <4>1, NodeIs
    <3>2. QED
      BY <3>1, Zenon DEF Spelled
  <2>2. ASSUME NEW n \in DOMAIN g
        PROVE  IF n = <<h, 0>> THEN g[n].p = Null /\ g[n].offset = 0
               ELSE g[n].p \in DOMAIN g /\ g[g[n].p].children[g[n].offset] = n
    <3>1. n \in DOMAIN nodes /\ n \notin Run(node, t) /\ g[n] = nodes[n]
      OBVIOUS
    <3>2. Parents(nodes, h)
      BY DEF Rooted
    <3>3. CASE n = <<h, 0>>
      BY <3>1, <3>2, <3>3, Zenon DEF Parents
    <3>4. CASE n # <<h, 0>>
      <4>1. PICK p : p = nodes[n].p
        OBVIOUS
      <4>2. p \in DOMAIN nodes /\ nodes[p].children[nodes[n].offset] = n
        BY <3>1, <3>2, <3>4, <4>1, Zenon DEF Parents
      <4>3. p \notin Run(node, t)
        BY <3>1, <4>1, RunCloses
      <4>4. p \in DOMAIN g /\ g[p] = nodes[p]
        BY <4>2, <4>3
      <4>5. QED
        BY <3>1, <3>4, <4>1, <4>2, <4>4
    <3>5. QED
      BY <3>3, <3>4
  <2>3. Parents(g, h)
    BY <2>2, Zenon DEF Parents
  <2>4. QED
    BY <1>1, <1>7, <2>1, <2>3 DEF Rooted
<1>10. ASSUME NEW n \in DOMAIN g, NEW o \in 0 .. 1, NEW c \in DOMAIN nodes,
              g[n].children[o] = c, c \notin DOMAIN g
       PROVE  n = q /\ c = top /\ o = 0
  <2>1. n \in DOMAIN nodes /\ n \notin Run(node, t) /\ c \in Run(node, t) /\ nodes[n].children[o] = c
    BY <1>10
  <2>2. nodes[c].p = n /\ n # Null
    BY <2>1, LinkIs, NodeIs
  <2>3. c = top /\ n = q
    BY <1>8, <2>1, <2>2
  <2>4. o # 1
    <3>1. ~FromRight(c)
      BY <1>2, <1>3, <2>3
    <3>2. QED
      BY <2>1, <2>2, <3>1 DEF FromRight, Child
  <2>5. QED
    BY <2>3, <2>4
<1>11. ASSUME NEW n \in DOMAIN g PROVE g[n].children[1] \in DOMAIN g \cup {Null}
  <2>1. g[n].children[1] \in DOMAIN nodes \cup {Null} /\ 1 \in 0 .. 1
    BY DEF Child
  <2>2. QED
    BY <1>10, <2>1
<1>12. Above(node, h) = Run(node, t) \cup Above(q, h)
  <2>1. \A l \in q[1] .. h : Up(q, l) = Up(node, l)
    BY <1>4, <1>5, AboveIs
  <2>2. node[1] .. h = (node[1] .. t) \cup (q[1] .. h)
    BY <1>1, <1>4, <1>5
  <2>3. QED
    BY <2>1, <2>2 DEF Above, Run
<1>13. ASSUME NEW a \in DOMAIN g, a \notin Above(q, h)
       PROVE  g[a].children[0] \in DOMAIN g \cup {Null}
  <2>1. a \in DOMAIN nodes /\ a \notin Above(node, h) /\ g[a] = nodes[a]
    BY <1>12, <1>13
  <2>2. g[a].children[0] \in DOMAIN nodes \cup {Null}
    BY <2>1, Zenon DEF LeftIsGone
  <2>3. a # q
    BY <1>1, <1>4, <1>5, <1>13, <1>7, <1>9, AboveIs DEF Above
  <2>4. 0 \in 0 .. 1
    OBVIOUS
  <2>5. QED
    BY <1>10, <2>2, <2>3, <2>4
<1>14. g[q].children[0] \notin DOMAIN g
  <2>1. PICK o \in 0 .. 1 : nodes[q].children[o] = top
    <3>1. nodes[nodes[top].p].children[top[2] % 2] = top /\ top[2] \in Nat
      BY <1>5, ParentIs, NodeIs
    <3>2. top[2] % 2 \in 0 .. 1
      BY <3>1
    <3>3. QED
      BY <1>3, <3>1, <3>2
  <2>2. top \in Run(node, t) /\ g[q] = nodes[q]
    BY <1>1, <1>2, <1>3, <1>4, <1>7 DEF Run
  <2>3. o = 0
    BY <1>2, <1>3, <1>5, <2>1 DEF FromRight, Child
  <2>4. QED
    BY <2>1, <2>2, <2>3
<1>15. ASSUME NEW a \in DOMAIN g, a \in Above(q, h), g[a].children[1] \in Above(q, h)
       PROVE  g[a].children[0] \notin DOMAIN g
  <2>1. a \in DOMAIN nodes /\ g[a] = nodes[a] /\ a \in Above(node, h)
        /\ nodes[a].children[1] \in Above(node, h)
    BY <1>12, <1>15
  <2>2. nodes[a].children[0] \notin DOMAIN nodes
    BY <2>1, Zenon DEF LeftIsGone
  <2>3. QED
    BY <2>1, <2>2
<1>16. LeftIsGone(q, g, h)
  BY <1>13, <1>14, <1>15, Zenon DEF LeftIsGone
<1>17. QED
  BY <1>7, <1>9, <1>11, <1>16

(* The way down to the leftmost leaf below n passes left children only     *)
(* where there is one; nothing else has been freed than what is left of n. *)
LEMMA WayDown ==
  ASSUME NEW h, Rooted(nodes, h), NEW n \in DOMAIN nodes, NEW x, IsOutermost(n, 0, x),
         \A a \in DOMAIN nodes :
           a \notin Above(n, h) \ {n} => Child(a, 0) \in DOMAIN nodes \cup {Null},
         \A a \in DOMAIN nodes :
           a \in Above(n, h) \ {n} /\ Child(a, 1) \in Above(n, h) => Child(a, 0) \notin DOMAIN nodes
  PROVE  LeftIsGone(x, nodes, h)
<1>1. /\ x \in DOMAIN nodes /\ x[1] <= n[1] /\ IsLeaf(x) /\ Up(x, n[1]) = n
      /\ \A l \in x[1] + 1 .. n[1] :
           Child(Up(x, l), 0) = Null \/ Child(Up(x, l), 0) = Up(x, l - 1)
  BY Zenon DEF IsOutermost
<1>2. /\ h \in Nat /\ n[1] \in Nat /\ x[1] \in Nat /\ n[1] \in 1 .. h /\ n[1] \in x[1] .. h
      /\ \A a \in DOMAIN nodes : a # Null
  BY <1>1, NodeIs
<1>3. \A l \in n[1] .. h : Up(x, l) = Up(n, l)
  BY <1>1, <1>2, AboveIs
<1>4. Above(x, h) = {Up(x, l) : l \in x[1] .. n[1]} \cup Above(n, h)
  <2>1. x[1] .. h = (x[1] .. n[1]) \cup (n[1] .. h)
    BY <1>2
  <2>2. QED
    BY <1>3, <2>1 DEF Above
<1>5. \A l \in x[1] .. h : Up(x, l) \in DOMAIN nodes /\ Up(x, l)[1] = l
  BY <1>1, AboveIs
<1>6. n \in {Up(x, l) : l \in x[1] .. n[1]}
  BY <1>1, <1>2
<1>7. ASSUME NEW a \in DOMAIN nodes, a \notin Above(x, h)
      PROVE  Child(a, 0) \in DOMAIN nodes \cup {Null}
  BY <1>4, <1>7
<1>8. Child(x, 0) \notin DOMAIN nodes
  BY <1>1, <1>2 DEF IsLeaf
<1>9. ASSUME NEW a \in DOMAIN nodes, a \in Above(x, h), Child(a, 1) \in Above(x, h)
      PROVE  Child(a, 0) \notin DOMAIN nodes
  <2>1. PICK l \in x[1] .. h : a = Up(x, l)
    BY <1>9 DEF Above
  <2>2. PICK j \in x[1] .. h : Child(a, 1) = Up(x, j)
    BY <1>9 DEF Above
  <2>3. PICK c : c = Child(a, 1)
    OBVIOUS
  <2>4. c \in DOMAIN nodes /\ c[1] = j /\ a[1] = l
    BY <1>5, <2>1, <2>2, <2>3
  <2>5. c[1] = a[1] - 1 /\ nodes[c].p = a /\ c # Null
    <3>1. 1 \in 0 .. 1 /\ nodes[a].children[1] = c
      BY <2>3 DEF Child
    <3>2. QED
      BY <2>4, <3>1, LinkIs
  <2>6. l \in Nat /\ j \in Nat /\ j = l - 1 /\ l >= x[1] + 1
    BY <1>2, <2>4, <2>5
  <2>7. CASE l <= n[1]
    <3>1. l \in x[1] + 1 .. n[1]
      BY <1>2, <2>6, <2>7
    <3>2. Child(a, 0) = Null \/ Child(a, 0) = c
      BY <1>1, <2>1, <2>2, <2>3, <2>6, <3>1
    <3>3. CASE Child(a, 0) = c
      <4>1. c = <<a[1] - 1, 2 * a[2] + 0>> /\ c = <<a[1] - 1, 2 * a[2] + 1>> /\ a[2] \in Nat
        BY <2>3, <2>5, <3>3, NodeIs DEF Child
      <4>2. QED
        BY <4>1
    <3>4. QED
      BY <1>2, <3>2, <3>3
  <2>8. CASE ~ (l <= n[1])
    <3>1. l \in n[1] .. h /\ j \in n[1] .. h
      BY <1>2, <2>6, <2>8
    <3>2. a \in Above(n, h) /\ c \in Above(n, h)
      BY <1>3, <2>1, <2>2, <2>3, <3>1 DEF Above
    <3>3. a # n
      BY <1>2, <2>4, <2>8
    <3>4. QED
      BY <2>3, <3>2, <3>3
  <2>9. QED
    BY <2>7, <2>8
<1>10. QED
  BY <1>1, <1>7, <1>8, <1>9, Zenon DEF LeftIsGone, Child

LEMMA DestroyInv == ASSUME IInv, Destroy PROVE IInv'
<1>1. pc = "idle" /\ UNCHANGED tree
  BY DEF Destroy
<1>2. _root' = _root /\ _height' = _height /\ nodes' = nodes /\ Typed(nodes) /\ _height \in Nat
  BY <1>1, IdleIs DEF tree
<1>3. CASE _root = Null
  <2>1. pc' = "aborted"
    BY <1>3 DEF Destroy
  <2>2. QED
    BY <1>2, <2>1 DEF IInv, Standing
<1>4. CASE _root # Null
  <2>1. _root = <<_height, 0>> /\ Tree(nodes, _height)
    BY <1>1, <1>4, IdleIs
  <2>2. /\ Rooted(nodes, _height) /\ _root \in DOMAIN nodes /\ _root[1] = _height
        /\ \A n \in DOMAIN nodes, o \in 0 .. 1 : nodes[n].children[o] \in DOMAIN nodes \cup {Null}
    BY <2>1, Zenon DEF Tree, Rooted
  <2>3. Whole(nodes, _root)
    BY <2>2, Zenon DEF Whole
  <2>4. pc' = "destroy" /\ node' = Outermost(_root, 0)
    BY <1>4 DEF Destroy
  <2>5. PICK x : x = Outermost(_root, 0)
    OBVIOUS
  <2>6. 0 \in 0 .. 1 /\ 1 \in 0 .. 1
    OBVIOUS
  <2>7. IsOutermost(_root, 0, x)
    BY <2>2, <2>3, <2>5, <2>6, OutermostIs
  <2>8. x \in DOMAIN nodes /\ x # Null
    BY <2>2, <2>7, NodeIs DEF IsOutermost
  <2>9. Above(_root, _height) = {_root}
    <3>1. _root[1] .. _height = {_height}
      BY <1>2, <2>2
    <3>2. Up(_root, _height) = _root
      BY <2>2, AboveIs
    <3>3. QED
      BY <3>1, <3>2 DEF Above
  <2>10. LeftIsGone(x, nodes, _height)
    <3>1. \A a \in DOMAIN nodes : Child(a, 0) \in DOMAIN nodes \cup {Null}
      BY <2>2, <2>6 DEF Child
    <3>2. \A a : a \notin Above(_root, _height) \ {_root}
      BY <2>9
    <3>3. QED
      BY <2>2, <2>7, <3>1, <3>2, WayDown
  <2>11. \A n \in DOMAIN nodes : nodes[n].children[1] \in DOMAIN nodes \cup {Null}
    BY <2>2, <2>6
  <2>12. Dying'
    BY <1>2, <2>2, <2>4, <2>5, <2>8, <2>10, <2>11 DEF Dying, Child
  <2>13. QED
    BY <1>2, <2>4, <2>12 DEF IInv, Standing
<1>5. QED
  BY <1>3, <1>4

LEMMA DestroyNextInv == ASSUME IInv, DestroyNext PROVE IInv'
<1>1. pc = "destroy" /\ node # Null /\ _root' = _root /\ _height' = _height /\ pc' = pc
  BY DEF DestroyNext
<1>2. Typed(nodes) /\ _height \in Nat /\ Dying
  BY <1>1 DEF IInv
<1>3. PICK h : h = _height
  OBVIOUS
<1>4. /\ node \in DOMAIN nodes /\ Rooted(nodes, h) /\ LeftIsGone(node, nodes, h)
      /\ \A n \in DOMAIN nodes : Child(n, 1) \in DOMAIN nodes \cup {Null}
  BY <1>1, <1>2, <1>3 DEF Dying
<1>5. SUFFICES Typed(nodes') /\ Dying'
  BY <1>1, <1>2 DEF IInv, Standing
<1>6. CASE Child(node, 1) # Null
  <2>1. node' = Outermost(Child(node, 1), 0) /\ nodes' = nodes
    BY <1>6 DEF DestroyNext
  <2>2. PICK c : c = Child(node, 1)
    OBVIOUS
  <2>3. 0 \in 0 .. 1 /\ 1 \in 0 .. 1
    OBVIOUS
  <2>4. c \in DOMAIN nodes /\ nodes[node].children[1] = c
    BY <1>4, <1>6, <2>2 DEF Child
  <2>5. /\ c # Null /\ c[1] = node[1] - 1 /\ c[1] < node[1] /\ nodes[c].p = node
        /\ c # <<h, 0>> /\ node = Up(c, node[1])
    BY <1>4, <2>3, <2>4, LinkIs
  <2>6. h \in Nat /\ node[1] \in Nat /\ node[1] \in 1 .. h /\ c[1] \in Nat /\ c[1] \in 1 .. h
    BY <1>4, <2>4, NodeIs
  <2>7. Above(c, h) = {c} \cup Above(node, h)
    <3>1. c[1] .. h = {c[1]} \cup (node[1] .. h)
      BY <2>5, <2>6
    <3>2. Up(c, c[1]) = c
      BY <1>4, <2>4, AboveIs
    <3>3. \A l \in node[1] .. h : Up(c, l) = Up(node, l)
      <4>1. node[1] \in c[1] .. h
        BY <2>5, <2>6
      <4>2. QED
        BY <1>4, <2>4, <2>5, <4>1, AboveIs
    <3>4. QED
      BY <3>1, <3>2, <3>3 DEF Above
  <2>8. \A a \in Above(node, h) : a \in DOMAIN nodes /\ a[1] >= node[1] /\ a # c
    <3>1. \A l \in node[1] .. h : l >= node[1] /\ l # c[1]
      BY <2>5, <2>6
    <3>2. \A l \in node[1] .. h : Up(node, l) \in DOMAIN nodes /\ Up(node, l)[1] = l
      BY <1>4, AboveIs
    <3>3. QED
      BY <3>1, <3>2 DEF Above
  <2>9. Whole(nodes, c)
    <3>1. ASSUME NEW m \in DOMAIN nodes, m[1] <= c[1], NEW o \in 0 .. 1
          PROVE  nodes[m].children[o] \in DOMAIN nodes \cup {Null}
      <4>1. m \notin Above(node, h)
        BY <2>5, <2>6, <2>8, <3>1, <1>4, NodeIs
      <4>2. nodes[m].children[0] \in DOMAIN nodes \cup {Null}
        BY <1>4, <4>1, Zenon DEF LeftIsGone
      <4>3. nodes[m].children[1] \in DOMAIN nodes \cup {Null}
        BY <1>4 DEF Child
      <4>4. o = 0 \/ o = 1
        OBVIOUS
      <4>5. QED
        BY <4>2, <4>3, <4>4
    <3>2. QED
      BY <3>1, Zenon DEF Whole
  <2>10. PICK x : x = Outermost(c, 0)
    OBVIOUS
  <2>11. IsOutermost(c, 0, x)
    BY <1>4, <2>3, <2>4, <2>9, <2>10, OutermostIs
  <2>12. x \in DOMAIN nodes /\ x # Null
    BY <1>4, <2>11, NodeIs DEF IsOutermost
  <2>13. Above(c, h) \ {c} = Above(node, h)
    BY <2>7, <2>8
  <2>14. \A a \in DOMAIN nodes : a \notin Above(node, h) => Child(a, 0) \in DOMAIN nodes \cup {Null}
    BY <1>4, Zenon DEF LeftIsGone, Child
  <2>15. ASSUME NEW a \in DOMAIN nodes, a \in Above(node, h), Child(a, 1) \in Above(c, h)
         PROVE  Child(a, 0) \notin DOMAIN nodes
    <3>1. CASE Child(a, 1) \in Above(node, h)
      BY <1>4, <2>15, <3>1, Zenon DEF LeftIsGone, Child
    <3>2. CASE Child(a, 1) = c
      <4>1. nodes[c].p = a
        <5>1. nodes[a].children[1] = c
          BY <3>2 DEF Child
        <5>2. QED
          BY <1>4, <2>3, <2>4, <5>1, LinkIs
      <4>2. a = node
        BY <2>5, <4>1
      <4>3. QED
        BY <1>4, <4>2, Zenon DEF LeftIsGone, Child
    <3>3. QED
      BY <2>7, <2>15, <3>1, <3>2
  <2>16. LeftIsGone(x, nodes, h)
    BY <1>4, <2>4, <2>11, <2>13, <2>14, <2>15, WayDown
  <2>17. node' = x
    BY <2>1, <2>2, <2>10
  <2>18. \A n \in DOMAIN nodes : nodes[n].children[1] \in DOMAIN nodes \cup {Null}
    BY <1>4 DEF Child
  <2>19. QED
    BY <1>1, <1>2, <1>3, <1>4, <2>1, <2>12, <2>16, <2>17, <2>18 DEF Dying, Child
<1>7. CASE Child(node, 1) = Null
  <2>1. PICK t : Ends(node, h, t)
    BY <1>4, EndsExists
  <2>2. /\ Finished = Run(node, t)
        /\ (CHOOSE n \in Finished : ~FromRight(n)) = Up(node, t)
    BY <1>4, <2>1, FinishedIs, TopIs
  <2>3. PICK q, g : q = nodes[Up(node, t)].p /\ g = nodes'
    OBVIOUS
  <2>4. g = [m \in DOMAIN nodes \ Run(node, t) |-> nodes[m]] /\ node' = q
    BY <1>7, <2>2, <2>3, Zenon DEF DestroyNext
  <2>5. /\ DOMAIN g = DOMAIN nodes \ Run(node, t) /\ \A m \in DOMAIN g : g[m] = nodes[m]
        /\ Typed(g)
    BY <1>2, <2>4 DEF Typed
  <2>6. CASE t = h
    <3>1. DOMAIN nodes \subseteq Run(node, h)
      BY <1>4, <1>7, <2>1, <2>6, RunIsAll
    <3>2. q = Null
      BY <1>4, <2>3, <2>6, AboveIs, RootIs
    <3>3. DOMAIN nodes' = {}
      BY <2>3, <2>5, <2>6, <3>1
    <3>4. QED
      BY <2>3, <2>4, <2>5, <3>2, <3>3 DEF Dying
  <2>7. CASE t # h
    <3>1. /\ q \in DOMAIN g /\ Rooted(g, h) /\ LeftIsGone(q, g, h)
          /\ \A n \in DOMAIN g : g[n].children[1] \in DOMAIN g \cup {Null}
      BY <1>4, <1>7, <2>1, <2>3, <2>5, <2>7, FreedRun
    <3>2. q # Null
      BY <3>1, NodeIs
    <3>3. QED
      BY <1>1, <1>3, <2>3, <2>4, <2>5, <3>1, <3>2 DEF Dying, Child
  <2>8. QED
    BY <2>6, <2>7
<1>8. QED
  BY <1>6, <1>7

LEMMA DestroyDoneInv == ASSUME IInv, DestroyDone PROVE IInv'
<1>1. pc = "destroy" /\ node = Null /\ pc' = "gone" /\ nodes' = nodes /\ _height' = _height
  BY DEF DestroyDone
<1>2. Typed(nodes) /\ _height \in Nat /\ DOMAIN nodes = {}
  BY <1>1 DEF IInv, Dying
<1>3. QED
  BY <1>1, <1>2 DEF IInv, Standing

LEMMA StutterInv == ASSUME IInv, UNCHANGED vars PROVE IInv'
<1>1. /\ _root' = _root /\ _height' = _height /\ nodes' = nodes /\ pc' = pc /\ arg' = arg
      /\ node' = node /\ level' = level /\ i' = i /\ insertion_flags' = insertion_flags
  BY DEF vars, tree, regs
<1>2. NewHeights' = NewHeights
  BY <1>1, Zenon DEF NewHeights
<1>3. New' = New
  BY <1>1, <1>2, Zenon DEF New
<1>4. Growing' <=> Growing
  BY <1>1, <1>2, Zenon DEF Growing
<1>5. Dying' <=> Dying
  BY <1>1, Zenon DEF Dying, Child
<1>6. QED
  BY <1>1, <1>3, <1>4, <1>5, Zenon DEF IInv, Standing

LEMMA NextInv == ASSUME IInv, [Next]_vars PROVE IInv'
<1>1. ASSUME NEW k \in Keys, InsertRoot(k) PROVE IInv'
  BY <1>1, InsertRootInv
<1>2. ASSUME NEW k \in Keys, InsertBegin(k) PROVE IInv'
  BY <1>2, InsertBeginInv
<1>3. CASE Loops
  BY <1>3, GrowHeightInv, GrowHeightDoneInv, GrowNodeInv, RollbackInv, RollbackDoneInv,
     StoreInv, DestroyNextInv, DestroyDoneInv, Zenon DEF Loops
<1>4. CASE NoMemory
  BY <1>4, GrowHeightNoMemoryInv, GrowNodeNoMemoryInv, Zenon DEF NoMemory
<1>5. CASE Destroy
  BY <1>5, DestroyInv
<1>6. CASE UNCHANGED vars
  BY <1>6, StutterInv
<1>7. QED
  BY <1>1, <1>2, <1>3, <1>4, <1>5, <1>6, Zenon DEF Next

(* The tree of every state: an insertion keeps its new nodes a chain that  *)
(* ends where it stands, and the destructor has freed exactly what is left *)
(* of the path to its node.                                                *)
THEOREM InvariantTheorem == Spec => []IInv
<1>1. IInv /\ [Next]_vars => IInv'
  BY NextInv
<1>2. QED
  BY InitInv, <1>1, PTL DEF Spec

-----------------------------------------------------------------------------
LEMMA EmptyIs == ASSUME NEW f, Typed(f), DOMAIN f = {} PROVE f = <<>>
<1>1. f \in [{} -> NodeRecords]
  BY DEF Typed
<1>2. QED
  BY <1>1

LEMMA PathsHold == IInv => PathsSpellKeys
<1>1. SUFFICES ASSUME IInv, Standing PROVE PathsSpellKeys
  BY DEF PathsSpellKeys, Standing
<1>2. Typed(nodes) /\ (_root = Null => DOMAIN nodes = {} /\ pc = "idle")
  BY <1>1 DEF IInv
<1>3. CASE _root = Null
  <2>1. nodes = <<>> /\ DOMAIN nodes = {}
    BY <1>2, <1>3, EmptyIs
  <2>2. QED
    BY <1>3, <2>1, Zenon DEF PathsSpellKeys
<1>4. CASE _root # Null
  <2>1. _root = <<_height, 0>> /\ Tree(nodes, _height) /\ Useful(nodes, New)
    BY <1>1, <1>4, Zenon DEF IInv
  <2>2. /\ Rooted(nodes, _height)
        /\ \A n \in DOMAIN nodes, o \in 0 .. 1 : nodes[n].children[o] \in DOMAIN nodes \cup {Null}
    BY <2>1, Zenon DEF Tree
  <2>3. ASSUME NEW n \in DOMAIN nodes
        PROVE  /\ nodes[n].height = n[1]
               /\ \A o \in 0 .. 1 :
                    /\ nodes[n].has_value[o] => n[1] = 1
                    /\ Child(n, o) # Null =>
                         /\ Child(n, o) \in DOMAIN nodes
                         /\ Child(n, o) = <<n[1] - 1, 2 * n[2] + o>>
    BY <2>2, NodeIs DEF Child
  <2>4. ASSUME NEW n \in DOMAIN nodes
        PROVE  IF n = _root THEN nodes[n].p = Null
               ELSE /\ nodes[n].p \in DOMAIN nodes
                    /\ Child(nodes[n].p, nodes[n].offset) = n
    <3>1. Parents(nodes, _height)
      BY <2>2 DEF Rooted
    <3>2. QED
      BY <2>1, <3>1, Zenon DEF Parents, Child
  <2>5. ASSUME NEW n \in DOMAIN nodes, pc = "idle", IsLeaf(n)
        PROVE  TRUE \in Range(nodes[n].has_value)
    <3>1. New = {}
      BY <2>5 DEF New
    <3>2. PICK o \in 0 .. 1 : nodes[n].has_value[o] \/ nodes[n].children[o] \notin New \cup {Null}
      BY <2>1, <3>1, Zenon DEF Useful
    <3>3. nodes[n].children[o] = Null
      BY <2>5, <3>2 DEF IsLeaf, Child
    <3>4. nodes[n].has_value \in [0 .. 1 -> BOOLEAN]
      BY <1>2 DEF Typed, NodeRecords
    <3>5. nodes[n].has_value[o] = TRUE
      BY <3>2, <3>3, <3>4
    <3>6. QED
      BY <3>4, <3>5 DEF Range
  <2>6. QED
    BY <1>4, <2>1, <2>3, <2>4, <2>5, Zenon DEF PathsSpellKeys
<1>5. QED
  BY <1>3, <1>4

(* Keys as wide as count_leading_zero counts.  Links agree in both         *)
(* directions and spell the bits of the keys in every state of an          *)
(* insertion, one that gives up included.                                  *)
THEOREM PathsTheorem == Spec => []PathsSpellKeys
BY InvariantTheorem, PathsHold, PTL

(* The destructor stands on a node that is allocated, and none is left     *)
(* when it is done.                                                        *)
THEOREM DestructorTheorem == Spec => []DestructorExact
<1>1. IInv => DestructorExact
  <2>1. ASSUME IInv, pc = "gone" PROVE nodes = <<>>
    BY <2>1, EmptyIs DEF IInv
  <2>2. ASSUME IInv, pc = "destroy" PROVE node \in DOMAIN nodes \cup {Null}
    BY <2>2 DEF IInv, Dying
  <2>3. QED
    BY <2>1, <2>2 DEF DestructorExact
<1>2. QED
  BY InvariantTheorem, <1>1, PTL

-----------------------------------------------------------------------------
(* Lookups. *)

(* The bits of k lead to a value. *)
Held(f, k) == Path(k, 1) \in DOMAIN f /\ f[Path(k, 1)].has_value[Bit(k, 0)]
HeldKeys(f) == {k \in Keys : Held(f, k)}

(* What the loop of _lookup does at a node of height h. *)
Look(f, k, h, n) ==
  IF Child(n, Bit(k, h - 1)) = Null \/ h = 1 THEN [at |-> n, offset |-> Bit(k, h - 1)]
  ELSE f[h - 1][Child(n, Bit(k, h - 1))]
Looks(f, k) == f = [h \in 1 .. _height |-> [n \in DOMAIN nodes |-> Look(f, k, h, n)]]

LEMMA LooksExist == ASSUME NEW k, _height \in Nat PROVE \E f : Looks(f, k)
<1> DEFINE Q(x) == \E f : /\ f = [h \in 1 .. _height |-> f[h]]
                          /\ \A h \in 1 .. _height : h <= x =>
                               f[h] = [n \in DOMAIN nodes |-> Look(f, k, h, n)]
           T == {x \in Nat : ~ Q(x)}
<1>1. T = {}
  <2>1. SUFFICES ASSUME T # {} PROVE FALSE
    OBVIOUS
  <2>2. PICK x \in T : \A y \in T : x <= y
    <3>1. T \subseteq Nat
      OBVIOUS
    <3>2. QED
      BY <2>1, <3>1, SmallestOf
  <2>3. x # 0
    <3>1. \A h \in 1 .. _height : ~ (h <= 0)
      OBVIOUS
    <3>2. PICK f : f = [h \in 1 .. _height |-> h]
      OBVIOUS
    <3>3. f = [h \in 1 .. _height |-> f[h]]
      BY <3>2
    <3>4. Q(0)
      BY <3>1, <3>3
    <3>5. QED
      BY <2>2, <3>4
  <2>4. Q(x - 1)
    <3>1. x - 1 \in Nat /\ ~ (x <= x - 1)
      BY <2>2, <2>3
    <3>2. x - 1 \notin T
      BY <2>2, <3>1
    <3>3. QED
      BY <3>1, <3>2
  <2>5. PICK f : /\ f = [h \in 1 .. _height |-> f[h]]
                 /\ \A h \in 1 .. _height : h <= x - 1 =>
                      f[h] = [n \in DOMAIN nodes |-> Look(f, k, h, n)]
    BY <2>4
  <2>6. PICK g : g = [h \in 1 .. _height |->
                       IF h = x THEN [n \in DOMAIN nodes |-> Look(f, k, h, n)] ELSE f[h]]
    OBVIOUS
  <2>7. ASSUME NEW h \in 1 .. _height, h <= x, NEW n
        PROVE  Look(f, k, h, n) = Look(g, k, h, n)
    <3>1. CASE h = 1
      BY <3>1, Zenon DEF Look
    <3>2. CASE h # 1
      <4>1. h - 1 \in 1 .. _height /\ h - 1 # x
        BY <2>2, <2>7, <3>2
      <4>2. g[h - 1] = f[h - 1]
        BY <2>6, <4>1
      <4>3. QED
        BY <4>2, Zenon DEF Look
    <3>3. QED
      BY <3>1, <3>2
  <2>8. ASSUME NEW h \in 1 .. _height, h <= x
        PROVE  g[h] = [n \in DOMAIN nodes |-> Look(g, k, h, n)]
    <3>1. g[h] = [n \in DOMAIN nodes |-> Look(f, k, h, n)]
      <4>1. CASE h = x
        BY <2>6, <4>1, Zenon
      <4>2. CASE h # x
        <5>1. h <= x - 1 /\ g[h] = f[h]
          BY <2>2, <2>6, <2>8, <4>2
        <5>2. QED
          BY <2>5, <5>1, Zenon
      <4>3. QED
        BY <4>1, <4>2
    <3>2. QED
      BY <2>7, <2>8, <3>1, Zenon
  <2>9. g = [h \in 1 .. _height |-> g[h]]
    BY <2>6
  <2>10. Q(x)
    BY <2>8, <2>9
  <2>11. QED
    BY <2>2, <2>10
<1>2. Q(_height)
  BY <1>1
<1>3. PICK f : /\ f = [h \in 1 .. _height |-> f[h]]
               /\ \A h \in 1 .. _height : h <= _height =>
                    f[h] = [n \in DOMAIN nodes |-> Look(f, k, h, n)]
  BY <1>2
<1>4. \A h \in 1 .. _height : h <= _height
  OBVIOUS
<1>5. Looks(f, k)
  BY <1>3, <1>4, Zenon DEF Looks
<1>6. QED
  BY <1>5

LEMMA LookupIs ==
  ASSUME Tree(nodes, _height), _root = <<_height, 0>>, NEW k \in Nat, Shifted(k, _height) = 0
  PROVE  Lookup(k) <=> Held(nodes, k)
<1>1. _height \in Nat \ {0} /\ Rooted(nodes, _height) /\ _root \in DOMAIN nodes /\ _root # Null
  BY NodeIs DEF Tree, Rooted
<1>2. PICK f : f = CHOOSE x : Looks(x, k)
  OBVIOUS
<1>3. Looks(f, k)
  BY <1>1, <1>2, LooksExist, Zenon
<1>4. Reached(k) = f[_height][_root]
  BY <1>2, Zenon DEF Reached, Looks, Look
<1>5. ASSUME NEW h \in 1 .. _height, NEW n \in DOMAIN nodes
      PROVE  f[h][n] = Look(f, k, h, n)
  <2>1. f[h] = [m \in DOMAIN nodes |-> Look(f, k, h, m)]
    BY <1>3, Zenon DEF Looks
  <2>2. QED
    BY <2>1, Zenon
<1> DEFINE Right(h) ==
             nodes[f[h][Path(k, h)].at].has_value[f[h][Path(k, h)].offset] <=> Held(nodes, k)
           T == {h \in 1 .. _height : Path(k, h) \in DOMAIN nodes /\ ~ Right(h)}
<1>6. T = {}
  <2>1. SUFFICES ASSUME T # {} PROVE FALSE
    OBVIOUS
  <2>2. PICK h \in T : \A y \in T : h <= y
    <3>1. T \subseteq Nat
      OBVIOUS
    <3>2. QED
      BY <2>1, <3>1, SmallestOf
  <2>3. h \in 1 .. _height /\ Path(k, h) \in DOMAIN nodes /\ ~ Right(h)
    BY <2>2
  <2>4. PICK n : n = Path(k, h)
    OBVIOUS
  <2>5. n \in DOMAIN nodes /\ f[h][n] = Look(f, k, h, n) /\ n[1] = h /\ h \in Nat \ {0}
    <3>1. h \in Nat \ {0} /\ n \in DOMAIN nodes
      BY <1>1, <2>3, <2>4
    <3>2. n[1] = h
      BY <2>4, Zenon DEF Path
    <3>3. QED
      BY <1>5, <2>3, <3>1, <3>2, Zenon
  <2>6. CASE h = 1
    <3>1. h - 1 = 0
      BY <2>6
    <3>2. f[h][n] = [at |-> n, offset |-> Bit(k, 0)]
      BY <2>5, <2>6, <3>1, Zenon DEF Look
    <3>3. f[h][n].at = n /\ f[h][n].offset = Bit(k, 0)
      BY <3>2
    <3>4. Right(h)
      BY <2>3, <2>4, <2>6, <3>3, Zenon DEF Held
    <3>5. QED
      BY <2>3, <3>4
  <2>7. CASE h # 1
    <3>1. PICK o : o = Bit(k, h - 1)
      OBVIOUS
    <3>2. /\ o \in 0 .. 1 /\ h > 1 /\ h - 1 \in 1 .. _height /\ h - 1 \in Nat \ {0}
          /\ Path(k, h - 1) = <<n[1] - 1, 2 * n[2] + o>> /\ Path(k, h - 1) # Null
      <4>1. k \in Nat /\ h \in Nat /\ h > 1
        BY <2>5, <2>7
      <4>2. h - 1 \in Nat \ {0} /\ h - 1 \in 1 .. _height
        BY <1>1, <2>3, <4>1
      <4>3. /\ Bit(k, h - 1) \in 0 .. 1
            /\ Path(k, h - 1) = <<Path(k, h)[1] - 1, 2 * Path(k, h)[2] + Bit(k, h - 1)>>
        BY ONLY <4>1, PathDown
      <4>4. Path(k, h - 1) # Null
        BY ONLY <4>1, <4>2, PathIs
      <4>5. QED
        BY <2>4, <3>1, <4>1, <4>2, <4>3, <4>4, Zenon
    <3>3. CASE Child(n, o) = Null
      <4>1. f[h][n] = [at |-> n, offset |-> o]
        BY <2>5, <3>1, <3>3, Zenon DEF Look
      <4>2. f[h][n].at = n /\ f[h][n].offset = o
        BY <4>1
      <4>3. ~ nodes[n].has_value[o]
        BY <1>1, <2>5, <2>7, <3>2, NodeIs
      <4>4. Path(k, h - 1) \notin DOMAIN nodes
        BY <1>1, <2>5, <3>2, <3>3, ChildIs DEF Child
      <4>5. Path(k, 1) \notin DOMAIN nodes
        <5>1. SUFFICES ASSUME Path(k, 1) \in DOMAIN nodes PROVE FALSE
          OBVIOUS
        <5>2. Path(k, 1)[1] = 1 /\ Path(k, 1)[2] = Shifted(k, 1)
          BY PathIs
        <5>3. Up(Path(k, 1), h - 1) \in DOMAIN nodes
          BY <1>1, <3>2, <5>1, <5>2, AboveIs
        <5>4. Up(Path(k, 1), h - 1) = Path(k, h - 1)
          <6>1. PICK m \in Nat : m = h - 1 - 1
            BY <3>2
          <6>2. 1 + m = h - 1
            BY <3>2, <6>1
          <6>3. Shifted(Shifted(k, 1), m) = Shifted(k, 1 + m)
            <7>1. k \in Nat /\ 1 \in Nat /\ m \in Nat
              OBVIOUS
            <7>2. QED
              BY ONLY <7>1, ShiftedTwice
          <6>4. QED
            BY <5>2, <6>1, <6>2, <6>3, Zenon DEF Up, Path
        <5>5. QED
          BY <4>4, <5>3, <5>4
      <4>6. Right(h)
        BY <2>4, <4>2, <4>3, <4>5 DEF Held
      <4>7. QED
        BY <2>3, <4>6
    <3>4. CASE Child(n, o) # Null
      <4>1. Child(n, o) = Path(k, h - 1) /\ Child(n, o) \in DOMAIN nodes
        <5>1. nodes[n].children[o] \in DOMAIN nodes
          BY <2>5, <3>2, <3>4 DEF Tree, Child
        <5>2. nodes[n].children[o] = <<n[1] - 1, 2 * n[2] + o>>
          BY <1>1, <2>5, <3>2, <3>4, NodeIs DEF Child
        <5>3. QED
          BY <3>2, <5>1, <5>2 DEF Child
      <4>2. f[h][n] = f[h - 1][Path(k, h - 1)]
        BY <2>5, <2>7, <3>1, <3>4, <4>1, Zenon DEF Look
      <4>3. ~ (h <= h - 1)
        BY <2>5
      <4>4. Right(h - 1)
        BY <2>2, <3>2, <4>1, <4>3
      <4>5. Right(h)
        BY <2>4, <4>2, <4>4
      <4>6. QED
        BY <2>3, <4>5
    <3>5. QED
      BY <3>3, <3>4
  <2>8. QED
    BY <2>6, <2>7
<1>7. Path(k, _height) = _root
  BY <1>1 DEF Path
<1>8. Right(_height)
  BY <1>1, <1>6, <1>7
<1>9. QED
  BY <1>1, <1>4, <1>7, <1>8 DEF Lookup

LEMMA ContentsIs == contents = HeldKeys(nodes)
BY DEF contents, HeldKeys, Held, Path

LEMMA ContentsNext == contents' = HeldKeys(nodes')
BY DEF contents, HeldKeys, Held, Path

LEMMA SameTree == UNCHANGED tree => contents' = contents
BY ContentsIs, ContentsNext DEF tree

(* A key that is held has no more bits than the tree is high. *)
LEMMA HeldHeight ==
  ASSUME IInv, Standing, NEW k \in Keys, Held(nodes, k)
  PROVE  _root # Null /\ HeightOf(k) <= _height
<1>1. k \in Nat
  BY KeyAssumption
<1>2. Path(k, 1) \in DOMAIN nodes /\ Path(k, 1)[1] = 1 /\ Path(k, 1)[2] = Shifted(k, 1)
  BY <1>1, PathIs DEF Held
<1>3. _root # Null
  BY <1>2 DEF IInv
<1>4. Tree(nodes, _height) /\ Rooted(nodes, _height) /\ _height \in Nat \ {0}
  BY <1>3 DEF IInv, Tree, Rooted
<1>5. Shifted(Shifted(k, 1), _height - 1) = 0
  BY <1>2, <1>4, NodeIs
<1>6. PICK m \in Nat : m = _height - 1
  BY <1>4
<1>7. Shifted(Shifted(k, 1), m) = Shifted(k, 1 + m)
  <2>1. k \in Nat /\ 1 \in Nat /\ m \in Nat
    BY <1>1
  <2>2. QED
    BY ONLY <2>1, ShiftedTwice
<1>8. 1 + m = _height
  BY <1>4, <1>6
<1>9. Shifted(k, _height) = 0
  BY <1>5, <1>6, <1>7, <1>8, Zenon
<1>10. QED
  BY <1>3, <1>4, <1>9, HeightIs

(* An insertion that ends the program has found its own key. *)
AbortsAtKey == (pc = "idle" => node = Null) /\ KeyExists

LEMMA StoreAborts == ASSUME IInv, Store PROVE KeyExists'
<1>1. SUFFICES ASSUME pc' = "aborted" PROVE arg'.key \in contents'
  BY DEF KeyExists
<1>2. PICK k : k = arg.key
  OBVIOUS
<1>3. pc = "grow_node" /\ level = 1
  BY DEF Store
<1>4. nodes[node].has_value[Offset] /\ nodes' = nodes /\ arg' = arg
  BY <1>1 DEF Store, Return, tree
<1>5. k \in Keys /\ k \in Nat /\ _height \in Nat \ {0} /\ Growing
  BY <1>2, <1>3, GrowingIs
<1>6. /\ i \in 0 .. _height - 1 /\ node = Path(k, _height - i) /\ node \in DOMAIN nodes
      /\ level = _height - i
  BY <1>2, <1>3, <1>5, Zenon DEF Growing
<1>7. node = Path(k, 1)
  BY <1>3, <1>6
<1>8. Offset = Bit(k, 0)
  <2>1. level - 1 = 0
    BY <1>3
  <2>2. QED
    BY <1>2, <2>1, Zenon DEF Offset
<1>9. Held(nodes, k)
  BY <1>4, <1>6, <1>7, <1>8 DEF Held
<1>10. QED
  BY <1>2, <1>4, <1>5, <1>9, ContentsNext DEF HeldKeys

LEMMA AbortsStep == IInv /\ AbortsAtKey /\ [Next]_vars => AbortsAtKey'
<1>1. SUFFICES ASSUME IInv, AbortsAtKey, [Next]_vars PROVE AbortsAtKey'
  OBVIOUS
<1>2. CASE UNCHANGED vars
  <2>1. UNCHANGED tree /\ pc' = pc /\ arg' = arg /\ node' = node
    BY <1>2 DEF vars, regs
  <2>2. QED
    BY <1>1, <2>1, SameTree DEF AbortsAtKey, KeyExists
<1>3. ASSUME pc' \notin {"idle", "aborted"} PROVE AbortsAtKey'
  BY <1>3 DEF AbortsAtKey, KeyExists
<1>4. CASE Return
  BY <1>4 DEF Return, Rest, AbortsAtKey, KeyExists
<1>5. ASSUME NEW k \in Keys, InsertRoot(k) PROVE AbortsAtKey'
  BY <1>1, <1>3, <1>5 DEF InsertRoot, GrowNodeFrom, AbortsAtKey, KeyExists, regs
<1>6. ASSUME NEW k \in Keys, InsertBegin(k) PROVE AbortsAtKey'
  BY <1>3, <1>6 DEF InsertBegin, GrowNodeFrom
<1>7. CASE Store
  <2>1. KeyExists'
    BY <1>1, <1>7, StoreAborts
  <2>2. pc' = "idle" => node' = Null
    BY <1>7 DEF Store, Return, Rest
  <2>3. QED
    BY <2>1, <2>2 DEF AbortsAtKey
<1>8. CASE Destroy
  BY <1>1, <1>3, <1>8 DEF Destroy, AbortsAtKey, KeyExists
<1>9. CASE GrowHeight \/ GrowNode \/ Rollback \/ DestroyNext
  BY <1>3, <1>9 DEF GrowHeight, GrowNode, Rollback, DestroyNext
<1>10. CASE GrowHeightDone \/ DestroyDone \/ GrowNodeNoMemory
  BY <1>3, <1>10 DEF GrowHeightDone, GrowNodeFrom, DestroyDone, GrowNodeNoMemory
<1>11. CASE GrowHeightNoMemory \/ RollbackDone
  BY <1>3, <1>4, <1>11 DEF GrowHeightNoMemory, RollbackDone
<1>12. QED
  BY <1>1, <1>2, <1>5, <1>6, <1>7, <1>8, <1>9, <1>10, <1>11, Zenon DEF Next, Loops, NoMemory

LEMMA LookupHolds == IInv /\ AbortsAtKey => LookupFinds
<1>1. SUFFICES ASSUME IInv, KeyExists, pc = "idle", NEW k \in Keys
               PROVE  /\ k \in contents => HeightOf(k) <= _height /\ Lookup(k)
                      /\ HeightOf(k) <= _height /\ Lookup(k) => k \in contents
  BY DEF LookupFinds, AbortsAtKey
<1>2. Standing /\ (k \in contents <=> Held(nodes, k))
  BY <1>1, ContentsIs DEF Standing, HeldKeys
<1>3. CASE _root = Null
  BY <1>1, <1>2, <1>3, HeldHeight DEF Lookup
<1>4. CASE _root # Null
  <2>1. _root = <<_height, 0>> /\ Tree(nodes, _height)
    BY <1>1, <1>2, <1>4 DEF IInv
  <2>2. HeightOf(k) <= _height => (Lookup(k) <=> Held(nodes, k))
    <3>1. k \in Nat /\ _height \in Nat \ {0}
      BY <2>1, KeyAssumption DEF Tree, Rooted
    <3>2. HeightOf(k) <= _height => Shifted(k, _height) = 0
      BY <3>1, HeightIs
    <3>3. QED
      BY <2>1, <3>1, <3>2, LookupIs
  <2>3. QED
    BY <1>1, <1>2, <2>2, HeldHeight
<1>5. QED
  BY <1>3, <1>4

(* Keys as wide as count_leading_zero counts.  Between calls at() finds    *)
(* every key that was inserted, and of the keys no longer than the tree is *)
(* high no other; an insertion that ends the program has found its own key.*)
THEOREM LookupTheorem == Spec => []LookupFinds
<1>1. Init => AbortsAtKey
  BY DEF Init, AbortsAtKey, KeyExists
<1>2. QED
  BY <1>1, InvariantTheorem, AbortsStep, LookupHolds, PTL DEF Spec

(* Sets of keys are alike when the values are. *)
SameValues(f, g) ==
  /\ \A n \in DOMAIN f, x \in 0 .. 1 :
       f[n].has_value[x] => n \in DOMAIN g /\ g[n].has_value[x]
  /\ \A n \in DOMAIN g, x \in 0 .. 1 :
       g[n].has_value[x] => n \in DOMAIN f /\ f[n].has_value[x]

LEMMA SameKeys ==
  ASSUME NEW f, NEW g, SameValues(f, g)
  PROVE  HeldKeys(f) = HeldKeys(g)
<1>1. ASSUME NEW k \in Keys PROVE Held(f, k) <=> Held(g, k)
  <2>1. k \in Nat /\ 1 \in Nat \ {0} /\ 1 - 1 = 0
    BY KeyAssumption
  <2>2. Bit(k, 1 - 1) \in 0 .. 1
    BY <2>1, ShiftedBit
  <2>3. Bit(k, 0) \in 0 .. 1
    BY <2>1, <2>2
  <2>4. QED
    BY <2>3, Zenon DEF Held, SameValues
<1>2. QED
  BY <1>1 DEF HeldKeys

LEMMA SameContents == ASSUME SameValues(nodes, nodes') PROVE contents' = contents
<1>1. PICK f, g : f = nodes /\ g = nodes'
  OBVIOUS
<1>2. HeldKeys(f) = HeldKeys(g)
  BY <1>1, SameKeys
<1>3. QED
  BY <1>1, <1>2, ContentsIs, ContentsNext

(* Which values each step leaves. *)
LEMMA GrowHeightValues ==
  ASSUME IInv, GrowHeight PROVE Standing /\ Standing' /\ SameValues(nodes, nodes')
<1>1. PICK root : root = <<_height + 1, 0>>
  OBVIOUS
<1>2. pc = "grow_height" /\ nodes' = Reroot(root) /\ pc' = pc /\ call' = call
  BY <1>1, Zenon DEF GrowHeight
<1>3. Standing /\ Standing'
  BY <1>2 DEF Standing
<1>4. _root = <<_height, 0>> /\ Tree(nodes, _height)
  BY <1>2, IdleIs
<1>5. PICK g : g = Reroot(root)
  OBVIOUS
<1>6. AfterRerooting(g, root)
  BY <1>1, <1>4, <1>5, RerootIs
<1>7. SameValues(nodes, g)
  <2>1. /\ DOMAIN g = DOMAIN nodes \cup {root} /\ root \notin DOMAIN nodes
        /\ \A x \in 0 .. 1 : ~g[root].has_value[x]
        /\ \A n \in DOMAIN nodes : g[n].has_value = nodes[n].has_value
    BY <1>6, Zenon DEF AfterRerooting
  <2>2. QED
    BY <2>1 DEF SameValues
<1>8. QED
  BY <1>2, <1>3, <1>5, <1>7

LEMMA GrowNodeValues ==
  ASSUME IInv, GrowNode PROVE Standing /\ Standing' /\ SameValues(nodes, nodes')
<1>1. pc = "grow_node" /\ pc' = pc /\ level > 1
  BY Zenon DEF GrowNode
<1>2. Standing /\ Standing'
  BY <1>1 DEF Standing
<1>3. PICK k : k = arg.key
  OBVIOUS
<1>4. k \in Nat /\ _height \in Nat \ {0} /\ Tree(nodes, _height) /\ Growing
  BY <1>1, <1>3, GrowingIs
<1>5. /\ i \in 0 .. _height - 1 /\ node = Path(k, _height - i) /\ node \in DOMAIN nodes
      /\ level = _height - i
  BY <1>1, <1>3, <1>4, Zenon DEF Growing
<1>6. PICK new : new = Path(k, level - 1)
  OBVIOUS
<1>7. CASE nodes' = nodes
  BY <1>2, <1>7 DEF SameValues
<1>8. CASE Child(node, Offset) = Null /\ nodes' = Linked(new)
  <2>1. PICK o, l : o = Offset /\ l = level
    OBVIOUS
  <2>2. l \in Nat /\ l > 1 /\ o = Bit(k, l - 1)
    <3>1. l \in Nat /\ l > 1
      BY <1>1, <1>4, <1>5, <2>1
    <3>2. o = Bit(k, l - 1)
      BY <1>3, <2>1, Zenon DEF Offset
    <3>3. QED
      BY <3>1, <3>2
  <2>3. /\ o \in 0 .. 1 /\ new = <<Path(k, l)[1] - 1, 2 * Path(k, l)[2] + Bit(k, l - 1)>>
    BY <1>4, <1>6, <2>1, <2>2, PathDown
  <2>4. node = Path(k, l) /\ level = node[1]
    BY <1>5, <2>1 DEF Path
  <2>5. new = <<node[1] - 1, 2 * node[2] + o>>
    BY <2>2, <2>3, <2>4, Zenon
  <2>6. new \notin DOMAIN nodes
    BY <1>1, <1>4, <1>5, <1>8, <2>1, <2>3, <2>4, <2>5, LinkedKeeps
  <2>7. PICK g : g = Linked(new)
    OBVIOUS
  <2>8. AfterLinking(g, new, o)
    BY <1>1, <1>4, <1>5, <2>1, <2>3, <2>4, <2>5, <2>6, <2>7, LinkedIs
  <2>9. SameValues(nodes, g)
    <3>1. /\ DOMAIN g = DOMAIN nodes \cup {new}
          /\ \A x \in 0 .. 1 : ~g[new].has_value[x]
          /\ \A n \in DOMAIN nodes : g[n].has_value = nodes[n].has_value
      BY <2>8, Zenon DEF AfterLinking
    <3>2. QED
      BY <2>6, <3>1 DEF SameValues
  <2>10. QED
    BY <1>2, <1>8, <2>7, <2>9
<1>9. QED
  BY <1>3, <1>6, <1>7, <1>8, Zenon DEF GrowNode, Path

LEMMA RollbackValues ==
  ASSUME IInv, Rollback PROVE Standing /\ Standing' /\ SameValues(nodes, nodes')
<1>1. /\ pc = "rollback" /\ i > 0 /\ pc' = pc
      /\ nodes' = (IF i - 1 \in insertion_flags THEN Unlinked ELSE nodes)
  BY Zenon DEF Rollback
<1>2. Standing /\ Standing'
  BY <1>1 DEF Standing
<1>3. PICK k : k = arg.key
  OBVIOUS
<1>4. PICK H : H = NewHeights
  OBVIOUS
<1>5. k \in Nat /\ _height \in Nat \ {0} /\ Tree(nodes, _height) /\ Growing
  BY <1>1, <1>3, GrowingIs
<1>6. /\ i \in 0 .. _height - 1 /\ node = Path(k, _height - i) /\ node \in DOMAIN nodes
      /\ insertion_flags \subseteq Nat /\ Chain(nodes, node, k, H, _height)
  BY <1>1, <1>3, <1>4, <1>5, Zenon DEF Growing
<1>7. CASE i - 1 \notin insertion_flags
  BY <1>1, <1>2, <1>7 DEF SameValues
<1>8. CASE i - 1 \in insertion_flags
  <2>1. _height - i \in NewHeights
    <3>1. /\ _height - i \in 1 .. _height /\ _height - (_height - i) - 1 = i - 1 /\ i - 1 < i
      BY <1>1, <1>5, <1>6
    <3>2. _height - i \in {h \in 1 .. _height : _height - h - 1 \in insertion_flags /\ _height - h - 1 < i}
      BY <1>8, <3>1
    <3>3. QED
      BY <3>2, Zenon DEF NewHeights
  <2>2. node \in NewNodes(k, H)
    BY <1>4, <1>6, <2>1, Zenon DEF NewNodes
  <2>3. \A x \in 0 .. 1 : ~nodes[node].has_value[x]
    BY <1>6, <2>2, Zenon DEF Chain
  <2>4. node # <<_height, 0>>
    BY <1>1, <1>5, <1>6 DEF Path
  <2>5. PICK g : g = Unlinked
    OBVIOUS
  <2>6. AfterUnlinking(g)
    BY <1>5, <1>6, <2>4, <2>5, UnlinkedIs
  <2>7. SameValues(nodes, g)
    <3>1. /\ DOMAIN g = DOMAIN nodes \ {node}
          /\ \A n \in DOMAIN g : g[n].has_value = nodes[n].has_value
      BY <2>6, Zenon DEF AfterUnlinking
    <3>2. QED
      BY <2>3, <3>1 DEF SameValues
  <2>8. QED
    BY <1>1, <1>2, <1>8, <2>5, <2>7
<1>9. QED
  BY <1>7, <1>8

LEMMA InsertRootValues ==
  ASSUME IInv, NEW k \in Keys, InsertRoot(k)
  PROVE  Standing /\ Standing' /\ SameValues(nodes, nodes')
<1>1. pc = "idle" /\ _root = Null
  BY DEF InsertRoot
<1>2. DOMAIN nodes = {} /\ Standing
  BY <1>1, IdleIs DEF Standing
<1>3. PICK h, root : h = HeightOf(k) /\ root = <<h, 0>>
  OBVIOUS
<1>4. CASE nodes' = With(root, NewNode(h, Null, 0)) /\ GrowNodeFrom(root, h)
  <2>1. k \in Nat /\ h \in Nat \ {0} /\ Shifted(k, h) = 0
    BY <1>3, KeyAssumption, HeightIs
  <2>2. PICK g : g = With(root, NewNode(h, Null, 0))
    OBVIOUS
  <2>3. DOMAIN g = {root} /\ \A o \in 0 .. 1 : ~g[root].has_value[o]
    BY <1>2, <1>3, <2>1, <2>2, FirstIs
  <2>4. SameValues(nodes, g)
    BY <1>2, <2>3 DEF SameValues
  <2>5. Standing'
    BY <1>4 DEF GrowNodeFrom, Standing
  <2>6. QED
    BY <1>2, <1>4, <2>2, <2>4, <2>5
<1>5. CASE UNCHANGED nodes /\ UNCHANGED pc
  BY <1>2, <1>5 DEF SameValues, Standing
<1>6. QED
  BY <1>3, <1>4, <1>5, Zenon DEF InsertRoot, tree

(* Giving up the first insertion of all takes back the only node.          *)
LEMMA RollbackDoneValues ==
  ASSUME IInv, RollbackDone
  PROVE  Standing /\ SameValues(nodes, nodes')
<1>1. pc = "rollback" /\ i = 0 /\ Standing
  BY DEF RollbackDone, Standing
<1>2. CASE arg.planted /\ Return /\ nodes' = Without(_root, nodes)
  <2>1. PICK k, H : k = arg.key /\ H = NewHeights
    OBVIOUS
  <2>2. /\ _height \in Nat \ {0} /\ _root = <<_height, 0>> /\ Growing
    BY <1>1, GrowingIs
  <2>3. /\ insertion_flags \subseteq Nat /\ DOMAIN nodes = NewNodes(k, H)
        /\ Chain(nodes, node, k, H, _height)
    BY <1>2, <2>1, <2>2, Zenon DEF Growing
  <2>4. \A n \in DOMAIN nodes, x \in 0 .. 1 : ~nodes[n].has_value[x]
    BY <2>3, Zenon DEF Chain
  <2>5. H = {_height} /\ Shifted(k, _height) = 0
    BY <1>1, <1>2, <2>1, <2>2, <2>3, NothingNew DEF Growing
  <2>6. DOMAIN nodes = {_root}
    BY <2>2, <2>3, <2>5 DEF NewNodes, Path
  <2>7. DOMAIN nodes' = {}
    BY <1>2, <2>6 DEF Without
  <2>8. QED
    BY <1>1, <2>4, <2>7 DEF SameValues
<1>3. CASE UNCHANGED nodes
  BY <1>1, <1>3 DEF SameValues
<1>4. QED
  BY <1>2, <1>3, Zenon DEF RollbackDone, tree

LEMMA LastBit ==
  ASSUME NEW x \in Nat
  PROVE  Bit(x, 0) \in 0 .. 1 /\ x = 2 * Shifted(x, 1) + Bit(x, 0) /\ Shifted(x, 1) \in Nat
<1>1. x \in Nat /\ 1 \in Nat \ {0} /\ 1 - 1 = 0 /\ 1 \in Nat
  OBVIOUS
<1>2. Bit(x, 1 - 1) \in 0 .. 1 /\ Shifted(x, 1 - 1) = 2 * Shifted(x, 1) + Bit(x, 1 - 1)
  BY ONLY <1>1, ShiftedBit
<1>3. Shifted(x, 0) = x /\ Shifted(x, 1) \in Nat
  BY ONLY <1>1, ShiftedNext, ShiftedNat
<1>4. QED
  BY <1>1, <1>2, <1>3

LEMMA StoreValues ==
  ASSUME IInv, Store
  PROVE  /\ Standing /\ arg.key \in Keys /\ arg.key \in Nat /\ node = Path(arg.key, 1)
         /\ node \in DOMAIN nodes /\ Bit(arg.key, 0) \in 0 .. 1
         /\ \/ UNCHANGED <<tree, call>>
            \/ /\ AfterStoring(nodes', Bit(arg.key, 0))
               /\ Standing' /\ call' = <<"insert", arg.key>>
<1>1. pc = "grow_node" /\ level = 1 /\ Standing
  BY DEF Store, Standing
<1>2. PICK k : k = arg.key
  OBVIOUS
<1>3. k \in Keys /\ k \in Nat /\ _height \in Nat \ {0} /\ Tree(nodes, _height) /\ Growing
  BY <1>1, <1>2, GrowingIs
<1>4. /\ i \in 0 .. _height - 1 /\ node = Path(k, _height - i) /\ node \in DOMAIN nodes
      /\ level = _height - i
  BY <1>1, <1>2, <1>3, Zenon DEF Growing
<1>5. node = Path(k, 1)
  BY <1>1, <1>4
<1>6. Bit(k, 0) \in 0 .. 1
  BY <1>3, LastBit
<1>7. CASE UNCHANGED <<tree, arg, regs, call>>
  BY <1>1, <1>2, <1>3, <1>4, <1>5, <1>6, <1>7
<1>8. CASE nodes' = [nodes EXCEPT ![node].has_value[Offset] = TRUE] /\ Return
  <2>1. PICK o : o = Offset
    OBVIOUS
  <2>2. o = Bit(k, 0)
    <3>1. level - 1 = 0
      BY <1>1
    <3>2. QED
      BY <1>2, <2>1, <3>1, Zenon DEF Offset
  <2>3. PICK g : g = Stored(o)
    OBVIOUS
  <2>4. AfterStoring(g, o)
    BY <1>3, <1>4, <1>6, <2>2, <2>3, StoredIs
  <2>5. nodes' = g
    BY <1>8, <2>1, <2>3, Zenon DEF Stored
  <2>6. Standing' /\ call' = <<"insert", k>>
    BY <1>2, <1>8 DEF Return, Standing
  <2>7. QED
    BY <1>1, <1>2, <1>3, <1>4, <1>5, <1>6, <2>2, <2>4, <2>5, <2>6
<1>9. QED
  BY <1>7, <1>8, Zenon DEF Store

LEMMA StoreKeys ==
  ASSUME IInv, IInv', Store
  PROVE  \/ contents' = contents /\ call' = call
         \/ contents' = contents \cup {arg.key} /\ call' = <<"insert", arg.key>>
<1>1. CASE UNCHANGED <<tree, call>>
  BY <1>1, SameTree
<1>2. CASE /\ AfterStoring(nodes', Bit(arg.key, 0))
           /\ Standing' /\ call' = <<"insert", arg.key>>
  <2>1. PICK k, o, g : k = arg.key /\ o = Bit(k, 0) /\ g = nodes'
    OBVIOUS
  <2>2. /\ Standing /\ k \in Keys /\ k \in Nat /\ node = Path(k, 1)
        /\ node \in DOMAIN nodes /\ o \in 0 .. 1 /\ AfterStoring(g, o)
    BY <1>2, <2>1, StoreValues
  <2>3. ASSUME NEW x \in Keys PROVE Held(g, x) <=> (x = k \/ Held(nodes, x))
    <3>1. x \in Nat /\ Bit(x, 0) \in 0 .. 1
      BY LastBit, KeyAssumption
    <3>2. Held(g, x) <=> ((Path(x, 1) = node /\ Bit(x, 0) = o) \/ Held(nodes, x))
      BY <2>2, <3>1, Zenon DEF Held, AfterStoring
    <3>3. (Path(x, 1) = node /\ Bit(x, 0) = o) <=> x = k
      <4>1. Path(x, 1) = node <=> Shifted(x, 1) = Shifted(k, 1)
        BY <2>2 DEF Path
      <4>2. /\ x = 2 * Shifted(x, 1) + Bit(x, 0) /\ k = 2 * Shifted(k, 1) + Bit(k, 0)
        BY <2>2, <3>1, LastBit
      <4>3. QED
        BY <2>1, <4>1, <4>2
    <3>4. QED
      BY <3>2, <3>3
  <2>4. HeldKeys(g) = HeldKeys(nodes) \cup {k}
    BY <2>2, <2>3 DEF HeldKeys
  <2>5. QED
    BY <1>2, <2>1, <2>2, <2>4, ContentsIs, ContentsNext
<1>3. QED
  BY <1>1, <1>2, StoreValues

(* A step of a call either does not show, or it is what the call does. *)
LEMMA SetStep ==
  IInv /\ IInv' /\ [Next]_vars =>
    [pc' \notin {"destroy", "gone"} => Set!Next]_<<contents, call>>
<1>1. SUFFICES ASSUME IInv, IInv', [Next]_vars, pc' \notin {"destroy", "gone"}
               PROVE  Set!Next \/ UNCHANGED <<contents, call>>
  OBVIOUS
<1>2. ASSUME NEW k \in Keys, call' = <<"insert", k>>,
             contents' = contents \/ contents' = contents \cup {k}
      PROVE  Set!Next
  <2>1. Set!Insert(k)
    BY <1>2 DEF Set!Insert
  <2>2. QED
    BY <2>1 DEF Set!Next
<1>3. ASSUME UNCHANGED tree, UNCHANGED call PROVE UNCHANGED <<contents, call>>
  BY <1>3, SameTree
<1>4. CASE UNCHANGED vars
  BY <1>3, <1>4 DEF vars
<1>5. ASSUME NEW k \in Keys, InsertRoot(k) PROVE Set!Next \/ UNCHANGED <<contents, call>>
  <2>1. contents' = contents
    BY <1>1, <1>5, InsertRootValues, SameContents
  <2>2. call' = call \/ call' = <<"insert", k>>
    BY <1>5, Zenon DEF InsertRoot
  <2>3. QED
    BY <1>2, <1>5, <2>1, <2>2
<1>6. ASSUME NEW k \in Keys, InsertBegin(k) PROVE Set!Next \/ UNCHANGED <<contents, call>>
  BY <1>3, <1>6, Zenon DEF InsertBegin
<1>7. CASE GrowHeight
  BY <1>1, <1>7, GrowHeightValues, SameContents DEF GrowHeight
<1>8. CASE GrowHeightDone
  BY <1>3, <1>8, Zenon DEF GrowHeightDone, tree
<1>9. CASE GrowNode
  BY <1>1, <1>9, GrowNodeValues, SameContents DEF GrowNode
<1>10. CASE Rollback
  BY <1>1, <1>10, RollbackValues, SameContents DEF Rollback
<1>11. CASE RollbackDone
  <2>1. arg.key \in Keys
    BY <1>1, <1>11, GrowingIs DEF RollbackDone
  <2>2. CASE Return
    <3>1. Standing' /\ call' = <<"insert", arg.key>>
      BY <2>2 DEF Return, Standing
    <3>2. contents' = contents
      BY <1>1, <1>11, <3>1, RollbackDoneValues, SameContents
    <3>3. QED
      BY <1>2, <2>1, <3>1, <3>2
  <2>3. QED
    BY <1>3, <1>11, <2>2, Zenon DEF RollbackDone
<1>12. CASE Store
  <2>1. arg.key \in Keys
    BY <1>1, <1>12, GrowingIs DEF Store
  <2>2. QED
    BY <1>1, <1>2, <1>12, <2>1, StoreKeys
<1>13. CASE DestroyNext
  BY <1>1, <1>13 DEF DestroyNext
<1>14. CASE DestroyDone
  BY <1>1, <1>14 DEF DestroyDone
<1>15. CASE GrowHeightNoMemory
  <2>1. arg.key \in Keys /\ UNCHANGED tree
    BY <1>1, <1>15, IdleIs DEF GrowHeightNoMemory
  <2>2. Return \/ UNCHANGED call
    BY <1>15 DEF GrowHeightNoMemory
  <2>3. QED
    BY <1>2, <1>3, <2>1, <2>2, SameTree DEF Return
<1>16. CASE GrowNodeNoMemory
  BY <1>3, <1>16, Zenon DEF GrowNodeNoMemory
<1>17. CASE Destroy
  BY <1>3, <1>17, Zenon DEF Destroy
<1>18. QED
  BY <1>1, <1>4, <1>5, <1>6, <1>7, <1>8, <1>9, <1>10, <1>11, <1>12, <1>13, <1>14, <1>15,
     <1>16, <1>17, Zenon DEF Next, Loops, NoMemory

(* Keys as wide as count_leading_zero counts.  The tree is a set of keys,  *)
(* those whose own leaf holds their value: an insertion adds its key at one*)
(* moment, or changes nothing when there is no memory.                     *)
THEOREM ImplementsSet == Spec => SetSpec
<1>1. Init => Set!Init
  <2>1. Init => contents = {}
    <3>1. SUFFICES ASSUME Init PROVE contents = {}
      OBVIOUS
    <3>2. DOMAIN nodes = {}
      BY <3>1 DEF Init
    <3>3. QED
      BY <3>2 DEF contents
  <2>2. Init => call = NoCall
    BY Zenon DEF Init
  <2>3. QED
    BY <2>1, <2>2 DEF Set!Init
<1>2. IInv /\ IInv' /\ [Next]_vars =>
        [pc' \notin {"destroy", "gone"} => Set!Next]_<<contents, call>>
  BY SetStep
<1>3. QED
  BY <1>1, <1>2, InvariantTheorem, PTL DEF Spec, SetSpec

-----------------------------------------------------------------------------
(* A loop that comes nearer to its end with every turn computes a          *)
(* function: it stops at st with b, or goes on from nx.                    *)
Loop(f, D, st, b, nx) == f = [m \in D |-> IF m \in st THEN b[m] ELSE f[nx[m]]]
LoopUpTo(f, D, st, b, nx, r, x) ==
  /\ f = [m \in D |-> f[m]]
  /\ \A m \in D : r[m] <= x => f[m] = IF m \in st THEN b[m] ELSE f[nx[m]]
Nearer(D, st, nx, r, h) ==
  \A m \in D : /\ r[m] \in 0 .. h
               /\ m \notin st => nx[m] \in D /\ r[nx[m]] < r[m]

LEMMA LoopExists ==
  ASSUME NEW D, NEW st, NEW b, NEW nx, NEW r, NEW h \in Nat, Nearer(D, st, nx, r, h)
  PROVE  \E f : Loop(f, D, st, b, nx)
<1>0. \A m \in D : r[m] \in Nat /\ r[m] <= h
  BY DEF Nearer
<1> DEFINE T == {x \in Nat : ~ \E f : LoopUpTo(f, D, st, b, nx, r, x)}
<1>1. T = {}
  <2>1. SUFFICES ASSUME T # {} PROVE FALSE
    OBVIOUS
  <2>2. PICK x \in T : \A y \in T : x <= y
    <3>1. T \subseteq Nat
      OBVIOUS
    <3>2. QED
      BY <2>1, <3>1, SmallestOf
  <2>3. PICK f : /\ f = [m \in D |-> f[m]]
                 /\ \A m \in D : r[m] < x => f[m] = IF m \in st THEN b[m] ELSE f[nx[m]]
    <3>1. CASE x = 0
      <4>1. \A m \in D : ~ (r[m] < x)
        BY <1>0, <3>1
      <4>2. PICK f : f = [m \in D |-> m]
        OBVIOUS
      <4>3. f = [m \in D |-> f[m]]
        BY <4>2
      <4>4. QED
        BY <4>1, <4>3, Zenon
    <3>2. CASE x # 0
      <4>1. x - 1 \in Nat /\ ~ (x <= x - 1)
        BY <2>2, <3>2
      <4>2. PICK f : LoopUpTo(f, D, st, b, nx, r, x - 1)
        BY <2>2, <4>1
      <4>3. \A m \in D : r[m] < x => r[m] <= x - 1
        BY <1>0, <2>2
      <4>4. QED
        BY <4>2, <4>3, Zenon DEF LoopUpTo
    <3>3. QED
      BY <3>1, <3>2
  <2>4. PICK g : g = [m \in D |-> IF r[m] = x THEN IF m \in st THEN b[m] ELSE f[nx[m]]
                                  ELSE f[m]]
    OBVIOUS
  <2>5. ASSUME NEW m \in D, r[m] # x PROVE g[m] = f[m]
    BY <2>4, <2>5, Zenon
  <2>6. ASSUME NEW m \in D, r[m] <= x, m \notin st PROVE g[nx[m]] = f[nx[m]]
    <3>1. nx[m] \in D /\ r[nx[m]] < r[m]
      BY <2>6, Zenon DEF Nearer
    <3>2. r[nx[m]] # x
      BY <1>0, <2>2, <2>6, <3>1
    <3>3. QED
      BY <2>5, <3>1, <3>2
  <2>7. ASSUME NEW m \in D, r[m] <= x PROVE g[m] = IF m \in st THEN b[m] ELSE f[nx[m]]
    <3>1. CASE r[m] = x
      BY <2>4, <3>1, Zenon
    <3>2. CASE r[m] # x
      <4>1. r[m] < x
        BY <1>0, <2>2, <2>7, <3>2
      <4>2. QED
        BY <2>3, <2>5, <3>2, <4>1, Zenon
    <3>3. QED
      BY <3>1, <3>2
  <2>8. ASSUME NEW m \in D, r[m] <= x PROVE g[m] = IF m \in st THEN b[m] ELSE g[nx[m]]
    BY <2>6, <2>7, <2>8, Zenon
  <2>9. g = [m \in D |-> g[m]]
    BY <2>4
  <2>10. LoopUpTo(g, D, st, b, nx, r, x)
    BY <2>8, <2>9, Zenon DEF LoopUpTo
  <2>11. QED
    BY <2>2, <2>10
<1>2. PICK f : LoopUpTo(f, D, st, b, nx, r, h)
  BY <1>1
<1>3. Loop(f, D, st, b, nx)
  BY <1>0, <1>2, Zenon DEF Loop, LoopUpTo
<1>4. QED
  BY <1>3

-----------------------------------------------------------------------------
(* The order of the leaves. *)

LEMMA ShiftedOrder ==
  ASSUME NEW a \in Nat, NEW b \in Nat, a <= b, NEW n \in Nat
  PROVE  Shifted(a, n) <= Shifted(b, n)
<1> DEFINE T == {x \in Nat : ~ (Shifted(a, x) <= Shifted(b, x))}
<1>1. SUFFICES ASSUME T # {} PROVE FALSE
  OBVIOUS
<1>2. PICK x \in T : \A y \in T : x <= y
  <2>1. T \subseteq Nat
    OBVIOUS
  <2>2. QED
    BY <1>1, <2>1, SmallestOf
<1>3. x # 0
  BY <1>2, ShiftedNext
<1>4. x - 1 \in Nat /\ (x - 1) + 1 = x /\ ~ (x <= x - 1) /\ x - 1 \notin T
  BY <1>2, <1>3
<1>5. /\ Shifted(a, (x - 1) + 1) = Shifted(a, x - 1) \div 2 /\ Shifted(a, x - 1) \in Nat
      /\ Shifted(b, (x - 1) + 1) = Shifted(b, x - 1) \div 2 /\ Shifted(b, x - 1) \in Nat
  BY <1>4, ShiftedNext, ShiftedNat
<1>6. \A p, q \in Nat : p <= q => p \div 2 <= q \div 2
  OBVIOUS
<1>7. QED
  BY <1>2, <1>4, <1>5, <1>6

(* Before, of WalksInOrder. *)
Ahead(a, b, side) == IF side = 1 THEN a < b ELSE a > b

Standard(h) == /\ Tree(nodes, h) /\ Useful(nodes, {})
Leaves == {n \in DOMAIN nodes : IsLeaf(n)}

LEMMA LeavesAre ==
  ASSUME NEW h, Standard(h), NEW n \in Leaves
  PROVE  /\ n \in DOMAIN nodes /\ n[1] = 1 /\ n[2] \in Nat /\ n = <<1, n[2]>> /\ IsLeaf(n)
         /\ h \in Nat \ {0} /\ \E o \in 0 .. 1 : nodes[n].has_value[o]
<1>1. n \in DOMAIN nodes /\ IsLeaf(n) /\ Rooted(nodes, h)
  BY DEF Leaves, Standard, Tree
<1>2. PICK o \in 0 .. 1 : nodes[n].has_value[o] \/ nodes[n].children[o] # Null
  BY <1>1, Zenon DEF Standard, Useful
<1>3. nodes[n].children[o] = Null
  BY <1>1, <1>2 DEF IsLeaf, Child
<1>4. nodes[n].has_value[o]
  BY <1>2, <1>3
<1>5. n[1] = 1 /\ n[2] \in Nat /\ n = <<n[1], n[2]>>
  BY <1>1, <1>4, NodeIs
<1>6. h \in Nat \ {0}
  BY <1>1 DEF Rooted
<1>7. QED
  BY <1>1, <1>4, <1>5, <1>6

(* Of two leaves the one below the child on the side comes later.          *)
LEMMA AheadBelow ==
  ASSUME NEW n, NEW m, n[1] = 1, m[1] = 1, n[2] \in Nat, m[2] \in Nat,
         NEW l \in Nat \ {0}, NEW side \in 0 .. 1, NEW u \in Nat,
         Up(n, l)[2] = 2 * u + (1 - side), Up(m, l)[2] = 2 * u + side
  PROVE  Ahead(n[2], m[2], side)
<1>1. PICK s \in Nat : s = l - 1
  OBVIOUS
<1>2. PICK a \in Nat, b \in Nat : a = n[2] /\ b = m[2]
  OBVIOUS
<1>3. Shifted(a, s) = 2 * u + (1 - side) /\ Shifted(b, s) = 2 * u + side
  BY <1>1, <1>2 DEF Up
<1>4. CASE side = 1
  <2>1. ~ (b <= a)
    <3>1. SUFFICES ASSUME b <= a PROVE FALSE
      OBVIOUS
    <3>2. Shifted(b, s) <= Shifted(a, s)
      BY <3>1, ShiftedOrder
    <3>3. QED
      BY <1>3, <1>4, <3>2
  <2>2. QED
    BY <1>2, <1>4, <2>1 DEF Ahead
<1>5. CASE side = 0
  <2>1. ~ (a <= b)
    <3>1. SUFFICES ASSUME a <= b PROVE FALSE
      OBVIOUS
    <3>2. Shifted(a, s) <= Shifted(b, s)
      BY <3>1, ShiftedOrder
    <3>3. QED
      BY <1>3, <1>5, <3>2
  <2>2. QED
    BY <1>2, <1>5, <2>1 DEF Ahead
<1>6. QED
  BY <1>4, <1>5

(* Two leaves have a lowest common ancestor, and are below its children.   *)
Parting(n, m, l, o) ==
  /\ Up(n, l) = Up(m, l) /\ Up(n, l) \in DOMAIN nodes
  /\ Up(n, l - 1) \in DOMAIN nodes /\ Up(m, l - 1) \in DOMAIN nodes
  /\ Up(n, l - 1) = Child(Up(n, l), o) /\ Up(m, l - 1) = Child(Up(n, l), 1 - o)
  /\ Up(n, l)[2] \in Nat
  /\ Up(n, l - 1)[2] = 2 * Up(n, l)[2] + o /\ Up(m, l - 1)[2] = 2 * Up(n, l)[2] + (1 - o)

LEMMA PartingIs ==
  ASSUME NEW h, Rooted(nodes, h), NEW n \in DOMAIN nodes, NEW m \in DOMAIN nodes,
         n[1] = 1, m[1] = 1, n # m, NEW top \in 1 .. h, Up(n, top) = Up(m, top)
  PROVE  \E l \in 2 .. top, o \in 0 .. 1 : Parting(n, m, l, o)
<1>1. h \in Nat /\ Up(n, 1) = n /\ Up(m, 1) = m
  BY AboveIs, NodeIs
<1> DEFINE T == {l \in 1 .. top : Up(n, l) = Up(m, l)}
<1>2. PICK l \in T : \A x \in T : l <= x
  <2>1. T \subseteq Nat /\ top \in T
    BY <1>1
  <2>2. QED
    BY <2>1, SmallestOf
<1>3. l \in 1 .. top /\ Up(n, l) = Up(m, l) /\ l # 1
  BY <1>1, <1>2
<1>4. /\ l \in 2 .. top /\ l - 1 \in 1 .. top /\ l - 1 \in 1 .. h - 1 /\ l - 1 \in 1 .. h
      /\ l \in 1 .. h /\ ~ (l <= l - 1) /\ (l - 1) + 1 = l
  BY <1>1, <1>3
<1>5. Up(n, l - 1) # Up(m, l - 1)
  BY <1>2, <1>4
<1>6. PICK a, b, c : a = Up(n, l) /\ b = Up(n, l - 1) /\ c = Up(m, l - 1)
  OBVIOUS
<1>7. /\ a \in DOMAIN nodes /\ b \in DOMAIN nodes /\ c \in DOMAIN nodes
      /\ a[1] = l /\ b[1] = l - 1 /\ c[1] = l - 1 /\ b # <<h, 0>> /\ c # <<h, 0>>
      /\ nodes[b].p = a /\ nodes[c].p = a
  BY <1>3, <1>4, <1>6, AboveIs
<1>8. /\ b[2] \in Nat /\ c[2] \in Nat /\ a[2] \in Nat /\ b = <<b[1], b[2]>> /\ c = <<c[1], c[2]>>
  BY <1>7, NodeIs
<1>9. /\ a[2] = b[2] \div 2 /\ nodes[a].children[b[2] % 2] = b
      /\ a[2] = c[2] \div 2 /\ nodes[a].children[c[2] % 2] = c
  <2>1. nodes[b].p = <<b[1] + 1, b[2] \div 2>> /\ nodes[nodes[b].p].children[b[2] % 2] = b
    <3>1. b \in DOMAIN nodes /\ b # <<h, 0>> /\ Rooted(nodes, h)
      BY <1>7
    <3>2. QED
      BY ONLY <3>1, ParentIs
  <2>2. nodes[c].p = <<c[1] + 1, c[2] \div 2>> /\ nodes[nodes[c].p].children[c[2] % 2] = c
    <3>1. c \in DOMAIN nodes /\ c # <<h, 0>> /\ Rooted(nodes, h)
      BY <1>7
    <3>2. QED
      BY ONLY <3>1, ParentIs
  <2>3. QED
    BY <1>7, <2>1, <2>2
<1>10. b[2] # c[2]
  BY <1>5, <1>6, <1>7, <1>8
<1>11. PICK o \in 0 .. 1 : o = b[2] % 2
  BY <1>8
<1>12. c[2] % 2 = 1 - o /\ b[2] = 2 * a[2] + o /\ c[2] = 2 * a[2] + (1 - o)
  BY <1>8, <1>9, <1>10, <1>11
<1>13. Parting(n, m, l, o)
  BY <1>3, <1>6, <1>7, <1>8, <1>9, <1>11, <1>12 DEF Parting, Child
<1>14. QED
  BY <1>4, <1>13

-----------------------------------------------------------------------------
(* The walks to the next leaf: down a subtree, keeping away from the side; *)
(* up to the first node that is not left from the child on the side.       *)
Downs(f, side) ==
  f = [m \in DOMAIN nodes |->
        IF Child(m, 1 - side) = Null THEN m ELSE f[Child(m, 1 - side)]]
DownEnds(c, side, x) ==
  /\ x \in DOMAIN nodes /\ x[1] <= c[1] /\ Up(x, c[1]) = c /\ Child(x, 1 - side) = Null
  /\ \A l \in x[1] + 1 .. c[1] : Child(Up(x, l), 1 - side) = Up(x, l - 1)

Climbs(f, side) ==
  f = [m \in DOMAIN nodes |->
        IF nodes[m].p = Null THEN Null
        ELSE IF Child(nodes[m].p, side) = m THEN f[nodes[m].p]
        ELSE nodes[m].p]
ClimbEnds(m, h, side, x) ==
  \/ x = Null /\ \A l \in m[1] + 1 .. h : Child(Up(m, l), side) = Up(m, l - 1)
  \/ \E l \in m[1] + 1 .. h :
       /\ x = Up(m, l) /\ Child(Up(m, l), side) # Up(m, l - 1)
       /\ \A j \in m[1] + 1 .. l - 1 : Child(Up(m, j), side) = Up(m, j - 1)

LEMMA LinkedNode ==
  ASSUME NEW h, Tree(nodes, h), NEW n \in DOMAIN nodes, NEW o \in 0 .. 1, Child(n, o) # Null
  PROVE  /\ Child(n, o) \in DOMAIN nodes /\ Child(n, o)[1] = n[1] - 1 /\ n[1] \in 2 .. h
         /\ Child(n, o)[1] \in 1 .. h /\ Child(n, o)[2] = 2 * n[2] + o /\ n[2] \in Nat /\ h \in Nat
         /\ nodes[Child(n, o)].p = n /\ Up(Child(n, o), n[1]) = n
<1>1. Rooted(nodes, h) /\ Child(n, o) \in DOMAIN nodes
  BY DEF Tree, Child
<1>2. PICK c : c = Child(n, o)
  OBVIOUS
<1>3. c \in DOMAIN nodes /\ nodes[n].children[o] = c
  BY <1>1, <1>2 DEF Child
<1>4. c[1] = n[1] - 1 /\ nodes[c].p = n /\ n = Up(c, n[1]) /\ c # Null
  BY <1>1, <1>3, LinkIs
<1>5. /\ c[1] \in 1 .. h /\ n[1] \in 1 .. h /\ h \in Nat /\ n[2] \in Nat
      /\ c = <<n[1] - 1, 2 * n[2] + o>>
  BY <1>1, <1>3, <1>4, NodeIs
<1>6. c[2] = 2 * n[2] + o /\ n[1] \in 2 .. h
  BY <1>4, <1>5
<1>7. QED
  BY <1>1, <1>2, <1>4, <1>5, <1>6

LEMMA DownsExist ==
  ASSUME NEW h, Tree(nodes, h), NEW side \in 0 .. 1
  PROVE  \E f : Downs(f, side)
<1>1. h \in Nat /\ 1 - side \in 0 .. 1 /\ Rooted(nodes, h)
  BY DEF Tree, Rooted
<1>2. PICK D, st, b, nx, r :
        /\ D = DOMAIN nodes /\ st = {m \in D : Child(m, 1 - side) = Null}
        /\ b = [m \in D |-> m] /\ nx = [m \in D |-> Child(m, 1 - side)]
        /\ r = [m \in D |-> m[1]]
  OBVIOUS
<1>3. ASSUME NEW m \in D
      PROVE  r[m] \in 0 .. h /\ (m \notin st => nx[m] \in D /\ r[nx[m]] < r[m])
  <2>1. r[m] = m[1] /\ m[1] \in 1 .. h
    BY <1>1, <1>2, NodeIs
  <2>2. ASSUME m \notin st PROVE nx[m] \in D /\ r[nx[m]] < r[m]
    <3>1. PICK c : c = Child(m, 1 - side)
      OBVIOUS
    <3>2. c # Null /\ nx[m] = c
      BY <1>2, <2>2, <3>1
    <3>3. c \in DOMAIN nodes /\ c[1] = m[1] - 1
      BY <1>1, <1>2, <3>1, <3>2, LinkedNode
    <3>4. r[c] = c[1]
      BY <1>2, <3>3
    <3>5. QED
      BY <1>2, <2>1, <3>2, <3>3, <3>4
  <2>3. QED
    BY <1>1, <2>1, <2>2
<1>4. Nearer(D, st, nx, r, h)
  BY <1>3, Zenon DEF Nearer
<1>5. PICK f : Loop(f, D, st, b, nx)
  BY <1>1, <1>4, LoopExists
<1>6. \A m \in D : (IF m \in st THEN b[m] ELSE f[nx[m]])
                     = IF Child(m, 1 - side) = Null THEN m ELSE f[Child(m, 1 - side)]
  BY <1>2
<1>7. Downs(f, side)
  BY <1>2, <1>5, <1>6 DEF Downs, Loop
<1>8. QED
  BY <1>7

LEMMA DownIs ==
  ASSUME NEW h, Tree(nodes, h), NEW side \in 0 .. 1, NEW d, Downs(d, side),
         NEW n \in DOMAIN nodes
  PROVE  DownEnds(n, side, d[n])
<1>1. Rooted(nodes, h) /\ 1 - side \in 0 .. 1 /\ h \in Nat
  BY DEF Tree, Rooted
<1> DEFINE T == {x \in Nat : \E m \in DOMAIN nodes : m[1] = x /\ ~DownEnds(m, side, d[m])}
<1>2. SUFFICES ASSUME T # {} PROVE FALSE
  <2>1. n[1] \in Nat /\ n[1] \notin T
    BY <1>1, <1>2, NodeIs
  <2>2. QED
    BY <2>1
<1>3. PICK x \in T : \A y \in T : x <= y
  <2>1. T \subseteq Nat
    OBVIOUS
  <2>2. QED
    BY <1>2, <2>1, SmallestOf
<1>4. PICK m \in DOMAIN nodes : m[1] = x /\ ~DownEnds(m, side, d[m])
  BY <1>3
<1>5. m[1] \in 1 .. h /\ m[1] \in Nat
  BY <1>1, NodeIs
<1>6. d[m] = IF Child(m, 1 - side) = Null THEN m ELSE d[Child(m, 1 - side)]
  BY Zenon DEF Downs
<1>7. CASE Child(m, 1 - side) = Null
  <2>1. d[m] = m /\ Up(m, m[1]) = m
    BY <1>1, <1>6, <1>7, AboveIs
  <2>2. m[1] <= m[1] /\ m[1] + 1 .. m[1] = {}
    BY <1>5
  <2>3. DownEnds(m, side, m)
    BY <1>7, <2>1, <2>2 DEF DownEnds
  <2>4. QED
    BY <1>4, <2>1, <2>3
<1>8. CASE Child(m, 1 - side) # Null
  <2>1. PICK c : c = Child(m, 1 - side)
    OBVIOUS
  <2>2. c \in DOMAIN nodes /\ c[1] = m[1] - 1 /\ Up(c, m[1]) = m /\ c[1] \in 1 .. h
    BY <1>1, <1>8, <2>1, LinkedNode
  <2>3. c[1] \in Nat /\ ~ (x <= c[1])
    BY <1>4, <1>5, <2>2
  <2>4. DownEnds(c, side, d[c])
    BY <1>3, <2>2, <2>3
  <2>5. PICK y : y = d[c]
    OBVIOUS
  <2>6. /\ y \in DOMAIN nodes /\ y[1] <= c[1] /\ Up(y, c[1]) = c /\ Child(y, 1 - side) = Null
        /\ \A l \in y[1] + 1 .. c[1] : Child(Up(y, l), 1 - side) = Up(y, l - 1)
    BY <2>4, <2>5, Zenon DEF DownEnds
  <2>7. y[1] \in Nat /\ y[1] <= m[1] /\ m[1] \in c[1] .. h /\ c[1] \in y[1] .. h
    BY <1>1, <1>5, <2>2, <2>6, NodeIs
  <2>8. Up(y, m[1]) = m
    BY <1>1, <2>2, <2>6, <2>7, AboveIs
  <2>9. ASSUME NEW l \in y[1] + 1 .. m[1] PROVE Child(Up(y, l), 1 - side) = Up(y, l - 1)
    <3>1. CASE l = m[1]
      <4>1. Up(y, l) = m /\ Up(y, l - 1) = c
        BY <2>2, <2>6, <2>8, <3>1
      <4>2. QED
        BY <2>1, <4>1
    <3>2. CASE l # m[1]
      <4>1. l \in y[1] + 1 .. c[1]
        BY <2>2, <2>7, <3>2, <1>5
      <4>2. QED
        BY <2>6, <4>1
    <3>3. QED
      BY <3>1, <3>2
  <2>10. DownEnds(m, side, y)
    BY <2>6, <2>7, <2>8, <2>9, Zenon DEF DownEnds
  <2>11. d[m] = y
    BY <1>6, <1>8, <2>1, <2>5
  <2>12. QED
    BY <1>4, <2>10, <2>11
<1>9. QED
  BY <1>7, <1>8

LEMMA ClimbsExist ==
  ASSUME NEW h, Tree(nodes, h), NEW side \in 0 .. 1
  PROVE  \E f : Climbs(f, side)
<1>1. h \in Nat /\ Rooted(nodes, h)
  BY DEF Tree, Rooted
<1>2. PICK D, st, b, nx, r :
        /\ D = DOMAIN nodes
        /\ st = {m \in D : nodes[m].p = Null \/ Child(nodes[m].p, side) # m}
        /\ b = [m \in D |-> nodes[m].p] /\ nx = [m \in D |-> nodes[m].p]
        /\ r = [m \in D |-> h - m[1]]
  OBVIOUS
<1>3. ASSUME NEW m \in D
      PROVE  r[m] \in 0 .. h /\ (m \notin st => nx[m] \in D /\ r[nx[m]] < r[m])
  <2>1. r[m] = h - m[1] /\ m[1] \in 1 .. h
    BY <1>1, <1>2, NodeIs
  <2>2. ASSUME m \notin st PROVE nx[m] \in D /\ r[nx[m]] < r[m]
    <3>1. PICK p : p = nodes[m].p
      OBVIOUS
    <3>2. p # Null /\ nx[m] = p
      BY <1>2, <2>2, <3>1
    <3>3. m # <<h, 0>>
      BY <1>1, <3>1, <3>2, RootIs
    <3>4. p \in DOMAIN nodes /\ p = <<m[1] + 1, m[2] \div 2>>
      BY <1>1, <1>2, <3>1, <3>3, ParentIs
    <3>5. r[p] = h - p[1] /\ p[1] = m[1] + 1
      BY <1>2, <3>4
    <3>6. QED
      BY <1>1, <1>2, <2>1, <3>2, <3>4, <3>5
  <2>3. QED
    BY <1>1, <2>1, <2>2
<1>4. Nearer(D, st, nx, r, h)
  BY <1>3, Zenon DEF Nearer
<1>5. PICK f : Loop(f, D, st, b, nx)
  BY <1>1, <1>4, LoopExists
<1>6. \A m \in D : (IF m \in st THEN b[m] ELSE f[nx[m]])
                     = IF nodes[m].p = Null THEN Null
                       ELSE IF Child(nodes[m].p, side) = m THEN f[nodes[m].p]
                       ELSE nodes[m].p
  BY <1>2
<1>7. Climbs(f, side)
  BY <1>2, <1>5, <1>6 DEF Climbs, Loop
<1>8. QED
  BY <1>7

LEMMA ClimbIs ==
  ASSUME NEW h, Tree(nodes, h), NEW side \in 0 .. 1, NEW c, Climbs(c, side),
         NEW n \in DOMAIN nodes
  PROVE  ClimbEnds(n, h, side, c[n])
<1>1. Rooted(nodes, h) /\ h \in Nat
  BY DEF Tree, Rooted
<1> DEFINE T == {x \in Nat : \E m \in DOMAIN nodes :
                   h - m[1] = x /\ ~ClimbEnds(m, h, side, c[m])}
<1>2. SUFFICES ASSUME T # {} PROVE FALSE
  <2>1. n[1] \in 1 .. h
    BY <1>1, NodeIs
  <2>2. h - n[1] \in Nat /\ h - n[1] \notin T
    BY <1>1, <1>2, <2>1
  <2>3. QED
    BY <2>2
<1>3. PICK x \in T : \A y \in T : x <= y
  <2>1. T \subseteq Nat
    OBVIOUS
  <2>2. QED
    BY <1>2, <2>1, SmallestOf
<1>4. PICK m \in DOMAIN nodes : h - m[1] = x /\ ~ClimbEnds(m, h, side, c[m])
  BY <1>3
<1>5. m[1] \in 1 .. h /\ m[1] \in Nat /\ Up(m, m[1]) = m
  BY <1>1, NodeIs, AboveIs
<1>6. PICK p : p = nodes[m].p
  OBVIOUS
<1>7. c[m] = IF p = Null THEN Null ELSE IF Child(p, side) = m THEN c[p] ELSE p
  BY <1>6, Zenon DEF Climbs
<1>8. CASE p = Null
  <2>1. m[1] = h
    <3>1. m = <<h, 0>>
      BY <1>1, <1>6, <1>8, RootIs, Zenon
    <3>2. QED
      BY <3>1
  <2>2. m[1] + 1 .. h = {}
    BY <1>5, <2>1
  <2>3. ClimbEnds(m, h, side, Null)
    BY <2>2 DEF ClimbEnds
  <2>4. QED
    BY <1>4, <1>7, <1>8, <2>3
<1>9. CASE p # Null
  <2>1. m # <<h, 0>>
    BY <1>1, <1>6, <1>9, RootIs
  <2>2. p \in DOMAIN nodes /\ p = Up(m, m[1] + 1) /\ m[1] < h
    BY <1>1, <1>6, <2>1, ParentIs
  <2>3. /\ m[1] + 1 \in m[1] .. h /\ m[1] + 1 \in m[1] + 1 .. h /\ (m[1] + 1) - 1 = m[1]
        /\ m[1] + 1 .. (m[1] + 1) - 1 = {}
    BY <1>1, <1>5, <2>2
  <2>4. p[1] = m[1] + 1 /\ \A j \in m[1] + 1 .. h : Up(p, j) = Up(m, j)
    BY <1>1, <2>2, <2>3, AboveIs
  <2>5. CASE Child(p, side) # m
    <3>1. ClimbEnds(m, h, side, p)
      BY <1>5, <2>2, <2>3, <2>5 DEF ClimbEnds
    <3>2. QED
      BY <1>4, <1>7, <1>9, <2>5, <3>1
  <2>6. CASE Child(p, side) = m
    <3>1. h - p[1] \in Nat /\ ~ (x <= h - p[1])
      BY <1>1, <1>4, <1>5, <2>2, <2>4
    <3>2. ClimbEnds(p, h, side, c[p])
      BY <1>3, <2>2, <3>1
    <3>3. PICK y : y = c[p]
      OBVIOUS
    <3>4. ASSUME NEW k \in m[1] .. h,
                 \A l \in p[1] + 1 .. k : Child(Up(p, l), side) = Up(p, l - 1)
          PROVE  \A l \in m[1] + 1 .. k : Child(Up(m, l), side) = Up(m, l - 1)
      <4>1. TAKE l \in m[1] + 1 .. k
      <4>2. CASE l = m[1] + 1
        <5>1. Up(m, l) = p /\ Up(m, l - 1) = m
          <6>1. l - 1 = m[1]
            BY <1>5, <4>2
          <6>2. QED
            BY <1>5, <2>2, <4>2, <6>1, Zenon
        <5>2. QED
          BY <2>6, <5>1
      <4>3. CASE l # m[1] + 1
        <5>1. l \in p[1] + 1 .. k /\ l - 1 \in m[1] + 1 .. h /\ l \in m[1] + 1 .. h
          BY <1>1, <1>5, <2>4, <4>3
        <5>2. Up(p, l) = Up(m, l) /\ Up(p, l - 1) = Up(m, l - 1)
          BY <2>4, <5>1
        <5>3. QED
          BY <3>4, <5>1, <5>2
      <4>4. QED
        BY <4>2, <4>3
    <3>5. CASE y = Null /\ \A l \in p[1] + 1 .. h : Child(Up(p, l), side) = Up(p, l - 1)
      <4>1. h \in m[1] .. h
        BY <1>1, <1>5
      <4>2. \A l \in m[1] + 1 .. h : Child(Up(m, l), side) = Up(m, l - 1)
        BY <3>4, <3>5, <4>1
      <4>3. ClimbEnds(m, h, side, y)
        BY <3>5, <4>2 DEF ClimbEnds
      <4>4. QED
        BY <1>4, <1>7, <1>9, <2>6, <3>3, <4>3
    <3>6. ASSUME NEW l \in p[1] + 1 .. h,
                 y = Up(p, l) /\ Child(Up(p, l), side) # Up(p, l - 1),
                 \A j \in p[1] + 1 .. l - 1 : Child(Up(p, j), side) = Up(p, j - 1)
          PROVE  FALSE
      <4>1. l \in m[1] + 1 .. h /\ l - 1 \in m[1] + 1 .. h /\ l - 1 \in m[1] .. h
        BY <1>1, <1>5, <2>4
      <4>2. Up(p, l) = Up(m, l) /\ Up(p, l - 1) = Up(m, l - 1)
        BY <2>4, <4>1
      <4>3. \A j \in m[1] + 1 .. l - 1 : Child(Up(m, j), side) = Up(m, j - 1)
        BY <3>4, <3>6, <4>1
      <4>4. ClimbEnds(m, h, side, y)
        BY <3>6, <4>1, <4>2, <4>3, Zenon DEF ClimbEnds
      <4>5. QED
        BY <1>4, <1>7, <1>9, <2>6, <3>3, <4>4
    <3>7. QED
      BY <3>2, <3>3, <3>5, <3>6, Zenon DEF ClimbEnds
  <2>7. QED
    BY <2>5, <2>6
<1>10. QED
  BY <1>8, <1>9

(* One walk down or up, and the walks that follow until there is a leaf.   *)
StepOf(d, c, side, m) == IF Child(m, side) # Null THEN d[Child(m, side)] ELSE c[m]
Leaving(f, d, c, side) ==
  f = [m \in DOMAIN nodes |->
        IF StepOf(d, c, side, m) = Null \/ IsLeaf(StepOf(d, c, side, m))
        THEN StepOf(d, c, side, m) ELSE f[StepOf(d, c, side, m)]]

(* On its way up from m the walk can turn at height l.                     *)
Turn(m, l, side) == Child(Up(m, l), side) \notin {Null, Up(m, l - 1)}

(* The leaf behind m: the first one below the child of m on the side, or   *)
(* below that of the first node above m where the walk can turn.           *)
Behind(m, h, side, x) ==
  IF Child(m, side) # Null THEN IsOutermost(Child(m, side), 1 - side, x)
  ELSE \/ x = Null /\ \A l \in m[1] + 1 .. h : ~Turn(m, l, side)
       \/ \E l \in m[1] + 1 .. h :
            /\ Turn(m, l, side) /\ IsOutermost(Child(Up(m, l), side), 1 - side, x)
            /\ \A j \in m[1] + 1 .. l - 1 : ~Turn(m, j, side)

Rounds(m, h, side) == IF Child(m, side) # Null THEN m[1] ELSE 2 * h + 1 - m[1]

(* A step that does not end at a leaf comes nearer to one.                 *)
LEMMA StepDown ==
  ASSUME NEW h, Tree(nodes, h), NEW side \in 0 .. 1, NEW d, Downs(d, side), NEW c,
         NEW m \in DOMAIN nodes, Child(m, side) # Null,
         NEW s, s = StepOf(d, c, side, m)
  PROVE  /\ s \in DOMAIN nodes /\ s # Null /\ s[1] < m[1] /\ DownEnds(Child(m, side), side, s)
         /\ ~IsLeaf(s) => Child(s, side) # Null /\ Rounds(s, h, side) < Rounds(m, h, side)
<1>1. PICK n : n = Child(m, side)
  OBVIOUS
<1>2. n \in DOMAIN nodes /\ n[1] = m[1] - 1 /\ m[1] \in 2 .. h /\ h \in Nat
  BY <1>1, LinkedNode
<1>3. s = d[n]
  BY <1>1 DEF StepOf
<1>4. DownEnds(n, side, s)
  BY <1>2, <1>3, DownIs
<1>5. s \in DOMAIN nodes /\ s[1] <= n[1] /\ Child(s, 1 - side) = Null
  BY <1>4 DEF DownEnds
<1>6. s[1] \in 1 .. h /\ s # Null
  BY <1>5, NodeIs DEF Tree
<1>7. s[1] < m[1]
  BY <1>2, <1>5, <1>6
<1>8. ASSUME ~IsLeaf(s) PROVE Child(s, side) # Null
  BY <1>5, <1>8 DEF IsLeaf
<1>9. Child(s, side) # Null => Rounds(s, h, side) < Rounds(m, h, side)
  BY <1>7 DEF Rounds
<1>10. QED
  BY <1>1, <1>4, <1>5, <1>6, <1>7, <1>8, <1>9

LEMMA StepUp ==
  ASSUME NEW h, Tree(nodes, h), NEW side \in 0 .. 1, NEW d, NEW c, Climbs(c, side),
         NEW m \in DOMAIN nodes, Child(m, side) = Null,
         NEW s, s = StepOf(d, c, side, m)
  PROVE  /\ ClimbEnds(m, h, side, s)
         /\ s # Null => /\ s \in DOMAIN nodes /\ s[1] > m[1] /\ ~IsLeaf(s)
                        /\ Rounds(s, h, side) < Rounds(m, h, side)
<1>1. s = c[m]
  BY DEF StepOf
<1>2. ClimbEnds(m, h, side, s)
  BY <1>1, ClimbIs
<1>3. Rooted(nodes, h) /\ h \in Nat /\ m[1] \in 1 .. h
  BY NodeIs DEF Tree, Rooted
<1>4. ASSUME s # Null
      PROVE  /\ s \in DOMAIN nodes /\ s[1] > m[1] /\ ~IsLeaf(s)
             /\ Rounds(s, h, side) < Rounds(m, h, side)
  <2>1. PICK l \in m[1] + 1 .. h : s = Up(m, l)
    BY <1>2, <1>4 DEF ClimbEnds
  <2>2. l \in m[1] .. h /\ l - 1 \in m[1] .. h - 1 /\ (l - 1) + 1 = l /\ l - 1 \in m[1] .. h
    BY <1>3
  <2>3. PICK y : y = Up(m, l - 1)
    OBVIOUS
  <2>4. /\ s \in DOMAIN nodes /\ s[1] = l /\ y \in DOMAIN nodes /\ y # <<h, 0>>
        /\ nodes[y].p = s
    <3>1. s \in DOMAIN nodes /\ s[1] = l /\ y \in DOMAIN nodes
      BY <1>3, <2>1, <2>2, <2>3, AboveIs
    <3>2. y # <<h, 0>> /\ nodes[y].p = Up(m, (l - 1) + 1)
      BY <1>3, <2>2, <2>3, AboveIs
    <3>3. QED
      BY <2>1, <2>2, <3>1, <3>2
  <2>5. y[2] \in Nat /\ nodes[s].children[y[2] % 2] = y /\ y # Null
    <3>1. y \in DOMAIN nodes /\ y # <<h, 0>> /\ Rooted(nodes, h)
      BY <1>3, <2>4
    <3>2. nodes[nodes[y].p].children[y[2] % 2] = y /\ y[2] \in Nat /\ y # Null
      BY ONLY <3>1, ParentIs, NodeIs
    <3>3. QED
      BY <2>4, <3>2
  <2>6. y[2] % 2 \in 0 .. 1
    BY <2>5
  <2>7. ~IsLeaf(s)
    BY <2>5, <2>6 DEF IsLeaf, Child
  <2>8. s[1] > m[1] /\ s[1] \in 1 .. h
    BY <1>3, <2>4
  <2>9. Rounds(s, h, side) < Rounds(m, h, side)
    BY <1>3, <2>8 DEF Rounds
  <2>10. QED
    BY <2>4, <2>7, <2>8, <2>9
<1>5. QED
  BY <1>2, <1>4

LEMMA LeavingExists ==
  ASSUME NEW h, Tree(nodes, h), NEW side \in 0 .. 1, NEW d, Downs(d, side),
         NEW c, Climbs(c, side)
  PROVE  \E f : Leaving(f, d, c, side)
<1>1. h \in Nat /\ Rooted(nodes, h) /\ 2 * h + 1 \in Nat
  BY DEF Tree, Rooted
<1>2. PICK D, st, b, nx, r :
        /\ D = DOMAIN nodes /\ nx = [m \in D |-> StepOf(d, c, side, m)] /\ b = nx
        /\ st = {m \in D : nx[m] = Null \/ IsLeaf(nx[m])}
        /\ r = [m \in D |-> Rounds(m, h, side)]
  OBVIOUS
<1>3. ASSUME NEW m \in D
      PROVE  r[m] \in 0 .. 2 * h + 1 /\ (m \notin st => nx[m] \in D /\ r[nx[m]] < r[m])
  <2>1. r[m] = Rounds(m, h, side) /\ m[1] \in 1 .. h /\ m \in DOMAIN nodes
    BY <1>1, <1>2, NodeIs
  <2>2. r[m] \in 0 .. 2 * h + 1
    BY <1>1, <2>1 DEF Rounds
  <2>3. PICK s : s = StepOf(d, c, side, m)
    OBVIOUS
  <2>4. nx[m] = s
    BY <1>2, <2>3
  <2>5. ASSUME m \notin st PROVE s \in DOMAIN nodes /\ Rounds(s, h, side) < Rounds(m, h, side)
    <3>1. s # Null /\ ~IsLeaf(s)
      BY <1>2, <2>4, <2>5
    <3>2. CASE Child(m, side) # Null
      BY <2>1, <2>3, <3>1, <3>2, StepDown
    <3>3. CASE Child(m, side) = Null
      BY <2>1, <2>3, <3>1, <3>3, StepUp
    <3>4. QED
      BY <3>2, <3>3
  <2>6. s \in DOMAIN nodes => r[s] = Rounds(s, h, side)
    BY <1>2
  <2>7. QED
    BY <1>2, <2>1, <2>2, <2>4, <2>5, <2>6
<1>4. Nearer(D, st, nx, r, 2 * h + 1)
  BY <1>3, Zenon DEF Nearer
<1>5. PICK f : Loop(f, D, st, b, nx)
  BY <1>1, <1>4, LoopExists
<1>6. ASSUME NEW m \in D
      PROVE  (IF m \in st THEN b[m] ELSE f[nx[m]])
               = IF StepOf(d, c, side, m) = Null \/ IsLeaf(StepOf(d, c, side, m))
                 THEN StepOf(d, c, side, m) ELSE f[StepOf(d, c, side, m)]
  <2>1. nx[m] = StepOf(d, c, side, m) /\ b[m] = StepOf(d, c, side, m)
    BY <1>2
  <2>2. m \in st <=> nx[m] = Null \/ IsLeaf(nx[m])
    BY <1>2
  <2>3. QED
    BY <2>1, <2>2, Zenon
<1>7. Leaving(f, d, c, side)
  BY <1>2, <1>5, <1>6 DEF Leaving, Loop
<1>8. QED
  BY <1>7

LEMMA NextLeafIs ==
  ASSUME NEW h, Tree(nodes, h), NEW side \in 0 .. 1, NEW n \in DOMAIN nodes
  PROVE  \E f, d, c : /\ Downs(d, side) /\ Climbs(c, side) /\ Leaving(f, d, c, side)
                      /\ NextLeaf(n, side) = f[n]
<1>1. PICK d : d = CHOOSE x : Downs(x, side)
  OBVIOUS
<1>2. PICK c : c = CHOOSE x : Climbs(x, side)
  OBVIOUS
<1>3. PICK f : f = CHOOSE x : Leaving(x, d, c, side)
  OBVIOUS
<1>4. Downs(d, side)
  BY <1>1, DownsExist, Zenon
<1>5. Climbs(c, side)
  BY <1>2, ClimbsExist, Zenon
<1>6. Leaving(f, d, c, side)
  BY <1>3, <1>4, <1>5, LeavingExists, Zenon
<1>7. NextLeaf(n, side) = f[n]
  BY <1>1, <1>2, <1>3, Zenon DEF NextLeaf, Downs, Climbs, Leaving, StepOf
<1>8. QED
  BY <1>4, <1>5, <1>6, <1>7

(* Coming down, the walk goes on from a node that has a child on the side  *)
(* only, and ends at the leaf nearest to where it came from.               *)
LEMMA DownFurther ==
  ASSUME NEW h, Tree(nodes, h), NEW side \in 0 .. 1, NEW n \in DOMAIN nodes,
         NEW s, DownEnds(n, side, s), NEW x,
         IsLeaf(s) => x = s,
         ~IsLeaf(s) => Child(s, side) # Null /\ IsOutermost(Child(s, side), 1 - side, x)
  PROVE  IsOutermost(n, 1 - side, x)
<1>1. Rooted(nodes, h) /\ h \in Nat /\ n[1] \in 1 .. h
  BY NodeIs DEF Tree, Rooted
<1>2. /\ s \in DOMAIN nodes /\ s[1] <= n[1] /\ Up(s, n[1]) = n /\ Child(s, 1 - side) = Null
      /\ \A l \in s[1] + 1 .. n[1] : Child(Up(s, l), 1 - side) = Up(s, l - 1)
  BY Zenon DEF DownEnds
<1>3. s[1] \in 1 .. h
  BY <1>1, <1>2, NodeIs
<1>4. CASE IsLeaf(s)
  BY <1>2, <1>4, Zenon DEF IsOutermost
<1>5. CASE ~IsLeaf(s)
  <2>1. PICK c : c = Child(s, side)
    OBVIOUS
  <2>2. c \in DOMAIN nodes /\ c[1] = s[1] - 1 /\ c[1] \in 1 .. h /\ Up(c, s[1]) = s
    BY <1>2, <1>5, <2>1, LinkedNode
  <2>3. /\ x \in DOMAIN nodes /\ x[1] <= c[1] /\ IsLeaf(x) /\ Up(x, c[1]) = c
        /\ \A l \in x[1] + 1 .. c[1] :
             Child(Up(x, l), 1 - side) = Null \/ Child(Up(x, l), 1 - side) = Up(x, l - 1)
    <3>1. IsOutermost(c, 1 - side, x)
      BY <1>5, <2>1
    <3>2. QED
      BY <3>1, Zenon DEF IsOutermost
  <2>4. x[1] \in 1 .. h /\ x[1] <= n[1]
    BY <1>1, <1>2, <1>3, <2>2, <2>3, NodeIs
  <2>5. \A l \in s[1] .. n[1] : Up(x, l) = Up(s, l)
    <3>1. TAKE l \in s[1] .. n[1]
    <3>2. /\ c[1] \in x[1] .. h /\ l \in c[1] .. h /\ s[1] \in c[1] .. h /\ l \in s[1] .. h
      BY <1>1, <1>3, <2>2, <2>3, <2>4
    <3>3. Up(x, l) = Up(c, l)
      BY <1>1, <2>3, <3>2, AboveIs
    <3>4. Up(c, l) = Up(s, l)
      BY <1>1, <2>2, <3>2, AboveIs
    <3>5. QED
      BY <3>3, <3>4
  <2>6. Up(s, s[1]) = s /\ s[1] \in s[1] .. n[1] /\ n[1] \in s[1] .. n[1]
    BY <1>1, <1>2, <1>3, AboveIs
  <2>7. ASSUME NEW l \in x[1] + 1 .. n[1]
        PROVE  Child(Up(x, l), 1 - side) = Null \/ Child(Up(x, l), 1 - side) = Up(x, l - 1)
    <3>1. CASE l <= c[1]
      <4>1. l \in x[1] + 1 .. c[1]
        BY <2>2, <2>4, <3>1
      <4>2. QED
        BY <2>3, <4>1
    <3>2. CASE l = s[1]
      BY <1>2, <2>5, <2>6, <3>2
    <3>3. CASE l > s[1]
      <4>1. l \in s[1] + 1 .. n[1] /\ l \in s[1] .. n[1] /\ l - 1 \in s[1] .. n[1]
        BY <1>1, <1>3, <2>4, <3>3
      <4>2. QED
        BY <1>2, <2>5, <4>1
    <3>4. QED
      BY <1>3, <2>2, <2>4, <3>1, <3>2, <3>3
  <2>8. Up(x, n[1]) = n
    BY <1>2, <2>5, <2>6
  <2>9. QED
    BY <2>3, <2>4, <2>7, <2>8, Zenon DEF IsOutermost
<1>6. QED
  BY <1>4, <1>5

(* Coming up, the walk goes on from a node that has no child on the side.  *)
LEMMA UpFurther ==
  ASSUME NEW h, Tree(nodes, h), NEW side \in 0 .. 1, NEW m \in DOMAIN nodes,
         Child(m, side) = Null, NEW s, ClimbEnds(m, h, side, s), NEW x,
         s = Null => x = Null, s # Null => Behind(s, h, side, x)
  PROVE  Behind(m, h, side, x)
<1>1. Rooted(nodes, h) /\ h \in Nat /\ m[1] \in 1 .. h
  BY NodeIs DEF Tree, Rooted
<1>2. CASE s = Null /\ \A l \in m[1] + 1 .. h : Child(Up(m, l), side) = Up(m, l - 1)
  <2>1. x = Null
    BY <1>2
  <2>2. \A l \in m[1] + 1 .. h : ~Turn(m, l, side)
    BY <1>2 DEF Turn
  <2>3. QED
    BY <2>1, <2>2 DEF Behind
<1>3. ASSUME NEW l \in m[1] + 1 .. h, s = Up(m, l), Child(Up(m, l), side) # Up(m, l - 1),
             \A j \in m[1] + 1 .. l - 1 : Child(Up(m, j), side) = Up(m, j - 1)
      PROVE  Behind(m, h, side, x)
  <2>1. l \in m[1] .. h /\ l \in Nat
    BY <1>1
  <2>2. s \in DOMAIN nodes /\ s[1] = l /\ \A j \in l .. h : Up(s, j) = Up(m, j)
    BY <1>1, <1>3, <2>1, AboveIs
  <2>3. s # Null /\ Behind(s, h, side, x)
    BY <1>1, <2>2, NodeIs
  <2>4. \A j \in m[1] + 1 .. l - 1 : ~Turn(m, j, side)
    BY <1>3, Zenon DEF Turn
  <2>5. CASE Child(s, side) # Null
    <3>1. Turn(m, l, side) /\ IsOutermost(Child(Up(m, l), side), 1 - side, x)
      BY <1>3, <2>3, <2>5 DEF Turn, Behind
    <3>2. QED
      BY <2>4, <3>1, Zenon DEF Behind
  <2>6. CASE Child(s, side) = Null
    <3>1. ~Turn(m, l, side)
      BY <1>3, <2>6 DEF Turn
    <3>2. ASSUME NEW j \in l + 1 .. h PROVE Turn(m, j, side) <=> Turn(s, j, side)
      <4>1. j \in l .. h /\ j - 1 \in l .. h
        BY <1>1, <2>1
      <4>2. Up(s, j) = Up(m, j) /\ Up(s, j - 1) = Up(m, j - 1)
        BY <2>2, <4>1
      <4>3. QED
        BY <4>2 DEF Turn
    <3>3. ASSUME NEW k \in m[1] .. h, \A j \in l + 1 .. k : ~Turn(s, j, side)
          PROVE  \A j \in m[1] + 1 .. k : ~Turn(m, j, side)
      <4>1. TAKE j \in m[1] + 1 .. k
      <4>2. j \in m[1] + 1 .. l - 1 \/ j = l \/ (j \in l + 1 .. k /\ j \in l + 1 .. h)
        BY <1>1, <2>1
      <4>3. QED
        BY <2>4, <3>1, <3>2, <3>3, <4>2
    <3>4. CASE x = Null /\ \A j \in l + 1 .. h : ~Turn(s, j, side)
      <4>1. h \in m[1] .. h
        BY <1>1
      <4>2. \A j \in m[1] + 1 .. h : ~Turn(m, j, side)
        BY <3>3, <3>4, <4>1
      <4>3. QED
        BY <3>4, <4>2, Zenon DEF Behind
    <3>5. ASSUME NEW t \in l + 1 .. h, Turn(s, t, side),
                 IsOutermost(Child(Up(s, t), side), 1 - side, x),
                 \A j \in l + 1 .. t - 1 : ~Turn(s, j, side)
          PROVE  Behind(m, h, side, x)
      <4>1. t - 1 \in m[1] .. h /\ t \in m[1] + 1 .. h /\ t \in l .. h
        BY <1>1, <2>1
      <4>2. \A j \in m[1] + 1 .. t - 1 : ~Turn(m, j, side)
        BY <3>3, <3>5, <4>1
      <4>3. Turn(m, t, side) /\ IsOutermost(Child(Up(m, t), side), 1 - side, x)
        BY <2>2, <3>2, <3>5, <4>1
      <4>4. QED
        BY <4>1, <4>2, <4>3, Zenon DEF Behind
    <3>6. QED
      BY <2>2, <2>3, <2>6, <3>4, <3>5, Zenon DEF Behind
  <2>7. QED
    BY <2>5, <2>6
<1>4. QED
  BY <1>2, <1>3, Zenon DEF ClimbEnds

LEMMA LeavingIs ==
  ASSUME NEW h, Tree(nodes, h), NEW side \in 0 .. 1, NEW d, Downs(d, side),
         NEW c, Climbs(c, side), NEW f, Leaving(f, d, c, side), NEW n \in DOMAIN nodes
  PROVE  Behind(n, h, side, f[n])
<1>1. h \in Nat /\ Rooted(nodes, h) /\ 2 * h + 1 \in Nat
  BY DEF Tree, Rooted
<1>2. ASSUME NEW m \in DOMAIN nodes PROVE Rounds(m, h, side) \in Nat
  <2>1. m[1] \in 1 .. h
    BY <1>1, NodeIs
  <2>2. QED
    BY <1>1, <2>1 DEF Rounds
<1> DEFINE T == {x \in Nat : \E m \in DOMAIN nodes :
                   Rounds(m, h, side) = x /\ ~Behind(m, h, side, f[m])}
<1>3. SUFFICES ASSUME T # {} PROVE FALSE
  <2>1. Rounds(n, h, side) \in Nat /\ Rounds(n, h, side) \notin T
    BY <1>2, <1>3
  <2>2. QED
    BY <2>1
<1>4. PICK x \in T : \A y \in T : x <= y
  <2>1. T \subseteq Nat
    OBVIOUS
  <2>2. QED
    BY <1>3, <2>1, SmallestOf
<1>5. PICK m \in DOMAIN nodes : Rounds(m, h, side) = x /\ ~Behind(m, h, side, f[m])
  BY <1>4
<1>6. ASSUME NEW s \in DOMAIN nodes, Rounds(s, h, side) < Rounds(m, h, side)
      PROVE  Behind(s, h, side, f[s])
  <2>1. Rounds(s, h, side) \in Nat /\ Rounds(m, h, side) \in Nat /\ ~ (x <= Rounds(s, h, side))
    BY <1>2, <1>5, <1>6
  <2>2. QED
    BY <1>4, <2>1
<1> HIDE DEF T
<1>7. PICK s : s = StepOf(d, c, side, m)
  OBVIOUS
<1>8. f[m] = IF s = Null \/ IsLeaf(s) THEN s ELSE f[s]
  BY <1>7, Zenon DEF Leaving
<1>9. CASE Child(m, side) # Null
  <2>1. /\ s \in DOMAIN nodes /\ s # Null /\ DownEnds(Child(m, side), side, s)
        /\ ~IsLeaf(s) => Child(s, side) # Null /\ Rounds(s, h, side) < Rounds(m, h, side)
    BY <1>7, <1>9, StepDown
  <2>2. IsLeaf(s) => f[m] = s
    BY <1>8
  <2>3. ~IsLeaf(s) => Child(s, side) # Null /\ IsOutermost(Child(s, side), 1 - side, f[m])
    BY <1>6, <1>8, <2>1, Zenon DEF Behind
  <2>4. Child(m, side) \in DOMAIN nodes
    BY <1>9, LinkedNode
  <2>5. PICK e, y : e = Child(m, side) /\ y = f[m]
    OBVIOUS
  <2>6. IsOutermost(e, 1 - side, y)
    BY <2>1, <2>2, <2>3, <2>4, <2>5, DownFurther
  <2>7. QED
    BY <1>5, <1>9, <2>5, <2>6 DEF Behind
<1>10. CASE Child(m, side) = Null
  <2>1. /\ ClimbEnds(m, h, side, s)
        /\ s # Null => /\ s \in DOMAIN nodes /\ ~IsLeaf(s)
                       /\ Rounds(s, h, side) < Rounds(m, h, side)
    BY <1>7, <1>10, StepUp
  <2>2. PICK y : y = f[m]
    OBVIOUS
  <2>3. (s = Null => y = Null) /\ (s # Null => Behind(s, h, side, y))
    BY <1>6, <1>8, <2>1, <2>2, Zenon
  <2>4. Behind(m, h, side, y)
    BY <1>10, <2>1, <2>3, UpFurther
  <2>5. QED
    BY <1>5, <2>2, <2>4
<1>11. QED
  BY <1>9, <1>10

-----------------------------------------------------------------------------
(* The walks visit the leaves in order. *)

LEMMA PartedAhead ==
  ASSUME NEW h, Standard(h), NEW n \in Leaves, NEW m \in Leaves, NEW side \in 0 .. 1,
         NEW l \in 2 .. h, Parting(n, m, l, 1 - side)
  PROVE  Ahead(n[2], m[2], side)
<1>1. /\ n[1] = 1 /\ m[1] = 1 /\ n[2] \in Nat /\ m[2] \in Nat /\ l - 1 \in Nat \ {0}
      /\ 1 - (1 - side) = side
  BY LeavesAre
<1>2. PICK u : u = Up(n, l)[2]
  OBVIOUS
<1>3. /\ u \in Nat /\ Up(n, l - 1)[2] = 2 * u + (1 - side)
      /\ Up(m, l - 1)[2] = 2 * u + side
  BY <1>1, <1>2 DEF Parting
<1>4. QED
  BY <1>1, <1>3, AheadBelow

LEMMA AheadOnce ==
  ASSUME NEW a \in Nat, NEW b \in Nat, NEW side \in 0 .. 1
  PROVE  /\ Ahead(a, b, side) => a # b /\ ~Ahead(b, a, side)
         /\ a # b => Ahead(a, b, side) \/ Ahead(b, a, side)
         /\ Ahead(a, b, 1 - side) <=> Ahead(b, a, side)
BY DEF Ahead

LEMMA AheadParted ==
  ASSUME NEW h, Standard(h), NEW n \in Leaves, NEW m \in Leaves, NEW side \in 0 .. 1,
         Ahead(n[2], m[2], side), NEW top \in 1 .. h, Up(n, top) = Up(m, top)
  PROVE  \E l \in 2 .. top : Parting(n, m, l, 1 - side)
<1>1. /\ n[1] = 1 /\ m[1] = 1 /\ n[2] \in Nat /\ m[2] \in Nat
      /\ n \in DOMAIN nodes /\ m \in DOMAIN nodes /\ Rooted(nodes, h) /\ h \in Nat
  BY LeavesAre DEF Standard, Tree
<1>2. n[2] # m[2] /\ ~Ahead(m[2], n[2], side) /\ n # m
  BY <1>1, AheadOnce
<1>3. PICK l \in 2 .. top, o \in 0 .. 1 : Parting(n, m, l, o)
  BY <1>1, <1>2, PartingIs
<1>4. o # side
  <2>1. SUFFICES ASSUME o = side PROVE FALSE
    OBVIOUS
  <2>2. PICK q : q = 1 - side
    OBVIOUS
  <2>3. q \in 0 .. 1 /\ 1 - q = side /\ l \in 2 .. h
    BY <1>1, <2>2
  <2>4. Parting(n, m, l, 1 - q)
    BY <1>3, <2>1, <2>3
  <2>5. Ahead(n[2], m[2], q)
    BY <2>3, <2>4, PartedAhead
  <2>6. QED
    BY <1>1, <1>2, <2>2, <2>5, AheadOnce
<1>5. o = 1 - side
  BY <1>4
<1>6. QED
  BY <1>3, <1>5

(* Below a node, every leaf comes before the outermost one.                *)
LEMMA OutermostLast ==
  ASSUME NEW h, Standard(h), NEW c \in DOMAIN nodes, NEW side \in 0 .. 1,
         NEW y, IsOutermost(c, side, y), NEW m \in Leaves, Up(m, c[1]) = c, m # y
  PROVE  y \in Leaves /\ Ahead(m[2], y[2], side)
<1>1. /\ y \in DOMAIN nodes /\ IsLeaf(y) /\ Up(y, c[1]) = c
      /\ \A l \in y[1] + 1 .. c[1] :
           Child(Up(y, l), side) = Null \/ Child(Up(y, l), side) = Up(y, l - 1)
  BY Zenon DEF IsOutermost
<1>2. y \in Leaves
  BY <1>1 DEF Leaves
<1>3. /\ y[1] = 1 /\ m[1] = 1 /\ y[2] \in Nat /\ m[2] \in Nat
      /\ m \in DOMAIN nodes /\ Tree(nodes, h) /\ Rooted(nodes, h) /\ h \in Nat
  BY <1>2, LeavesAre DEF Standard, Tree
<1>4. c[1] \in 1 .. h
  BY <1>3, NodeIs
<1>5. PICK l \in 2 .. c[1], o \in 0 .. 1 : Parting(m, y, l, o)
  <2>1. Up(m, c[1]) = Up(y, c[1])
    BY <1>1
  <2>2. QED
    BY <1>1, <1>3, <1>4, <2>1, PartingIs
<1>6. o # side
  <2>1. SUFFICES ASSUME o = side PROVE FALSE
    OBVIOUS
  <2>2. /\ Up(m, l) = Up(y, l) /\ Up(m, l - 1) = Child(Up(m, l), side)
        /\ Up(y, l - 1)[2] = 2 * Up(m, l)[2] + (1 - side)
        /\ Up(m, l - 1)[2] = 2 * Up(m, l)[2] + side /\ Up(m, l)[2] \in Nat
        /\ Up(m, l - 1) \in DOMAIN nodes
    BY <1>5, <2>1 DEF Parting
  <2>3. Up(m, l - 1) # Null
    BY <1>3, <2>2, NodeIs
  <2>4. Up(y, l - 1)[2] # Up(m, l - 1)[2]
    BY <2>2
  <2>5. l \in y[1] + 1 .. c[1]
    BY <1>3
  <2>6. QED
    BY <1>1, <2>2, <2>3, <2>4, <2>5
<1>7. o = 1 - side /\ l \in 2 .. h
  BY <1>3, <1>4, <1>6
<1>8. Parting(m, y, l, 1 - side)
  BY <1>5, <1>7
<1>9. QED
  BY <1>2, <1>7, <1>8, PartedAhead

LEMMA WholeIs ==
  ASSUME NEW h, Tree(nodes, h), NEW n PROVE Whole(nodes, n)
BY DEF Tree, Whole

(* The next leaf is the nearest of those that come later.                  *)
LEMMA NextLeafOrder ==
  ASSUME NEW h, Standard(h), NEW n \in Leaves, NEW side \in 0 .. 1, NEW x, x = NextLeaf(n, side)
  PROVE  /\ x # Null => x \in Leaves /\ Ahead(n[2], x[2], side)
         /\ \A m \in Leaves : Ahead(n[2], m[2], side) =>
              x # Null /\ (x = m \/ Ahead(x[2], m[2], side))
<1>1. /\ n[1] = 1 /\ n[2] \in Nat /\ n \in DOMAIN nodes /\ IsLeaf(n)
      /\ Tree(nodes, h) /\ Rooted(nodes, h) /\ h \in Nat \ {0} /\ 1 - side \in 0 .. 1
      /\ 1 - (1 - side) = side
  BY LeavesAre DEF Standard, Tree
<1>2. Behind(n, h, side, x)
  <2>1. PICK f, d, c : /\ Downs(d, side) /\ Climbs(c, side) /\ Leaving(f, d, c, side)
                       /\ x = f[n]
    BY <1>1, NextLeafIs
  <2>2. Behind(n, h, side, f[n])
    BY <1>1, <2>1, LeavingIs
  <2>3. QED
    BY <2>1, <2>2
<1>3. Child(n, side) = Null
  BY <1>1 DEF IsLeaf
<1>4. ASSUME NEW m \in Leaves, Ahead(n[2], m[2], side)
      PROVE  \E l \in 2 .. h : Parting(n, m, l, 1 - side) /\ Turn(n, l, side)
  <2>1. m[1] = 1 /\ m \in DOMAIN nodes
    BY LeavesAre
  <2>2. Up(n, h) = Up(m, h) /\ h \in 1 .. h
    BY <1>1, <2>1, AboveIs
  <2>3. PICK l \in 2 .. h : Parting(n, m, l, 1 - side)
    BY <1>4, <2>2, AheadParted
  <2>4. /\ Up(m, l - 1) = Child(Up(n, l), side) /\ Up(m, l - 1) \in DOMAIN nodes
        /\ Up(n, l - 1)[2] = 2 * Up(n, l)[2] + (1 - side)
        /\ Up(m, l - 1)[2] = 2 * Up(n, l)[2] + side /\ Up(n, l)[2] \in Nat
    BY <1>1, <2>3 DEF Parting
  <2>5. Up(m, l - 1) # Null
    BY <1>1, <2>4, NodeIs
  <2>6. Up(m, l - 1)[2] # Up(n, l - 1)[2]
    BY <2>4
  <2>7. QED
    BY <2>3, <2>4, <2>5, <2>6 DEF Turn
<1>5. CASE x = Null /\ \A l \in 2 .. h : ~Turn(n, l, side)
  BY <1>4, <1>5
<1>6. ASSUME NEW l \in 2 .. h, Turn(n, l, side),
             IsOutermost(Child(Up(n, l), side), 1 - side, x),
             \A j \in 2 .. l - 1 : ~Turn(n, j, side)
      PROVE  /\ x \in Leaves /\ x # Null /\ Ahead(n[2], x[2], side)
             /\ \A m \in Leaves : Ahead(n[2], m[2], side) => x = m \/ Ahead(x[2], m[2], side)
  <2>1. PICK a, b, c : a = Up(n, l) /\ b = Up(n, l - 1) /\ c = Child(a, side)
    OBVIOUS
  <2>2. l \in 1 .. h /\ l - 1 \in 1 .. h /\ l - 1 \in 1 .. h - 1 /\ (l - 1) + 1 = l /\ l \in l .. h
        /\ l - 1 \in Nat
    BY <1>1
  <2>3. /\ a \in DOMAIN nodes /\ a[1] = l /\ b \in DOMAIN nodes /\ b[1] = l - 1
        /\ b # <<h, 0>> /\ nodes[b].p = a
    BY <1>1, <2>1, <2>2, AboveIs
  <2>4. /\ c \in DOMAIN nodes /\ c[1] = l - 1 /\ c[2] = 2 * a[2] + side /\ a[2] \in Nat
        /\ c # b /\ Up(c, l) = a
    <3>1. c # Null /\ c # b
      BY <1>6, <2>1 DEF Turn
    <3>2. QED
      BY <1>1, <2>1, <2>3, <3>1, LinkedNode
  <2>5. b[2] \in Nat /\ a[2] = b[2] \div 2
    <3>1. b \in DOMAIN nodes /\ b # <<h, 0>> /\ Rooted(nodes, h)
      BY <1>1, <2>3
    <3>2. nodes[b].p = <<b[1] + 1, b[2] \div 2>> /\ b[2] \in Nat
      BY ONLY <3>1, ParentIs, NodeIs
    <3>3. QED
      BY <2>3, <3>2
  <2>6. b[2] # c[2]
    <3>1. b = <<b[1], b[2]>> /\ c = <<c[1], c[2]>>
      BY <1>1, <2>3, <2>4, NodeIs
    <3>2. QED
      BY <2>3, <2>4, <3>1
  <2>7. b[2] = 2 * a[2] + (1 - side)
    BY <2>4, <2>5, <2>6
  <2>8. /\ x \in DOMAIN nodes /\ IsLeaf(x) /\ x[1] <= c[1] /\ Up(x, c[1]) = c
    BY <1>6, <2>1, Zenon DEF IsOutermost
  <2>9. x \in Leaves /\ x[1] = 1 /\ x[2] \in Nat /\ x # Null
    <3>1. x \in Leaves
      BY <2>8 DEF Leaves
    <3>2. QED
      BY <1>1, <2>8, <3>1, LeavesAre, NodeIs
  <2>10. Up(x, l - 1) = c
    BY <2>4, <2>8
  <2>11. Ahead(n[2], x[2], side)
    <3>1. l - 1 \in Nat \ {0}
      BY <1>1
    <3>2. PICK u \in Nat : u = a[2]
      BY <2>4
    <3>3. Up(n, l - 1)[2] = 2 * u + (1 - side) /\ Up(x, l - 1)[2] = 2 * u + side
      BY <2>1, <2>4, <2>7, <2>10, <3>2
    <3>4. QED
      BY <1>1, <2>9, <3>1, <3>3, AheadBelow
  <2>12. ASSUME NEW m \in Leaves, Ahead(n[2], m[2], side), x # m
         PROVE  Ahead(x[2], m[2], side)
    <3>1. PICK t \in 2 .. h : Parting(n, m, t, 1 - side) /\ Turn(n, t, side)
      BY <1>4, <2>12
    <3>2. m[1] = 1 /\ m[2] \in Nat /\ m \in DOMAIN nodes
      BY LeavesAre
    <3>3. t >= l
      BY <1>1, <1>6, <3>1
    <3>4. CASE t = l
      <4>1. Up(m, l - 1) = c
        BY <1>1, <2>1, <3>1, <3>4 DEF Parting
      <4>2. Up(m, c[1]) = c
        BY <2>4, <4>1
      <4>3. Ahead(m[2], x[2], 1 - side)
        <5>1. PICK q : q = 1 - side
          OBVIOUS
        <5>2. q \in 0 .. 1 /\ IsOutermost(c, q, x)
          BY <1>1, <1>6, <2>1, <5>1
        <5>3. Ahead(m[2], x[2], q)
          BY <2>4, <2>12, <4>2, <5>2, OutermostLast
        <5>4. QED
          BY <5>1, <5>3
      <4>4. QED
        BY <2>9, <3>2, <4>3, AheadOnce
    <3>5. CASE t > l
      <4>1. /\ t - 1 \in l .. h /\ t \in 1 .. h /\ t - 1 \in 1 .. h /\ t - 1 \in Nat \ {0}
            /\ t - 1 \in c[1] .. h /\ l \in c[1] .. h /\ c[1] \in x[1] .. h
        BY <1>1, <2>4, <2>8, <2>9, <3>5
      <4>2. Up(x, t - 1) = Up(c, t - 1)
        BY <1>1, <2>8, <4>1, AboveIs
      <4>3. Up(c, t - 1) = Up(a, t - 1)
        BY <1>1, <2>4, <4>1, AboveIs
      <4>4. Up(a, t - 1) = Up(n, t - 1)
        BY <1>1, <2>1, <2>2, <4>1, AboveIs
      <4>5. PICK u : u = Up(n, t)[2]
        OBVIOUS
      <4>6. /\ u \in Nat /\ Up(n, t - 1)[2] = 2 * u + (1 - side)
            /\ Up(m, t - 1)[2] = 2 * u + side
        BY <1>1, <3>1, <4>5 DEF Parting
      <4>7. Up(x, t - 1)[2] = 2 * u + (1 - side)
        BY <4>2, <4>3, <4>4, <4>6
      <4>8. QED
        BY <2>9, <3>2, <4>1, <4>6, <4>7, AheadBelow
    <3>6. QED
      BY <1>1, <3>3, <3>4, <3>5
  <2>13. QED
    BY <2>9, <2>11, <2>12
<1>7. n[1] + 1 .. h = 2 .. h /\ \A l : n[1] + 1 .. l - 1 = 2 .. l - 1
  BY <1>1
<1>8. QED
  BY <1>2, <1>3, <1>5, <1>6, <1>7, Zenon DEF Behind

LEMMA LastLeaf ==
  ASSUME NEW h, Standard(h), NEW n \in Leaves, NEW side \in 0 .. 1
  PROVE  NextLeaf(n, side) = Null <=> n = Outermost(<<h, 0>>, side)
<1>1. /\ n[1] = 1 /\ n[2] \in Nat /\ n \in DOMAIN nodes
      /\ Tree(nodes, h) /\ Rooted(nodes, h) /\ h \in Nat \ {0}
      /\ <<h, 0>> \in DOMAIN nodes
  BY LeavesAre DEF Standard, Tree, Rooted
<1>2. PICK y : y = Outermost(<<h, 0>>, side)
  OBVIOUS
<1>3. IsOutermost(<<h, 0>>, side, y)
  BY <1>1, <1>2, OutermostIs, WholeIs
<1>4. y \in Leaves
  BY <1>3 DEF IsOutermost, Leaves
<1>5. PICK x : x = NextLeaf(n, side)
  OBVIOUS
<1>6. ASSUME NEW m \in Leaves, m # y PROVE Ahead(m[2], y[2], side)
  <2>1. Up(m, h) = <<h, 0>>
    BY <1>1, LeavesAre, AboveIs
  <2>2. Up(m, <<h, 0>>[1]) = <<h, 0>>
    BY <2>1
  <2>3. QED
    BY <1>1, <1>3, <1>6, <2>2, OutermostLast
<1>7. ASSUME n # y PROVE x # Null
  BY <1>4, <1>5, <1>6, <1>7, NextLeafOrder
<1>8. ASSUME n = y, x # Null PROVE FALSE
  <2>1. x \in Leaves /\ Ahead(n[2], x[2], side)
    BY <1>5, <1>8, NextLeafOrder
  <2>2. x[2] \in Nat
    BY <2>1, LeavesAre
  <2>3. x # n
    BY <1>1, <2>1, <2>2, AheadOnce
  <2>4. Ahead(x[2], n[2], side)
    BY <1>6, <1>8, <2>1, <2>3
  <2>5. QED
    BY <1>1, <2>1, <2>2, <2>4, AheadOnce
<1>9. QED
  BY <1>2, <1>5, <1>7, <1>8

-----------------------------------------------------------------------------
(* The tree holds no values but those of keys that were inserted.          *)
KeysOnly(f) == \A n \in DOMAIN f, o \in 0 .. 1 : f[n].has_value[o] => 2 * n[2] + o \in Keys
ValuesAreKeys == Standing => KeysOnly(nodes)

LEMMA SameKeysOnly ==
  ASSUME KeysOnly(nodes), SameValues(nodes, nodes')
  PROVE  KeysOnly(nodes')
BY DEF KeysOnly, SameValues

LEMMA StoreKeysOnly ==
  ASSUME IInv, KeysOnly(nodes), Store
  PROVE  KeysOnly(nodes')
<1>1. CASE UNCHANGED <<tree, call>>
  BY <1>1 DEF KeysOnly, tree
<1>2. CASE AfterStoring(nodes', Bit(arg.key, 0))
  <2>1. PICK k, o, g : k = arg.key /\ o = Bit(k, 0) /\ g = nodes'
    OBVIOUS
  <2>2. /\ k \in Keys /\ k \in Nat /\ node = Path(k, 1) /\ node \in DOMAIN nodes
        /\ o \in 0 .. 1 /\ AfterStoring(g, o)
    BY <1>2, <2>1, StoreValues
  <2>3. 2 * node[2] + o = k
    BY <2>1, <2>2, LastBit DEF Path
  <2>4. ASSUME NEW n \in DOMAIN g, NEW x \in 0 .. 1, g[n].has_value[x]
        PROVE  2 * n[2] + x \in Keys
    <3>1. n \in DOMAIN nodes /\ ((n = node /\ x = o) \/ nodes[n].has_value[x])
      BY <2>2, <2>4, Zenon DEF AfterStoring
    <3>2. QED
      BY <2>2, <2>3, <3>1 DEF KeysOnly
  <2>5. KeysOnly(g)
    BY <2>4 DEF KeysOnly
  <2>6. QED
    BY <2>1, <2>5
<1>3. QED
  BY <1>1, <1>2, StoreValues

LEMMA ValuesStep == IInv /\ ValuesAreKeys /\ [Next]_vars => ValuesAreKeys'
<1>1. SUFFICES ASSUME IInv, ValuesAreKeys, [Next]_vars, Standing' PROVE KeysOnly(nodes')
  BY DEF ValuesAreKeys, KeysOnly
<1>2. ASSUME Standing, SameValues(nodes, nodes') PROVE KeysOnly(nodes')
  BY <1>1, <1>2, SameKeysOnly DEF ValuesAreKeys
<1>3. ASSUME Standing, UNCHANGED nodes PROVE KeysOnly(nodes')
  BY <1>1, <1>3 DEF ValuesAreKeys
<1>4. CASE UNCHANGED vars
  BY <1>1, <1>3, <1>4 DEF vars, tree, Standing
<1>5. ASSUME NEW k \in Keys, InsertRoot(k) PROVE KeysOnly(nodes')
  BY <1>1, <1>2, <1>5, InsertRootValues
<1>6. ASSUME NEW k \in Keys, InsertBegin(k) PROVE KeysOnly(nodes')
  BY <1>3, <1>6 DEF InsertBegin, tree, Standing
<1>7. CASE GrowHeight
  BY <1>1, <1>2, <1>7, GrowHeightValues
<1>8. CASE GrowHeightDone
  BY <1>3, <1>8 DEF GrowHeightDone, tree, Standing
<1>9. CASE GrowNode
  BY <1>1, <1>2, <1>9, GrowNodeValues
<1>10. CASE Rollback
  BY <1>1, <1>2, <1>10, RollbackValues
<1>11. CASE RollbackDone
  BY <1>1, <1>2, <1>11, RollbackDoneValues
<1>12. CASE Store
  BY <1>1, <1>12, StoreKeysOnly, StoreValues DEF ValuesAreKeys
<1>13. CASE DestroyNext
  BY <1>1, <1>13 DEF DestroyNext, Standing
<1>14. CASE DestroyDone
  BY <1>1, <1>14 DEF DestroyDone, Standing
<1>15. CASE GrowHeightNoMemory
  BY <1>3, <1>15 DEF GrowHeightNoMemory, tree, Standing
<1>16. CASE GrowNodeNoMemory
  BY <1>3, <1>16 DEF GrowNodeNoMemory, tree, Standing
<1>17. CASE Destroy
  BY <1>1, <1>3, <1>17 DEF Destroy, tree, Standing
<1>18. QED
  BY <1>1, <1>4, <1>5, <1>6, <1>7, <1>8, <1>9, <1>10, <1>11, <1>12, <1>13, <1>14, <1>15,
     <1>16, <1>17, Zenon DEF Next, Loops, NoMemory

(* The keys of a tree between calls: two at most at each leaf.             *)
Walkable ==
  /\ IInv /\ pc = "idle" /\ _root # Null /\ ValuesAreKeys

LEMMA WalkableIs ==
  ASSUME Walkable
  PROVE  /\ Standard(_height) /\ _root = <<_height, 0>> /\ _height \in Nat \ {0}
         /\ _root \in DOMAIN nodes /\ Rooted(nodes, _height) /\ Tree(nodes, _height)
         /\ contents = HeldKeys(nodes) /\ contents \subseteq Nat
<1>1. _root = <<_height, 0>> /\ Tree(nodes, _height) /\ Useful(nodes, {})
  BY IdleIs DEF Walkable
<1>2. contents = HeldKeys(nodes)
  BY ContentsIs
<1>3. QED
  BY <1>1, <1>2, KeyAssumption DEF Standard, HeldKeys, Tree, Rooted

LEMMA KeyOfLeaf ==
  ASSUME Walkable, NEW n \in Leaves, NEW o \in 0 .. 1, nodes[n].has_value[o]
  PROVE  2 * n[2] + o \in contents
<1>1. n = <<1, n[2]>> /\ n \in DOMAIN nodes /\ n[2] \in Nat
  BY WalkableIs, LeavesAre
<1>2. PICK k : k = 2 * n[2] + o
  OBVIOUS
<1>3. k \in Keys /\ k \in Nat
  BY <1>1, <1>2, KeyAssumption DEF Walkable, ValuesAreKeys, Standing, KeysOnly
<1>4. k = 2 * Shifted(k, 1) + Bit(k, 0) /\ Bit(k, 0) \in 0 .. 1 /\ Shifted(k, 1) \in Nat
  BY <1>3, LastBit
<1>5. Shifted(k, 1) = n[2] /\ Bit(k, 0) = o
  BY <1>1, <1>2, <1>4
<1>6. Held(nodes, k)
  BY <1>1, <1>5 DEF Held, Path
<1>7. QED
  BY <1>2, <1>3, <1>6, WalkableIs DEF HeldKeys

LEMMA LeafOfKey ==
  ASSUME Walkable, NEW k \in contents
  PROVE  \E n \in Leaves, o \in 0 .. 1 : nodes[n].has_value[o] /\ k = 2 * n[2] + o
<1>1. k \in Nat /\ Held(nodes, k)
  BY WalkableIs DEF HeldKeys
<1>2. PICK n, o : n = Path(k, 1) /\ o = Bit(k, 0)
  OBVIOUS
<1>3. n \in DOMAIN nodes /\ nodes[n].has_value[o]
  BY <1>1, <1>2 DEF Held
<1>4. o \in 0 .. 1 /\ k = 2 * n[2] + o /\ n[1] = 1
  BY <1>1, <1>2, LastBit DEF Path
<1>5. \A x \in 0 .. 1 : Child(n, x) = Null
  BY <1>3, <1>4, WalkableIs, LinkedNode
<1>6. n \in Leaves
  BY <1>3, <1>5 DEF Leaves, IsLeaf
<1>7. QED
  BY <1>3, <1>4, <1>6

-----------------------------------------------------------------------------
(* Iterators. *)

At(it) == /\ it.node \in Leaves /\ it = [node |-> it.node, right |-> it.right]
          /\ it.right \in BOOLEAN /\ nodes[it.node].has_value[ValueOf(it)]

LEMMA AtKey ==
  ASSUME Walkable, NEW it, At(it)
  PROVE  /\ KeyAt(it) \in contents /\ KeyAt(it) \in Nat /\ ValueOf(it) \in 0 .. 1
         /\ KeyAt(it) = 2 * it.node[2] + ValueOf(it) /\ it.node[2] \in Nat /\ it.node \in Leaves
<1>1. it.node \in Leaves /\ ValueOf(it) \in 0 .. 1 /\ nodes[it.node].has_value[ValueOf(it)]
  BY DEF At, ValueOf
<1>2. KeyAt(it) = 2 * it.node[2] + ValueOf(it)
  BY DEF KeyAt, ValueOf
<1>3. it.node[2] \in Nat
  BY <1>1, WalkableIs, LeavesAre
<1>4. PICK n, o : n = it.node /\ o = ValueOf(it)
  OBVIOUS
<1>5. 2 * n[2] + o \in contents
  BY <1>1, <1>4, KeyOfLeaf
<1>6. QED
  BY <1>1, <1>2, <1>3, <1>4, <1>5, WalkableIs

(* Keys are in the order of their leaves, at a leaf the lower one first.   *)
LEMMA KeyOrder ==
  ASSUME NEW a \in Nat, NEW b \in Nat, NEW o \in 0 .. 1, NEW x \in 0 .. 1, NEW side \in 0 .. 1
  PROVE  /\ Ahead(a, b, side) => Ahead(2 * a + o, 2 * b + x, side)
         /\ Ahead(2 * a + (1 - side), 2 * a + side, side)
         /\ Ahead(2 * a + o, 2 * b + x, side) =>
              \/ Ahead(a, b, side)
              \/ a = b /\ o = 1 - side /\ x = side
BY DEF Ahead

LEMMA SameLeaf ==
  ASSUME Walkable, NEW n \in Leaves, NEW m \in Leaves, n[2] = m[2]
  PROVE  n = m
BY WalkableIs, LeavesAre

LEMMA FirstLeaf ==
  ASSUME Walkable, NEW side \in 0 .. 1
  PROVE  /\ Outermost(_root, 1 - side) \in Leaves
         /\ \A m \in Leaves : m # Outermost(_root, 1 - side) =>
              Ahead(Outermost(_root, 1 - side)[2], m[2], side)
<1>1. PICK q, y : q = 1 - side /\ y = Outermost(_root, q)
  OBVIOUS
<1>2. q \in 0 .. 1
  BY <1>1
<1>3. IsOutermost(_root, q, y)
  <2>1. Rooted(nodes, _height) /\ _root \in DOMAIN nodes /\ Tree(nodes, _height)
    BY WalkableIs
  <2>2. Whole(nodes, _root)
    BY <2>1, WholeIs
  <2>3. IsOutermost(_root, q, Outermost(_root, q))
    BY <1>2, <2>1, <2>2, OutermostIs
  <2>4. QED
    BY <1>1, <2>3
<1>4. y \in Leaves
  BY <1>3 DEF IsOutermost, Leaves
<1>5. ASSUME NEW m \in Leaves, m # y PROVE Ahead(y[2], m[2], side)
  <2>1. m \in DOMAIN nodes /\ m[2] \in Nat /\ y[2] \in Nat
    BY <1>4, WalkableIs, LeavesAre
  <2>2. Up(m, _root[1]) = _root
    BY <2>1, WalkableIs, AboveIs
  <2>3. Ahead(m[2], y[2], q)
    BY <1>2, <1>3, <1>5, <2>2, WalkableIs, OutermostLast
  <2>4. QED
    BY <1>1, <2>1, <2>3, AheadOnce
<1>6. QED
  BY <1>1, <1>4, <1>5

LEMMA BeginFirst ==
  ASSUME Walkable, NEW side \in 0 .. 1, NEW it, it = Begin(side)
  PROVE  /\ At(it)
         /\ \A k \in contents : k = KeyAt(it) \/ Ahead(KeyAt(it), k, side)
<1>1. PICK n : n = Outermost(_root, 1 - side)
  OBVIOUS
<1>2. n \in Leaves /\ \A m \in Leaves : m # n => Ahead(n[2], m[2], side)
  BY <1>1, FirstLeaf
<1>3. PICK r : r = (nodes[n].has_value[1 - side] <=> side = 0)
  OBVIOUS
<1>4. it = [node |-> n, right |-> r]
  BY <1>1, <1>3, Zenon DEF Begin
<1>5. it.node = n /\ it.right = r /\ r \in BOOLEAN
  BY <1>3, <1>4
<1>6. PICK o \in 0 .. 1 : nodes[n].has_value[o]
  BY <1>2, WalkableIs, LeavesAre
<1>7. /\ nodes[n].has_value[1 - side] => ValueOf(it) = 1 - side
      /\ ~nodes[n].has_value[1 - side] => ValueOf(it) = side
  <2>2. CASE nodes[n].has_value[1 - side]
    <3>1. r <=> side = 0
      BY <1>3, <2>2, Zenon
    <3>2. QED
      BY <1>5, <2>2, <3>1 DEF ValueOf
  <2>3. CASE ~nodes[n].has_value[1 - side]
    <3>1. r <=> side # 0
      BY <1>3, <2>3, Zenon
    <3>2. QED
      BY <1>5, <2>3, <3>1 DEF ValueOf
  <2>4. QED
    BY <2>2, <2>3
<1>8. o = side \/ o = 1 - side
  OBVIOUS
<1>9. nodes[n].has_value[ValueOf(it)]
  BY <1>6, <1>7, <1>8
<1>10. At(it)
  BY <1>2, <1>4, <1>5, <1>9 DEF At
<1>11. ASSUME NEW k \in contents, k # KeyAt(it) PROVE Ahead(KeyAt(it), k, side)
  <2>1. PICK m \in Leaves, x \in 0 .. 1 : nodes[m].has_value[x] /\ k = 2 * m[2] + x
    BY LeafOfKey
  <2>2. /\ KeyAt(it) = 2 * n[2] + ValueOf(it) /\ ValueOf(it) \in 0 .. 1
        /\ n[2] \in Nat /\ m[2] \in Nat
    BY <1>5, <1>10, <2>1, AtKey, WalkableIs, LeavesAre
  <2>3. CASE m = n
    <3>1. x # ValueOf(it)
      BY <1>11, <2>1, <2>2, <2>3
    <3>2. ValueOf(it) = 1 - side /\ x = side
      BY <1>7, <2>1, <2>2, <2>3, <3>1
    <3>3. QED
      BY <2>1, <2>2, <2>3, <3>2, KeyOrder
  <2>4. CASE m # n
    <3>1. Ahead(n[2], m[2], side)
      BY <1>2, <2>4
    <3>2. PICK p, q, o1 : p = n[2] /\ q = m[2] /\ o1 = ValueOf(it)
      OBVIOUS
    <3>3. Ahead(2 * p + o1, 2 * q + x, side)
      BY <2>2, <3>1, <3>2, KeyOrder
    <3>4. QED
      BY <2>1, <2>2, <3>2, <3>3
  <2>5. QED
    BY <2>3, <2>4
<1>12. QED
  BY <1>10, <1>11

LEMMA AdvanceNext ==
  ASSUME Walkable, NEW side \in 0 .. 1, NoGaps(side), NEW it, At(it),
         NEW a, a = Advance(it, side)
  PROVE  /\ a.node # Null => At(a) /\ Ahead(KeyAt(it), KeyAt(a), side)
         /\ \A k \in contents : Ahead(KeyAt(it), k, side) =>
              a.node # Null /\ (k = KeyAt(a) \/ Ahead(KeyAt(a), k, side))
<1>1. PICK n, v : n = it.node /\ v = ValueOf(it)
  OBVIOUS
<1>2. /\ n \in Leaves /\ n[2] \in Nat /\ v \in 0 .. 1 /\ KeyAt(it) = 2 * n[2] + v
      /\ it.right \in BOOLEAN /\ it = [node |-> n, right |-> it.right]
      /\ n \in DOMAIN nodes
  BY <1>1, AtKey DEF At, Leaves
<1>3. it.right = (side = 0) <=> v = 1 - side
  BY <1>1, <1>2 DEF ValueOf
<1>4. CASE it.right = (side = 0) /\ nodes[n].has_value[side]
  <2>1. a = [it EXCEPT !.right = (side = 1)]
    BY <1>1, <1>4, Zenon DEF Advance
  <2>2. /\ a.node = n /\ (a.right <=> side = 1) /\ a.right \in BOOLEAN
        /\ a = [node |-> n, right |-> a.right]
    <3>1. PICK w : w = (side = 1)
      OBVIOUS
    <3>2. a = [it EXCEPT !.right = w]
      BY <2>1, <3>1, Zenon
    <3>3. (w <=> side = 1) /\ w \in BOOLEAN
      BY <3>1, Zenon
    <3>4. a = [node |-> n, right |-> w]
      BY <1>2, <3>2
    <3>5. a.node = n /\ a.right = w
      BY <3>4
    <3>6. QED
      BY <3>3, <3>4, <3>5, Zenon
  <2>3. ValueOf(a) = side
    BY <2>2 DEF ValueOf
  <2>4. At(a)
    BY <1>2, <1>4, <2>2, <2>3 DEF At
  <2>5. KeyAt(a) = 2 * n[2] + side /\ v = 1 - side
    BY <1>3, <1>4, <2>2, <2>3, <2>4, AtKey
  <2>6. Ahead(KeyAt(it), KeyAt(a), side)
    BY <1>2, <2>5, KeyOrder
  <2>7. a.node # Null
    BY <1>2, <2>2, WalkableIs, NodeIs
  <2>8. ASSUME NEW k \in contents, Ahead(KeyAt(it), k, side), k # KeyAt(a)
        PROVE  Ahead(KeyAt(a), k, side)
    <3>1. PICK m \in Leaves, x \in 0 .. 1 : nodes[m].has_value[x] /\ k = 2 * m[2] + x
      BY LeafOfKey
    <3>2. m[2] \in Nat
      BY WalkableIs, LeavesAre
    <3>3. Ahead(n[2], m[2], side) \/ (n[2] = m[2] /\ x = side)
      BY <1>2, <2>8, <3>1, <3>2, KeyOrder
    <3>4. ~ (n[2] = m[2] /\ x = side)
      BY <2>5, <2>8, <3>1
    <3>5. QED
      BY <1>2, <2>5, <3>1, <3>2, <3>3, <3>4, KeyOrder
  <2>9. QED
    BY <2>4, <2>6, <2>7, <2>8
<1>5. CASE ~ (it.right = (side = 0) /\ nodes[n].has_value[side])
  <2>1. PICK x : x = NextLeaf(n, side)
    OBVIOUS
  <2>2. a = [node |-> x, right |-> side = 0]
    BY <1>1, <1>5, <2>1, Zenon DEF Advance
  <2>3. /\ a.node = x /\ a.right \in BOOLEAN /\ a = [node |-> x, right |-> a.right]
        /\ ValueOf(a) = 1 - side
    <3>1. PICK w : w = (side = 0)
      OBVIOUS
    <3>2. a = [node |-> x, right |-> w]
      BY <2>2, <3>1, Zenon
    <3>3. (w <=> side = 0) /\ w \in BOOLEAN
      BY <3>1, Zenon
    <3>4. a.node = x /\ a.right = w
      BY <3>2
    <3>5. a.right <=> side = 0
      BY <3>3, <3>4, Zenon
    <3>6. ValueOf(a) = 1 - side
      BY <3>5 DEF ValueOf
    <3>7. QED
      BY <3>2, <3>3, <3>4, <3>6, Zenon
  <2>4. /\ x # Null => x \in Leaves /\ Ahead(n[2], x[2], side)
        /\ \A m \in Leaves : Ahead(n[2], m[2], side) =>
             x # Null /\ (x = m \/ Ahead(x[2], m[2], side))
    BY <1>2, <2>1, WalkableIs, NextLeafOrder
  <2>5. ASSUME x # Null
        PROVE  At(a) /\ KeyAt(a) = 2 * x[2] + (1 - side) /\ x[2] \in Nat /\ x \in Leaves
    <3>1. x \in Leaves /\ x[2] \in Nat
      BY <2>4, <2>5, WalkableIs, LeavesAre
    <3>2. x # Outermost(_root, 1 - side)
      <4>1. SUFFICES ASSUME x = Outermost(_root, 1 - side) PROVE FALSE
        OBVIOUS
      <4>2. n # x
        BY <1>2, <2>4, <2>5, <3>1, AheadOnce
      <4>3. Ahead(x[2], n[2], side)
        BY <1>2, <4>1, <4>2, FirstLeaf
      <4>4. QED
        BY <1>2, <2>4, <2>5, <3>1, <4>3, AheadOnce
    <3>3. nodes[x].has_value[1 - side]
      BY <3>1, <3>2 DEF NoGaps, Leaves
    <3>4. At(a)
      BY <2>2, <2>3, <3>1, <3>3 DEF At
    <3>5. QED
      BY <2>3, <3>1, <3>4, AtKey
  <2>6. x # Null => Ahead(KeyAt(it), KeyAt(a), side)
    BY <1>2, <2>4, <2>5, KeyOrder
  <2>7. ASSUME NEW k \in contents, Ahead(KeyAt(it), k, side)
        PROVE  x # Null /\ (k = KeyAt(a) \/ Ahead(KeyAt(a), k, side))
    <3>1. PICK m \in Leaves, o \in 0 .. 1 : nodes[m].has_value[o] /\ k = 2 * m[2] + o
      BY LeafOfKey
    <3>2. m[2] \in Nat
      BY WalkableIs, LeavesAre
    <3>3. Ahead(n[2], m[2], side) \/ (n[2] = m[2] /\ v = 1 - side /\ o = side)
      BY <1>2, <2>7, <3>1, <3>2, KeyOrder
    <3>4. ~ (n[2] = m[2] /\ v = 1 - side /\ o = side)
      <4>1. SUFFICES ASSUME n[2] = m[2], v = 1 - side, o = side PROVE FALSE
        OBVIOUS
      <4>2. n = m
        BY <1>2, <4>1, SameLeaf
      <4>3. QED
        BY <1>3, <1>5, <3>1, <4>1, <4>2
    <3>5. x # Null /\ (x = m \/ Ahead(x[2], m[2], side))
      BY <2>4, <3>3, <3>4
    <3>6. CASE x = m
      <4>1. o = 1 - side \/ o = side
        OBVIOUS
      <4>2. PICK q : q = x[2] /\ q = m[2] /\ q \in Nat
        BY <3>2, <3>6
      <4>3. Ahead(2 * q + (1 - side), 2 * q + side, side)
        BY <4>2, KeyOrder
      <4>4. QED
        BY <2>5, <3>1, <3>5, <4>1, <4>2, <4>3
    <3>7. CASE Ahead(x[2], m[2], side)
      <4>1. PICK p, q, u : p = x[2] /\ q = m[2] /\ u = 1 - side
        OBVIOUS
      <4>2. p \in Nat /\ q \in Nat /\ u \in 0 .. 1
        BY <2>5, <3>2, <3>5, <4>1
      <4>3. Ahead(2 * p + u, 2 * q + o, side)
        BY <3>7, <4>1, <4>2, KeyOrder
      <4>4. QED
        BY <2>5, <3>1, <3>5, <4>1, <4>3
    <3>8. QED
      BY <3>5, <3>6, <3>7
  <2>8. QED
    BY <2>3, <2>5, <2>6, <2>7
<1>6. QED
  BY <1>4, <1>5

-----------------------------------------------------------------------------
(* The keys of a tree are finitely many. *)

LEMMA ShiftedBound ==
  ASSUME NEW h \in Nat
  PROVE  \E b \in Nat : \A k \in Nat : Shifted(k, h) = 0 => k <= b
<1> DEFINE T == {x \in Nat : ~ \E b \in Nat : \A k \in Nat : Shifted(k, x) = 0 => k <= b}
<1>1. SUFFICES ASSUME T # {} PROVE FALSE
  OBVIOUS
<1>2. PICK x \in T : \A y \in T : x <= y
  <2>1. T \subseteq Nat
    OBVIOUS
  <2>2. QED
    BY <1>1, <2>1, SmallestOf
<1>3. CASE x = 0
  <2>1. \A k \in Nat : Shifted(k, x) = 0 => k <= 0
    BY <1>3, ShiftedNext
  <2>2. QED
    BY <1>2, <2>1
<1>4. CASE x # 0
  <2>1. PICK y \in Nat : x = 1 + y
    <3>1. x - 1 \in Nat /\ x = 1 + (x - 1)
      BY <1>2, <1>4
    <3>2. QED
      BY <3>1
  <2>2. PICK b \in Nat : \A k \in Nat : Shifted(k, y) = 0 => k <= b
    <3>1. ~ (x <= y)
      BY <2>1
    <3>2. QED
      BY <1>2, <3>1
  <2>3. ASSUME NEW k \in Nat, Shifted(k, x) = 0 PROVE k <= 2 * b + 1
    <3>1. /\ Bit(k, 0) \in 0 .. 1 /\ k = 2 * Shifted(k, 1) + Bit(k, 0)
          /\ Shifted(k, 1) \in Nat
      BY LastBit
    <3>2. Shifted(Shifted(k, 1), y) = 0
      BY <2>1, <2>3, ShiftedTwice
    <3>3. Shifted(k, 1) <= b
      BY <2>2, <3>1, <3>2
    <3>4. QED
      BY <3>1, <3>3
  <2>4. 2 * b + 1 \in Nat
    OBVIOUS
  <2>5. QED
    BY <1>2, <2>3, <2>4
<1>5. QED
  BY <1>3, <1>4

LEMMA ContentsFinite ==
  ASSUME Walkable
  PROVE  IsFiniteSet(contents) /\ Cardinality(contents) \in Nat \ {0}
<1>1. _height \in Nat \ {0} /\ contents \subseteq Nat /\ _root \in DOMAIN nodes
  BY WalkableIs
<1>2. PICK b \in Nat : \A k \in Nat : Shifted(k, _height) = 0 => k <= b
  BY <1>1, ShiftedBound
<1>3. \A k \in contents : k <= b
  <2>1. ASSUME NEW k \in contents PROVE k \in Keys /\ k \in Nat /\ HeightOf(k) <= _height
    BY <1>1, ContentsIs, HeldHeight DEF HeldKeys, Walkable, Standing
  <2>2. QED
    BY <1>1, <1>2, <2>1, HeightIs
<1>4. IsFiniteSet(contents)
  BY <1>1, <1>3, FS_BoundedSetOfNaturals
<1>5. contents # {}
  <2>1. PICK n \in Leaves : TRUE
    BY FirstLeaf
  <2>2. PICK o \in 0 .. 1 : nodes[n].has_value[o]
    BY WalkableIs, LeavesAre
  <2>3. QED
    BY <2>2, KeyOfLeaf
<1>6. QED
  BY <1>4, <1>5, FS_CardinalityType, FS_EmptySet

-----------------------------------------------------------------------------
(* What an iterator has passed: its own key and all before it.             *)
Passed(x, side) == {k \in contents : k = x \/ Ahead(k, x, side)}

LEMMA PassedFirst ==
  ASSUME Walkable, NEW side \in 0 .. 1, NEW it, it = Begin(side)
  PROVE  At(it) /\ Passed(KeyAt(it), side) = {KeyAt(it)}
<1>1. At(it) /\ \A k \in contents : k = KeyAt(it) \/ Ahead(KeyAt(it), k, side)
  BY BeginFirst
<1>2. KeyAt(it) \in contents /\ contents \subseteq Nat
  BY <1>1, AtKey, WalkableIs
<1>3. ASSUME NEW k \in contents, Ahead(k, KeyAt(it), side) PROVE k = KeyAt(it)
  BY <1>1, <1>2, <1>3, AheadOnce
<1>4. QED
  BY <1>1, <1>2, <1>3 DEF Passed

LEMMA PassedNext ==
  ASSUME Walkable, NEW side \in 0 .. 1, NoGaps(side), NEW it, At(it),
         NEW a, a = Advance(it, side)
  PROVE  /\ a.node = Null <=> Passed(KeyAt(it), side) = contents
         /\ a.node # Null =>
              /\ At(a) /\ Ahead(KeyAt(it), KeyAt(a), side)
              /\ KeyAt(a) \notin Passed(KeyAt(it), side)
              /\ Passed(KeyAt(a), side) = Passed(KeyAt(it), side) \cup {KeyAt(a)}
<1>1. PICK x, y : x = KeyAt(it) /\ y = KeyAt(a)
  OBVIOUS
<1>2. /\ a.node # Null => At(a) /\ Ahead(x, y, side)
      /\ \A k \in contents : Ahead(x, k, side) => a.node # Null /\ (k = y \/ Ahead(y, k, side))
  BY <1>1, AdvanceNext
<1>3. /\ x \in contents /\ contents \subseteq Nat
      /\ a.node # Null => y \in contents
  BY <1>1, <1>2, AtKey, WalkableIs
<1>4. CASE a.node = Null
  <2>1. ASSUME NEW k \in contents, k # x PROVE Ahead(k, x, side)
    BY <1>2, <1>3, <1>4, <2>1, AheadOnce
  <2>2. QED
    BY <1>1, <1>4, <2>1 DEF Passed
<1>5. CASE a.node # Null
  <2>1. Ahead(x, y, side) /\ At(a) /\ x \in Nat /\ y \in Nat /\ y \in contents
    BY <1>2, <1>3, <1>5
  <2>2. y \notin Passed(x, side)
    BY <2>1, AheadOnce DEF Passed
  <2>3. ASSUME NEW k \in contents, Ahead(k, y, side), k # x PROVE Ahead(k, x, side)
    <3>1. k \in Nat /\ k # y /\ ~Ahead(y, k, side)
      BY <1>3, <2>1, <2>3, AheadOnce
    <3>2. ~Ahead(x, k, side)
      BY <1>2, <3>1
    <3>3. QED
      BY <2>1, <2>3, <3>1, <3>2, AheadOnce
  <2>4. ASSUME NEW k \in contents, k = x \/ Ahead(k, x, side) PROVE Ahead(k, y, side)
    <3>1. k \in Nat
      BY <1>3
    <3>2. QED
      BY <2>1, <2>4, <3>1 DEF Ahead
  <2>5. Passed(y, side) = Passed(x, side) \cup {y}
    BY <2>1, <2>3, <2>4 DEF Passed
  <2>6. QED
    BY <1>1, <1>5, <2>1, <2>2, <2>5
<1>6. QED
  BY <1>4, <1>5

-----------------------------------------------------------------------------
(* The iterators of an iteration. *)

Walk(f, side, n) ==
  f = [m \in 1 .. n |-> IF m = 1 THEN Begin(side)
                        ELSE IF f[m - 1].node = Null THEN f[m - 1]
                        ELSE Advance(f[m - 1], side)]

LEMMA WalkExists == ASSUME NEW side, NEW n \in Nat PROVE \E f : Walk(f, side, n)
<1> DEFINE T == {m \in Nat : ~ \E f : Walk(f, side, m)}
<1>1. SUFFICES ASSUME T # {} PROVE FALSE
  OBVIOUS
<1>2. PICK m \in T : \A x \in T : m <= x
  <2>1. T \subseteq Nat
    OBVIOUS
  <2>2. QED
    BY <1>1, <2>1, SmallestOf
<1>3. PICK h : h = [x \in 1 .. m |-> Begin(side)]
  OBVIOUS
<1>4. PICK f : m = 0 \/ Walk(f, side, m - 1)
  <2>1. m # 0 => m - 1 \in Nat /\ ~ (m <= m - 1)
    BY <1>2
  <2>2. QED
    BY <1>2, <2>1
<1>5. PICK z : z = IF f[m - 1].node = Null THEN f[m - 1] ELSE Advance(f[m - 1], side)
  OBVIOUS
<1>6. PICK b : b = Begin(side)
  OBVIOUS
<1>7. PICK g : g = [s \in 1 .. m |-> IF s = 1 THEN b ELSE IF s = m THEN z ELSE f[s]]
  OBVIOUS
<1>8. ASSUME NEW s \in 1 .. m
      PROVE  g[s] = IF s = 1 THEN Begin(side)
                    ELSE IF g[s - 1].node = Null THEN g[s - 1] ELSE Advance(g[s - 1], side)
  <2>1. CASE s = 1
    BY <1>6, <1>7, <2>1
  <2>2. CASE s # 1
    <3>1. /\ s - 1 \in 1 .. m - 1 /\ s - 1 # m /\ s - 1 \in 1 .. m /\ m # 0
          /\ 1 \in 1 .. m - 1
      BY <1>2, <2>2
    <3>2. /\ f[1] = Begin(side)
          /\ \A x \in 1 .. m - 1 : x # 1 =>
               f[x] = IF f[x - 1].node = Null THEN f[x - 1] ELSE Advance(f[x - 1], side)
      BY <1>4, <3>1, Zenon DEF Walk
    <3>3. g[s - 1] = f[s - 1]
      BY <1>6, <1>7, <3>1, <3>2
    <3>4. CASE s = m
      BY <1>5, <1>7, <2>2, <3>3, <3>4, Zenon
    <3>5. CASE s # m
      <4>1. s \in 1 .. m - 1 /\ g[s] = f[s]
        BY <1>2, <1>7, <2>2, <3>5
      <4>2. QED
        BY <2>2, <3>2, <3>3, <4>1, Zenon
    <3>6. QED
      BY <3>4, <3>5
  <2>3. QED
    BY <2>1, <2>2
<1>9. Walk(g, side, m)
  <2>1. g = [s \in 1 .. m |-> g[s]]
    BY <1>7
  <2>2. QED
    BY <1>8, <2>1, Zenon DEF Walk
<1>10. QED
  BY <1>2, <1>9

TheWalk(side, n) == CHOOSE f : Walk(f, side, n)

LEMMA WalkIs ==
  ASSUME NEW side, NEW n \in Nat \ {0}, NEW f, f = TheWalk(side, n)
  PROVE  /\ f[1] = Begin(side)
         /\ \A m \in 1 .. n : m # 1 =>
              f[m] = IF f[m - 1].node = Null THEN f[m - 1] ELSE Advance(f[m - 1], side)
<1>1. n \in Nat /\ 1 \in 1 .. n
  OBVIOUS
<1>2. Walk(f, side, n)
  BY <1>1, WalkExists, Zenon DEF TheWalk
<1>3. QED
  BY <1>1, <1>2, Zenon DEF Walk

(* After m steps an iterator has passed m keys, those it was at.           *)
Visited(f, m, side) ==
  /\ At(f[m])
  /\ Passed(KeyAt(f[m]), side) = {KeyAt(f[j]) : j \in 1 .. m}
  /\ Cardinality(Passed(KeyAt(f[m]), side)) = m
  /\ m # 1 => Ahead(KeyAt(f[m - 1]), KeyAt(f[m]), side)

LEMMA VisitedNext ==
  ASSUME Walkable, NEW side \in 0 .. 1, NoGaps(side), NEW f, NEW m \in Nat \ {0},
         m < Cardinality(contents), Visited(f, m, side),
         f[m + 1] = IF f[m].node = Null THEN f[m] ELSE Advance(f[m], side)
  PROVE  Visited(f, m + 1, side)
<1>1. PICK it, a : it = f[m] /\ a = Advance(it, side)
  OBVIOUS
<1>2. At(it) /\ it.node # Null
  BY <1>1, AtKey, LeavesAre, WalkableIs, NodeIs DEF Visited
<1>3. f[m + 1] = a
  BY <1>1, <1>2
<1>4. Passed(KeyAt(it), side) # contents
  BY <1>1, ContentsFinite DEF Visited
<1>5. /\ At(a) /\ Ahead(KeyAt(it), KeyAt(a), side)
      /\ KeyAt(a) \notin Passed(KeyAt(it), side)
      /\ Passed(KeyAt(a), side) = Passed(KeyAt(it), side) \cup {KeyAt(a)}
  BY <1>1, <1>2, <1>4, PassedNext
<1>6. PICK P, Q : P = Passed(KeyAt(it), side) /\ Q = Passed(KeyAt(a), side)
  OBVIOUS
<1>7. Q = {KeyAt(f[j]) : j \in 1 .. m + 1}
  <2>1. 1 .. m + 1 = (1 .. m) \cup {m + 1}
    OBVIOUS
  <2>2. P = {KeyAt(f[j]) : j \in 1 .. m} /\ Q = P \cup {KeyAt(f[m + 1])}
    BY <1>1, <1>3, <1>5, <1>6 DEF Visited
  <2>3. QED
    BY <2>1, <2>2, Zenon
<1>8. Cardinality(Q) = m + 1
  <2>1. IsFiniteSet(P)
    <3>1. P \subseteq contents
      BY <1>6 DEF Passed
    <3>2. QED
      BY <3>1, ContentsFinite, FS_Subset
  <2>2. Cardinality(P) = m /\ Q = P \cup {KeyAt(a)} /\ KeyAt(a) \notin P
    BY <1>1, <1>5, <1>6 DEF Visited
  <2>3. QED
    BY <2>1, <2>2, FS_AddElement
<1>9. m + 1 # 1 /\ (m + 1) - 1 = m
  OBVIOUS
<1>10. QED
  BY <1>1, <1>3, <1>5, <1>6, <1>7, <1>8, <1>9, Zenon DEF Visited

LEMMA VisitedAll ==
  ASSUME Walkable, NEW side \in 0 .. 1, NoGaps(side), NEW n, n = Cardinality(contents),
         NEW f, f = TheWalk(side, n), NEW m \in 1 .. n
  PROVE  Visited(f, m, side)
<1>1. n \in Nat \ {0}
  BY ContentsFinite
<1>2. /\ f[1] = Begin(side)
      /\ \A s \in 1 .. n : s # 1 =>
           f[s] = IF f[s - 1].node = Null THEN f[s - 1] ELSE Advance(f[s - 1], side)
  BY <1>1, WalkIs
<1> DEFINE T == {s \in 1 .. n : ~Visited(f, s, side)}
<1>3. SUFFICES ASSUME T # {} PROVE FALSE
  OBVIOUS
<1>4. PICK s \in T : \A x \in T : s <= x
  <2>1. T \subseteq Nat
    BY <1>1
  <2>2. QED
    BY <1>3, <2>1, SmallestOf
<1>5. s \in 1 .. n /\ ~Visited(f, s, side)
  BY <1>4
<1>6. CASE s = 1
  <2>1. PICK it : it = f[1]
    OBVIOUS
  <2>2. At(it) /\ Passed(KeyAt(it), side) = {KeyAt(it)}
    BY <1>2, <2>1, PassedFirst
  <2>3. Cardinality({KeyAt(it)}) = 1
    BY FS_Singleton
  <2>4. {KeyAt(f[j]) : j \in 1 .. 1} = {KeyAt(it)}
    <3>1. 1 .. 1 = {1}
      OBVIOUS
    <3>2. QED
      BY <2>1, <3>1, Zenon
  <2>5. Visited(f, 1, side)
    BY <2>1, <2>2, <2>3, <2>4, Zenon DEF Visited
  <2>6. QED
    BY <1>5, <1>6, <2>5
<1>7. CASE s # 1
  <2>1. PICK x : x = s - 1
    OBVIOUS
  <2>2. x \in 1 .. n /\ x \in Nat \ {0} /\ x + 1 = s /\ x < n /\ ~ (s <= x)
    BY <1>1, <1>5, <1>7, <2>1
  <2>3. Visited(f, x, side)
    BY <1>4, <2>2
  <2>4. f[x + 1] = IF f[x].node = Null THEN f[x] ELSE Advance(f[x], side)
    BY <1>2, <1>5, <1>7, <2>1, <2>2
  <2>5. Visited(f, x + 1, side)
    BY <2>2, <2>3, <2>4, VisitedNext
  <2>6. QED
    BY <1>5, <2>2, <2>5
<1>8. QED
  BY <1>6, <1>7

-----------------------------------------------------------------------------
(* WalksInOrder, a side at a time. *)

LeavesInOrder(side) ==
  \A n \in Leaves :
    LET next == NextLeaf(n, side)
    IN /\ next # Null => Ahead(n[2], next[2], side)
       /\ next = Null <=> n = Outermost(_root, side)
       /\ \A m \in Leaves : Ahead(n[2], m[2], side) =>
            next = m \/ Ahead(next[2], m[2], side)

KeysInOrder(side) ==
  LET n == Cardinality(contents)
      f == TheWalk(side, n)
  IN /\ f[n].node # Null
     /\ {KeyAt(f[m]) : m \in 1 .. n} = contents
     /\ \A m \in 2 .. n : Ahead(KeyAt(f[m - 1]), KeyAt(f[m]), side)
     /\ Advance(f[n], side).node = Null

LEMMA LeavesHold == ASSUME Walkable, NEW side \in 0 .. 1 PROVE LeavesInOrder(side)
<1>1. Standard(_height) /\ _root = <<_height, 0>>
  BY WalkableIs
<1>2. SUFFICES ASSUME NEW n \in Leaves, NEW next, next = NextLeaf(n, side)
               PROVE  /\ next # Null => Ahead(n[2], next[2], side)
                      /\ next = Null <=> n = Outermost(_root, side)
                      /\ \A m \in Leaves : Ahead(n[2], m[2], side) =>
                           next = m \/ Ahead(next[2], m[2], side)
  BY Zenon DEF LeavesInOrder
<1>3. /\ next # Null => Ahead(n[2], next[2], side)
      /\ \A m \in Leaves : Ahead(n[2], m[2], side) =>
           next = m \/ Ahead(next[2], m[2], side)
  BY <1>1, <1>2, NextLeafOrder
<1>4. next = Null <=> n = Outermost(_root, side)
  BY <1>1, <1>2, LastLeaf
<1>5. QED
  BY <1>3, <1>4

LEMMA KeysHold ==
  ASSUME Walkable, NEW side \in 0 .. 1, NoGaps(side)
  PROVE  KeysInOrder(side)
<1>1. PICK n : n = Cardinality(contents)
  OBVIOUS
<1>2. PICK f : f = TheWalk(side, n)
  OBVIOUS
<1>3. n \in Nat \ {0} /\ IsFiniteSet(contents)
  BY <1>1, ContentsFinite
<1>4. \A m \in 1 .. n : Visited(f, m, side)
  BY <1>1, <1>2, VisitedAll
<1>5. PICK it, P : it = f[n] /\ P = Passed(KeyAt(it), side)
  OBVIOUS
<1>6. /\ At(it) /\ P = {KeyAt(f[m]) : m \in 1 .. n} /\ Cardinality(P) = n
  BY <1>3, <1>4, <1>5 DEF Visited
<1>7. P = contents
  <2>1. P \subseteq contents
    BY <1>5 DEF Passed
  <2>2. QED
    BY <1>1, <1>3, <1>6, <2>1, FS_Subset
<1>8. it.node # Null
  BY <1>6, AtKey, LeavesAre, WalkableIs, NodeIs
<1>9. Advance(it, side).node = Null
  BY <1>5, <1>6, <1>7, PassedNext
<1>10. \A m \in 2 .. n : Ahead(KeyAt(f[m - 1]), KeyAt(f[m]), side)
  <2>1. \A m \in 2 .. n : m \in 1 .. n /\ m # 1
    OBVIOUS
  <2>2. QED
    BY <1>4, <2>1 DEF Visited
<1>11. QED
  BY <1>1, <1>2, <1>5, <1>6, <1>7, <1>8, <1>9, <1>10, Zenon DEF KeysInOrder

LEMMA WalksHold == IInv /\ ValuesAreKeys => WalksInOrder
<1>1. SUFFICES ASSUME IInv, ValuesAreKeys, pc = "idle", _root # Null
               PROVE  \A side \in 0 .. 1 :
                        LeavesInOrder(side) /\ (NoGaps(side) => KeysInOrder(side))
  BY Zenon DEF WalksInOrder, Iteration, LeavesInOrder, KeysInOrder, TheWalk, Walk, Leaves, Ahead
<1>2. Walkable
  BY <1>1 DEF Walkable
<1>3. QED
  BY <1>2, LeavesHold, KeysHold

(* Iterations over keys as wide as count_leading_zero counts.  Between     *)
(* calls both walks go through every leaf in order, and iterators through  *)
(* every key, in order and once, where no leaf but the first lacks the     *)
(* value that operator++ takes for granted.                                *)
THEOREM WalksTheorem == Spec => []WalksInOrder
<1>1. Init => ValuesAreKeys
  BY DEF Init, ValuesAreKeys, KeysOnly
<1>2. QED
  BY <1>1, InvariantTheorem, ValuesStep, WalksHold, PTL DEF Spec

(* Keys as wide as count_leading_zero counts.  Lookups find the keys no    *)
(* longer than the tree is high that are there and no others, walks and    *)
(* iterators visit leaves and keys in order.                               *)
THEOREM QueriesTheorem == Spec => []QueriesExact
<1>1. LookupFinds /\ WalksInOrder => QueriesExact
  BY DEF QueriesExact
<1>2. QED
  BY <1>1, LookupTheorem, WalksTheorem, PTL
=============================================================================
