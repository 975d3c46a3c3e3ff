--------------------------- MODULE DynArrayProofs ---------------------------
(***************************************************************************)
(* Theorems about DynArray, for any values and arrays of any length.       *)
(***************************************************************************)
EXTENDS DynArray, NaturalsInduction, WellFoundedInduction, SequenceTheorems, TLAPS

-----------------------------------------------------------------------------
(* Blocks of slots. *)

Block(c) == [Range0(0, c) -> Slots]
Fields(l, c, d, null, fault) ==
  [_length |-> l, _capacity |-> c, _data |-> d, null |-> null, fault |-> fault]

(* An array whose block is the one its capacity speaks of. *)
Sized(a) ==
  /\ a = Fields(a._length, a._capacity, a._data, a.null, a.fault)
  /\ a._length \in Nat /\ a._capacity \in Nat /\ a._length <= a._capacity
  /\ a._data \in Block(a._capacity)
  /\ a.null \in BOOLEAN /\ (a.null <=> a._capacity = 0) /\ a.fault = FALSE

(* The array with other contents, or another length. *)
Put(a, d) == Fields(a._length, a._capacity, d, a.null, a.fault)
Cut(a, l) == Fields(l, a._capacity, a._data, a.null, a.fault)

LEMMA PutExcept ==
  ASSUME NEW a, Sized(a), NEW d PROVE [a EXCEPT !._data = d] = Put(a, d)
<1>1. a = Fields(a._length, a._capacity, a._data, a.null, a.fault)
  BY DEF Sized
<1>2. QED
  BY <1>1 DEF Put, Fields

LEMMA PutIs ==
  ASSUME NEW a, Sized(a), NEW d \in Block(a._capacity)
  PROVE  /\ Sized(Put(a, d)) /\ Put(a, d)._data = d
         /\ Put(a, d)._length = a._length /\ Put(a, d)._capacity = a._capacity
         /\ Put(a, d).fault = FALSE
<1>1. a = Fields(a._length, a._capacity, a._data, a.null, a.fault)
  BY DEF Sized
<1>2. QED
  BY <1>1 DEF Put, Fields, Sized

LEMMA PutNamed ==
  ASSUME NEW a, Sized(a), NEW d, d \in Block(a._capacity), NEW b, b = Put(a, d)
  PROVE  /\ Sized(b) /\ b._data = d
         /\ b._length = a._length /\ b._capacity = a._capacity
<1>1. d \in Block(a._capacity)
  OBVIOUS
<1>2. QED
  BY <1>1, PutIs, Zenon

LEMMA PutBack ==
  ASSUME NEW a, Sized(a) PROVE Put(a, a._data) = a
BY DEF Put, Sized

LEMMA PutTwice ==
  ASSUME NEW a, NEW d, NEW e PROVE Put(Put(a, d), e) = Put(a, e)
BY DEF Put, Fields

LEMMA CutExcept ==
  ASSUME NEW a, Sized(a), NEW l PROVE [a EXCEPT !._length = l] = Cut(a, l)
<1>1. a = Fields(a._length, a._capacity, a._data, a.null, a.fault)
  BY DEF Sized
<1>2. QED
  BY <1>1 DEF Cut, Fields

LEMMA CutIs ==
  ASSUME NEW a, Sized(a), NEW l \in 0 .. a._capacity
  PROVE  /\ Sized(Cut(a, l)) /\ Cut(a, l)._data = a._data
         /\ Cut(a, l)._length = l /\ Cut(a, l)._capacity = a._capacity
         /\ Cut(a, l).fault = FALSE /\ Cut(a, a._length) = a
<1>1. a = Fields(a._length, a._capacity, a._data, a.null, a.fault)
  BY DEF Sized
<1>2. QED
  BY <1>1 DEF Cut, Fields, Sized

LEMMA FaultIs ==
  ASSUME NEW a, Sized(a) PROVE Fault(a, FALSE) = a
<1>1. a = Fields(a._length, a._capacity, a._data, a.null, a.fault) /\ a.fault = FALSE
  BY DEF Sized
<1>2. QED
  BY <1>1 DEF Fault, Fields

LEMMA FaultPut ==
  ASSUME NEW a, Sized(a), NEW d \in Block(a._capacity)
  PROVE  /\ Fault(Put(a, d), FALSE) = Put(a, d)
         /\ Fault([a EXCEPT !._data = d], FALSE) = Put(a, d)
<1>1. [a EXCEPT !._data = d] = Put(a, d)
  BY PutExcept, Zenon
<1>2. PICK b : b = Put(a, d)
  OBVIOUS
<1>3. Sized(b)
  BY <1>2, PutIs
<1>4. Fault(b, FALSE) = b
  BY ONLY <1>3, FaultIs
<1>5. QED
  BY <1>1, <1>2, <1>4, Zenon

-----------------------------------------------------------------------------
(* Single objects. *)

Filled(a, I, value) ==
  [i \in Range0(0, a._capacity) |-> IF i \in I THEN value ELSE a._data[i]]
Carried(d, c, to, from) ==
  [i \in Range0(0, c) |-> IF i = from THEN Moved
                          ELSE IF i = to THEN d[from] ELSE d[i]]

LEMMA SlotKinds ==
  /\ Raw \notin Owners /\ Moved \notin Owners /\ Values \subseteq Owners
  /\ Raw \notin Values /\ Moved \notin Values /\ Blank \notin Values
  /\ Raw # Moved /\ Raw # Blank
  /\ {Raw, Moved, Blank} \subseteq Slots /\ Values \subseteq Slots
BY SlotAssumption DEF Slots, Owners

LEMMA InsideIs ==
  ASSUME NEW a, NEW I, I \subseteq Range0(0, a._capacity)
  PROVE  ~Outside(a, I)
BY DEF Outside

LEMMA ConstructIs ==
  ASSUME NEW a, Sized(a), NEW I, I \subseteq Range0(0, a._capacity), NEW value \in Slots,
         ~trivial => \A i \in I : a._data[i] \notin Owners
  PROVE  /\ Filled(a, I, value) \in Block(a._capacity)
         /\ Construct(a, I, value) = Put(a, Filled(a, I, value))
<1>1. Filled(a, I, value) \in Block(a._capacity)
  BY DEF Filled, Block, Sized
<1>2. [a EXCEPT !._data = [i \in DOMAIN @ |-> IF i \in I THEN value ELSE @[i]]]
        = [a EXCEPT !._data = Filled(a, I, value)]
  <2>1. DOMAIN a._data = Range0(0, a._capacity)
    BY DEF Sized, Block
  <2>2. QED
    BY <2>1 DEF Filled
<1>3. (~trivial /\ \E i \in I : a._data[i] \in Owners) = FALSE
  OBVIOUS
<1>4. Construct(a, I, value) = Fault([a EXCEPT !._data = Filled(a, I, value)], FALSE)
  BY <1>2, <1>3, InsideIs DEF Construct
<1>5. QED
  BY <1>1, <1>4, FaultPut

LEMMA DestroyIs ==
  ASSUME NEW a, Sized(a), NEW I, I \subseteq Range0(0, a._capacity), ~trivial,
         \A i \in I : a._data[i] # Raw
  PROVE  /\ Filled(a, I, Raw) \in Block(a._capacity)
         /\ Destroy(a, I) = Put(a, Filled(a, I, Raw))
<1>1. Filled(a, I, Raw) \in Block(a._capacity)
  BY SlotKinds DEF Filled, Block, Sized
<1>2. [a EXCEPT !._data = [i \in DOMAIN @ |-> IF i \in I THEN Raw ELSE @[i]]]
        = [a EXCEPT !._data = Filled(a, I, Raw)]
  <2>1. DOMAIN a._data = Range0(0, a._capacity)
    BY DEF Sized, Block
  <2>2. QED
    BY <2>1 DEF Filled
<1>3. (\E i \in I : a._data[i] = Raw) = FALSE
  OBVIOUS
<1>4. Destroy(a, I) = Fault([a EXCEPT !._data = Filled(a, I, Raw)], FALSE)
  BY <1>2, <1>3, InsideIs DEF Destroy
<1>5. QED
  BY <1>1, <1>4, FaultPut

LEMMA CarriedIs ==
  ASSUME NEW a, Sized(a), NEW to \in Range0(0, a._capacity),
         NEW from \in Range0(0, a._capacity)
  PROVE  /\ Carried(a._data, a._capacity, to, from) \in Block(a._capacity)
         /\ [a EXCEPT !._data = [@ EXCEPT ![to] = a._data[from], ![from] = Moved]]
              = Put(a, Carried(a._data, a._capacity, to, from))
<1>1. Carried(a._data, a._capacity, to, from) \in Block(a._capacity)
  BY SlotKinds DEF Carried, Block, Sized
<1>2. [a._data EXCEPT ![to] = a._data[from], ![from] = Moved]
        = Carried(a._data, a._capacity, to, from)
  <2>1. a._data \in Block(a._capacity)
    BY DEF Sized
  <2>2. QED
    BY <2>1 DEF Carried, Block
<1>3. PICK d : d = Carried(a._data, a._capacity, to, from)
  OBVIOUS
<1>4. [a EXCEPT !._data = [@ EXCEPT ![to] = a._data[from], ![from] = Moved]]
        = [a EXCEPT !._data = d]
  BY ONLY <1>2, <1>3
<1>5. [a EXCEPT !._data = d] = Put(a, d)
  BY PutExcept, Zenon
<1>6. QED
  BY <1>1, <1>3, <1>4, <1>5, Zenon

LEMMA MoveConstructIs ==
  ASSUME NEW a, Sized(a), NEW to \in Range0(0, a._capacity),
         NEW from \in Range0(0, a._capacity), a._data[from] # Raw, a._data[to] \notin Owners
  PROVE  MoveConstruct(a, to, from) = Put(a, Carried(a._data, a._capacity, to, from))
<1>1. (a._data[from] = Raw \/ a._data[to] \in Owners) = FALSE
  OBVIOUS
<1>2. MoveConstruct(a, to, from)
        = Fault([a EXCEPT !._data = [@ EXCEPT ![to] = a._data[from], ![from] = Moved]], FALSE)
  BY <1>1 DEF MoveConstruct
<1>3. PICK d \in Block(a._capacity) : d = Carried(a._data, a._capacity, to, from)
  BY CarriedIs
<1>4. MoveConstruct(a, to, from) = Fault(Put(a, d), FALSE)
  BY <1>2, <1>3, CarriedIs
<1>5. Fault(Put(a, d), FALSE) = Put(a, d)
  BY <1>3, FaultPut, Zenon
<1>6. QED
  BY <1>3, <1>4, <1>5, Zenon

LEMMA MoveAssignIs ==
  ASSUME NEW a, Sized(a), NEW to \in Range0(0, a._capacity), kind # "rebuilt",
         NEW from \in Range0(0, a._capacity), a._data[from] # Raw, a._data[to] # Raw
  PROVE  MoveAssign(a, to, from) = Put(a, Carried(a._data, a._capacity, to, from))
<1>1. (Raw \in {a._data[to], a._data[from]}) = FALSE
  OBVIOUS
<1>2. MoveAssign(a, to, from)
        = Fault([a EXCEPT !._data = [@ EXCEPT ![to] = a._data[from], ![from] = Moved]], FALSE)
  BY <1>1 DEF MoveAssign
<1>3. PICK d \in Block(a._capacity) : d = Carried(a._data, a._capacity, to, from)
  BY CarriedIs
<1>4. MoveAssign(a, to, from) = Fault(Put(a, d), FALSE)
  BY <1>2, <1>3, CarriedIs
<1>5. Fault(Put(a, d), FALSE) = Put(a, d)
  BY <1>3, FaultPut, Zenon
<1>6. QED
  BY <1>3, <1>4, <1>5, Zenon

-----------------------------------------------------------------------------
(* Shifts: a loop of moves has moved, after m rounds, the m objects at one *)
(* end of the range.                                                       *)

Shifted(a, to, from, n) ==
  [i \in Range0(0, a._capacity) |->
     IF i \in Range0(to, to + n) THEN a._data[i - to + from]
     ELSE IF i \in Range0(from, from + n) THEN Moved ELSE a._data[i]]
Skipped(m, n, upwards) == IF upwards THEN 0 ELSE n - m
Partly(a, to, from, n, upwards, m) ==
  Shifted(a, to + Skipped(m, n, upwards), from + Skipped(m, n, upwards), m)

Within(a, at, n) == at \in Nat /\ n \in Nat /\ at + n <= a._capacity

LEMMA ShiftedIs ==
  ASSUME NEW a, Sized(a), NEW to, NEW from, NEW n, Within(a, to, n), Within(a, from, n)
  PROVE  Shifted(a, to, from, n) \in Block(a._capacity)
<1>1. a._data \in Block(a._capacity) /\ a._capacity \in Nat
  BY DEF Sized
<1>2. ASSUME NEW i \in Range0(to, to + n)
      PROVE  i - to + from \in Range0(0, a._capacity)
  BY <1>1 DEF Within, Range0
<1>3. QED
  BY <1>1, <1>2, SlotKinds DEF Shifted, Block

LEMMA PartlyIs ==
  ASSUME NEW a, Sized(a), NEW to, NEW from, NEW n, Within(a, to, n), Within(a, from, n),
         NEW upwards \in BOOLEAN, IF upwards THEN to < from ELSE from < to,
         NEW m \in 1 .. n, NEW k, k = Nth(m, n, upwards),
         NEW p, p = Partly(a, to, from, n, upwards, m - 1)
  PROVE  /\ p \in Block(a._capacity) /\ Partly(a, to, from, n, upwards, m) \in Block(a._capacity)
         /\ k \in 0 .. n - 1
         /\ to + k \in Range0(0, a._capacity) /\ from + k \in Range0(0, a._capacity)
         /\ p[from + k] = a._data[from + k]
         /\ p[to + k] = IF to + k \in Range0(from, from + n) THEN Moved ELSE a._data[to + k]
         /\ Partly(a, to, from, n, upwards, m) = Carried(p, a._capacity, to + k, from + k)
<1>1. /\ k \in 0 .. n - 1 /\ a._capacity \in Nat
      /\ to + k \in Range0(0, a._capacity) /\ from + k \in Range0(0, a._capacity)
  BY DEF Nth, Within, Range0, Sized
<1>2. PICK q : q = Partly(a, to, from, n, upwards, m)
  OBVIOUS
<1>3. p \in Block(a._capacity) /\ q \in Block(a._capacity)
  <2>1. /\ Within(a, to + Skipped(m, n, upwards), m)
        /\ Within(a, from + Skipped(m, n, upwards), m)
        /\ Within(a, to + Skipped(m - 1, n, upwards), m - 1)
        /\ Within(a, from + Skipped(m - 1, n, upwards), m - 1)
    BY <1>1 DEF Within, Skipped
  <2>2. QED
    BY <1>2, <2>1, ShiftedIs DEF Partly
<1>4. CASE upwards
  <2>1. k = m - 1 /\ to < from
    BY <1>4 DEF Nth
  <2>2. \A i \in Range0(0, a._capacity) :
          p[i] = IF i \in Range0(to, to + m - 1) THEN a._data[i - to + from]
                 ELSE IF i \in Range0(from, from + m - 1) THEN Moved ELSE a._data[i]
    BY <1>4, <1>1 DEF Partly, Skipped, Shifted, Within, Range0
  <2>3. \A i \in Range0(0, a._capacity) :
          q[i] = IF i \in Range0(to, to + m) THEN a._data[i - to + from]
                 ELSE IF i \in Range0(from, from + m) THEN Moved ELSE a._data[i]
    BY <1>2, <1>4, <1>1 DEF Partly, Skipped, Shifted, Within, Range0
  <2>4. /\ p[from + k] = a._data[from + k]
        /\ p[to + k] = IF to + k \in Range0(from, from + n) THEN Moved ELSE a._data[to + k]
    BY <1>1, <2>1, <2>2 DEF Within, Range0
  <2>5. \A i \in Range0(0, a._capacity) :
          q[i] = IF i = from + k THEN Moved ELSE IF i = to + k THEN p[from + k] ELSE p[i]
    BY <1>1, <2>1, <2>2, <2>3, <2>4 DEF Within, Range0
  <2>6. QED
    BY <1>1, <1>2, <1>3, <2>4, <2>5 DEF Carried, Block
<1>5. CASE ~upwards
  <2>1. k = n - m /\ from < to
    BY <1>5 DEF Nth
  <2>2. \A i \in Range0(0, a._capacity) :
          p[i] = IF i \in Range0(to + k + 1, to + n) THEN a._data[i - to + from]
                 ELSE IF i \in Range0(from + k + 1, from + n) THEN Moved ELSE a._data[i]
    BY <1>5, <1>1, <2>1 DEF Partly, Skipped, Shifted, Within, Range0
  <2>3. \A i \in Range0(0, a._capacity) :
          q[i] = IF i \in Range0(to + k, to + n) THEN a._data[i - to + from]
                 ELSE IF i \in Range0(from + k, from + n) THEN Moved ELSE a._data[i]
    BY <1>2, <1>5, <1>1, <2>1 DEF Partly, Skipped, Shifted, Within, Range0
  <2>4. /\ p[from + k] = a._data[from + k]
        /\ p[to + k] = IF to + k \in Range0(from, from + n) THEN Moved ELSE a._data[to + k]
    BY <1>1, <2>1, <2>2 DEF Within, Range0
  <2>5. \A i \in Range0(0, a._capacity) :
          q[i] = IF i = from + k THEN Moved ELSE IF i = to + k THEN p[from + k] ELSE p[i]
    BY <1>1, <2>1, <2>2, <2>3, <2>4 DEF Within, Range0
  <2>6. QED
    BY <1>1, <1>2, <1>3, <2>4, <2>5 DEF Carried, Block
<1>6. QED
  BY <1>4, <1>5

-----------------------------------------------------------------------------
(* A loop is a recursive function of its rounds.  Two functions that start *)
(* alike and go on alike are alike: there is no first place where they     *)
(* differ.                                                                 *)
LEMMA SmallestOf ==
  ASSUME NEW T, T \subseteq Nat, T # {}
  PROVE  \E x \in T : \A y \in T : x <= y
<1> DEFINE less == {ss \in Nat \X Nat : ss[1] < ss[2]}
<1>1. IsWellFoundedOn(less, Nat)
  <2>1. less = OpToRel(<, Nat)
    BY DEF OpToRel
  <2>2. QED
    BY <2>1, NatLessThanWellFounded
<1>2. \A x, y \in Nat : <<y, x>> \in less <=> y < x
  OBVIOUS
<1> HIDE DEF less
<1>3. PICK x \in T : \A y \in T : ~ (<<y, x>> \in less)
  BY <1>1, WFMin
<1>4. ASSUME NEW y \in T PROVE x <= y
  <2>1. x \in Nat /\ y \in Nat
    OBVIOUS
  <2>2. ~ (y < x)
    BY <1>2, <1>3, <2>1
  <2>3. QED
    BY <2>1, <2>2
<1>5. QED
  BY <1>4

LEMMA Agree ==
  ASSUME NEW n \in Nat, NEW f, NEW g, f[0] = g[0],
         \A m \in 1 .. n : f[m - 1] = g[m - 1] => f[m] = g[m]
  PROVE  \A m \in 0 .. n : f[m] = g[m]
<1> DEFINE T == {m \in 0 .. n : f[m] # g[m]}
<1>1. SUFFICES ASSUME T # {} PROVE FALSE
  OBVIOUS
<1>2. PICK m \in T : \A k \in T : m <= k
  <2>1. T \subseteq Nat
    OBVIOUS
  <2>2. QED
    BY <1>1, <2>1, SmallestOf
<1>3. m \in 0 .. n /\ m # 0 /\ f[m] # g[m]
  BY <1>2
<1>4. m \in 1 .. n /\ m - 1 \in 0 .. n
  BY <1>3
<1>5. m - 1 \notin T
  BY <1>2, <1>4
<1>6. QED
  BY <1>3, <1>4, <1>5

(* The two kinds of shift, where every object moved is there and every one *)
(* it is moved to is free to be overwritten.                               *)
LEMMA ShiftByConstruction ==
  ASSUME NEW a, Sized(a), ~trivial, NEW to, NEW from, NEW n,
         Within(a, to, n), Within(a, from, n),
         NEW upwards \in BOOLEAN, IF upwards THEN to < from ELSE from < to,
         \A k \in 0 .. n - 1 :
           /\ a._data[from + k] # Raw
           /\ to + k \in Range0(from, from + n) \/ a._data[to + k] \notin Owners
  PROVE  /\ Shifted(a, to, from, n) \in Block(a._capacity)
         /\ Shift(a, to, from, n, MoveConstruct, upwards) = Put(a, Shifted(a, to, from, n))
<1> DEFINE P(m) == Partly(a, to, from, n, upwards, m)
           Round(f) == [m \in 0 .. n |->
                          IF m = 0 THEN a
                          ELSE MoveConstruct(f[m - 1], to + Nth(m, n, upwards),
                                             from + Nth(m, n, upwards))]
           moved == CHOOSE f : f = Round(f)
           g == [m \in 0 .. n |-> Put(a, P(m))]
<1>1. n \in Nat /\ Shifted(a, to, from, n) \in Block(a._capacity)
  BY ShiftedIs DEF Within
<1>2. P(0) = a._data /\ P(n) = Shifted(a, to, from, n)
  <2>1. P(0) = [i \in Range0(0, a._capacity) |-> a._data[i]]
    BY <1>1 DEF Partly, Shifted, Skipped, Range0, Within
  <2>2. P(n) = Shifted(a, to, from, n)
    BY <1>1 DEF Partly, Skipped, Within
  <2>3. QED
    BY <2>1, <2>2 DEF Sized, Block
<1>3. Put(a, P(0)) = a
  BY <1>2, PutBack, Zenon
<1>4. ASSUME NEW m \in 1 .. n
      PROVE  Put(a, P(m)) = MoveConstruct(Put(a, P(m - 1)), to + Nth(m, n, upwards),
                                          from + Nth(m, n, upwards))
  <2>1. PICK k : k = Nth(m, n, upwards)
    OBVIOUS
  <2>2. PICK p : p = P(m - 1)
    OBVIOUS
  <2>3. /\ p \in Block(a._capacity) /\ P(m) \in Block(a._capacity) /\ k \in 0 .. n - 1
        /\ to + k \in Range0(0, a._capacity) /\ from + k \in Range0(0, a._capacity)
        /\ p[from + k] = a._data[from + k]
        /\ p[to + k] = IF to + k \in Range0(from, from + n) THEN Moved ELSE a._data[to + k]
        /\ P(m) = Carried(p, a._capacity, to + k, from + k)
    BY <2>1, <2>2, PartlyIs
  <2>4. PICK b : b = Put(a, p)
    OBVIOUS
  <2>5. Sized(b) /\ b._data = p /\ b._capacity = a._capacity
    BY <2>3, <2>4, PutIs
  <2>6. b._data[from + k] # Raw /\ b._data[to + k] \notin Owners
    BY <2>3, <2>5, SlotKinds
  <2>7. MoveConstruct(b, to + k, from + k) = Put(b, P(m))
    BY <2>3, <2>5, <2>6, MoveConstructIs
  <2>8. Put(b, P(m)) = Put(a, P(m))
    BY <2>4, PutTwice, Zenon
  <2>9. QED
    BY <2>1, <2>2, <2>4, <2>7, <2>8, Zenon
<1> HIDE DEF P
<1>5. g = Round(g)
  <2>1. ASSUME NEW m \in 0 .. n
        PROVE  Put(a, P(m)) = IF m = 0 THEN a
                              ELSE MoveConstruct(g[m - 1], to + Nth(m, n, upwards),
                                                 from + Nth(m, n, upwards))
    <3>1. CASE m = 0
      BY <3>1, <1>3
    <3>2. CASE m # 0
      <4>1. m \in 1 .. n /\ m - 1 \in 0 .. n
        BY <1>1, <3>2
      <4>2. g[m - 1] = Put(a, P(m - 1))
        BY <4>1
      <4>3. QED
        BY <1>4, <3>2, <4>1, <4>2, Zenon
    <3>3. QED
      BY <3>1, <3>2
  <2>2. QED
    BY <2>1, Zenon
<1>6. moved = Round(moved)
  BY <1>5, Zenon
<1> HIDE DEF moved
<1>7. moved[n] = g[n]
  <2>1. moved[0] = g[0]
    BY <1>1, <1>3, <1>6
  <2>2. ASSUME NEW m \in 1 .. n, moved[m - 1] = g[m - 1] PROVE moved[m] = g[m]
    <3>1. m \in 0 .. n /\ m # 0
      BY <1>1
    <3>2. moved[m] = MoveConstruct(moved[m - 1], to + Nth(m, n, upwards),
                                   from + Nth(m, n, upwards))
      BY <1>6, <3>1, Zenon
    <3>3. g[m] = MoveConstruct(g[m - 1], to + Nth(m, n, upwards),
                               from + Nth(m, n, upwards))
      BY <1>5, <3>1, Zenon
    <3>4. QED
      BY <2>2, <3>2, <3>3, Zenon
  <2> HIDE DEF g
  <2>3. QED
    BY <1>1, <2>1, <2>2, Agree
<1>8. g[n] = Put(a, Shifted(a, to, from, n))
  BY <1>1, <1>2
<1>9. Shift(a, to, from, n, MoveConstruct, upwards) = moved[n]
  <2>1. ~ (n > 0 /\ Outside(a, Range0(to, to + n) \cup Range0(from, from + n)))
    BY DEF Outside, Within, Range0, Sized
  <2>2. QED
    BY <2>1, Zenon DEF Shift, moved
<1>10. QED
  BY <1>1, <1>7, <1>8, <1>9, Zenon

LEMMA ShiftByAssignment ==
  ASSUME NEW a, Sized(a), kind = "assignable", NEW to, NEW from, NEW n,
         Within(a, to, n), Within(a, from, n),
         NEW upwards \in BOOLEAN, IF upwards THEN to < from ELSE from < to,
         \A k \in 0 .. n - 1 :
           /\ a._data[from + k] # Raw
           /\ to + k \in Range0(from, from + n) \/ a._data[to + k] # Raw
  PROVE  /\ Shifted(a, to, from, n) \in Block(a._capacity)
         /\ Shift(a, to, from, n, MoveAssign, upwards) = Put(a, Shifted(a, to, from, n))
<1> DEFINE P(m) == Partly(a, to, from, n, upwards, m)
           Round(f) == [m \in 0 .. n |->
                          IF m = 0 THEN a
                          ELSE MoveAssign(f[m - 1], to + Nth(m, n, upwards),
                                             from + Nth(m, n, upwards))]
           moved == CHOOSE f : f = Round(f)
           g == [m \in 0 .. n |-> Put(a, P(m))]
<1>1. n \in Nat /\ Shifted(a, to, from, n) \in Block(a._capacity)
  BY ShiftedIs DEF Within
<1>2. P(0) = a._data /\ P(n) = Shifted(a, to, from, n)
  <2>1. P(0) = [i \in Range0(0, a._capacity) |-> a._data[i]]
    BY <1>1 DEF Partly, Shifted, Skipped, Range0, Within
  <2>2. P(n) = Shifted(a, to, from, n)
    BY <1>1 DEF Partly, Skipped, Within
  <2>3. QED
    BY <2>1, <2>2 DEF Sized, Block
<1>3. Put(a, P(0)) = a
  BY <1>2, PutBack, Zenon
<1>4. ASSUME NEW m \in 1 .. n
      PROVE  Put(a, P(m)) = MoveAssign(Put(a, P(m - 1)), to + Nth(m, n, upwards),
                                          from + Nth(m, n, upwards))
  <2>1. PICK k : k = Nth(m, n, upwards)
    OBVIOUS
  <2>2. PICK p : p = P(m - 1)
    OBVIOUS
  <2>3. /\ p \in Block(a._capacity) /\ P(m) \in Block(a._capacity) /\ k \in 0 .. n - 1
        /\ to + k \in Range0(0, a._capacity) /\ from + k \in Range0(0, a._capacity)
        /\ p[from + k] = a._data[from + k]
        /\ p[to + k] = IF to + k \in Range0(from, from + n) THEN Moved ELSE a._data[to + k]
        /\ P(m) = Carried(p, a._capacity, to + k, from + k)
    BY <2>1, <2>2, PartlyIs
  <2>4. PICK b : b = Put(a, p)
    OBVIOUS
  <2>5. Sized(b) /\ b._data = p /\ b._capacity = a._capacity
    BY <2>3, <2>4, PutIs
  <2>6. b._data[from + k] # Raw /\ b._data[to + k] # Raw
    BY <2>3, <2>5, SlotKinds
  <2>7. MoveAssign(b, to + k, from + k) = Put(b, P(m))
    BY <2>3, <2>5, <2>6, MoveAssignIs
  <2>8. Put(b, P(m)) = Put(a, P(m))
    BY <2>4, PutTwice, Zenon
  <2>9. QED
    BY <2>1, <2>2, <2>4, <2>7, <2>8, Zenon
<1> HIDE DEF P
<1>5. g = Round(g)
  <2>1. ASSUME NEW m \in 0 .. n
        PROVE  Put(a, P(m)) = IF m = 0 THEN a
                              ELSE MoveAssign(g[m - 1], to + Nth(m, n, upwards),
                                                 from + Nth(m, n, upwards))
    <3>1. CASE m = 0
      BY <3>1, <1>3
    <3>2. CASE m # 0
      <4>1. m \in 1 .. n /\ m - 1 \in 0 .. n
        BY <1>1, <3>2
      <4>2. g[m - 1] = Put(a, P(m - 1))
        BY <4>1
      <4>3. QED
        BY <1>4, <3>2, <4>1, <4>2, Zenon
    <3>3. QED
      BY <3>1, <3>2
  <2>2. QED
    BY <2>1, Zenon
<1>6. moved = Round(moved)
  BY <1>5, Zenon
<1> HIDE DEF moved
<1>7. moved[n] = g[n]
  <2>1. moved[0] = g[0]
    BY <1>1, <1>3, <1>6
  <2>2. ASSUME NEW m \in 1 .. n, moved[m - 1] = g[m - 1] PROVE moved[m] = g[m]
    <3>1. m \in 0 .. n /\ m # 0
      BY <1>1
    <3>2. moved[m] = MoveAssign(moved[m - 1], to + Nth(m, n, upwards),
                                   from + Nth(m, n, upwards))
      BY <1>6, <3>1, Zenon
    <3>3. g[m] = MoveAssign(g[m - 1], to + Nth(m, n, upwards),
                               from + Nth(m, n, upwards))
      BY <1>5, <3>1, Zenon
    <3>4. QED
      BY <2>2, <3>2, <3>3, Zenon
  <2> HIDE DEF g
  <2>3. QED
    BY <1>1, <2>1, <2>2, Agree
<1>8. g[n] = Put(a, Shifted(a, to, from, n))
  BY <1>1, <1>2
<1>9. Shift(a, to, from, n, MoveAssign, upwards) = moved[n]
  <2>1. ~ (n > 0 /\ Outside(a, Range0(to, to + n) \cup Range0(from, from + n)))
    BY DEF Outside, Within, Range0, Sized
  <2>2. ~trivial
    BY DEF trivial
  <2>3. QED
    BY <2>1, <2>2, Zenon DEF Shift, moved
<1>10. QED
  BY <1>1, <1>7, <1>8, <1>9, Zenon

(* What a shift leaves behind, for every type. *)
Landed(a, to, from, n) ==
  [i \in Range0(0, a._capacity) |->
     IF i \in Range0(to, to + n) THEN a._data[i - to + from]
     ELSE IF ~trivial /\ i \in Range0(from, from + n) THEN Moved ELSE a._data[i]]

LEMMA LandedIs ==
  ASSUME NEW a, Sized(a), NEW to, NEW from, NEW n, Within(a, to, n), Within(a, from, n)
  PROVE  /\ Landed(a, to, from, n) \in Block(a._capacity)
         /\ n = 0 => Landed(a, to, from, n) = a._data
         /\ ~trivial => Landed(a, to, from, n) = Shifted(a, to, from, n)
<1>1. a._data \in Block(a._capacity) /\ a._capacity \in Nat
  BY DEF Sized
<1>2. ASSUME NEW i \in Range0(to, to + n)
      PROVE  i - to + from \in Range0(0, a._capacity)
  BY <1>1 DEF Within, Range0
<1>3. Landed(a, to, from, n) \in Block(a._capacity)
  BY <1>1, <1>2, SlotKinds DEF Landed, Block
<1>4. n = 0 => Landed(a, to, from, n) = a._data
  <2>1. SUFFICES ASSUME n = 0 PROVE Landed(a, to, from, n) = a._data
    OBVIOUS
  <2>2. Range0(to, to + n) = {} /\ Range0(from, from + n) = {}
    BY <2>1 DEF Within, Range0
  <2>3. Landed(a, to, from, n) = [i \in Range0(0, a._capacity) |-> a._data[i]]
    BY <2>2 DEF Landed
  <2>4. QED
    BY <1>1, <2>3 DEF Block
<1>5. ~trivial => Landed(a, to, from, n) = Shifted(a, to, from, n)
  BY DEF Landed, Shifted
<1>6. QED
  BY <1>3, <1>4, <1>5

LEMMA TrivialShift ==
  ASSUME NEW a, Sized(a), NEW to, NEW from, NEW n, Within(a, to, n), Within(a, from, n),
         NEW upwards, trivial
  PROVE  /\ Shift(a, to, from, n, MoveConstruct, upwards) = Put(a, Landed(a, to, from, n))
         /\ Shift(a, to, from, n, MoveAssign, upwards) = Put(a, Landed(a, to, from, n))
<1> DEFINE e == [i \in DOMAIN a._data |->
                   IF i \in Range0(to, to + n) THEN a._data[i - to + from] ELSE a._data[i]]
<1>1. ~ (n > 0 /\ Outside(a, Range0(to, to + n) \cup Range0(from, from + n)))
  BY DEF Outside, Within, Range0, Sized
<1>2. e = Landed(a, to, from, n)
  <2>1. DOMAIN a._data = Range0(0, a._capacity)
    BY DEF Sized, Block
  <2>2. QED
    BY <2>1 DEF Landed
<1>3. [a EXCEPT !._data = e] = Put(a, e)
  BY PutExcept, Zenon
<1>4. /\ Shift(a, to, from, n, MoveConstruct, upwards) = [a EXCEPT !._data = e]
      /\ Shift(a, to, from, n, MoveAssign, upwards) = [a EXCEPT !._data = e]
  BY <1>1, Zenon DEF Shift
<1> HIDE DEF e
<1>5. QED
  BY <1>2, <1>3, <1>4, Zenon

LEMMA NoShift ==
  ASSUME NEW a, Sized(a), NEW to, NEW from, NEW upwards, Within(a, to, 0), Within(a, from, 0)
  PROVE  /\ Shift(a, to, from, 0, MoveConstruct, upwards) = Put(a, Landed(a, to, from, 0))
         /\ Shift(a, to, from, 0, MoveAssign, upwards) = Put(a, Landed(a, to, from, 0))
<1>1. CASE trivial
  BY <1>1, TrivialShift, Zenon
<1>2. CASE ~trivial
  <2> DEFINE Round1(f) == [m \in 0 .. 0 |->
                       IF m = 0 THEN a
                       ELSE MoveConstruct(f[m - 1], to + Nth(m, 0, upwards),
                                          from + Nth(m, 0, upwards))]
             Round2(f) == [m \in 0 .. 0 |->
                       IF m = 0 THEN a
                       ELSE MoveAssign(f[m - 1], to + Nth(m, 0, upwards),
                                       from + Nth(m, 0, upwards))]
             moved1 == CHOOSE f : f = Round1(f)
             moved2 == CHOOSE f : f = Round2(f)
             g == [m \in 0 .. 0 |-> a]
  <2>1. 0 \in 0 .. 0 /\ \A m \in 0 .. 0 : m = 0
    OBVIOUS
  <2>2. g = Round1(g) /\ g = Round2(g)
    BY <2>1, Zenon
  <2>3. moved1 = Round1(moved1) /\ moved2 = Round2(moved2)
    BY <2>2, Zenon
  <2> HIDE DEF moved1, moved2
  <2>4. moved1[0] = a /\ moved2[0] = a
    BY <2>1, <2>3, Zenon
  <2>5. ~ (0 > 0)
    OBVIOUS
  <2>6. /\ Shift(a, to, from, 0, MoveConstruct, upwards) = moved1[0]
        /\ Shift(a, to, from, 0, MoveAssign, upwards) = moved2[0]
    BY <1>2, <2>5, Zenon DEF Shift, moved1, moved2
  <2>7. Put(a, Landed(a, to, from, 0)) = a
    BY LandedIs, PutBack, Zenon
  <2>8. QED
    BY <2>4, <2>6, <2>7, Zenon
<1>3. QED
  BY <1>1, <1>2, Zenon

LEMMA MoveDataIs ==
  ASSUME NEW a, Sized(a), NEW to, NEW from, NEW n, Within(a, to, n), Within(a, from, n),
         trivial \/ n = 0 \/ (kind = "assignable" /\ (to + n <= from \/ from < to)),
         ~trivial => \A k \in 0 .. n - 1 : a._data[from + k] # Raw /\ a._data[to + k] # Raw
  PROVE  /\ Landed(a, to, from, n) \in Block(a._capacity)
         /\ MoveData(a, to, from, n) = Put(a, Landed(a, to, from, n))
<1>1. Landed(a, to, from, n) \in Block(a._capacity)
  BY LandedIs
<1>2. PICK upwards \in BOOLEAN :
        /\ MoveData(a, to, from, n) = Shift(a, to, from, n, MoveAssign, upwards)
        /\ upwards <=> to + n <= from
  <2>1. CASE to + n <= from
    <3>1. (to + n <= from) = TRUE
      BY <2>1
    <3>2. MoveData(a, to, from, n) = Shift(a, to, from, n, MoveAssign, TRUE)
      BY <3>1, Zenon DEF MoveData
    <3>3. QED
      BY <2>1, <3>2, Zenon
  <2>2. CASE ~ (to + n <= from)
    <3>1. (to + n <= from) = FALSE
      BY <2>2
    <3>2. MoveData(a, to, from, n) = Shift(a, to, from, n, MoveAssign, FALSE)
      BY <3>1, Zenon DEF MoveData
    <3>3. QED
      BY <2>2, <3>2, Zenon
  <2>3. QED
    BY <2>1, <2>2, Zenon
<1>3. CASE trivial
  BY <1>1, <1>2, <1>3, TrivialShift, Zenon
<1>4. CASE n = 0
  BY <1>1, <1>2, <1>4, NoShift, Zenon
<1>5. CASE ~trivial /\ n # 0
  <2>1. IF upwards THEN to < from ELSE from < to
    BY ONLY <1>2, <1>5, Within(a, to, n), Within(a, from, n),
       trivial \/ n = 0 \/ (kind = "assignable" /\ (to + n <= from \/ from < to)) DEF Within
  <2>2. Shift(a, to, from, n, MoveAssign, upwards) = Put(a, Shifted(a, to, from, n))
    <3>1. kind = "assignable" /\ \A k \in 0 .. n - 1 :
            /\ a._data[from + k] # Raw
            /\ to + k \in Range0(from, from + n) \/ a._data[to + k] # Raw
      BY <1>5
    <3>2. QED
      BY <2>1, <3>1, ShiftByAssignment, Zenon
  <2>3. QED
    BY <1>1, <1>2, <1>5, <2>2, LandedIs, Zenon
<1>6. QED
  BY <1>3, <1>4, <1>5

LEMMA MoveDataUninitIs ==
  ASSUME NEW a, Sized(a), NEW to, NEW from, NEW n, Within(a, to, n), Within(a, from, n),
         from < to,
         ~trivial => \A k \in 0 .. n - 1 :
                       /\ a._data[from + k] # Raw
                       /\ to + k \in Range0(from, from + n) \/ a._data[to + k] \notin Owners
  PROVE  /\ Landed(a, to, from, n) \in Block(a._capacity)
         /\ MoveDataUninit(a, to, from, n) = Put(a, Landed(a, to, from, n))
<1>1. Landed(a, to, from, n) \in Block(a._capacity)
  BY LandedIs
<1>2. (to + n < from) = FALSE
  BY DEF Within
<1>3. MoveDataUninit(a, to, from, n) = Shift(a, to, from, n, MoveConstruct, FALSE)
  BY <1>2, Zenon DEF MoveDataUninit
<1>4. CASE trivial
  BY <1>1, <1>3, <1>4, TrivialShift, Zenon
<1>5. CASE ~trivial
  <2>1. Shift(a, to, from, n, MoveConstruct, FALSE) = Put(a, Shifted(a, to, from, n))
    BY <1>5, ShiftByConstruction
  <2>2. QED
    BY <1>1, <1>3, <1>5, <2>1, LandedIs, Zenon
<1>6. QED
  BY <1>4, <1>5

-----------------------------------------------------------------------------
(* What holds of the array between the calls of a client that keeps to the *)
(* sound ones: every element is an object, and nothing else owns anything. *)

Tidy(a) ==
  \A i \in Range0(0, a._capacity) :
    IF i < a._length THEN a._data[i] # Raw ELSE a._data[i] \in {Raw, Moved}
Whole(a) == Sized(a) /\ (~trivial => Tidy(a))

LEMMA SizedIs ==
  ASSUME NEW a, Sized(a)
  PROVE  /\ a._length \in Nat /\ a._capacity \in Nat /\ a._length <= a._capacity
         /\ a._data \in Block(a._capacity) /\ DOMAIN a._data = Range0(0, a._capacity)
         /\ \A i \in Range0(0, a._capacity) : a._data[i] \in Slots
         /\ a.null \in BOOLEAN /\ (a.null <=> a._capacity = 0) /\ a.fault = FALSE
BY DEF Sized, Block

LEMMA EmptyIs == Whole(Empty)
<1>1. Range0(0, 0) = {} /\ \A x : x \notin Range0(0, 0)
  BY DEF Range0
<1>2. Sized(Empty)
  <2>1. <<>> = [i \in 1 .. 0 |-> Raw] /\ 1 .. 0 = {}
    OBVIOUS
  <2>2. <<>> \in Block(0)
    BY <1>1, <2>1 DEF Block
  <2>3. PICK d \in Block(0) : d = <<>>
    BY <2>2
  <2>4. Empty = Fields(0, 0, d, TRUE, FALSE)
    BY <2>3, Zenon DEF Empty, Fields
  <2>5. PICK e : e = Fields(0, 0, d, TRUE, FALSE)
    OBVIOUS
  <2>6. e._length = 0 /\ e._capacity = 0 /\ e._data = d /\ e.null = TRUE /\ e.fault = FALSE
    BY <2>5 DEF Fields
  <2>7. Sized(e)
    <3>1. e = Fields(e._length, e._capacity, e._data, e.null, e.fault)
      BY <2>5, <2>6
    <3>2. e._length \in Nat /\ e._capacity \in Nat /\ e._length <= e._capacity
      BY <2>6
    <3>3. e._data \in Block(e._capacity)
      BY <2>6
    <3>4. e.null \in BOOLEAN /\ (e.null <=> e._capacity = 0) /\ e.fault = FALSE
      BY <2>6
    <3>5. QED
      BY <3>1, <3>2, <3>3, <3>4, Zenon DEF Sized
  <2>8. QED
    BY <2>4, <2>5, <2>7, Zenon
<1>3. Tidy(Empty)
  BY <1>1 DEF Tidy, Empty
<1>4. QED
  BY <1>2, <1>3 DEF Whole

(* Destroying, for every type. *)
Destroyed(a, I) == IF trivial THEN a._data ELSE Filled(a, I, Raw)

LEMMA DestroyAny ==
  ASSUME NEW a, Sized(a), NEW I, I \subseteq Range0(0, a._capacity),
         ~trivial => \A i \in I : a._data[i] # Raw
  PROVE  /\ Destroyed(a, I) \in Block(a._capacity)
         /\ Destroy(a, I) = Put(a, Destroyed(a, I))
<1>1. CASE trivial
  <2>1. Destroyed(a, I) = a._data /\ Destroy(a, I) = a
    BY <1>1, Zenon DEF Destroyed, Destroy
  <2>2. QED
    BY <2>1, PutBack, SizedIs, Zenon
<1>2. CASE ~trivial
  <2>1. Destroyed(a, I) = Filled(a, I, Raw)
    BY <1>2, Zenon DEF Destroyed
  <2>2. QED
    BY <1>2, <2>1, DestroyIs, Zenon
<1>3. QED
  BY <1>1, <1>2, Zenon

LEMMA ClearIs ==
  ASSUME NEW a, Sized(a),
         ~trivial => \A i \in Range0(0, a._capacity) :
                       IF i < a._length THEN a._data[i] # Raw ELSE a._data[i] \notin Owners
  PROVE  Clear(a) = Empty
<1>1. PICK I : I = Range0(0, a._length)
  OBVIOUS
<1>2. PICK d : d = Destroyed(a, I)
  OBVIOUS
<1>3. PICK b : b = Put(a, d)
  OBVIOUS
<1>4. a._length \in Nat /\ a._capacity \in Nat /\ a._length <= a._capacity
  BY SizedIs
<1>5. \A i \in Range0(0, a._capacity) : i \in I <=> i < a._length
  BY ONLY <1>1, <1>4 DEF Range0
<1>6. I \subseteq Range0(0, a._capacity)
  BY ONLY <1>1, <1>4 DEF Range0
<1>7. ~trivial => \A i \in I : a._data[i] # Raw
  BY <1>5, <1>6
<1>8. d \in Block(a._capacity) /\ Destroy(a, I) = b
  BY <1>2, <1>3, <1>6, <1>7, DestroyAny, Zenon
<1>9. Sized(b) /\ b._data = d /\ b._capacity = a._capacity
  <2>1. d \in Block(a._capacity)
    BY <1>8
  <2>2. Sized(Put(a, d))
    BY <2>1, PutIs, Zenon
  <2>3. Put(a, d)._data = d /\ Put(a, d)._capacity = a._capacity
    BY <2>1, PutIs, Zenon
  <2>4. QED
    BY <1>3, <2>2, <2>3, Zenon
<1>10. b.fault = FALSE /\ (b.null <=> b._capacity = 0) /\ DOMAIN b._data = Range0(0, a._capacity)
  BY <1>9, SizedIs
<1>11. (~trivial /\ \E i \in DOMAIN b._data : b._data[i] \in Owners) = FALSE
  <2>1. SUFFICES ASSUME ~trivial, NEW i \in Range0(0, a._capacity)
                 PROVE  b._data[i] \notin Owners
    BY <1>10
  <2>2. b._data[i] = IF i \in I THEN Raw ELSE a._data[i]
    BY <1>2, <1>9, <2>1 DEF Destroyed, Filled
  <2>3. QED
    BY <1>5, <2>1, <2>2, SlotKinds
<1>12. (b._capacity = 0 /\ ~b.null) = FALSE
  BY <1>10
<1>13. Clear(a) = [Empty EXCEPT !.fault = b.fault \/ FALSE \/ FALSE]
  BY <1>1, <1>8, <1>11, <1>12, Zenon DEF Clear
<1>14. QED
  BY <1>10, <1>13 DEF Empty

-----------------------------------------------------------------------------
(* Another block. *)

Relocated(a, n, length, capacity, rest) ==
  [i \in Range0(0, capacity) |->
     IF i < n THEN a._data[i] ELSE IF i < length THEN rest ELSE Raw]

LEMMA RelocateIs ==
  ASSUME NEW a, Whole(a), NEW n \in 0 .. a._capacity, trivial \/ n = a._length,
         NEW length, NEW capacity \in Nat \ {0}, NEW rest \in Slots
  PROVE  /\ Relocated(a, n, length, capacity, rest) \in Block(capacity)
         /\ Relocate(a, n, length, capacity, rest)
              = Fields(length, capacity, Relocated(a, n, length, capacity, rest), FALSE, FALSE)
<1> DEFINE e == [i \in DOMAIN a._data |-> IF i < n THEN Moved ELSE a._data[i]]
<1>1. Sized(a) /\ a._capacity \in Nat /\ DOMAIN a._data = Range0(0, a._capacity)
  BY SizedIs DEF Whole
<1>2. Relocated(a, n, length, capacity, rest) \in Block(capacity)
  <2>1. ASSUME NEW i \in Range0(0, capacity), i < n PROVE a._data[i] \in Slots
    <3>1. i \in Range0(0, a._capacity)
      BY <1>1, <2>1 DEF Range0
    <3>2. QED
      BY <1>1, <3>1, SizedIs
  <2>2. QED
    BY <2>1, SlotKinds DEF Relocated, Block
<1>3. CASE trivial
  <2>1. (a.fault \/ (~trivial /\ \E i \in Range0(0, n) : a._data[i] = Raw)
         \/ (~trivial /\ Clear([a EXCEPT !._data = e]).fault)) = FALSE
    BY <1>1, <1>3, SizedIs, Zenon
  <2>2. QED
    BY <1>2, <2>1, Zenon DEF Relocate, Fields, Relocated
<1>4. CASE ~trivial
  <2>1. n = a._length /\ Tidy(a)
    BY <1>4 DEF Whole
  <2>2. e \in Block(a._capacity)
    BY <1>1, SizedIs, SlotKinds DEF Block
  <2>3. PICK b : b = Put(a, e)
    OBVIOUS
  <2>4. Sized(b) /\ b._data = e /\ b._length = n /\ b._capacity = a._capacity
    BY <1>1, <2>1, <2>2, <2>3, PutIs
  <2>5. \A i \in Range0(0, b._capacity) :
          IF i < b._length THEN b._data[i] # Raw ELSE b._data[i] \notin Owners
    BY <1>1, <2>1, <2>4, SlotKinds DEF Tidy
  <2>6. Clear(b) = Empty
    BY <2>4, <2>5, ClearIs, Zenon
  <2>7. [a EXCEPT !._data = e] = b
    BY <1>1, <2>3, PutExcept, Zenon
  <2>8. ~ \E i \in Range0(0, n) : a._data[i] = Raw
    BY <1>1, <2>1 DEF Tidy, Range0
  <2>9. Clear([a EXCEPT !._data = e]).fault = FALSE
    BY <2>6, <2>7 DEF Empty
  <2>10. (a.fault \/ (~trivial /\ \E i \in Range0(0, n) : a._data[i] = Raw)
          \/ (~trivial /\ Clear([a EXCEPT !._data = e]).fault)) = FALSE
    BY <1>1, <2>8, <2>9, SizedIs, Zenon
  <2>11. QED
    BY <1>2, <2>10, Zenon DEF Relocate, Fields, Relocated
<1>5. QED
  BY <1>3, <1>4

LEMMA GrownCapacityIs ==
  ASSUME NEW length \in Nat, NEW old \in Nat
  PROVE  /\ GrownCapacity(length, old) \in Nat /\ GrownCapacity(length, old) >= length
BY DEF GrownCapacity

-----------------------------------------------------------------------------
(* Insertion: the block is large enough, a gap is opened in it, and filled. *)

LEMMA WholeIs ==
  ASSUME NEW a, Whole(a)
  PROVE  /\ Sized(a) /\ a._length \in Nat /\ a._capacity \in Nat /\ a._length <= a._capacity
         /\ \A i \in Range0(0, a._length) : i \in Range0(0, a._capacity)
         /\ ~trivial => /\ \A i \in Range0(0, a._length) : a._data[i] # Raw
                        /\ \A i \in Range0(a._length, a._capacity) : a._data[i] \in {Raw, Moved}
<1>1. Sized(a) /\ a._length \in Nat /\ a._capacity \in Nat /\ a._length <= a._capacity
  BY SizedIs DEF Whole
<1>2. \A i \in Range0(0, a._length) : i \in Range0(0, a._capacity) /\ i < a._length
  BY <1>1 DEF Range0
<1>3. \A i \in Range0(a._length, a._capacity) : i \in Range0(0, a._capacity) /\ ~ (i < a._length)
  BY <1>1 DEF Range0
<1>4. QED
  BY <1>1, <1>2, <1>3 DEF Whole, Tidy

LEMMA MakeWhole ==
  ASSUME NEW a, Sized(a),
         ~trivial => /\ \A i \in Range0(0, a._length) : a._data[i] # Raw
                     /\ \A i \in Range0(a._length, a._capacity) : a._data[i] \in {Raw, Moved}
  PROVE  Whole(a)
<1>1. a._length \in Nat /\ a._capacity \in Nat /\ a._length <= a._capacity
  BY SizedIs
<1>2. \A i \in Range0(0, a._capacity) :
        IF i < a._length THEN i \in Range0(0, a._length)
        ELSE i \in Range0(a._length, a._capacity)
  BY <1>1 DEF Range0
<1>3. QED
  BY <1>2 DEF Whole, Tidy

LEMMA GrowIs ==
  ASSUME NEW a, Whole(a), NEW length \in Nat, length > a._length, NEW capacity \in Nat,
         length <= capacity, NEW construct \in BOOLEAN
  PROVE  \E g :
           /\ Grow(a, length, capacity, construct) = g
           /\ Sized(g) /\ g._length = length /\ g._capacity = capacity
           /\ \A i \in Range0(0, a._length) : g._data[i] = a._data[i]
           /\ ~trivial =>
                /\ \A i \in Range0(a._length, length) :
                     IF construct THEN g._data[i] = Blank ELSE g._data[i] \notin Owners
                /\ \A i \in Range0(length, capacity) : g._data[i] = Raw
<1>1. /\ Sized(a) /\ a._length \in Nat /\ a._capacity \in Nat /\ a._length <= a._capacity
      /\ capacity \in Nat \ {0} /\ a._length \in 0 .. a._capacity
  BY WholeIs
<1>2. PICK rest : rest = IF construct /\ ~trivial THEN Blank ELSE Raw
  OBVIOUS
<1>3. /\ rest \in Slots /\ (construct /\ ~trivial => rest = Blank)
      /\ ~construct => rest \notin Owners
  BY <1>2, SlotKinds
<1>4. PICK d : d = Relocated(a, a._length, length, capacity, rest)
  OBVIOUS
<1>5. PICK g : g = Fields(length, capacity, d, FALSE, FALSE)
  OBVIOUS
<1>6. /\ d \in Block(capacity)
      /\ Relocate(a, a._length, length, capacity, rest) = g
  BY <1>1, <1>3, <1>4, <1>5, RelocateIs, Zenon
<1>7. g._length = length /\ g._capacity = capacity /\ g._data = d /\ g.null = FALSE /\ g.fault = FALSE
  BY <1>5 DEF Fields
<1>8. Sized(g)
  BY <1>1, <1>5, <1>6, <1>7 DEF Sized
<1>9. Grow(a, length, capacity, construct) = g
  BY <1>2, <1>6, Zenon DEF Grow
<1>10. \A i \in Range0(0, capacity) :
         d[i] = IF i < a._length THEN a._data[i] ELSE IF i < length THEN rest ELSE Raw
  BY <1>4 DEF Relocated
<1>11. \A i \in Range0(0, a._length) : i \in Range0(0, capacity) /\ i < a._length
  BY <1>1 DEF Range0
<1>12. \A i \in Range0(a._length, length) :
         i \in Range0(0, capacity) /\ ~ (i < a._length) /\ i < length
  BY <1>1 DEF Range0
<1>13. \A i \in Range0(length, capacity) :
         i \in Range0(0, capacity) /\ ~ (i < a._length) /\ ~ (i < length)
  BY <1>1 DEF Range0
<1>14. QED
  BY <1>3, <1>7, <1>8, <1>9, <1>10, <1>11, <1>12, <1>13

LEMMA GrownIs ==
  ASSUME Whole(array), NEW n \in Nat, n > array._length, NEW construct \in BOOLEAN
  PROVE  \E g :
           /\ Grown(n, construct) = g
           /\ Sized(g) /\ g._length <= n /\ n <= g._capacity
           /\ \A i \in Range0(0, array._length) : g._data[i] = array._data[i]
           /\ ~trivial => /\ ~construct \/ Fits(n) =>
                               \A i \in Range0(array._length, n) : g._data[i] \notin Owners
                          /\ \A i \in Range0(n, g._capacity) : g._data[i] \in {Raw, Moved}
           /\ ~Fits(n) =>
                /\ g._length = n
                /\ construct /\ ~trivial =>
                     \A i \in Range0(array._length, n) : g._data[i] = Blank
<1>1. Sized(array) /\ array._length \in Nat /\ array._capacity \in Nat
  BY WholeIs
<1>2. CASE Fits(n)
  <2>1. Grown(n, construct) = array
    BY <1>2, Zenon DEF Grown
  <2>2. n <= array._capacity
    BY <1>2 DEF Fits
  <2>3. /\ \A i \in Range0(array._length, n) : i \in Range0(array._length, array._capacity)
        /\ \A i \in Range0(n, array._capacity) : i \in Range0(array._length, array._capacity)
    BY <1>1, <2>2 DEF Range0
  <2>4. ~trivial => /\ \A i \in Range0(array._length, n) : array._data[i] \notin Owners
                    /\ \A i \in Range0(n, array._capacity) : array._data[i] \in {Raw, Moved}
    BY <2>3, WholeIs, SlotKinds
  <2>5. array._length <= n
    BY <1>1
  <2>6. QED
    BY <1>1, <1>2, <2>1, <2>2, <2>4, <2>5, Zenon
<1>3. CASE ~Fits(n)
  <2>1. PICK c : c = GrownCapacity(n, array._capacity)
    OBVIOUS
  <2>2. c \in Nat /\ n <= c
    BY <1>1, <2>1, GrownCapacityIs
  <2>3. Grown(n, construct) = Grow(array, n, c, construct)
    BY <1>3, <2>1, Zenon DEF Grown
  <2>4. PICK g :
           /\ Grow(array, n, c, construct) = g
           /\ Sized(g) /\ g._length = n /\ g._capacity = c
           /\ \A i \in Range0(0, array._length) : g._data[i] = array._data[i]
           /\ ~trivial =>
                /\ \A i \in Range0(array._length, n) :
                     IF construct THEN g._data[i] = Blank ELSE g._data[i] \notin Owners
                /\ \A i \in Range0(n, c) : g._data[i] = Raw
    BY <2>2, GrowIs
  <2>5. g._length <= n /\ n <= g._capacity
    BY <2>2, <2>4
  <2>6. ~trivial => /\ ~construct => \A i \in Range0(array._length, n) : g._data[i] \notin Owners
                    /\ \A i \in Range0(n, g._capacity) : g._data[i] \in {Raw, Moved}
    BY <2>4
  <2>7. construct /\ ~trivial => \A i \in Range0(array._length, n) : g._data[i] = Blank
    BY <2>4
  <2>8. QED
    BY <1>3, <2>3, <2>4, <2>5, <2>6, <2>7, Zenon
<1>4. QED
  BY <1>2, <1>3, Zenon

(* What a gap of n slots at index leaves of the elements. *)
Opened(o, index, n) ==
  /\ Sized(o) /\ o._length = array._length + n
  /\ \A i \in Range0(0, index) : o._data[i] = array._data[i]
  /\ \A i \in Range0(index + n, array._length + n) : o._data[i] = array._data[i - n]

LEMMA OpenGapIs ==
  ASSUME Whole(array), NEW index \in 0 .. array._length, NEW n \in Nat, n > 0,
         NEW construct \in BOOLEAN, trivial \/ ~construct \/ Fits(array._length + n)
  PROVE  \E o :
           /\ OpenGap(index, n, construct) = o /\ Opened(o, index, n)
           /\ ~trivial =>
                /\ \A i \in Range0(index, index + n) :
                     IF construct THEN o._data[i] = Blank ELSE o._data[i] \notin Owners
                /\ \A i \in Range0(o._length, o._capacity) : o._data[i] \in {Raw, Moved}
<1> DEFINE old == array._length
<1>1. /\ old \in Nat /\ index \in Nat /\ index <= old /\ old + n \in Nat /\ old + n > old
      /\ ~trivial => \A i \in Range0(0, old) : array._data[i] # Raw
  BY WholeIs
<1>2. PICK g :
        /\ Grown(old + n, construct) = g
        /\ Sized(g) /\ g._length <= old + n /\ old + n <= g._capacity
        /\ \A i \in Range0(0, old) : g._data[i] = array._data[i]
        /\ ~trivial => /\ \A i \in Range0(old, old + n) : g._data[i] \notin Owners
                       /\ \A i \in Range0(old + n, g._capacity) : g._data[i] \in {Raw, Moved}
        /\ ~Fits(old + n) =>
             /\ g._length = old + n
             /\ construct /\ ~trivial => \A i \in Range0(old, old + n) : g._data[i] = Blank
  <2>1. PICK N \in Nat : N = old + n
    BY <1>1
  <2>2. PICK g :
          /\ Grown(N, construct) = g
          /\ Sized(g) /\ g._length <= N /\ N <= g._capacity
          /\ \A i \in Range0(0, old) : g._data[i] = array._data[i]
          /\ ~trivial => /\ ~construct \/ Fits(N) =>
                              \A i \in Range0(old, N) : g._data[i] \notin Owners
                         /\ \A i \in Range0(N, g._capacity) : g._data[i] \in {Raw, Moved}
          /\ ~Fits(N) =>
               /\ g._length = N
               /\ construct /\ ~trivial => \A i \in Range0(old, N) : g._data[i] = Blank
    BY <1>1, <2>1, GrownIs
  <2>3. QED
    BY <2>1, <2>2, Zenon
<1>3. /\ Within(g, index + n, old - index) /\ Within(g, index, old - index)
      /\ index < index + n /\ g._capacity \in Nat
  <2>1. g._capacity \in Nat
    BY <1>2, SizedIs
  <2>2. QED
    BY ONLY <1>1, <1>2, <2>1, n > 0, n \in Nat DEF Within
<1>4. ~trivial => \A k \in 0 .. old - index - 1 :
        /\ g._data[index + k] # Raw
        /\ \/ index + n + k \in Range0(index, index + (old - index))
           \/ g._data[index + n + k] \notin Owners
  <2>1. ASSUME NEW k \in 0 .. old - index - 1
        PROVE  /\ index + k \in Range0(0, old)
               /\ \/ index + n + k \in Range0(index, index + (old - index))
                  \/ index + n + k \in Range0(old, old + n)
    BY <1>1 DEF Range0
  <2>2. QED
    BY <1>1, <1>2, <2>1
<1>5. PICK d : d = Landed(g, index + n, index, old - index)
  OBVIOUS
<1>6. PICK s : s = Put(g, d)
  OBVIOUS
<1>7. /\ d \in Block(g._capacity)
      /\ MoveDataUninit(g, index + n, index, old - index) = s
  BY <1>2, <1>3, <1>4, <1>5, <1>6, MoveDataUninitIs, Zenon
<1>8. Sized(s) /\ s._data = d /\ s._capacity = g._capacity
  <2>1. Sized(g) /\ d \in Block(g._capacity)
    BY <1>2, <1>7
  <2>2. QED
    BY <1>6, <2>1, PutNamed
<1>9. \A i \in Range0(0, g._capacity) :
        d[i] = IF i \in Range0(index + n, index + n + (old - index))
               THEN g._data[i - (index + n) + index]
               ELSE IF ~trivial /\ i \in Range0(index, index + (old - index)) THEN Moved
               ELSE g._data[i]
  BY <1>5 DEF Landed
<1>10. ASSUME NEW i \in Range0(0, index)
       PROVE  i \in Range0(0, s._capacity) /\ i \notin Range0(index, index + n) /\ d[i] = array._data[i]
  <2>1. /\ i \in Range0(0, g._capacity) /\ i \in Range0(0, old) /\ i \notin Range0(index, index + n)
        /\ i \notin Range0(index + n, index + n + (old - index))
        /\ i \notin Range0(index, index + (old - index))
    BY <1>1, <1>2, <1>3 DEF Range0
  <2>2. QED
    BY <1>2, <1>8, <1>9, <2>1
<1>11. ASSUME NEW i \in Range0(index + n, old + n)
       PROVE  /\ i \in Range0(0, s._capacity) /\ i \notin Range0(index, index + n)
              /\ d[i] = array._data[i - n]
  <2>1. /\ i \in Range0(0, g._capacity) /\ i - n \in Range0(0, old)
        /\ i \notin Range0(index, index + n)
        /\ i \in Range0(index + n, index + n + (old - index))
        /\ i - (index + n) + index = i - n
    BY <1>1, <1>2, <1>3 DEF Range0
  <2>2. QED
    BY <1>2, <1>8, <1>9, <2>1
<1>12. ASSUME ~trivial, NEW i \in Range0(index, index + n)
       PROVE  i \in Range0(0, s._capacity) /\ d[i] \notin Owners
  <2>1. /\ i \in Range0(0, g._capacity)
        /\ i \notin Range0(index + n, index + n + (old - index))
        /\ i \in Range0(index, index + (old - index)) \/ i \in Range0(old, old + n)
    BY <1>1, <1>2, <1>3 DEF Range0
  <2>2. QED
    BY <1>2, <1>8, <1>9, <1>12, <2>1, SlotKinds
<1>13. ASSUME ~trivial, NEW i \in Range0(old + n, s._capacity)
       PROVE  /\ i \in Range0(0, s._capacity) /\ i \notin Range0(index, index + n)
              /\ d[i] \in {Raw, Moved}
  <2>1. /\ i \in Range0(0, g._capacity) /\ i \in Range0(old + n, g._capacity)
        /\ i \notin Range0(index, index + n)
        /\ i \notin Range0(index + n, index + n + (old - index))
        /\ i \notin Range0(index, index + (old - index))
    BY <1>1, <1>2, <1>3, <1>8 DEF Range0
  <2>2. QED
    BY <1>2, <1>8, <1>9, <1>13, <2>1
<1>14. PICK b :
         /\ b = IF construct /\ ~trivial
                THEN Construct(s, Range0(index, index + n), Blank) ELSE s
         /\ Sized(b) /\ b._capacity = s._capacity
         /\ \A i \in Range0(0, s._capacity) :
              b._data[i] = IF construct /\ ~trivial /\ i \in Range0(index, index + n)
                           THEN Blank ELSE d[i]
  <2>1. CASE construct /\ ~trivial
    <3>1. /\ Range0(index, index + n) \subseteq Range0(0, s._capacity)
          /\ \A i \in Range0(index, index + n) : s._data[i] \notin Owners
      BY <1>8, <1>12, <2>1
    <3>2. PICK e : e = Filled(s, Range0(index, index + n), Blank)
      OBVIOUS
    <3>3. /\ e \in Block(s._capacity)
          /\ Construct(s, Range0(index, index + n), Blank) = Put(s, e)
      BY <1>8, <3>1, <3>2, SlotKinds, ConstructIs
    <3>4. Sized(Put(s, e)) /\ Put(s, e)._data = e /\ Put(s, e)._capacity = s._capacity
      BY <1>8, <3>3, PutIs
    <3>5. \A i \in Range0(0, s._capacity) :
            e[i] = IF i \in Range0(index, index + n) THEN Blank ELSE d[i]
      BY <1>8, <3>2 DEF Filled
    <3>6. QED
      BY <2>1, <3>3, <3>4, <3>5, Zenon
  <2>2. CASE ~ (construct /\ ~trivial)
    BY <1>8, <2>2, Zenon
  <2>3. QED
    BY <2>1, <2>2
<1>15. old + n \in 0 .. b._capacity
  BY <1>1, <1>2, <1>3, <1>8, <1>14
<1>16. PICK o : o = Cut(b, old + n)
  OBVIOUS
<1>17. /\ Sized(o) /\ o._length = old + n /\ o._data = b._data /\ o._capacity = s._capacity
  BY <1>14, <1>15, <1>16, CutIs
<1>18. OpenGap(index, n, construct) = o
  <2>1. OpenGap(index, n, construct) = [b EXCEPT !._length = old + n]
    BY <1>2, <1>7, <1>14, Zenon DEF OpenGap
  <2>2. QED
    BY <1>14, <1>16, <2>1, CutExcept, Zenon
<1>19. Opened(o, index, n)
  BY <1>10, <1>11, <1>14, <1>17 DEF Opened
<1>20. ASSUME ~trivial
       PROVE  /\ \A i \in Range0(index, index + n) :
                   IF construct THEN o._data[i] = Blank ELSE o._data[i] \notin Owners
              /\ \A i \in Range0(o._length, o._capacity) : o._data[i] \in {Raw, Moved}
  BY <1>12, <1>13, <1>14, <1>17, <1>20, SlotKinds
<1>21. QED
  BY <1>18, <1>19, <1>20, Zenon

LEMMA InsertedIs ==
  ASSUME Whole(array), NEW index \in 0 .. array._length, NEW value \in Values
  PROVE  \E b :
           /\ Construct(OpenGap(index, 1, FALSE), {index}, value) = b
           /\ Whole(b) /\ Opened(b, index, 1) /\ b._data[index] = value
<1>1. PICK o :
        /\ OpenGap(index, 1, FALSE) = o /\ Opened(o, index, 1)
        /\ ~trivial =>
             /\ \A i \in Range0(index, index + 1) : o._data[i] \notin Owners
             /\ \A i \in Range0(o._length, o._capacity) : o._data[i] \in {Raw, Moved}
  <2>1. PICK construct \in BOOLEAN : construct = FALSE
    OBVIOUS
  <2>2. trivial \/ ~construct \/ Fits(array._length + 1)
    BY <2>1
  <2>3. PICK o :
          /\ OpenGap(index, 1, construct) = o /\ Opened(o, index, 1)
          /\ ~trivial =>
               /\ \A i \in Range0(index, index + 1) :
                    IF construct THEN o._data[i] = Blank ELSE o._data[i] \notin Owners
               /\ \A i \in Range0(o._length, o._capacity) : o._data[i] \in {Raw, Moved}
    BY <2>2, OpenGapIs
  <2>4. QED
    BY <2>1, <2>3, Zenon
<1>2. /\ Sized(o) /\ o._length = array._length + 1 /\ o._length <= o._capacity
      /\ array._length \in Nat /\ index \in Nat /\ index <= array._length /\ o._capacity \in Nat
      /\ ~trivial => \A i \in Range0(0, array._length) : array._data[i] # Raw
  <2>1. Sized(o) /\ o._length = array._length + 1
    BY <1>1 DEF Opened
  <2>2. o._length <= o._capacity /\ o._capacity \in Nat
    BY <2>1, SizedIs
  <2>3. QED
    BY <2>1, <2>2, WholeIs
<1>3. /\ {index} \subseteq Range0(0, o._capacity) /\ Range0(index, index + 1) = {index}
      /\ index \in Range0(0, o._capacity)
  BY ONLY <1>2 DEF Range0
<1>4. PICK d : d = Filled(o, {index}, value)
  OBVIOUS
<1>5. PICK b : b = Put(o, d)
  OBVIOUS
<1>6. d \in Block(o._capacity) /\ Construct(o, {index}, value) = b
  <2>1. ~trivial => \A i \in {index} : o._data[i] \notin Owners
    BY <1>1, <1>3
  <2>2. value \in Slots
    BY SlotKinds
  <2>3. QED
    BY <1>2, <1>3, <1>4, <1>5, <2>1, <2>2, ConstructIs, Zenon
<1>7. Sized(b) /\ b._data = d /\ b._length = o._length /\ b._capacity = o._capacity
  BY <1>2, <1>5, <1>6, PutNamed
<1>8. \A i \in Range0(0, o._capacity) : d[i] = IF i = index THEN value ELSE o._data[i]
  BY <1>4 DEF Filled
<1>9. ASSUME NEW i \in Range0(0, index)
      PROVE  /\ i \in Range0(0, o._capacity) /\ i # index /\ i \in Range0(0, array._length)
             /\ b._data[i] = array._data[i]
  <2>1. i \in Range0(0, o._capacity) /\ i # index /\ i \in Range0(0, array._length)
    BY <1>2 DEF Range0
  <2>2. QED
    BY <1>1, <1>7, <1>8, <2>1 DEF Opened
<1>10. ASSUME NEW i \in Range0(index + 1, array._length + 1)
       PROVE  /\ i \in Range0(0, o._capacity) /\ i # index /\ i - 1 \in Range0(0, array._length)
              /\ b._data[i] = array._data[i - 1]
  <2>1. i \in Range0(0, o._capacity) /\ i # index /\ i - 1 \in Range0(0, array._length)
    BY <1>2 DEF Range0
  <2>2. QED
    BY <1>1, <1>7, <1>8, <2>1 DEF Opened
<1>11. Opened(b, index, 1) /\ b._data[index] = value
  BY <1>2, <1>3, <1>7, <1>8, <1>9, <1>10 DEF Opened
<1>12. Whole(b)
  <2>1. SUFFICES ASSUME ~trivial
                 PROVE  /\ \A i \in Range0(0, b._length) : b._data[i] # Raw
                        /\ \A i \in Range0(b._length, b._capacity) : b._data[i] \in {Raw, Moved}
    BY <1>7, MakeWhole
  <2>2. ASSUME NEW i \in Range0(0, b._length) PROVE b._data[i] # Raw
    <3>1. i \in Range0(0, index) \/ i = index \/ i \in Range0(index + 1, array._length + 1)
      BY <1>2, <1>7 DEF Range0
    <3>2. QED
      BY <1>2, <1>9, <1>10, <1>11, <2>1, <3>1, SlotKinds
  <2>3. ASSUME NEW i \in Range0(b._length, b._capacity) PROVE b._data[i] \in {Raw, Moved}
    <3>1. i \in Range0(0, o._capacity) /\ i # index /\ i \in Range0(o._length, o._capacity)
      BY <1>2, <1>7 DEF Range0
    <3>2. QED
      BY <1>1, <1>7, <1>8, <2>1, <3>1
  <2>4. QED
    BY <2>2, <2>3
<1>13. QED
  BY <1>1, <1>6, <1>11, <1>12, Zenon

LEMMA InsertedRangeIs ==
  ASSUME Whole(array), NEW index \in 0 .. array._length, NEW n \in Nat, n > 0,
         trivial \/ Fits(array._length + n)
  PROVE  \E o : OpenGap(index, n, TRUE) = o /\ Whole(o) /\ Opened(o, index, n)
<1>1. PICK o :
        /\ OpenGap(index, n, TRUE) = o /\ Opened(o, index, n)
        /\ ~trivial =>
             /\ \A i \in Range0(index, index + n) :
                  o._data[i] = Blank
             /\ \A i \in Range0(o._length, o._capacity) : o._data[i] \in {Raw, Moved}
  <2>1. PICK construct \in BOOLEAN : construct = TRUE
    OBVIOUS
  <2>2. PICK o :
          /\ OpenGap(index, n, construct) = o /\ Opened(o, index, n)
          /\ ~trivial =>
               /\ \A i \in Range0(index, index + n) :
                    IF construct THEN o._data[i] = Blank ELSE o._data[i] \notin Owners
               /\ \A i \in Range0(o._length, o._capacity) : o._data[i] \in {Raw, Moved}
    BY OpenGapIs
  <2>3. QED
    BY <2>1, <2>2, Zenon
<1>2. /\ Sized(o) /\ o._length = array._length + n
      /\ array._length \in Nat /\ index \in Nat /\ index <= array._length
      /\ ~trivial => \A i \in Range0(0, array._length) : array._data[i] # Raw
  BY <1>1, WholeIs DEF Opened
<1>3. ASSUME ~trivial, NEW i \in Range0(0, o._length) PROVE o._data[i] # Raw
  <2>1. \/ i \in Range0(0, index) /\ i \in Range0(0, array._length)
        \/ i \in Range0(index, index + n)
        \/ i \in Range0(index + n, array._length + n) /\ i - n \in Range0(0, array._length)
    BY <1>2 DEF Range0
  <2>2. QED
    BY <1>1, <1>2, <1>3, <2>1, SlotKinds DEF Opened
<1>4. Whole(o)
  BY <1>1, <1>2, <1>3, MakeWhole
<1>5. QED
  BY <1>1, <1>4, Zenon

-----------------------------------------------------------------------------
(* Removal: the gap is closed, or the array is cut, or moves to a block of *)
(* its own length.                                                         *)

(* What is left of the elements without those from first to last - 1. *)
Closed(c, first, last) ==
  /\ \A i \in Range0(0, first) : c._data[i] = array._data[i]
  /\ \A i \in Range0(first, array._length - (last - first)) :
       c._data[i] = array._data[i + (last - first)]

LEMMA CloseGapIs ==
  ASSUME Whole(array), NEW first \in 0 .. array._length, NEW last \in first .. array._length,
         CloseGapSafe(first, last), first < array._length
  PROVE  \E c :
           /\ CloseGap(first, last) = c /\ Sized(c) /\ Closed(c, first, last)
           /\ c._length = array._length /\ c._capacity = array._capacity
           /\ ~trivial =>
                \A i \in Range0(array._length - (last - first), c._capacity) :
                  c._data[i] \in {Raw, Moved}
<1> DEFINE len == array._length
           cap == array._capacity
           post == len - last
<1>1. /\ Sized(array) /\ len \in Nat /\ cap \in Nat /\ len <= cap
      /\ first \in Nat /\ last \in Nat /\ first <= last /\ last <= len /\ post \in Nat
  BY WholeIs
<1>2. /\ ~trivial => \A i \in Range0(0, len) : array._data[i] # Raw
      /\ ~trivial => \A i \in Range0(len, cap) : array._data[i] \in {Raw, Moved}
  BY WholeIs
<1>3. PICK a :
        /\ a = IF post < last - first THEN Destroy(array, Range0(first + post, last)) ELSE array
        /\ Sized(a) /\ a._length = len /\ a._capacity = cap
        /\ \A i \in Range0(0, cap) :
             a._data[i] = IF ~trivial /\ i \in Range0(first + post, last) THEN Raw
                          ELSE array._data[i]
  <2>1. CASE post < last - first
    <3>1. PICK I : I = Range0(first + post, last)
      OBVIOUS
    <3>2. I \subseteq Range0(0, cap) /\ I \subseteq Range0(0, len)
      BY ONLY <1>1, <3>1 DEF Range0
    <3>3. ~trivial => \A i \in I : array._data[i] # Raw
      BY <1>2, <3>2
    <3>4. PICK d : d = Destroyed(array, I)
      OBVIOUS
    <3>5. PICK a : a = Put(array, d)
      OBVIOUS
    <3>6. d \in Block(cap) /\ Destroy(array, I) = a
      BY <1>1, <3>2, <3>3, <3>4, <3>5, DestroyAny, Zenon
    <3>7. Sized(a) /\ a._data = d /\ a._length = len /\ a._capacity = cap
      BY <1>1, <3>5, <3>6, PutNamed
    <3>8. \A i \in Range0(0, cap) : d[i] = IF ~trivial /\ i \in I THEN Raw ELSE array._data[i]
      BY <3>4 DEF Destroyed, Filled
    <3>9. QED
      BY <2>1, <3>1, <3>6, <3>7, <3>8, Zenon
  <2>2. CASE ~ (post < last - first)
    <3>1. \A i : i \notin Range0(first + post, last)
      BY ONLY <1>1, <2>2 DEF Range0
    <3>2. QED
      BY <1>1, <2>2, <3>1, Zenon
  <2>3. QED
    BY <2>1, <2>2, Zenon
<1>4. /\ Within(a, first, post) /\ Within(a, last, post)
      /\ trivial \/ post = 0 \/ (kind = "assignable" /\ (first + post <= last \/ last < first))
  BY <1>1, <1>3 DEF Within, CloseGapSafe, ShiftSafe
<1>5. ~trivial => \A k \in 0 .. post - 1 : a._data[last + k] # Raw /\ a._data[first + k] # Raw
  <2>1. ASSUME NEW k \in 0 .. post - 1
        PROVE  /\ last + k \in Range0(0, len) /\ first + k \in Range0(0, len)
               /\ last + k \in Range0(0, cap) /\ first + k \in Range0(0, cap)
               /\ last + k \notin Range0(first + post, last)
               /\ first + k \notin Range0(first + post, last)
    BY <1>1 DEF Range0
  <2>2. QED
    BY <1>2, <1>3, <2>1
<1>6. PICK d : d = Landed(a, first, last, post)
  OBVIOUS
<1>7. PICK c : c = Put(a, d)
  OBVIOUS
<1>8. d \in Block(a._capacity) /\ MoveData(a, first, last, post) = c
  BY <1>3, <1>4, <1>5, <1>6, <1>7, MoveDataIs, Zenon
<1>9. Sized(c) /\ c._data = d /\ c._length = len /\ c._capacity = cap
  BY <1>3, <1>7, <1>8, PutNamed
<1>10. \A i \in Range0(0, cap) :
         d[i] = IF i \in Range0(first, first + post) THEN a._data[i - first + last]
                ELSE IF ~trivial /\ i \in Range0(last, last + post) THEN Moved ELSE a._data[i]
  BY <1>3, <1>6 DEF Landed
<1>11. ASSUME NEW i \in Range0(0, first) PROVE d[i] = array._data[i]
  <2>1. /\ i \in Range0(0, cap) /\ i \notin Range0(first, first + post)
        /\ i \notin Range0(last, last + post) /\ i \notin Range0(first + post, last)
    BY <1>1 DEF Range0
  <2>2. QED
    BY <1>3, <1>10, <2>1
<1>12. ASSUME NEW i \in Range0(first, len - (last - first))
       PROVE  d[i] = array._data[i + (last - first)]
  <2>1. /\ i \in Range0(0, cap) /\ i \in Range0(first, first + post)
        /\ i - first + last \in Range0(0, cap) /\ i - first + last = i + (last - first)
        /\ i - first + last \notin Range0(first + post, last)
    BY <1>1 DEF Range0
  <2>2. QED
    BY <1>3, <1>10, <2>1
<1>13. ASSUME ~trivial, NEW i \in Range0(len - (last - first), cap)
       PROVE  d[i] \in {Raw, Moved}
  <2>1. /\ i \in Range0(0, cap) /\ i \notin Range0(first, first + post)
        /\ \/ i \in Range0(last, last + post)
           \/ i \in Range0(first + post, last)
           \/ i \in Range0(len, cap)
    BY <1>1 DEF Range0
  <2>2. QED
    BY <1>2, <1>3, <1>10, <1>13, <2>1
<1>14. CloseGap(first, last) = c
  BY <1>3, <1>8, Zenon DEF CloseGap
<1>15. Closed(c, first, last)
  BY <1>9, <1>11, <1>12 DEF Closed
<1>16. ~trivial => \A i \in Range0(len - (last - first), c._capacity) : c._data[i] \in {Raw, Moved}
  BY <1>9, <1>13
<1>17. QED
  BY <1>9, <1>14, <1>15, <1>16, Zenon

LEMMA ErasedIs ==
  ASSUME Whole(array), NEW first \in 0 .. array._length, NEW last \in first .. array._length,
         CloseGapSafe(first, last), first < array._length
  PROVE  \E b :
           /\ [CloseGap(first, last) EXCEPT !._length = @ - (last - first)] = b
           /\ Whole(b) /\ Closed(b, first, last)
           /\ b._length = array._length - (last - first)
<1> DEFINE rest == array._length - (last - first)
<1>1. PICK c :
        /\ CloseGap(first, last) = c /\ Sized(c) /\ Closed(c, first, last)
        /\ c._length = array._length /\ c._capacity = array._capacity
        /\ ~trivial => \A i \in Range0(rest, c._capacity) : c._data[i] \in {Raw, Moved}
  BY CloseGapIs
<1>2. /\ array._length \in Nat /\ array._capacity \in Nat /\ array._length <= array._capacity
      /\ first \in Nat /\ last \in Nat /\ first <= last /\ last <= array._length
      /\ ~trivial => \A i \in Range0(0, array._length) : array._data[i] # Raw
  BY WholeIs
<1>3. rest \in 0 .. c._capacity /\ rest = c._length - (last - first)
  BY ONLY <1>1, <1>2
<1>4. PICK b : b = Cut(c, rest)
  OBVIOUS
<1>5. Sized(b) /\ b._data = c._data /\ b._length = rest /\ b._capacity = c._capacity
  BY <1>1, <1>3, <1>4, CutIs
<1>6. [CloseGap(first, last) EXCEPT !._length = @ - (last - first)] = b
  <2>1. [c EXCEPT !._length = rest] = b
    BY <1>1, <1>4, CutExcept, Zenon
  <2>2. [c EXCEPT !._length = c._length - (last - first)] = b
    BY <1>3, <2>1, Zenon
  <2>3. QED
    BY <1>1, <2>2, Zenon
<1>7. Closed(b, first, last)
  BY <1>1, <1>5 DEF Closed
<1>8. ASSUME ~trivial, NEW i \in Range0(0, rest) PROVE b._data[i] # Raw
  <2>1. \/ i \in Range0(0, first) /\ i \in Range0(0, array._length)
        \/ i \in Range0(first, rest) /\ i + (last - first) \in Range0(0, array._length)
    BY <1>2 DEF Range0
  <2>2. QED
    BY <1>2, <1>7, <1>8, <2>1 DEF Closed
<1>9. ~trivial => /\ \A i \in Range0(0, b._length) : b._data[i] # Raw
                  /\ \A i \in Range0(b._length, b._capacity) : b._data[i] \in {Raw, Moved}
  BY <1>1, <1>5, <1>8
<1>10. Whole(b)
  BY <1>5, <1>9, MakeWhole
<1>11. QED
  BY <1>5, <1>6, <1>7, <1>10, Zenon

LEMMA ShrinkCapacityIs ==
  ASSUME NEW a, Sized(a), NEW length \in Nat, ShrinkSafe(length), length <= a._capacity
  PROVE  \E b :
           /\ ShrinkCapacity(a, length) = b /\ Whole(b) /\ b._length = length
           /\ \A i \in Range0(0, length) : b._data[i] = a._data[i]
<1>1. /\ trivial /\ length > 0 /\ Whole(a) /\ length \in 0 .. a._capacity
      /\ length \in Nat \ {0} /\ a._capacity \in Nat
  <2>1. trivial /\ length > 0
    BY Zenon DEF ShrinkSafe
  <2>2. a._capacity \in Nat
    BY SizedIs
  <2>3. Whole(a)
    BY <2>1, Zenon DEF Whole
  <2>4. QED
    BY <2>1, <2>2, <2>3
<1>2. PICK d : d = Relocated(a, length, length, length, Raw)
  OBVIOUS
<1>3. PICK b : b = Fields(length, length, d, FALSE, FALSE)
  OBVIOUS
<1>4. d \in Block(length) /\ Relocate(a, length, length, length, Raw) = b
  BY <1>1, <1>2, <1>3, SlotKinds, RelocateIs
<1>5. ShrinkCapacity(a, length) = b
  BY <1>1, <1>4, Zenon DEF ShrinkCapacity
<1>6. b._length = length /\ b._capacity = length /\ b._data = d /\ b.null = FALSE /\ b.fault = FALSE
  BY <1>3 DEF Fields
<1>7. Sized(b)
  <2>1. b = Fields(b._length, b._capacity, b._data, b.null, b.fault)
    BY <1>3, <1>6
  <2>2. b._length \in Nat /\ b._capacity \in Nat /\ b._length <= b._capacity
    BY <1>6
  <2>3. b._data \in Block(b._capacity)
    BY <1>4, <1>6
  <2>4. b.null \in BOOLEAN /\ (b.null <=> b._capacity = 0) /\ b.fault = FALSE
    BY <1>1, <1>6
  <2>5. QED
    BY <2>1, <2>2, <2>3, <2>4, Zenon DEF Sized
<1>8. \A i \in Range0(0, length) : b._data[i] = a._data[i]
  BY <1>1, <1>2, <1>6 DEF Relocated, Range0
<1>9. Whole(b)
  BY <1>1, <1>7 DEF Whole
<1>10. QED
  BY <1>5, <1>6, <1>8, <1>9, Zenon

(* The array cut to its first elements. *)
LEMMA ShrunkIs ==
  ASSUME NEW a, Sized(a), NEW length \in 0 .. a._length,
         ~trivial => /\ \A i \in Range0(0, a._length) : a._data[i] # Raw
                     /\ \A i \in Range0(a._length, a._capacity) : a._data[i] \in {Raw, Moved}
  PROVE  \E b :
           /\ [Shrink(a, length) EXCEPT !._length = length] = b
           /\ Whole(b) /\ b._length = length /\ b._capacity = a._capacity
           /\ \A i \in Range0(0, length) : b._data[i] = a._data[i]
<1>1. a._length \in Nat /\ a._capacity \in Nat /\ a._length <= a._capacity
  BY SizedIs
<1>2. PICK I : I = Range0(length, a._length)
  OBVIOUS
<1>3. I \subseteq Range0(0, a._capacity) /\ I \subseteq Range0(0, a._length)
  BY ONLY <1>1, <1>2, length \in 0 .. a._length DEF Range0
<1>4. ~trivial => \A i \in I : a._data[i] # Raw
  BY <1>3
<1>5. PICK d : d = Destroyed(a, I)
  OBVIOUS
<1>6. PICK s : s = Put(a, d)
  OBVIOUS
<1>7. d \in Block(a._capacity) /\ Destroy(a, I) = s
  BY <1>3, <1>4, <1>5, <1>6, DestroyAny, Zenon
<1>8. Sized(s) /\ s._data = d /\ s._length = a._length /\ s._capacity = a._capacity
  <2>1. d \in Block(a._capacity)
    BY <1>7
  <2>2. QED
    BY ONLY Sized(a), <1>6, <2>1, PutNamed
<1>9. \A i \in Range0(0, a._capacity) :
        d[i] = IF ~trivial /\ i \in I THEN Raw ELSE a._data[i]
  BY <1>5 DEF Destroyed, Filled
<1>10. length \in 0 .. s._capacity
  BY ONLY <1>1, <1>8, length \in 0 .. a._length
<1>11. PICK b : b = Cut(s, length)
  OBVIOUS
<1>12. Sized(b) /\ b._data = d /\ b._length = length /\ b._capacity = a._capacity
  BY ONLY <1>8, <1>10, <1>11, CutIs
<1>13. [Shrink(a, length) EXCEPT !._length = length] = b
  <2>1. Shrink(a, length) = s
    BY <1>2, <1>7, Zenon DEF Shrink
  <2>2. QED
    BY <1>8, <1>11, <2>1, CutExcept, Zenon
<1>14. ASSUME NEW i \in Range0(0, length)
       PROVE  i \in Range0(0, a._length) /\ b._data[i] = a._data[i]
  <2>1. i \in Range0(0, a._capacity) /\ i \notin I /\ i \in Range0(0, a._length)
    BY <1>1, <1>2 DEF Range0
  <2>2. QED
    BY <1>9, <1>12, <2>1
<1>15. ASSUME ~trivial, NEW i \in Range0(length, a._capacity)
       PROVE  b._data[i] \in {Raw, Moved}
  <2>1. i \in Range0(0, a._capacity) /\ (i \in I \/ i \in Range0(a._length, a._capacity))
    BY <1>1, <1>2 DEF Range0
  <2>2. QED
    BY <1>9, <1>12, <1>15, <2>1
<1>16. ~trivial => /\ \A i \in Range0(0, b._length) : b._data[i] # Raw
                   /\ \A i \in Range0(b._length, b._capacity) : b._data[i] \in {Raw, Moved}
  BY <1>12, <1>14, <1>15
<1>17. Whole(b)
  BY ONLY <1>12, <1>16, MakeWhole
<1>18. QED
  BY <1>12, <1>13, <1>14, <1>17, Zenon

LEMMA TruncatedIs ==
  ASSUME Whole(array), NEW length \in 0 .. array._length
  PROVE  \E b :
           /\ Truncated(length) = b
           /\ Whole(b) /\ b._length = length /\ b._capacity = array._capacity
           /\ \A i \in Range0(0, length) : b._data[i] = array._data[i]
<1>1. CASE length < array._length
  <2>1. Truncated(length) = [Shrink(array, length) EXCEPT !._length = length]
    BY <1>1, Zenon DEF Truncated
  <2>2. \E b :
           /\ [Shrink(array, length) EXCEPT !._length = length] = b
           /\ Whole(b) /\ b._length = length /\ b._capacity = array._capacity
           /\ \A i \in Range0(0, length) : b._data[i] = array._data[i]
    <3>1. /\ Sized(array)
          /\ ~trivial =>
               /\ \A i \in Range0(0, array._length) : array._data[i] # Raw
               /\ \A i \in Range0(array._length, array._capacity) : array._data[i] \in {Raw, Moved}
      BY WholeIs
    <3>2. QED
      BY <3>1, ShrunkIs
  <2>3. QED
    BY <2>1, <2>2, Zenon
<1>2. CASE ~ (length < array._length)
  <2>1. length = array._length
    BY <1>2, WholeIs
  <2>2. Truncated(length) = array
    BY <1>2, Zenon DEF Truncated
  <2>3. QED
    BY <2>1, <2>2, Zenon
<1>3. QED
  BY <1>1, <1>2

LEMMA MovedIs ==
  ASSUME NEW a, Sized(a), NEW to, NEW from, NEW n, Within(a, to, n), Within(a, from, n),
         trivial \/ n = 0 \/ (kind = "assignable" /\ (to + n <= from \/ from < to)),
         ~trivial => \A k \in 0 .. n - 1 : a._data[from + k] # Raw /\ a._data[to + k] # Raw
  PROVE  \E c :
           /\ MoveData(a, to, from, n) = c
           /\ Sized(c) /\ c._length = a._length /\ c._capacity = a._capacity
           /\ \A i \in Range0(0, a._capacity) :
                c._data[i] = IF i \in Range0(to, to + n) THEN a._data[i - to + from]
                             ELSE IF ~trivial /\ i \in Range0(from, from + n) THEN Moved
                             ELSE a._data[i]
<1>1. PICK d : d = Landed(a, to, from, n)
  OBVIOUS
<1>2. PICK c : c = Put(a, d)
  OBVIOUS
<1>3. d \in Block(a._capacity) /\ MoveData(a, to, from, n) = c
  BY <1>1, <1>2, MoveDataIs, Zenon
<1>4. Sized(c) /\ c._data = d /\ c._length = a._length /\ c._capacity = a._capacity
  <2>1. d \in Block(a._capacity)
    BY <1>3
  <2>2. QED
    BY ONLY Sized(a), <1>2, <2>1, PutNamed
<1>5. \A i \in Range0(0, a._capacity) :
        c._data[i] = IF i \in Range0(to, to + n) THEN a._data[i - to + from]
                     ELSE IF ~trivial /\ i \in Range0(from, from + n) THEN Moved
                     ELSE a._data[i]
  BY <1>1, <1>4 DEF Landed
<1>6. QED
  BY <1>3, <1>4, <1>5, Zenon

LEMMA PoppedIs ==
  ASSUME Whole(array), NEW length \in Nat, length = array._length - 1, ShiftSafe(0, 1, length)
  PROVE  \E b :
           /\ [Shrink(MoveData(array, 0, 1, length), length) EXCEPT !._length = length] = b
           /\ Whole(b) /\ b._length = length
           /\ \A i \in Range0(0, length) : b._data[i] = array._data[i + 1]
<1> DEFINE len == array._length
           cap == array._capacity
<1>1. /\ Sized(array) /\ len \in Nat /\ cap \in Nat /\ len <= cap /\ len = length + 1
      /\ length \in Nat
  BY WholeIs
<1>2. /\ ~trivial => \A i \in Range0(0, len) : array._data[i] # Raw
      /\ ~trivial => \A i \in Range0(len, cap) : array._data[i] \in {Raw, Moved}
  BY WholeIs
<1>3. Within(array, 0, length) /\ Within(array, 1, length)
  BY ONLY <1>1 DEF Within
<1>4. /\ trivial \/ length = 0 \/ (kind = "assignable" /\ (0 + length <= 1 \/ 1 < 0))
      /\ ~trivial /\ length # 0 => length = 1
  BY <1>1 DEF ShiftSafe
<1>5. ~trivial => \A k \in 0 .. length - 1 : array._data[1 + k] # Raw /\ array._data[0 + k] # Raw
  <2>1. ASSUME NEW k \in 0 .. length - 1
        PROVE  1 + k \in Range0(0, len) /\ 0 + k \in Range0(0, len)
    BY ONLY <1>1, k \in 0 .. length - 1 DEF Range0
  <2>2. QED
    BY <1>2, <2>1
<1>6. PICK s :
        /\ MoveData(array, 0, 1, length) = s
        /\ Sized(s) /\ s._length = len /\ s._capacity = cap
        /\ \A i \in Range0(0, cap) :
             s._data[i] = IF i \in Range0(0, 0 + length) THEN array._data[i - 0 + 1]
                          ELSE IF ~trivial /\ i \in Range0(1, 1 + length) THEN Moved
                          ELSE array._data[i]
  BY ONLY <1>1, <1>3, <1>4, <1>5, MovedIs
<1>7. ~trivial => /\ \A i \in Range0(0, s._length) : s._data[i] # Raw
                  /\ \A i \in Range0(s._length, s._capacity) : s._data[i] \in {Raw, Moved}
  <2>1. ASSUME ~trivial, NEW i \in Range0(0, len) PROVE s._data[i] # Raw
    <3>1. /\ i \in Range0(0, cap)
          /\ i \in Range0(0, 0 + length) => i - 0 + 1 \in Range0(0, len)
      BY ONLY <1>1, i \in Range0(0, len) DEF Range0
    <3>2. QED
      BY <1>2, <1>6, <2>1, <3>1, SlotKinds
  <2>2. ASSUME ~trivial, NEW i \in Range0(len, cap) PROVE s._data[i] \in {Raw, Moved}
    <3>1. i \in Range0(0, cap) /\ i \notin Range0(0, 0 + length)
      BY ONLY <1>1, i \in Range0(len, cap) DEF Range0
    <3>2. QED
      BY <1>2, <1>6, <2>2, <3>1
  <2>3. QED
    BY <1>6, <2>1, <2>2
<1>8. PICK b :
        /\ [Shrink(s, length) EXCEPT !._length = length] = b
        /\ Whole(b) /\ b._length = length /\ b._capacity = s._capacity
        /\ \A i \in Range0(0, length) : b._data[i] = s._data[i]
  <2>1. length \in 0 .. s._length
    BY <1>1, <1>6
  <2>2. Sized(s)
    BY <1>6
  <2>3. QED
    BY ONLY <1>7, <2>1, <2>2, ShrunkIs
<1>9. ASSUME NEW i \in Range0(0, length) PROVE b._data[i] = array._data[i + 1]
  <2>1. i \in Range0(0, cap) /\ i \in Range0(0, 0 + length) /\ i - 0 + 1 = i + 1
    BY ONLY <1>1, i \in Range0(0, length) DEF Range0
  <2>2. QED
    BY <1>6, <1>8, <2>1
<1>10. QED
  BY <1>6, <1>8, <1>9, Zenon

(* An array the same as before, in another block or the same one. *)
Same(b) ==
  /\ Whole(b) /\ b._length = array._length
  /\ \A i \in Range0(0, array._length) : b._data[i] = array._data[i]

LEMMA RestoredIs ==
  ASSUME Whole(array), NEW length \in Nat, length = array._length - 1, ShiftSafe(0, 1, length),
         NEW taken, taken = IF trivial THEN array ELSE [array EXCEPT !._data[0] = Moved]
  PROVE  \E s, b :
           /\ MoveData(taken, 0, 1, length) = s
           /\ Restore(s, length, array._data[0]) = b /\ Same(b)
           /\ trivial => /\ Sized(s) /\ s._capacity = array._capacity
                         /\ \A i \in Range0(0, length) : s._data[i] = array._data[i + 1]
<1> DEFINE len == array._length
           cap == array._capacity
<1>1. /\ Sized(array) /\ len \in Nat /\ cap \in Nat /\ len <= cap /\ len = length + 1
      /\ length \in Nat /\ array._data \in Block(cap) /\ 0 \in Range0(0, cap)
      /\ array._data[0] \in Slots
  <2>1. /\ Sized(array) /\ len \in Nat /\ cap \in Nat /\ len <= cap /\ len = length + 1
        /\ array._data \in Block(cap)
    <3>1. Sized(array) /\ len \in Nat /\ cap \in Nat /\ len <= cap
      BY WholeIs
    <3>2. array._data \in Block(cap)
      BY <3>1, SizedIs
    <3>3. QED
      BY <3>1, <3>2
  <2>2. 0 \in Range0(0, cap)
    BY <2>1 DEF Range0
  <2>3. QED
    BY <2>1, <2>2, SizedIs
<1>2. /\ ~trivial => \A i \in Range0(0, len) : array._data[i] # Raw
      /\ ~trivial => \A i \in Range0(len, cap) : array._data[i] \in {Raw, Moved}
  BY WholeIs
<1>3. /\ Sized(taken) /\ taken._length = len /\ taken._capacity = cap
      /\ \A i \in Range0(0, cap) :
           taken._data[i] = IF ~trivial /\ i = 0 THEN Moved ELSE array._data[i]
  <2>1. CASE trivial
    BY <1>1, <2>1
  <2>2. CASE ~trivial
    <3>1. PICK d : d = [array._data EXCEPT ![0] = Moved]
      OBVIOUS
    <3>2. /\ d \in Block(cap)
          /\ \A i \in Range0(0, cap) : d[i] = IF i = 0 THEN Moved ELSE array._data[i]
      BY <1>1, <3>1, SlotKinds DEF Block
    <3>3. taken = [array EXCEPT !._data = d]
      BY <2>2, <3>1, Zenon
    <3>4. taken = Put(array, d)
      BY <1>1, <3>3, PutExcept, Zenon
    <3>5. Sized(taken) /\ taken._data = d /\ taken._length = len /\ taken._capacity = cap
      BY ONLY <1>1, <3>2, <3>4, PutNamed
    <3>6. QED
      BY <2>2, <3>2, <3>5
  <2>3. QED
    BY <2>1, <2>2
<1>4. Within(taken, 0, length) /\ Within(taken, 1, length)
  BY ONLY <1>1, <1>3 DEF Within
<1>5. /\ trivial \/ length = 0 \/ (kind = "assignable" /\ (0 + length <= 1 \/ 1 < 0))
      /\ trivial \/ length = 0 \/ (kind = "assignable" /\ (1 + length <= 0 \/ 0 < 1))
      /\ ~trivial /\ length # 0 => length = 1
  BY <1>1 DEF ShiftSafe
<1>6. ~trivial => \A i \in Range0(0, len) : taken._data[i] # Raw
  <2>1. \A i \in Range0(0, len) : i \in Range0(0, cap)
    BY ONLY <1>1 DEF Range0
  <2>2. QED
    BY <1>2, <1>3, <2>1, SlotKinds
<1>7. ~trivial => \A k \in 0 .. length - 1 : taken._data[1 + k] # Raw /\ taken._data[0 + k] # Raw
  <2>1. ASSUME NEW k \in 0 .. length - 1
        PROVE  1 + k \in Range0(0, len) /\ 0 + k \in Range0(0, len)
    BY ONLY <1>1, k \in 0 .. length - 1 DEF Range0
  <2>2. QED
    BY <1>6, <2>1
<1>8. PICK s :
        /\ MoveData(taken, 0, 1, length) = s
        /\ Sized(s) /\ s._length = len /\ s._capacity = cap
        /\ \A i \in Range0(0, cap) :
             s._data[i] = IF i \in Range0(0, 0 + length) THEN taken._data[i - 0 + 1]
                          ELSE IF ~trivial /\ i \in Range0(1, 1 + length) THEN Moved
                          ELSE taken._data[i]
  BY ONLY <1>3, <1>4, <1>5, <1>7, MovedIs
<1>9. /\ \A i \in Range0(0, length) : s._data[i] = array._data[i + 1]
      /\ ~trivial => \A i \in Range0(length, len) : s._data[i] = Moved
      /\ \A i \in Range0(len, cap) : s._data[i] = array._data[i]
  <2>1. ASSUME NEW i \in Range0(0, length) PROVE s._data[i] = array._data[i + 1]
    <3>1. /\ i \in Range0(0, cap) /\ i \in Range0(0, 0 + length) /\ i - 0 + 1 = i + 1
          /\ i + 1 \in Range0(0, cap) /\ i + 1 # 0
      BY ONLY <1>1, i \in Range0(0, length) DEF Range0
    <3>2. QED
      BY <1>3, <1>8, <3>1
  <2>2. ASSUME ~trivial, NEW i \in Range0(length, len) PROVE s._data[i] = Moved
    <3>1. /\ i \in Range0(0, cap) /\ i \notin Range0(0, 0 + length)
          /\ i \in Range0(1, 1 + length) \/ i = 0
      BY ONLY <1>1, i \in Range0(length, len) DEF Range0
    <3>2. QED
      BY <1>3, <1>8, <2>2, <3>1
  <2>3. ASSUME NEW i \in Range0(len, cap) PROVE s._data[i] = array._data[i]
    <3>1. /\ i \in Range0(0, cap) /\ i \notin Range0(0, 0 + length)
          /\ i \notin Range0(1, 1 + length) /\ i # 0
      BY ONLY <1>1, i \in Range0(len, cap) DEF Range0
    <3>2. QED
      BY <1>3, <1>8, <3>1
  <2>4. QED
    BY <2>1, <2>2, <2>3
<1>10. ~trivial => \A k \in 0 .. length - 1 : s._data[0 + k] # Raw /\ s._data[1 + k] # Raw
  <2>1. ASSUME ~trivial, NEW k \in 0 .. length - 1
        PROVE  s._data[0 + k] # Raw /\ s._data[1 + k] # Raw
    <3>1. length = 1 /\ k = 0
      BY <1>1, <1>5, <2>1
    <3>2. 0 \in Range0(0, length) /\ 1 \in Range0(length, len) /\ 0 + 1 \in Range0(0, len)
      BY ONLY <1>1, <3>1 DEF Range0
    <3>3. QED
      BY <1>2, <1>9, <2>1, <3>1, <3>2, SlotKinds
  <2>2. QED
    BY <2>1
<1>11. PICK m :
        /\ MoveData(s, 1, 0, length) = m
        /\ Sized(m) /\ m._length = len /\ m._capacity = cap
        /\ \A i \in Range0(0, cap) :
             m._data[i] = IF i \in Range0(1, 1 + length) THEN s._data[i - 1 + 0]
                          ELSE IF ~trivial /\ i \in Range0(0, 0 + length) THEN Moved
                          ELSE s._data[i]
  <2>1. Within(s, 1, length) /\ Within(s, 0, length)
    BY <1>1, <1>8 DEF Within
  <2>2. Sized(s) /\ s._length = len /\ s._capacity = cap
    BY <1>8
  <2>3. QED
    BY ONLY <1>5, <1>10, <2>1, <2>2, MovedIs
<1>12. ~trivial => m._data[0] = Moved
  <2>1. SUFFICES ASSUME ~trivial PROVE m._data[0] = Moved
    OBVIOUS
  <2>2. 0 \notin Range0(1, 1 + length) /\ (0 \in Range0(0, 0 + length) \/ 0 \in Range0(length, len))
    BY ONLY <1>1 DEF Range0
  <2>3. QED
    BY <1>1, <1>9, <1>11, <2>1, <2>2
<1>13. PICK d : d = Filled(m, {0}, array._data[0])
  OBVIOUS
<1>14. PICK b : b = Put(m, d)
  OBVIOUS
<1>15. d \in Block(cap) /\ Construct(m, {0}, array._data[0]) = b
  <2>1. {0} \subseteq Range0(0, m._capacity) /\ (~trivial => \A i \in {0} : m._data[i] \notin Owners)
    BY <1>1, <1>11, <1>12, SlotKinds
  <2>2. QED
    BY <1>1, <1>11, <1>13, <1>14, <2>1, ConstructIs
<1>16. Sized(b) /\ b._data = d /\ b._length = len /\ b._capacity = cap
  <2>1. Sized(m) /\ d \in Block(m._capacity)
    BY <1>11, <1>15
  <2>2. Sized(b) /\ b._data = d /\ b._length = m._length /\ b._capacity = m._capacity
    BY ONLY <1>14, <2>1, PutNamed
  <2>3. QED
    BY <1>11, <2>2
<1>17. \A i \in Range0(0, cap) : d[i] = IF i = 0 THEN array._data[0] ELSE m._data[i]
  BY <1>11, <1>13 DEF Filled
<1>18. ASSUME NEW i \in Range0(0, len) PROVE b._data[i] = array._data[i]
  <2>1. CASE i = 0
    BY <1>1, <1>16, <1>17, <2>1
  <2>2. CASE i # 0
    <3>1. /\ i \in Range0(0, cap) /\ i \in Range0(1, 1 + length)
          /\ i - 1 + 0 \in Range0(0, length) /\ (i - 1 + 0) + 1 = i
      BY ONLY <1>1, <2>2, i \in Range0(0, len) DEF Range0
    <3>2. QED
      BY <1>9, <1>11, <1>16, <1>17, <2>2, <3>1
  <2>3. QED
    BY <2>1, <2>2
<1>19. ASSUME NEW i \in Range0(len, cap) PROVE b._data[i] = array._data[i]
  <2>1. /\ i \in Range0(0, cap) /\ i # 0 /\ i \notin Range0(1, 1 + length)
        /\ i \notin Range0(0, 0 + length)
    BY ONLY <1>1, i \in Range0(len, cap) DEF Range0
  <2>2. QED
    BY <1>9, <1>11, <1>16, <1>17, <2>1
<1>20. Whole(b)
  <2>1. ~trivial => /\ \A i \in Range0(0, b._length) : b._data[i] # Raw
                    /\ \A i \in Range0(b._length, b._capacity) : b._data[i] \in {Raw, Moved}
    BY <1>2, <1>16, <1>18, <1>19
  <2>2. QED
    BY <1>16, <2>1, MakeWhole
<1>21. Same(b)
  BY <1>16, <1>18, <1>20 DEF Same
<1>22. Restore(s, length, array._data[0]) = b
  BY <1>11, <1>15, Zenon DEF Restore
<1>23. QED
  BY <1>8, <1>9, <1>21, <1>22

Cropped(a, length) == [Shrink(a, length) EXCEPT !._length = length]

LEMMA ExtractedIs ==
  ASSUME Whole(array), NEW first \in 0 .. array._length, NEW last \in first .. array._length,
         NEW length, length = last - first, length # array._length,
         first = 0 \/ ShiftSafe(0, first, length),
         NEW moved, moved = IF first > 0 /\ length \notin {0, array._length}
                            THEN MoveData(array, 0, first, length) ELSE array
  PROVE  \E b :
           /\ Cropped(moved, length) = b
           /\ Whole(b) /\ b._length = length
           /\ \A i \in Range0(0, length) : b._data[i] = array._data[i + first]
<1> DEFINE len == array._length
           cap == array._capacity
<1>1. /\ Sized(array) /\ len \in Nat /\ cap \in Nat /\ len <= cap
      /\ first \in Nat /\ last \in Nat /\ first <= last /\ last <= len
      /\ length \in Nat /\ first + length = last
  BY WholeIs
<1>2. /\ ~trivial => \A i \in Range0(0, len) : array._data[i] # Raw
      /\ ~trivial => \A i \in Range0(len, cap) : array._data[i] \in {Raw, Moved}
  BY WholeIs
<1>3. PICK m :
        /\ moved = m /\ Sized(m) /\ m._length = len /\ m._capacity = cap
        /\ \A i \in Range0(0, length) : m._data[i] = array._data[i + first]
        /\ ~trivial => \A i \in Range0(0, len) : m._data[i] # Raw
        /\ ~trivial => \A i \in Range0(len, cap) : m._data[i] \in {Raw, Moved}
  <2>1. CASE ~ (first > 0 /\ length \notin {0, len})
    <3>1. moved = array
      BY <2>1, Zenon
    <3>2. \A i \in Range0(0, length) : i + first = i
      BY ONLY <1>1, <2>1, length # array._length DEF Range0
    <3>3. QED
      BY <1>1, <1>2, <3>1, <3>2
  <2>2. CASE first > 0 /\ length \notin {0, len}
    <3>1. moved = MoveData(array, 0, first, length)
      BY <2>2, Zenon
    <3>2. /\ Within(array, 0, length) /\ Within(array, first, length)
          /\ trivial \/ length = 0 \/ (kind = "assignable" /\ (0 + length <= first \/ first < 0))
      BY <1>1, <2>2 DEF Within, ShiftSafe
    <3>3. ~trivial => \A k \in 0 .. length - 1 :
                        array._data[first + k] # Raw /\ array._data[0 + k] # Raw
      <4>1. ASSUME NEW k \in 0 .. length - 1
            PROVE  first + k \in Range0(0, len) /\ 0 + k \in Range0(0, len)
        BY ONLY <1>1, k \in 0 .. length - 1 DEF Range0
      <4>2. QED
        BY <1>2, <4>1
    <3>4. PICK m :
            /\ MoveData(array, 0, first, length) = m
            /\ Sized(m) /\ m._length = len /\ m._capacity = cap
            /\ \A i \in Range0(0, cap) :
                 m._data[i] = IF i \in Range0(0, 0 + length) THEN array._data[i - 0 + first]
                              ELSE IF ~trivial /\ i \in Range0(first, first + length) THEN Moved
                              ELSE array._data[i]
      BY ONLY <1>1, <3>2, <3>3, MovedIs
    <3>5. ASSUME NEW i \in Range0(0, length) PROVE m._data[i] = array._data[i + first]
      <4>1. i \in Range0(0, cap) /\ i \in Range0(0, 0 + length) /\ i - 0 + first = i + first
        BY ONLY <1>1, i \in Range0(0, length) DEF Range0
      <4>2. QED
        BY <3>4, <4>1
    <3>6. ASSUME ~trivial, NEW i \in Range0(0, len) PROVE m._data[i] # Raw
      <4>1. /\ i \in Range0(0, cap)
            /\ i \in Range0(0, 0 + length) => i - 0 + first \in Range0(0, len)
        BY ONLY <1>1, i \in Range0(0, len) DEF Range0
      <4>2. QED
        BY <1>2, <3>4, <3>6, <4>1, SlotKinds
    <3>7. ASSUME ~trivial, NEW i \in Range0(len, cap) PROVE m._data[i] \in {Raw, Moved}
      <4>1. i \in Range0(0, cap) /\ i \notin Range0(0, 0 + length)
        BY ONLY <1>1, i \in Range0(len, cap) DEF Range0
      <4>2. QED
        BY <1>2, <3>4, <3>7, <4>1
    <3>8. QED
      BY <3>1, <3>4, <3>5, <3>6, <3>7
  <2>3. QED
    BY <2>1, <2>2
<1>4. PICK b :
        /\ [Shrink(m, length) EXCEPT !._length = length] = b
        /\ Whole(b) /\ b._length = length /\ b._capacity = m._capacity
        /\ \A i \in Range0(0, length) : b._data[i] = m._data[i]
  <2>1. length \in 0 .. m._length /\ Sized(m)
    BY <1>1, <1>3
  <2>2. ~trivial => /\ \A i \in Range0(0, m._length) : m._data[i] # Raw
                    /\ \A i \in Range0(m._length, m._capacity) : m._data[i] \in {Raw, Moved}
    BY <1>3
  <2>3. QED
    BY ONLY <2>1, <2>2, ShrunkIs
<1>5. \A i \in Range0(0, length) : b._data[i] = array._data[i + first]
  BY <1>3, <1>4
<1>6. QED
  BY <1>3, <1>4, <1>5, Zenon DEF Cropped

-----------------------------------------------------------------------------
(* Other lengths. *)

(* An array that starts with the elements there were. *)
Longer(b, length) ==
  /\ Whole(b) /\ b._length = length
  /\ \A i \in Range0(0, array._length) : b._data[i] = array._data[i]

LEMMA ExtendedIs ==
  ASSUME Whole(array), NEW length \in Nat, length > array._length, Fits(length),
         NEW construct \in BOOLEAN, construct \/ trivial,
         NEW extended, extended = IF construct /\ ~trivial
                                  THEN Construct(array, Range0(array._length, length), Blank)
                                  ELSE array
  PROVE  \E b : [extended EXCEPT !._length = length] = b /\ Longer(b, length)
<1> DEFINE len == array._length
           cap == array._capacity
<1>1. /\ Sized(array) /\ len \in Nat /\ cap \in Nat /\ len < length /\ length <= cap
      /\ length \in Nat
  BY WholeIs DEF Fits
<1>2. /\ ~trivial => \A i \in Range0(0, len) : array._data[i] # Raw
      /\ ~trivial => \A i \in Range0(len, cap) : array._data[i] \in {Raw, Moved}
  BY WholeIs
<1>3. PICK I : I = Range0(len, length)
  OBVIOUS
<1>4. I \subseteq Range0(0, cap) /\ I \subseteq Range0(len, cap)
  BY ONLY <1>1, <1>3 DEF Range0
<1>5. PICK e :
        /\ extended = e /\ Sized(e) /\ e._capacity = cap
        /\ \A i \in Range0(0, cap) :
             e._data[i] = IF ~trivial /\ i \in I THEN Blank ELSE array._data[i]
  <2>1. CASE trivial
    BY <1>1, <2>1
  <2>2. CASE ~trivial
    <3>1. extended = Construct(array, I, Blank)
      BY <1>3, <2>2, Zenon
    <3>2. \A i \in I : array._data[i] \notin Owners
      BY <1>2, <1>4, <2>2, SlotKinds
    <3>3. PICK d : d = Filled(array, I, Blank)
      OBVIOUS
    <3>4. PICK e : e = Put(array, d)
      OBVIOUS
    <3>5. d \in Block(cap) /\ Construct(array, I, Blank) = e
      BY <1>1, <1>4, <3>2, <3>3, <3>4, SlotKinds, ConstructIs
    <3>6. Sized(e) /\ e._data = d /\ e._capacity = cap
      BY ONLY <1>1, <3>4, <3>5, PutNamed
    <3>7. \A i \in Range0(0, cap) : d[i] = IF i \in I THEN Blank ELSE array._data[i]
      BY <3>3 DEF Filled
    <3>8. QED
      BY <2>2, <3>1, <3>5, <3>6, <3>7
  <2>3. QED
    BY <2>1, <2>2
<1>6. length \in 0 .. e._capacity
  BY ONLY <1>1, <1>5
<1>7. PICK b : b = Cut(e, length)
  OBVIOUS
<1>8. Sized(b) /\ b._data = e._data /\ b._length = length /\ b._capacity = cap
  BY <1>5, <1>6, <1>7, CutIs
<1>9. [extended EXCEPT !._length = length] = b
  BY <1>5, <1>7, CutExcept, Zenon
<1>10. ASSUME NEW i \in Range0(0, len) PROVE b._data[i] = array._data[i]
  <2>1. i \in Range0(0, cap) /\ i \notin I
    BY ONLY <1>1, <1>3, i \in Range0(0, len) DEF Range0
  <2>2. QED
    BY <1>5, <1>8, <2>1
<1>11. ASSUME ~trivial, NEW i \in Range0(0, length) PROVE b._data[i] # Raw
  <2>1. i \in Range0(0, cap) /\ (i \in Range0(0, len) \/ i \in I)
    BY ONLY <1>1, <1>3, i \in Range0(0, length) DEF Range0
  <2>2. QED
    BY <1>2, <1>5, <1>8, <1>11, <2>1, SlotKinds
<1>12. ASSUME ~trivial, NEW i \in Range0(length, cap) PROVE b._data[i] \in {Raw, Moved}
  <2>1. i \in Range0(0, cap) /\ i \in Range0(len, cap) /\ i \notin I
    BY ONLY <1>1, <1>3, i \in Range0(length, cap) DEF Range0
  <2>2. QED
    BY <1>2, <1>5, <1>8, <1>12, <2>1
<1>13. Whole(b)
  <2>1. ~trivial => /\ \A i \in Range0(0, b._length) : b._data[i] # Raw
                    /\ \A i \in Range0(b._length, b._capacity) : b._data[i] \in {Raw, Moved}
    BY <1>8, <1>11, <1>12
  <2>2. QED
    BY <1>8, <2>1, MakeWhole
<1>14. Longer(b, length)
  BY <1>8, <1>10, <1>13 DEF Longer
<1>15. QED
  BY <1>9, <1>14, Zenon

LEMMA GrowLonger ==
  ASSUME Whole(array), NEW length \in Nat, length > array._length, NEW capacity \in Nat,
         length <= capacity, NEW construct \in BOOLEAN, construct \/ trivial
  PROVE  \E b : Grow(array, length, capacity, construct) = b /\ Longer(b, length)
<1>1. PICK g :
        /\ Grow(array, length, capacity, construct) = g
        /\ Sized(g) /\ g._length = length /\ g._capacity = capacity
        /\ \A i \in Range0(0, array._length) : g._data[i] = array._data[i]
        /\ ~trivial =>
             /\ \A i \in Range0(array._length, length) :
                  IF construct THEN g._data[i] = Blank ELSE g._data[i] \notin Owners
             /\ \A i \in Range0(length, capacity) : g._data[i] = Raw
  BY GrowIs
<1>2. /\ array._length \in Nat
      /\ ~trivial => \A i \in Range0(0, array._length) : array._data[i] # Raw
  BY WholeIs
<1>3. ASSUME ~trivial, NEW i \in Range0(0, length) PROVE g._data[i] # Raw
  <2>1. i \in Range0(0, array._length) \/ i \in Range0(array._length, length)
    BY ONLY <1>2, i \in Range0(0, length), length \in Nat DEF Range0
  <2>2. QED
    BY <1>1, <1>2, <1>3, <2>1, SlotKinds
<1>4. Whole(g)
  <2>1. ~trivial => /\ \A i \in Range0(0, g._length) : g._data[i] # Raw
                    /\ \A i \in Range0(g._length, g._capacity) : g._data[i] \in {Raw, Moved}
    BY <1>1, <1>3
  <2>2. QED
    BY <1>1, <2>1, MakeWhole
<1>5. Longer(g, length)
  BY <1>1, <1>4 DEF Longer
<1>6. QED
  BY <1>1, <1>5

LEMMA GrownLonger ==
  ASSUME Whole(array), NEW length \in Nat, length > array._length, ~Fits(length),
         NEW construct \in BOOLEAN, construct \/ trivial
  PROVE  \E b : Grown(length, construct) = b /\ Longer(b, length)
<1>1. PICK c : c = GrownCapacity(length, array._capacity)
  OBVIOUS
<1>2. c \in Nat /\ length <= c
  BY <1>1, WholeIs, GrownCapacityIs
<1>3. Grown(length, construct) = Grow(array, length, c, construct)
  BY <1>1, Zenon DEF Grown
<1>4. QED
  BY <1>2, <1>3, GrowLonger

(* What build starts from: a block without elements, large enough. *)
LEMMA BlankIs ==
  ASSUME Whole(array), NEW n \in Nat
  PROVE  \E o :
           /\ (IF Fits(n) THEN [Truncated(0) EXCEPT !._length = n]
               ELSE Grow(Truncated(0), n, GrownCapacity(n, array._capacity), FALSE)) = o
           /\ Sized(o) /\ o._length = n
           /\ ~trivial => /\ \A i \in Range0(0, n) : o._data[i] \notin Owners
                          /\ \A i \in Range0(n, o._capacity) : o._data[i] \in {Raw, Moved}
<1>1. array._length \in Nat /\ array._capacity \in Nat /\ 0 \in 0 .. array._length
  BY WholeIs
<1>2. PICK c :
        /\ Truncated(0) = c
        /\ Whole(c) /\ c._length = 0 /\ c._capacity = array._capacity
  BY <1>1, TruncatedIs
<1>3. Sized(c) /\ (~trivial => \A i \in Range0(0, c._capacity) : c._data[i] \in {Raw, Moved})
  BY <1>2, WholeIs
<1>4. CASE Fits(n)
  <2>1. n \in 0 .. c._capacity
    BY <1>1, <1>2, <1>4 DEF Fits
  <2>2. PICK o : o = Cut(c, n)
    OBVIOUS
  <2>3. Sized(o) /\ o._data = c._data /\ o._length = n /\ o._capacity = c._capacity
    BY ONLY <1>3, <2>1, <2>2, CutIs
  <2>4. (IF Fits(n) THEN [Truncated(0) EXCEPT !._length = n]
         ELSE Grow(Truncated(0), n, GrownCapacity(n, array._capacity), FALSE)) = o
    BY <1>2, <1>3, <1>4, <2>2, CutExcept, Zenon
  <2>5. /\ \A i \in Range0(0, n) : i \in Range0(0, c._capacity)
        /\ \A i \in Range0(n, c._capacity) : i \in Range0(0, c._capacity)
    BY ONLY <2>1, <1>1, <1>2 DEF Range0
  <2>6. ~trivial => /\ \A i \in Range0(0, n) : o._data[i] \notin Owners
                    /\ \A i \in Range0(n, o._capacity) : o._data[i] \in {Raw, Moved}
    BY <1>3, <2>3, <2>5, SlotKinds
  <2>7. QED
    BY <2>3, <2>4, <2>6, Zenon
<1>5. CASE ~Fits(n)
  <2>1. PICK k : k = GrownCapacity(n, array._capacity)
    OBVIOUS
  <2>2. k \in Nat /\ n <= k /\ n > c._length
    <3>1. k \in Nat /\ n <= k
      BY <1>1, <2>1, GrownCapacityIs
    <3>2. ~ (n <= array._capacity)
      BY <1>5 DEF Fits
    <3>3. QED
      BY <1>1, <1>2, <3>1, <3>2
  <2>3. PICK construct \in BOOLEAN : construct = FALSE
    OBVIOUS
  <2>4. PICK o :
          /\ Grow(c, n, k, construct) = o
          /\ Sized(o) /\ o._length = n /\ o._capacity = k
          /\ \A i \in Range0(0, c._length) : o._data[i] = c._data[i]
          /\ ~trivial =>
               /\ \A i \in Range0(c._length, n) :
                    IF construct THEN o._data[i] = Blank ELSE o._data[i] \notin Owners
               /\ \A i \in Range0(n, k) : o._data[i] = Raw
    BY <1>2, <2>2, GrowIs
  <2>5. (IF Fits(n) THEN [Truncated(0) EXCEPT !._length = n]
         ELSE Grow(Truncated(0), n, GrownCapacity(n, array._capacity), FALSE)) = o
    BY <1>2, <1>5, <2>1, <2>3, <2>4, Zenon
  <2>6. ~trivial => /\ \A i \in Range0(0, n) : o._data[i] \notin Owners
                    /\ \A i \in Range0(n, o._capacity) : o._data[i] \in {Raw, Moved}
    BY <1>2, <2>3, <2>4
  <2>7. QED
    BY <2>4, <2>5, <2>6, Zenon
<1>6. QED
  BY <1>4, <1>5

(* What the loop of build leaves. *)
Building(o, values, n) ==
  LET built[m \in 0 .. n] == IF m = 0 THEN o
                             ELSE Construct(built[m - 1], {m - 1}, values[m])
  IN built[n]

Writing(o, values, m) ==
  [i \in Range0(0, o._capacity) |-> IF i < m THEN values[i + 1] ELSE o._data[i]]

LEMMA BuiltIs ==
  ASSUME NEW values \in Seq(Values), NEW n, n = Len(values), NEW o, Sized(o), o._length = n,
         ~trivial => /\ \A i \in Range0(0, n) : o._data[i] \notin Owners
                     /\ \A i \in Range0(n, o._capacity) : o._data[i] \in {Raw, Moved}
  PROVE  \E b : /\ Building(o, values, n) = b /\ Whole(b) /\ b._length = n
                /\ \A i \in Range0(0, n) : b._data[i] = values[i + 1]
<1> DEFINE P(m) == Writing(o, values, m)
           Round(f) == [m \in 0 .. n |->
                          IF m = 0 THEN o ELSE Construct(f[m - 1], {m - 1}, values[m])]
           built == CHOOSE f : f = Round(f)
           g == [m \in 0 .. n |-> Put(o, P(m))]
<1>1. /\ n \in Nat /\ o._capacity \in Nat /\ n <= o._capacity /\ o._data \in Block(o._capacity)
      /\ \A m \in 1 .. n : values[m] \in Values
  <2>1. n \in Nat /\ \A m \in 1 .. n : values[m] \in Values
    OBVIOUS
  <2>2. o._capacity \in Nat /\ n <= o._capacity /\ o._data \in Block(o._capacity)
    BY SizedIs
  <2>3. QED
    BY <2>1, <2>2
<1>2. ASSUME NEW m \in 0 .. n
      PROVE  /\ P(m) \in Block(o._capacity)
             /\ \A i \in Range0(0, o._capacity) :
                  P(m)[i] = IF i < m THEN values[i + 1] ELSE o._data[i]
  <2>1. ASSUME NEW i \in Range0(0, o._capacity), i < m PROVE values[i + 1] \in Slots
    <3>1. i + 1 \in 1 .. n
      BY <1>1, <2>1 DEF Range0
    <3>2. QED
      BY <1>1, <3>1, SlotKinds
  <2>2. QED
    BY <1>1, <2>1 DEF Writing, Block
<1>3. Put(o, P(0)) = o
  <2>1. P(0) = [i \in Range0(0, o._capacity) |-> o._data[i]]
    BY <1>1 DEF Writing, Range0
  <2>2. P(0) = o._data
    BY <1>1, <2>1 DEF Block
  <2>3. QED
    BY <2>2, PutBack, Zenon
<1>4. ASSUME NEW m \in 1 .. n
      PROVE  Put(o, P(m)) = Construct(Put(o, P(m - 1)), {m - 1}, values[m])
  <2>1. PICK p : p = P(m - 1)
    OBVIOUS
  <2>2. PICK q : q = P(m)
    OBVIOUS
  <2>3. m \in 0 .. n /\ m - 1 \in 0 .. n /\ m - 1 \in Range0(0, o._capacity) /\ m - 1 \in Range0(0, n)
    BY ONLY <1>1, m \in 1 .. n DEF Range0
  <2>4. /\ p \in Block(o._capacity) /\ q \in Block(o._capacity)
        /\ \A i \in Range0(0, o._capacity) :
             p[i] = IF i < m - 1 THEN values[i + 1] ELSE o._data[i]
        /\ \A i \in Range0(0, o._capacity) :
             q[i] = IF i < m THEN values[i + 1] ELSE o._data[i]
    BY <1>2, <2>1, <2>2, <2>3
  <2>5. PICK b : b = Put(o, p)
    OBVIOUS
  <2>6. Sized(b) /\ b._data = p /\ b._capacity = o._capacity
    BY ONLY Sized(o), <2>4, <2>5, PutNamed
  <2>7. q = Filled(b, {m - 1}, values[m])
    <3>1. ASSUME NEW i \in Range0(0, o._capacity)
          PROVE  q[i] = IF i \in {m - 1} THEN values[m] ELSE p[i]
      <4>1. /\ i < m - 1 => i < m /\ i # m - 1
            /\ i < m /\ ~ (i < m - 1) => i = m - 1 /\ i + 1 = m
            /\ i = m - 1 => i < m
        BY ONLY <1>1, m \in 1 .. n, i \in Range0(0, o._capacity) DEF Range0
      <4>2. QED
        BY <2>4, <4>1
    <3>2. q = [i \in Range0(0, o._capacity) |-> q[i]]
      BY <2>4 DEF Block
    <3>3. QED
      BY <2>6, <3>1, <3>2 DEF Filled
  <2>8. Construct(b, {m - 1}, values[m]) = Put(b, q)
    <3>1. ~trivial => \A i \in {m - 1} : b._data[i] \notin Owners
      BY <2>3, <2>4, <2>6
    <3>2. {m - 1} \subseteq Range0(0, b._capacity) /\ values[m] \in Slots
      BY <1>1, <2>3, <2>6, SlotKinds
    <3>3. QED
      BY <2>6, <2>7, <3>1, <3>2, ConstructIs, Zenon
  <2>9. Put(b, q) = Put(o, q)
    BY <2>5, PutTwice, Zenon
  <2>10. QED
    BY <2>1, <2>2, <2>5, <2>8, <2>9, Zenon
<1> HIDE DEF P
<1>5. g = Round(g)
  <2>1. ASSUME NEW m \in 0 .. n
        PROVE  Put(o, P(m)) = IF m = 0 THEN o
                              ELSE Construct(g[m - 1], {m - 1}, values[m])
    <3>1. CASE m = 0
      BY <3>1, <1>3
    <3>2. CASE m # 0
      <4>1. m \in 1 .. n /\ m - 1 \in 0 .. n
        BY <1>1, <3>2
      <4>2. g[m - 1] = Put(o, P(m - 1))
        BY <4>1
      <4>3. QED
        BY <1>4, <3>2, <4>1, <4>2, Zenon
    <3>3. QED
      BY <3>1, <3>2
  <2>2. QED
    BY <2>1, Zenon
<1>6. built = Round(built)
  BY <1>5, Zenon
<1> HIDE DEF built
<1>7. built[n] = g[n]
  <2>1. built[0] = g[0]
    BY <1>1, <1>3, <1>6
  <2>2. ASSUME NEW m \in 1 .. n, built[m - 1] = g[m - 1] PROVE built[m] = g[m]
    <3>1. m \in 0 .. n /\ m # 0
      BY <1>1
    <3>2. built[m] = Construct(built[m - 1], {m - 1}, values[m])
      BY <1>6, <3>1, Zenon
    <3>3. g[m] = Construct(g[m - 1], {m - 1}, values[m])
      BY <1>5, <3>1, Zenon
    <3>4. QED
      BY <2>2, <3>2, <3>3, Zenon
  <2> HIDE DEF g
  <2>3. n \in Nat /\ n \in 0 .. n
    BY <1>1
  <2>4. \A m \in 0 .. n : built[m] = g[m]
    <3>1. PICK x : x = built
      OBVIOUS
    <3>2. PICK y : y = g
      OBVIOUS
    <3>3. PICK k \in Nat : k = n
      BY <2>3
    <3>4. x[0] = y[0] /\ \A m \in 1 .. k : x[m - 1] = y[m - 1] => x[m] = y[m]
      BY ONLY <2>1, <2>2, <3>1, <3>2, <3>3
    <3>5. \A m \in 0 .. k : x[m] = y[m]
      BY ONLY k \in Nat, <3>4, Agree
    <3>6. QED
      BY <3>1, <3>2, <3>3, <3>5
  <2>5. QED
    BY <2>3, <2>4
<1>8. PICK d : d = P(n)
  OBVIOUS
<1>9. PICK b : b = Put(o, d)
  OBVIOUS
<1>10. built[n] = b
  <2>1. g[n] = Put(o, P(n))
    BY <1>1
  <2>2. QED
    BY <1>7, <1>8, <1>9, <2>1, Zenon
<1>11. /\ d \in Block(o._capacity)
       /\ \A i \in Range0(0, o._capacity) : d[i] = IF i < n THEN values[i + 1] ELSE o._data[i]
  BY <1>1, <1>2, <1>8
<1>12. Sized(b) /\ b._data = d /\ b._length = n /\ b._capacity = o._capacity
  BY ONLY Sized(o), o._length = n, <1>9, <1>11, PutNamed
<1>13. ASSUME NEW i \in Range0(0, n)
       PROVE  b._data[i] = values[i + 1] /\ i + 1 \in 1 .. n
  <2>1. i \in Range0(0, o._capacity) /\ i < n /\ i + 1 \in 1 .. n
    BY ONLY <1>1, i \in Range0(0, n) DEF Range0
  <2>2. QED
    BY <1>11, <1>12, <2>1
<1>14. ASSUME ~trivial, NEW i \in Range0(n, o._capacity) PROVE b._data[i] \in {Raw, Moved}
  <2>1. i \in Range0(0, o._capacity) /\ ~ (i < n)
    BY ONLY <1>1, i \in Range0(n, o._capacity) DEF Range0
  <2>2. QED
    BY <1>11, <1>12, <1>14, <2>1
<1>15. Whole(b)
  <2>1. ~trivial => /\ \A i \in Range0(0, b._length) : b._data[i] # Raw
                    /\ \A i \in Range0(b._length, b._capacity) : b._data[i] \in {Raw, Moved}
    BY <1>1, <1>12, <1>13, <1>14, SlotKinds
  <2>2. QED
    BY <1>12, <2>1, MakeWhole
<1>16. Building(o, values, n) = b
  BY <1>10, Zenon DEF Building, built
<1>17. QED
  BY <1>12, <1>13, <1>15, <1>16, Zenon

-----------------------------------------------------------------------------
(* The elements as a sequence. *)

Contents(a) == [m \in 1 .. a._length |-> a._data[m - 1]]

LEMMA ContentsIs ==
  ASSUME NEW a, Whole(a)
  PROVE  /\ Contents(a) \in Seq(Slots) /\ Len(Contents(a)) = a._length
         /\ \A m \in 1 .. a._length : Contents(a)[m] = a._data[m - 1]
<1>1. a._length \in Nat /\ \A m \in 1 .. a._length : a._data[m - 1] \in Slots
  <2>1. Sized(a) /\ a._length \in Nat /\ a._capacity \in Nat /\ a._length <= a._capacity
    BY WholeIs
  <2>2. \A m \in 1 .. a._length : m - 1 \in Range0(0, a._capacity)
    BY <2>1 DEF Range0
  <2>3. QED
    BY <2>1, <2>2, SizedIs
<1>2. QED
  BY <1>1 DEF Contents

(* What is behind the elements of a trivial type is forgotten. *)
LEMMA ForgetIs ==
  ASSUME NEW a, Whole(a)
  PROVE  Whole(Forget(a)) /\ Contents(Forget(a)) = Contents(a)
<1>1. CASE ~trivial
  <2>1. Forget(a) = a
    BY <1>1, Zenon DEF Forget
  <2>2. QED
    BY <2>1, Zenon
<1>2. CASE trivial
  <2>1. PICK d : d = [i \in DOMAIN a._data |-> IF i < a._length THEN a._data[i] ELSE Raw]
    OBVIOUS
  <2>2. /\ Sized(a) /\ a._length \in Nat /\ a._capacity \in Nat /\ a._length <= a._capacity
    BY WholeIs
  <2>3. DOMAIN a._data = Range0(0, a._capacity) /\ a._data \in Block(a._capacity)
    BY <2>2, SizedIs
  <2>4. d \in Block(a._capacity)
    BY <2>1, <2>3, SlotKinds DEF Block
  <2>5. PICK b : b = Put(a, d)
    OBVIOUS
  <2>6. Sized(b) /\ b._data = d /\ b._length = a._length
    BY ONLY <2>2, <2>4, <2>5, PutNamed
  <2>7. Forget(a) = [a EXCEPT !._data = d]
    BY <1>2, <2>1, Zenon DEF Forget
  <2>8. Forget(a) = b
    BY <2>2, <2>5, <2>7, PutExcept, Zenon
  <2>9. Whole(b)
    BY <1>2, <2>6, Zenon DEF Whole
  <2>10. ASSUME NEW m \in 1 .. a._length PROVE d[m - 1] = a._data[m - 1]
    <3>1. m - 1 \in Range0(0, a._capacity) /\ m - 1 < a._length
      BY ONLY <2>2, m \in 1 .. a._length DEF Range0
    <3>2. QED
      BY <2>1, <2>3, <3>1
  <2>11. Contents(b) = Contents(a)
    BY <2>6, <2>10 DEF Contents
  <2>12. QED
    BY <2>8, <2>9, <2>11, Zenon
<1>3. QED
  BY <1>1, <1>2, Zenon

LEMMA DoneIs ==
  ASSUME NEW what, NEW a, NEW ok \in BOOLEAN, NEW safe, Done(what, a, ok, safe),
         sound \in BOOLEAN, sound', safe => Whole(a)
  PROVE  /\ sound /\ safe /\ Whole(array') /\ Contents(array') = Contents(a)
         /\ call' = [what |-> what, ok |-> ok]
         /\ UNCHANGED <<kind, pc>>
<1>1. /\ array' = Forget(a) /\ call' = [what |-> what, ok |-> ok]
      /\ sound' = (sound /\ safe) /\ UNCHANGED <<kind, pc>>
  BY Zenon DEF Done
<1>2. sound /\ safe
  BY <1>1, Zenon
<1>3. Whole(Forget(a)) /\ Contents(Forget(a)) = Contents(a)
  BY <1>2, ForgetIs, Zenon
<1>4. QED
  BY <1>1, <1>2, <1>3, Zenon

-----------------------------------------------------------------------------
(* Sequences whose elements are those of others. *)

LEMMA Joined ==
  ASSUME NEW u \in Seq(Slots), NEW q \in Seq(Slots), NEW t \in Seq(Slots),
         Len(t) = Len(u) + Len(q),
         \A m \in 1 .. Len(u) : t[m] = u[m],
         \A m \in Len(u) + 1 .. Len(t) : t[m] = q[m - Len(u)]
  PROVE  t = u \o q
<1>1. /\ u \o q \in Seq(Slots) /\ Len(u \o q) = Len(t)
      /\ \A m \in 1 .. Len(t) : (u \o q)[m] = IF m <= Len(u) THEN u[m] ELSE q[m - Len(u)]
  BY ConcatProperties
<1>2. ASSUME NEW m \in 1 .. Len(t) PROVE t[m] = (u \o q)[m]
  <2>1. Len(u) \in Nat /\ Len(t) \in Nat
    OBVIOUS
  <2>2. CASE m <= Len(u)
    <3>1. m \in 1 .. Len(u)
      BY <2>1, <2>2
    <3>2. QED
      BY <1>1, <2>2, <3>1
  <2>3. CASE ~ (m <= Len(u))
    <3>1. m \in Len(u) + 1 .. Len(t)
      BY <2>1, <2>3
    <3>2. QED
      BY <1>1, <2>3, <3>1
  <2>4. QED
    BY <2>2, <2>3
<1>3. QED
  BY <1>1, <1>2, SeqEqual

LEMMA Spliced ==
  ASSUME NEW s \in Seq(Slots), NEW t \in Seq(Slots), NEW index \in 0 .. Len(s), NEW v \in Slots,
         Len(t) = Len(s) + 1, t[index + 1] = v,
         \A m \in 1 .. index : t[m] = s[m],
         \A m \in index + 2 .. Len(s) + 1 : t[m] = s[m - 1]
  PROVE  t = SubSeq(s, 1, index) \o <<v>> \o SubSeq(s, index + 1, Len(s))
<1>1. PICK p : p = SubSeq(s, 1, index)
  OBVIOUS
<1>2. PICK q : q = SubSeq(s, index + 1, Len(s))
  OBVIOUS
<1>3. PICK u : u = p \o <<v>>
  OBVIOUS
<1>4. /\ p \in Seq(Slots) /\ Len(p) = index /\ \A m \in 1 .. index : p[m] = s[m]
  BY <1>1
<1>5. /\ q \in Seq(Slots) /\ Len(q) = Len(s) - index
      /\ \A m \in 1 .. Len(s) - index : q[m] = s[index + m]
  BY <1>2
<1>6. /\ u \in Seq(Slots) /\ Len(u) = index + 1 /\ u[index + 1] = v
      /\ \A m \in 1 .. index : u[m] = s[m]
  BY <1>3, <1>4
<1>7. Len(s) \in Nat /\ index \in Nat /\ index <= Len(s)
  OBVIOUS
<1>8. ASSUME NEW m \in 1 .. Len(u) PROVE t[m] = u[m]
  <2>1. m \in 1 .. index \/ m = index + 1
    BY <1>6, <1>7
  <2>2. QED
    BY <1>6, <2>1
<1>9. ASSUME NEW m \in Len(u) + 1 .. Len(t) PROVE t[m] = q[m - Len(u)]
  <2>1. /\ m \in index + 2 .. Len(s) + 1 /\ m - Len(u) \in 1 .. Len(s) - index
        /\ index + (m - Len(u)) = m - 1
    BY <1>6, <1>7
  <2>2. QED
    BY <1>5, <2>1
<1>10. Len(t) = Len(u) + Len(q)
  BY <1>5, <1>6, <1>7
<1>11. t = u \o q
  BY ONLY t \in Seq(Slots), <1>5, <1>6, <1>8, <1>9, <1>10, Joined
<1>12. QED
  BY <1>1, <1>2, <1>3, <1>11, Zenon

LEMMA Taken ==
  ASSUME NEW s \in Seq(Slots), NEW t \in Seq(Slots), NEW first \in Nat, NEW last \in Nat,
         first <= last, last <= Len(s), Len(t) = last - first,
         \A m \in 1 .. last - first : t[m] = s[m + first]
  PROVE  t = SubSeq(s, first + 1, last)
<1>1. /\ SubSeq(s, first + 1, last) \in Seq(Slots) /\ Len(SubSeq(s, first + 1, last)) = last - first
      /\ \A m \in 1 .. last - first : SubSeq(s, first + 1, last)[m] = s[m + first]
  OBVIOUS
<1>2. QED
  BY <1>1, SeqEqual

LEMMA Without ==
  ASSUME NEW s \in Seq(Slots), NEW t \in Seq(Slots), NEW first \in Nat, NEW last \in Nat,
         first <= last, last <= Len(s), Len(t) = Len(s) - (last - first),
         \A m \in 1 .. first : t[m] = s[m],
         \A m \in first + 1 .. Len(t) : t[m] = s[m + (last - first)]
  PROVE  t = SubSeq(s, 1, first) \o SubSeq(s, last + 1, Len(s))
<1>1. PICK p : p = SubSeq(s, 1, first)
  OBVIOUS
<1>2. PICK q : q = SubSeq(s, last + 1, Len(s))
  OBVIOUS
<1>3. /\ p \in Seq(Slots) /\ Len(p) = first /\ \A m \in 1 .. first : p[m] = s[m]
  BY <1>1
<1>4. /\ q \in Seq(Slots) /\ Len(q) = Len(s) - last
      /\ \A m \in 1 .. Len(s) - last : q[m] = s[last + m]
  BY <1>2
<1>5. ASSUME NEW m \in Len(p) + 1 .. Len(t) PROVE t[m] = q[m - Len(p)]
  <2>1. /\ m \in first + 1 .. Len(t) /\ m - Len(p) \in 1 .. Len(s) - last
        /\ last + (m - Len(p)) = m + (last - first)
    BY <1>3
  <2>2. QED
    BY <1>4, <2>1
<1>6. /\ \A m \in 1 .. Len(p) : t[m] = p[m]
      /\ Len(t) = Len(p) + Len(q)
  <2>1. Len(s) \in Nat
    OBVIOUS
  <2>2. Len(t) = Len(p) + Len(q)
    BY <1>3, <1>4, <2>1
  <2>3. QED
    BY <1>3, <2>2
<1>7. t = p \o q
  BY ONLY t \in Seq(Slots), <1>3, <1>4, <1>5, <1>6, Joined
<1>8. QED
  BY <1>1, <1>2, <1>7, Zenon

LEMMA Begins ==
  ASSUME NEW s \in Seq(Slots), NEW t \in Seq(Slots), Len(s) <= Len(t),
         \A m \in 1 .. Len(s) : t[m] = s[m]
  PROVE  IsPrefix(s, t)
<1>1. SubSeq(s, 1, Len(s)) = SubSeq(t, 1, Len(s))
  <2>1. /\ SubSeq(s, 1, Len(s)) \in Seq(Slots) /\ Len(SubSeq(s, 1, Len(s))) = Len(s)
        /\ \A m \in 1 .. Len(s) : SubSeq(s, 1, Len(s))[m] = s[m]
    OBVIOUS
  <2>2. /\ SubSeq(t, 1, Len(s)) \in Seq(Slots) /\ Len(SubSeq(t, 1, Len(s))) = Len(s)
        /\ \A m \in 1 .. Len(s) : SubSeq(t, 1, Len(s))[m] = t[m]
    OBVIOUS
  <2>3. QED
    BY <2>1, <2>2, SeqEqual
<1>2. QED
  BY <1>1 DEF IsPrefix

LEMMA Ends ==
  ASSUME NEW s \in Seq(Slots), NEW t \in Seq(Slots), Len(s) <= Len(t),
         \A m \in 1 .. Len(s) : t[m + (Len(t) - Len(s))] = s[m]
  PROVE  IsSuffix(s, t)
<1>1. /\ Reverse(s) \in Seq(Slots) /\ Len(Reverse(s)) = Len(s)
      /\ \A m \in 1 .. Len(s) : Reverse(s)[m] = s[Len(s) - m + 1]
  BY DEF Reverse
<1>2. /\ Reverse(t) \in Seq(Slots) /\ Len(Reverse(t)) = Len(t)
      /\ \A m \in 1 .. Len(t) : Reverse(t)[m] = t[Len(t) - m + 1]
  BY DEF Reverse
<1>3. ASSUME NEW m \in 1 .. Len(s) PROVE Reverse(t)[m] = Reverse(s)[m]
  <2>1. /\ Len(s) - m + 1 \in 1 .. Len(s) /\ m \in 1 .. Len(t)
        /\ (Len(s) - m + 1) + (Len(t) - Len(s)) = Len(t) - m + 1
    OBVIOUS
  <2>2. t[(Len(s) - m + 1) + (Len(t) - Len(s))] = s[Len(s) - m + 1]
    BY <2>1
  <2>3. QED
    BY <1>1, <1>2, <2>1, <2>2
<1>4. IsPrefix(Reverse(s), Reverse(t))
  BY <1>1, <1>2, <1>3, Begins
<1>5. QED
  BY <1>4 DEF IsSuffix

-----------------------------------------------------------------------------
(* What a call comes to for a client that keeps to the sound ones. *)

Sane == sound \in BOOLEAN /\ (sound => Whole(array))
Faithful == Whole(array') /\ UNCHANGED <<kind, pc>> /\ Promise!Next

LEMMA ReturnIs ==
  ASSUME Sane, NEW what, NEW a, NEW ok \in BOOLEAN, NEW safe, Done(what, a, ok, safe),
         sound', safe => Whole(a)
  PROVE  /\ sound /\ safe /\ Whole(array) /\ Whole(a) /\ Whole(array')
         /\ UNCHANGED <<kind, pc>>
         /\ Elements = Contents(array) /\ Elements' = Contents(a)
         /\ call'.what = what /\ call'.ok = ok
<1>1. /\ sound /\ safe /\ Whole(array') /\ Contents(array') = Contents(a)
      /\ call' = [what |-> what, ok |-> ok]
      /\ UNCHANGED <<kind, pc>>
  BY DoneIs DEF Sane
<1>2. Elements = Contents(array) /\ Elements' = Contents(array')
  BY DEF Elements, Contents
<1>3. call'.what = what /\ call'.ok = ok
  BY <1>1
<1>4. QED
  BY <1>1, <1>2, <1>3, Zenon DEF Sane

LEMMA NoMemoryIs ==
  ASSUME Sane, NEW what, what[1] # "build", NoMemory(what), sound'
  PROVE  Faithful
<1>1. Done(what, array, FALSE, TRUE)
  BY Zenon DEF NoMemory
<1>2. PICK ok \in BOOLEAN : ok = FALSE
  OBVIOUS
<1>3. PICK safe : safe = TRUE
  OBVIOUS
<1>4. Done(what, array, ok, safe)
  BY <1>1, <1>2, <1>3, Zenon
<1>5. safe => Whole(array)
  <2>1. sound
    BY <1>1, Zenon DEF Done, Sane
  <2>2. QED
    BY <2>1 DEF Sane
<1>6. /\ Whole(array') /\ UNCHANGED <<kind, pc>>
      /\ Elements = Contents(array) /\ Elements' = Contents(array)
      /\ call'.what = what /\ call'.ok = ok
  BY <1>4, <1>5, ReturnIs, Zenon
<1>7. Promise!Next
  <2>1. ~call'.ok /\ call'.what[1] # "build"
    BY <1>2, <1>6
  <2>2. Elements' = Elements
    BY <1>6, Zenon
  <2>3. QED
    BY ONLY <2>1, <2>2 DEF Promise!Next, Promise!Kept
<1>8. QED
  BY <1>6, <1>7, Zenon DEF Faithful

LEMMA SoundIs ==
  ASSUME Sane, NEW what, NEW a, NEW ok, NEW safe, Done(what, a, ok, safe), sound'
  PROVE  sound /\ safe /\ Whole(array)
<1>1. sound /\ safe
  BY Zenon DEF Done
<1>2. QED
  BY <1>1, Zenon DEF Sane

LEMMA NoFirstBlock ==
  ASSUME NEW n, sound'
  PROVE  ~FirstBlockAborts(n)
BY Zenon DEF FirstBlockAborts, Abort

LEMMA SuccessIs ==
  ASSUME Sane, NEW what, NEW a, NEW safe, Done(what, a, TRUE, safe), sound', Whole(a)
  PROVE  /\ Elements = Contents(array) /\ Elements' = Contents(a)
         /\ Promise!Take(what) => Faithful
<1>1. PICK ok \in BOOLEAN : ok = TRUE
  OBVIOUS
<1>2. Done(what, a, ok, safe)
  BY <1>1, Zenon
<1>3. /\ Whole(array') /\ UNCHANGED <<kind, pc>>
      /\ Elements = Contents(array) /\ Elements' = Contents(a)
      /\ call'.what = what /\ call'.ok = ok
  BY <1>2, ReturnIs, Zenon
<1>4. ASSUME Promise!Take(what) PROVE Promise!Next
  <2>1. call'.ok
    BY <1>1, <1>3
  <2>2. Promise!Take(call'.what)
    BY <1>3, <1>4, Zenon
  <2>3. QED
    BY <2>1, <2>2, Zenon DEF Promise!Next
<1>5. QED
  BY <1>3, <1>4, Zenon DEF Faithful

LEMMA FailureIs ==
  ASSUME Sane, NEW what, NEW a, NEW safe, Done(what, a, FALSE, safe), sound', Whole(a),
         IF what[1] = "build" THEN Contents(a) = <<>> ELSE Contents(a) = Contents(array)
  PROVE  Faithful
<1>1. PICK ok \in BOOLEAN : ok = FALSE
  OBVIOUS
<1>2. Done(what, a, ok, safe)
  BY <1>1, Zenon
<1>3. /\ Whole(array') /\ UNCHANGED <<kind, pc>>
      /\ Elements = Contents(array) /\ Elements' = Contents(a)
      /\ call'.what = what /\ call'.ok = ok
  BY <1>2, ReturnIs, Zenon
<1>4. Promise!Next
  <2>1. ~call'.ok /\ call'.what = what
    BY <1>1, <1>3
  <2>2. IF what[1] = "build" THEN Elements' = <<>> ELSE Elements' = Elements
    BY <1>3, Zenon
  <2>3. QED
    BY ONLY <2>1, <2>2 DEF Promise!Next, Promise!Kept
<1>5. QED
  BY <1>3, <1>4, Zenon DEF Faithful

(* Two arrays of which one has the other's elements have equal contents. *)
LEMMA SameContents ==
  ASSUME NEW b, Whole(array), Same(b)
  PROVE  Contents(b) = Contents(array)
<1>1. array._length \in Nat
  BY WholeIs
<1>2. \A m \in 1 .. array._length : m - 1 \in Range0(0, array._length)
  BY <1>1 DEF Range0
<1>3. QED
  BY <1>2 DEF Contents, Same

LEMMA InsertDoes ==
  ASSUME Sane, NEW index \in Nat, NEW value \in Values, Insert(index, value), sound'
  PROVE  Faithful
<1>1. PICK what : what = <<"insert", index, value>>
  OBVIOUS
<1>2. CASE NoMemory(what)
  <2>1. what[1] # "build"
    BY <1>1
  <2>2. QED
    BY <1>2, <2>1, NoMemoryIs, Zenon
<1>3. CASE Done(what, Construct(OpenGap(index, 1, FALSE), {index}, value), TRUE, TRUE)
  <2>1. Whole(array)
    BY <1>3, SoundIs, Zenon
  <2>2. array._length \in Nat /\ index \in 0 .. array._length
    <3>1. index <= array._length
      BY Zenon DEF Insert
    <3>2. array._length \in Nat
      BY <2>1, WholeIs
    <3>3. QED
      BY <3>1, <3>2
  <2>3. PICK b :
          /\ Construct(OpenGap(index, 1, FALSE), {index}, value) = b
          /\ Whole(b) /\ Opened(b, index, 1) /\ b._data[index] = value
    BY <2>1, <2>2, InsertedIs
  <2>4. /\ Elements = Contents(array) /\ Elements' = Contents(b)
        /\ Promise!Take(what) => Faithful
    BY <1>3, <2>3, SuccessIs, Zenon
  <2>5. PICK s : s = Contents(array)
    OBVIOUS
  <2>6. PICK t : t = Contents(b)
    OBVIOUS
  <2>7. /\ s \in Seq(Slots) /\ Len(s) = array._length
        /\ \A m \in 1 .. array._length : s[m] = array._data[m - 1]
    BY <2>1, <2>5, ContentsIs
  <2>8. /\ t \in Seq(Slots) /\ Len(t) = array._length + 1
        /\ \A m \in 1 .. array._length + 1 : t[m] = b._data[m - 1]
    <3>1. b._length = array._length + 1
      BY <2>3 DEF Opened
    <3>2. QED
      BY <2>3, <2>6, <3>1, ContentsIs
  <2>9. t[index + 1] = value
    <3>1. index + 1 \in 1 .. array._length + 1 /\ (index + 1) - 1 = index
      BY ONLY <2>2
    <3>2. QED
      BY <2>3, <2>8, <3>1
  <2>10. ASSUME NEW m \in 1 .. index PROVE t[m] = s[m]
    <3>1. /\ m \in 1 .. array._length + 1 /\ m \in 1 .. array._length
          /\ m - 1 \in Range0(0, index)
      BY ONLY <2>2, m \in 1 .. index DEF Range0
    <3>2. QED
      BY <2>3, <2>7, <2>8, <3>1 DEF Opened
  <2>11. ASSUME NEW m \in index + 2 .. Len(s) + 1 PROVE t[m] = s[m - 1]
    <3>1. /\ m \in 1 .. array._length + 1 /\ m - 1 \in 1 .. array._length
          /\ m - 1 \in Range0(index + 1, array._length + 1)
      BY <2>2, <2>7 DEF Range0
    <3>2. b._data[m - 1] = array._data[(m - 1) - 1]
      BY <2>3, <3>1 DEF Opened
    <3>3. QED
      BY <2>7, <2>8, <3>1, <3>2
  <2>12. t = SubSeq(s, 1, index) \o <<value>> \o SubSeq(s, index + 1, Len(s))
    <3>1. index \in 0 .. Len(s) /\ value \in Slots /\ Len(t) = Len(s) + 1
      BY <2>2, <2>7, <2>8, SlotKinds
    <3>2. QED
      BY ONLY <2>7, <2>8, <2>9, <2>10, <2>11, <3>1, Spliced
  <2>13. Promise!Insert(index, value)
    BY <2>4, <2>5, <2>6, <2>12, Zenon DEF Promise!Insert, Promise!Prefix, Promise!Suffix
  <2>14. Promise!Take(what)
    <3>1. what[1] = "insert" /\ what[2] = index /\ what[3] = value
      BY <1>1
    <3>2. QED
      BY <2>13, <3>1, Zenon DEF Promise!Take
  <2>15. QED
    BY <2>4, <2>14, Zenon
<1>4. ~FirstBlockAborts(array._length + 1)
  BY NoFirstBlock, Zenon
<1>5. QED
  BY <1>1, <1>2, <1>3, <1>4, Zenon DEF Insert

LEMMA InsertRangeDoes ==
  ASSUME Sane, NEW index \in Nat, NEW n \in Nat, n > 0, InsertRange(index, n), sound'
  PROVE  Faithful
<1>1. PICK what : what = <<"insert_range", index, n>>
  OBVIOUS
<1>2. CASE NoMemory(what)
  <2>1. what[1] # "build"
    BY <1>1
  <2>2. QED
    BY <1>2, <2>1, NoMemoryIs, Zenon
<1>3. CASE Done(what, OpenGap(index, n, TRUE), TRUE, trivial \/ Fits(array._length + n))
  <2>1. Whole(array) /\ (trivial \/ Fits(array._length + n))
    BY <1>3, SoundIs, Zenon
  <2>2. array._length \in Nat /\ index \in 0 .. array._length
    <3>1. index <= array._length
      BY Zenon DEF InsertRange
    <3>2. array._length \in Nat
      BY <2>1, WholeIs
    <3>3. QED
      BY <3>1, <3>2
  <2>3. PICK b : OpenGap(index, n, TRUE) = b /\ Whole(b) /\ Opened(b, index, n)
    BY <2>1, <2>2, InsertedRangeIs
  <2>4. /\ Elements = Contents(array) /\ Elements' = Contents(b)
        /\ Promise!Take(what) => Faithful
    BY <1>3, <2>3, SuccessIs, Zenon
  <2>5. PICK s : s = Contents(array)
    OBVIOUS
  <2>6. PICK t : t = Contents(b)
    OBVIOUS
  <2>7. /\ s \in Seq(Slots) /\ Len(s) = array._length
        /\ \A m \in 1 .. array._length : s[m] = array._data[m - 1]
    BY <2>1, <2>5, ContentsIs
  <2>8. /\ t \in Seq(Slots) /\ Len(t) = array._length + n
        /\ \A m \in 1 .. array._length + n : t[m] = b._data[m - 1]
    <3>1. b._length = array._length + n
      BY <2>3 DEF Opened
    <3>2. QED
      BY <2>3, <2>6, <3>1, ContentsIs
  <2>9. IsPrefix(SubSeq(s, 1, index), t)
    <3>1. PICK p : p = SubSeq(s, 1, index)
      OBVIOUS
    <3>2. p \in Seq(Slots) /\ Len(p) = index /\ \A m \in 1 .. index : p[m] = s[m]
      BY <2>2, <2>7, <3>1
    <3>3. ASSUME NEW m \in 1 .. index PROVE t[m] = p[m]
      <4>1. /\ m \in 1 .. array._length + n /\ m \in 1 .. array._length
            /\ m - 1 \in Range0(0, index)
        BY ONLY <2>2, n \in Nat, m \in 1 .. index DEF Range0
      <4>2. QED
        BY <2>3, <2>7, <2>8, <3>2, <4>1 DEF Opened
    <3>4. Len(p) <= Len(t)
      BY <2>2, <2>8, <3>2
    <3>5. IsPrefix(p, t)
      BY ONLY <2>8, <3>2, <3>3, <3>4, Begins
    <3>6. QED
      BY <3>1, <3>5, Zenon
  <2>10. IsSuffix(SubSeq(s, index + 1, Len(s)), t)
    <3>1. PICK q : q = SubSeq(s, index + 1, Len(s))
      OBVIOUS
    <3>2. /\ q \in Seq(Slots) /\ Len(q) = array._length - index
          /\ \A m \in 1 .. array._length - index : q[m] = s[index + m]
      BY <2>2, <2>7, <3>1
    <3>3. ASSUME NEW m \in 1 .. Len(q) PROVE t[m + (Len(t) - Len(q))] = q[m]
      <4>1. Len(q) = array._length - index /\ Len(t) = array._length + n
        BY <2>8, <3>2
      <4>2. /\ m \in 1 .. array._length - index
            /\ m + (Len(t) - Len(q)) = index + n + m
            /\ index + n + m \in 1 .. array._length + n /\ index + m \in 1 .. array._length
            /\ (index + n + m) - 1 \in Range0(index + n, array._length + n)
            /\ ((index + n + m) - 1) - n = (index + m) - 1
        BY ONLY <2>2, <4>1, n \in Nat, m \in 1 .. Len(q) DEF Range0
      <4>3. b._data[(index + n + m) - 1] = array._data[(index + m) - 1]
        BY <2>3, <4>2 DEF Opened
      <4>4. QED
        BY <2>7, <2>8, <3>2, <4>2, <4>3
    <3>4. Len(q) <= Len(t)
      BY <2>2, <2>8, <3>2
    <3>5. IsSuffix(q, t)
      BY ONLY <2>8, <3>2, <3>3, <3>4, Ends
    <3>6. QED
      BY <3>1, <3>5, Zenon
  <2>11. Promise!InsertRange(index, n)
    <3>1. Len(t) = Len(s) + n
      BY <2>7, <2>8
    <3>2. QED
      BY <2>4, <2>5, <2>6, <2>9, <2>10, <3>1, Zenon
         DEF Promise!InsertRange, Promise!Prefix, Promise!Suffix,
             Promise!IsPrefix, Promise!IsSuffix, Promise!Reverse, IsPrefix, IsSuffix, Reverse
  <2>12. Promise!Take(what)
    <3>1. what[1] = "insert_range" /\ what[2] = index /\ what[3] = n
      BY <1>1
    <3>2. QED
      BY <2>11, <3>1, Zenon DEF Promise!Take
  <2>13. QED
    BY <2>4, <2>12, Zenon
<1>4. ~FirstBlockAborts(array._length + n)
  BY NoFirstBlock, Zenon
<1>5. QED
  BY <1>1, <1>2, <1>3, <1>4, Zenon DEF InsertRange

(* Closing a gap, cutting and growing, as sequences. *)
LEMMA ClosedContents ==
  ASSUME Whole(array), NEW b, Whole(b), NEW first \in Nat, NEW last \in Nat, first <= last,
         last <= array._length, Closed(b, first, last),
         b._length = array._length - (last - first)
  PROVE  Contents(b) = SubSeq(Contents(array), 1, first)
                         \o SubSeq(Contents(array), last + 1, Len(Contents(array)))
<1>1. PICK s : s = Contents(array)
  OBVIOUS
<1>2. PICK t : t = Contents(b)
  OBVIOUS
<1>3. /\ s \in Seq(Slots) /\ Len(s) = array._length /\ array._length \in Nat
      /\ \A m \in 1 .. array._length : s[m] = array._data[m - 1]
  BY <1>1, ContentsIs, WholeIs
<1>4. /\ t \in Seq(Slots) /\ Len(t) = array._length - (last - first)
      /\ \A m \in 1 .. array._length - (last - first) : t[m] = b._data[m - 1]
  BY <1>2, ContentsIs
<1>5. ASSUME NEW m \in 1 .. first PROVE t[m] = s[m]
  <2>1. /\ m \in 1 .. array._length - (last - first) /\ m \in 1 .. array._length
        /\ m - 1 \in Range0(0, first)
    BY ONLY <1>3, first \in Nat, last \in Nat, first <= last, last <= array._length,
            m \in 1 .. first DEF Range0
  <2>2. QED
    BY <1>3, <1>4, <2>1 DEF Closed
<1>6. ASSUME NEW m \in first + 1 .. Len(t) PROVE t[m] = s[m + (last - first)]
  <2>1. /\ m \in 1 .. array._length - (last - first)
        /\ m + (last - first) \in 1 .. array._length
        /\ m - 1 \in Range0(first, array._length - (last - first))
        /\ (m - 1) + (last - first) = (m + (last - first)) - 1
    <3>1. /\ m \in Nat /\ first + 1 <= m /\ m <= array._length - (last - first)
          /\ array._length \in Nat
      BY ONLY <1>3, <1>4, first \in Nat, last \in Nat, first <= last,
              last <= array._length, m \in first + 1 .. Len(t)
    <3>2. QED
      BY ONLY <3>1, first \in Nat, last \in Nat, first <= last, last <= array._length
         DEF Range0
  <2>2. b._data[m - 1] = array._data[(m - 1) + (last - first)]
    BY <2>1 DEF Closed
  <2>3. QED
    BY <1>3, <1>4, <2>1, <2>2
<1>7. last <= Len(s) /\ Len(t) = Len(s) - (last - first)
  BY <1>3, <1>4
<1>8. t = SubSeq(s, 1, first) \o SubSeq(s, last + 1, Len(s))
  BY ONLY first \in Nat, last \in Nat, first <= last, <1>3, <1>4, <1>5, <1>6, <1>7, Without
<1>9. QED
  BY <1>1, <1>2, <1>8, Zenon

LEMMA TakenContents ==
  ASSUME Whole(array), NEW b, Whole(b), NEW first \in Nat, NEW last \in Nat, first <= last,
         last <= array._length, b._length = last - first,
         \A i \in Range0(0, last - first) : b._data[i] = array._data[i + first]
  PROVE  Contents(b) = SubSeq(Contents(array), first + 1, last)
<1>1. PICK s : s = Contents(array)
  OBVIOUS
<1>2. PICK t : t = Contents(b)
  OBVIOUS
<1>3. /\ s \in Seq(Slots) /\ Len(s) = array._length /\ array._length \in Nat
      /\ \A m \in 1 .. array._length : s[m] = array._data[m - 1]
  BY <1>1, ContentsIs, WholeIs
<1>4. /\ t \in Seq(Slots) /\ Len(t) = last - first
      /\ \A m \in 1 .. last - first : t[m] = b._data[m - 1]
  BY <1>2, ContentsIs
<1>5. ASSUME NEW m \in 1 .. last - first PROVE t[m] = s[m + first]
  <2>1. /\ m + first \in 1 .. array._length /\ m - 1 \in Range0(0, last - first)
        /\ (m - 1) + first = (m + first) - 1
    BY ONLY <1>3, first \in Nat, last \in Nat, first <= last, last <= array._length,
            m \in 1 .. last - first DEF Range0
  <2>2. b._data[m - 1] = array._data[(m - 1) + first]
    BY <2>1
  <2>3. QED
    BY <1>3, <1>4, <2>1, <2>2
<1>6. last <= Len(s)
  BY <1>3
<1>7. t = SubSeq(s, first + 1, last)
  BY ONLY first \in Nat, last \in Nat, first <= last, <1>3, <1>4, <1>5, <1>6, Taken
<1>8. QED
  BY <1>1, <1>2, <1>7, Zenon

LEMMA LongerContents ==
  ASSUME Whole(array), NEW length \in Nat, length >= array._length, NEW b, Longer(b, length)
  PROVE  Len(Contents(b)) = length /\ IsPrefix(Contents(array), Contents(b))
<1>1. PICK s : s = Contents(array)
  OBVIOUS
<1>2. PICK t : t = Contents(b)
  OBVIOUS
<1>3. /\ s \in Seq(Slots) /\ Len(s) = array._length /\ array._length \in Nat
      /\ \A m \in 1 .. array._length : s[m] = array._data[m - 1]
  BY <1>1, ContentsIs, WholeIs
<1>4. /\ t \in Seq(Slots) /\ Len(t) = length
      /\ \A m \in 1 .. length : t[m] = b._data[m - 1]
  BY <1>2, ContentsIs DEF Longer
<1>5. ASSUME NEW m \in 1 .. Len(s) PROVE t[m] = s[m]
  <2>1. m \in 1 .. length /\ m \in 1 .. array._length /\ m - 1 \in Range0(0, array._length)
    BY ONLY <1>3, length \in Nat, length >= array._length, m \in 1 .. Len(s) DEF Range0
  <2>2. b._data[m - 1] = array._data[m - 1]
    BY <2>1 DEF Longer
  <2>3. QED
    BY <1>3, <1>4, <2>1, <2>2
<1>6. Len(s) <= Len(t)
  BY <1>3, <1>4
<1>7. IsPrefix(s, t)
  BY ONLY <1>3, <1>4, <1>5, <1>6, Begins
<1>8. QED
  BY <1>1, <1>2, <1>4, <1>7, Zenon

(* What a call that erases, extracts or resizes leaves behind, when it     *)
(* succeeds.                                                               *)
LEMMA ErasedDoes ==
  ASSUME Sane, sound', NEW first \in Nat, NEW last \in Nat, first <= last,
         last <= array._length, NEW what, what = <<"erase_range", first, last>>,
         NEW b, Whole(b), Closed(b, first, last),
         b._length = array._length - (last - first),
         NEW safe, Done(what, b, TRUE, safe)
  PROVE  Faithful
<1>1. Whole(array)
  BY SoundIs, Zenon
<1>2. /\ Elements = Contents(array) /\ Elements' = Contents(b)
      /\ Promise!Take(what) => Faithful
  BY SuccessIs, Zenon
<1>3. Contents(b) = SubSeq(Contents(array), 1, first)
                      \o SubSeq(Contents(array), last + 1, Len(Contents(array)))
  BY <1>1, ClosedContents
<1>4. Promise!EraseRange(first, last)
  BY <1>2, <1>3, Zenon DEF Promise!EraseRange, Promise!Prefix, Promise!Suffix
<1>5. Promise!Take(what)
  <2>1. what[1] = "erase_range" /\ what[2] = first /\ what[3] = last
    OBVIOUS
  <2>2. QED
    BY <1>4, <2>1, Zenon DEF Promise!Take
<1>6. QED
  BY <1>2, <1>5, Zenon

LEMMA ExtractedDoes ==
  ASSUME Sane, sound', NEW first \in Nat, NEW last \in Nat, first <= last,
         last <= array._length, NEW what, what = <<"extract_range", first, last>>,
         NEW b, Whole(b), b._length = last - first,
         \A i \in Range0(0, last - first) : b._data[i] = array._data[i + first],
         NEW safe, Done(what, b, TRUE, safe)
  PROVE  Faithful
<1>1. Whole(array)
  BY SoundIs, Zenon
<1>2. /\ Elements = Contents(array) /\ Elements' = Contents(b)
      /\ Promise!Take(what) => Faithful
  BY SuccessIs, Zenon
<1>3. Contents(b) = SubSeq(Contents(array), first + 1, last)
  BY <1>1, TakenContents
<1>4. Promise!ExtractRange(first, last)
  BY <1>2, <1>3, Zenon DEF Promise!ExtractRange
<1>5. Promise!Take(what)
  <2>1. what[1] = "extract_range" /\ what[2] = first /\ what[3] = last
    OBVIOUS
  <2>2. QED
    BY <1>4, <2>1, Zenon DEF Promise!Take
<1>6. QED
  BY <1>2, <1>5, Zenon

LEMMA ShorterDoes ==
  ASSUME Sane, sound', NEW length \in Nat, length <= array._length,
         NEW what, what = <<"resize", length>>,
         NEW b, Whole(b), b._length = length,
         \A i \in Range0(0, length) : b._data[i] = array._data[i],
         NEW safe, Done(what, b, TRUE, safe)
  PROVE  Faithful
<1>1. Whole(array)
  BY SoundIs, Zenon
<1>2. /\ Elements = Contents(array) /\ Elements' = Contents(b)
      /\ Promise!Take(what) => Faithful
  BY SuccessIs, Zenon
<1>3. Contents(b) = SubSeq(Contents(array), 1, length)
  <2>1. PICK first \in Nat : first = 0
    OBVIOUS
  <2>2. ASSUME NEW i \in Range0(0, length - first) PROVE b._data[i] = array._data[i + first]
    <3>1. i \in Range0(0, length) /\ i + first = i
      BY <2>1 DEF Range0
    <3>2. QED
      BY <3>1
  <2>3. first <= length /\ b._length = length - first /\ first + 1 = 1
    BY <2>1
  <2>4. Contents(b) = SubSeq(Contents(array), first + 1, length)
    BY <1>1, <2>2, <2>3, TakenContents
  <2>5. QED
    BY <2>3, <2>4, Zenon
<1>4. length <= Len(Elements)
  BY <1>1, <1>2, ContentsIs
<1>5. Promise!Resize(length)
  BY <1>2, <1>3, <1>4, Zenon DEF Promise!Resize, Promise!Prefix
<1>6. Promise!Take(what)
  <2>1. what[1] = "resize" /\ what[2] = length
    OBVIOUS
  <2>2. QED
    BY <1>5, <2>1, Zenon DEF Promise!Take
<1>7. QED
  BY <1>2, <1>6, Zenon

LEMMA LongerDoes ==
  ASSUME Sane, sound', NEW length \in Nat, length > array._length,
         NEW what, what = <<"resize", length>>, NEW b, Longer(b, length),
         NEW safe, Done(what, b, TRUE, safe)
  PROVE  Faithful
<1>1. Whole(array) /\ array._length \in Nat
  <2>1. Whole(array)
    BY SoundIs, Zenon
  <2>2. QED
    BY <2>1, WholeIs
<1>2. /\ Elements = Contents(array) /\ Elements' = Contents(b)
      /\ Promise!Take(what) => Faithful
  BY SuccessIs, Zenon DEF Longer
<1>3. Len(Contents(b)) = length /\ IsPrefix(Contents(array), Contents(b))
  <2>1. length >= array._length
    BY <1>1
  <2>2. QED
    BY <1>1, <2>1, LongerContents
<1>4. ~(length <= Len(Elements))
  BY <1>1, <1>2, ContentsIs
<1>5. Promise!Resize(length)
  BY <1>2, <1>3, <1>4, Zenon DEF Promise!Resize, Promise!IsPrefix, IsPrefix
<1>6. Promise!Take(what)
  <2>1. what[1] = "resize" /\ what[2] = length
    OBVIOUS
  <2>2. QED
    BY <1>5, <2>1, Zenon DEF Promise!Take
<1>7. QED
  BY <1>2, <1>6, Zenon

(* The range a removal is asked for lies within the array.                 *)
LEMMA MayEraseIs ==
  ASSUME Whole(array), NEW first \in Nat, NEW last \in Nat, MayErase(first, last)
  PROVE  /\ array._length \in Nat /\ array._capacity \in Nat /\ array._length <= array._capacity
         /\ first \in 0 .. array._length /\ last \in first .. array._length
         /\ first < array._length /\ first <= last /\ last <= array._length
         /\ array._length - (last - first) \in 0 .. array._length
<1>1. first < array._length /\ first <= last /\ last <= array._length
  BY Zenon DEF MayErase
<1>2. array._length \in Nat /\ array._capacity \in Nat /\ array._length <= array._capacity
  BY WholeIs
<1>3. QED
  BY <1>1, <1>2

LEMMA EraseRangeDoes ==
  ASSUME Sane, NEW first \in Nat, NEW last \in Nat, EraseRange(first, last), sound'
  PROVE  Faithful
<1>1. PICK what : what = <<"erase_range", first, last>>
  OBVIOUS
<1>2. Done(what, [CloseGap(first, last) EXCEPT !._length = @ - (last - first)],
           TRUE, CloseGapSafe(first, last))
  BY <1>1, Zenon DEF EraseRange
<1>3. Whole(array) /\ CloseGapSafe(first, last)
  <2>1. sound /\ CloseGapSafe(first, last)
    BY <1>2, Zenon DEF Done
  <2>2. QED
    BY <2>1, Zenon DEF Sane
<1>4. /\ first \in 0 .. array._length /\ last \in first .. array._length
      /\ first < array._length /\ first <= last /\ last <= array._length
  BY <1>3, MayEraseIs, Zenon DEF EraseRange
<1>5. PICK b :
        /\ [CloseGap(first, last) EXCEPT !._length = @ - (last - first)] = b
        /\ Whole(b) /\ Closed(b, first, last)
        /\ b._length = array._length - (last - first)
  BY <1>3, <1>4, ErasedIs, Zenon
<1>6. QED
  <2>1. Done(what, b, TRUE, CloseGapSafe(first, last))
    BY <1>2, <1>5, Zenon
  <2>2. QED
    BY <1>1, <1>4, <1>5, <2>1, ErasedDoes, Zenon

LEMMA EraseRangeAndShrinkDoes ==
  ASSUME Sane, NEW first \in Nat, NEW last \in Nat, EraseRangeAndShrink(first, last), sound'
  PROVE  Faithful
<1>1. PICK what : what = <<"erase_range", first, last>>
  OBVIOUS
<1>2. PICK length : length = array._length - (last - first)
  OBVIOUS
<1>3. PICK safe : safe = (trivial /\ first = last)
  OBVIOUS
<1>4. /\ MayErase(first, last)
      /\ \/ Done(what, CloseGap(first, last), FALSE, trivial /\ first = last)
         \/ Abort
         \/ Done(what, ShrinkCapacity(CloseGap(first, last), length), TRUE,
                 CloseGapSafe(first, last) /\ ShrinkSafe(length))
  BY <1>1, <1>2, Zenon DEF EraseRangeAndShrink
<1>5. ~Abort
  BY DEF Abort
<1>6. CASE Done(what, CloseGap(first, last), FALSE, trivial /\ first = last)
  <2>1. Whole(array) /\ trivial /\ first = last
    <3>1. sound /\ trivial /\ first = last
      BY <1>6, Zenon DEF Done
    <3>2. QED
      BY <3>1, Zenon DEF Sane
  <2>2. /\ first \in 0 .. array._length /\ last \in first .. array._length
        /\ first < array._length /\ array._length \in Nat
    BY <1>4, <2>1, MayEraseIs, Zenon
  <2>3. CloseGapSafe(first, last)
    BY <2>1, Zenon DEF CloseGapSafe, ShiftSafe
  <2>4. PICK c :
          /\ CloseGap(first, last) = c /\ Sized(c) /\ Closed(c, first, last)
          /\ c._length = array._length /\ c._capacity = array._capacity
    BY <2>1, <2>2, <2>3, CloseGapIs, Zenon
  <2>5. Same(c)
    <3>1. Whole(c)
      BY <2>1, <2>4, Zenon DEF Whole
    <3>2. ASSUME NEW i \in Range0(0, array._length) PROVE c._data[i] = array._data[i]
      <4>1. \/ i \in Range0(0, first)
            \/ i \in Range0(first, array._length - (last - first)) /\ i + (last - first) = i
        BY ONLY <2>1, <2>2, i \in Range0(0, array._length), first \in Nat DEF Range0
      <4>2. QED
        BY <2>4, <4>1 DEF Closed
    <3>3. QED
      BY <2>4, <3>1, <3>2, Zenon DEF Same
  <2>6. Contents(c) = Contents(array)
    BY <2>1, <2>5, SameContents
  <2>7. what[1] # "build"
    BY <1>1
  <2>8. Done(what, c, FALSE, trivial /\ first = last) /\ Whole(c)
    BY <1>6, <2>4, <2>5, Zenon DEF Same
  <2>9. QED
    BY <2>6, <2>7, <2>8, FailureIs, Zenon
<1>7. CASE Done(what, ShrinkCapacity(CloseGap(first, last), length), TRUE,
                CloseGapSafe(first, last) /\ ShrinkSafe(length))
  <2>1. Whole(array) /\ CloseGapSafe(first, last) /\ ShrinkSafe(length)
    <3>1. sound /\ CloseGapSafe(first, last) /\ ShrinkSafe(length)
      BY <1>7, Zenon DEF Done
    <3>2. QED
      BY <3>1, Zenon DEF Sane
  <2>2. /\ first \in 0 .. array._length /\ last \in first .. array._length
        /\ first < array._length /\ array._length \in Nat /\ array._capacity \in Nat
        /\ first <= last /\ last <= array._length /\ array._length <= array._capacity
    BY <1>4, <2>1, MayEraseIs, Zenon
  <2>3. PICK c :
          /\ CloseGap(first, last) = c /\ Sized(c) /\ Closed(c, first, last)
          /\ c._length = array._length /\ c._capacity = array._capacity
    BY <2>1, <2>2, CloseGapIs, Zenon
  <2>4. length \in Nat /\ length <= c._capacity
    BY <1>2, <2>2, <2>3
  <2>5. PICK b :
          /\ ShrinkCapacity(c, length) = b /\ Whole(b) /\ b._length = length
          /\ \A i \in Range0(0, length) : b._data[i] = c._data[i]
    BY ONLY <2>1, <2>3, <2>4, ShrinkCapacityIs
  <2>6. Closed(b, first, last)
    <3>1. ASSUME NEW i \in Range0(0, first) PROVE i \in Range0(0, length)
      BY ONLY <1>2, <2>2, i \in Range0(0, first) DEF Range0
    <3>2. ASSUME NEW i \in Range0(first, array._length - (last - first))
          PROVE  i \in Range0(0, length)
      BY ONLY <1>2, <2>2, first \in Nat, i \in Range0(first, array._length - (last - first))
         DEF Range0
    <3>3. QED
      BY <2>3, <2>5, <3>1, <3>2, Zenon DEF Closed
  <2>7. Done(what, b, TRUE, CloseGapSafe(first, last) /\ ShrinkSafe(length))
    BY <1>7, <2>3, <2>5, Zenon
  <2>8. QED
    BY <1>1, <1>2, <2>2, <2>5, <2>6, <2>7, ErasedDoes, Zenon
<1>8. QED
  BY <1>4, <1>5, <1>6, <1>7, Zenon

(* pop_front is an erasure of the range from 0 to 1. *)
LEMMA PoppedDoes ==
  ASSUME Sane, sound', NEW length \in Nat, length = array._length - 1, array._length \in Nat,
         NEW b, Whole(b), b._length = length,
         \A i \in Range0(0, length) : b._data[i] = array._data[i + 1],
         NEW safe, Done(<<"erase_range", 0, 1>>, b, TRUE, safe)
  PROVE  Faithful
<1>1. PICK first \in Nat : first = 0
  OBVIOUS
<1>2. PICK last \in Nat : last = 1
  OBVIOUS
<1>3. Closed(b, first, last)
  <2>1. ASSUME NEW i \in Range0(0, first) PROVE FALSE
    BY ONLY <1>1, i \in Range0(0, first) DEF Range0
  <2>2. ASSUME NEW i \in Range0(first, array._length - (last - first))
        PROVE  i \in Range0(0, length) /\ i + (last - first) = i + 1
    BY <1>1, <1>2 DEF Range0
  <2>3. ASSUME NEW i \in Range0(first, array._length - (last - first))
        PROVE  b._data[i] = array._data[i + (last - first)]
    BY <2>2
  <2>4. QED
    BY <2>1, <2>3, Zenon DEF Closed
<1>4. first <= last /\ last <= array._length /\ b._length = array._length - (last - first)
  BY <1>1, <1>2
<1>5. PICK what : what = <<"erase_range", first, last>>
  OBVIOUS
<1>6. Done(what, b, TRUE, safe)
  BY <1>1, <1>2, <1>5, Zenon
<1>7. QED
  BY <1>3, <1>4, <1>5, <1>6, ErasedDoes, Zenon

LEMMA PopFrontDoes ==
  ASSUME Sane, PopFront, sound'
  PROVE  Faithful
<1>1. PICK length : length = array._length - 1
  OBVIOUS
<1>2. /\ MayErase(0, 1)
      /\ Done(<<"erase_range", 0, 1>>,
              [Shrink(MoveData(array, 0, 1, length), length) EXCEPT !._length = length],
              TRUE, ShiftSafe(0, 1, length))
  BY <1>1, Zenon DEF PopFront
<1>3. Whole(array) /\ ShiftSafe(0, 1, length)
  <2>1. sound /\ ShiftSafe(0, 1, length)
    BY <1>2, Zenon DEF Done
  <2>2. QED
    BY <2>1, Zenon DEF Sane
<1>4. array._length \in Nat /\ length \in Nat
  <2>1. 0 < array._length
    BY <1>2, Zenon DEF MayErase
  <2>2. array._length \in Nat
    BY <1>3, WholeIs
  <2>3. QED
    BY <1>1, <2>1, <2>2
<1>5. PICK b :
        /\ [Shrink(MoveData(array, 0, 1, length), length) EXCEPT !._length = length] = b
        /\ Whole(b) /\ b._length = length
        /\ \A i \in Range0(0, length) : b._data[i] = array._data[i + 1]
  BY <1>1, <1>3, <1>4, PoppedIs, Zenon
<1>6. Done(<<"erase_range", 0, 1>>, b, TRUE, ShiftSafe(0, 1, length))
  BY <1>2, <1>5, Zenon
<1>7. QED
  BY <1>1, <1>4, <1>5, <1>6, PoppedDoes, Zenon

LEMMA PopFrontAndShrinkDoes ==
  ASSUME Sane, PopFrontAndShrink, sound'
  PROVE  Faithful
<1>1. PICK length : length = array._length - 1
  OBVIOUS
<1>2. PICK taken : taken = IF trivial THEN array ELSE [array EXCEPT !._data[0] = Moved]
  OBVIOUS
<1>3. PICK what : what = <<"erase_range", 0, 1>>
  OBVIOUS
<1>4. /\ MayErase(0, 1)
      /\ \/ Done(what, Restore(MoveData(taken, 0, 1, length), length, array._data[0]), FALSE,
                 ShiftSafe(0, 1, length))
         \/ Done(what, ShrinkCapacity(MoveData(taken, 0, 1, length), length), TRUE,
                 ShiftSafe(0, 1, length) /\ ShrinkSafe(length))
  BY <1>1, <1>2, <1>3, Zenon DEF PopFrontAndShrink
<1>5. Whole(array) /\ ShiftSafe(0, 1, length)
  <2>1. sound /\ ShiftSafe(0, 1, length)
    BY <1>4, Zenon DEF Done
  <2>2. QED
    BY <2>1, Zenon DEF Sane
<1>6. array._length \in Nat /\ length \in Nat /\ array._capacity \in Nat
      /\ array._length <= array._capacity
  <2>1. 0 < array._length
    BY <1>4, Zenon DEF MayErase
  <2>2. array._length \in Nat /\ array._capacity \in Nat /\ array._length <= array._capacity
    BY <1>5, WholeIs
  <2>3. QED
    BY <1>1, <2>1, <2>2
<1>7. PICK s, b :
        /\ MoveData(taken, 0, 1, length) = s
        /\ Restore(s, length, array._data[0]) = b /\ Same(b)
        /\ trivial => /\ Sized(s) /\ s._capacity = array._capacity
                      /\ \A i \in Range0(0, length) : s._data[i] = array._data[i + 1]
  BY ONLY <1>1, <1>2, <1>5, <1>6, RestoredIs
<1>8. CASE Done(what, Restore(MoveData(taken, 0, 1, length), length, array._data[0]), FALSE,
                ShiftSafe(0, 1, length))
  <2>1. Done(what, b, FALSE, ShiftSafe(0, 1, length))
    BY <1>7, <1>8, Zenon
  <2>2. Contents(b) = Contents(array) /\ Whole(b)
    BY <1>5, <1>7, SameContents, Zenon DEF Same
  <2>3. what[1] # "build"
    BY <1>3
  <2>4. QED
    BY <2>1, <2>2, <2>3, FailureIs, Zenon
<1>9. CASE Done(what, ShrinkCapacity(MoveData(taken, 0, 1, length), length), TRUE,
                ShiftSafe(0, 1, length) /\ ShrinkSafe(length))
  <2>1. ShrinkSafe(length) /\ trivial
    <3>1. ShrinkSafe(length)
      BY <1>9, Zenon DEF Done
    <3>2. QED
      BY <3>1, Zenon DEF ShrinkSafe
  <2>2. length <= s._capacity
    BY <1>1, <1>6, <1>7, <2>1
  <2>3. PICK d :
          /\ ShrinkCapacity(s, length) = d /\ Whole(d) /\ d._length = length
          /\ \A i \in Range0(0, length) : d._data[i] = s._data[i]
    BY ONLY <1>6, <1>7, <2>1, <2>2, ShrinkCapacityIs
  <2>4. \A i \in Range0(0, length) : d._data[i] = array._data[i + 1]
    BY <1>7, <2>1, <2>3, Zenon
  <2>5. Done(<<"erase_range", 0, 1>>, d, TRUE, ShiftSafe(0, 1, length) /\ ShrinkSafe(length))
    BY <1>3, <1>7, <1>9, <2>3, Zenon
  <2>6. QED
    BY <1>1, <1>6, <2>3, <2>4, <2>5, PoppedDoes, Zenon
<1>10. QED
  BY <1>4, <1>8, <1>9, Zenon

LEMMA ResizeDoes ==
  ASSUME Sane, NEW length \in Nat, NEW construct \in BOOLEAN, Resize(length, construct), sound'
  PROVE  Faithful
<1>1. PICK what : what = <<"resize", length>>
  OBVIOUS
<1>2. PICK extended : extended = IF construct /\ ~trivial
                                 THEN Construct(array, Range0(array._length, length), Blank)
                                 ELSE array
  OBVIOUS
<1>3. \/ length <= array._length /\ Done(what, Truncated(length), TRUE, TRUE)
      \/ /\ length > array._length /\ (construct \/ trivial)
         /\ \/ Fits(length) /\ Done(what, [extended EXCEPT !._length = length], TRUE, TRUE)
            \/ ~Fits(length) /\ Done(what, Grown(length, construct), TRUE, TRUE)
            \/ ~Fits(length) /\ NoMemory(what)
  <2>1. ~FirstBlockAborts(length)
    BY NoFirstBlock, Zenon
  <2>2. QED
    BY <1>1, <1>2, <2>1, Zenon DEF Resize
<1>4. Whole(array) /\ array._length \in Nat
  <2>1. sound
    BY <1>3, Zenon DEF Done, NoMemory
  <2>2. Whole(array)
    BY <2>1, Zenon DEF Sane
  <2>3. QED
    BY <2>2, WholeIs
<1>5. CASE length <= array._length /\ Done(what, Truncated(length), TRUE, TRUE)
  <2>1. length \in 0 .. array._length
    BY <1>4, <1>5
  <2>2. PICK b :
          /\ Truncated(length) = b
          /\ Whole(b) /\ b._length = length /\ b._capacity = array._capacity
          /\ \A i \in Range0(0, length) : b._data[i] = array._data[i]
    BY ONLY <1>4, <2>1, TruncatedIs
  <2>3. Done(what, b, TRUE, TRUE)
    BY <1>5, <2>2, Zenon
  <2>4. QED
    BY <1>1, <1>5, <2>2, <2>3, ShorterDoes, Zenon
<1>6. CASE /\ length > array._length /\ (construct \/ trivial)
           /\ Fits(length) /\ Done(what, [extended EXCEPT !._length = length], TRUE, TRUE)
  <2>1. PICK b : [extended EXCEPT !._length = length] = b /\ Longer(b, length)
    BY <1>2, <1>4, <1>6, ExtendedIs, Zenon
  <2>2. Done(what, b, TRUE, TRUE)
    BY <1>6, <2>1, Zenon
  <2>3. QED
    BY <1>1, <1>6, <2>1, <2>2, LongerDoes, Zenon
<1>7. CASE /\ length > array._length /\ (construct \/ trivial)
           /\ ~Fits(length) /\ Done(what, Grown(length, construct), TRUE, TRUE)
  <2>1. PICK b : Grown(length, construct) = b /\ Longer(b, length)
    BY <1>4, <1>7, GrownLonger, Zenon
  <2>2. Done(what, b, TRUE, TRUE)
    BY <1>7, <2>1, Zenon
  <2>3. QED
    BY <1>1, <1>7, <2>1, <2>2, LongerDoes, Zenon
<1>8. CASE NoMemory(what)
  <2>1. what[1] # "build"
    BY <1>1
  <2>2. QED
    BY <1>8, <2>1, NoMemoryIs, Zenon
<1>9. QED
  BY <1>3, <1>5, <1>6, <1>7, <1>8, Zenon

LEMMA ResizeAndShrinkDoes ==
  ASSUME Sane, NEW length \in Nat, NEW construct \in BOOLEAN,
         ResizeAndShrink(length, construct), sound'
  PROVE  Faithful
<1>1. PICK what : what = <<"resize", length>>
  OBVIOUS
<1>2. \/ length = array._length /\ Done(what, array, TRUE, TRUE)
      \/ /\ length > array._length /\ ~Fits(length) /\ (construct \/ trivial)
         /\ NoMemory(what) \/ Done(what, Grow(array, length, length, construct), TRUE, TRUE)
      \/ Abort
      \/ /\ length < array._length
         /\ \/ NoMemory(what)
            \/ Done(what, ShrinkCapacity(array, length), TRUE, ShrinkSafe(length))
  <2>1. ~FirstBlockAborts(length)
    BY NoFirstBlock, Zenon
  <2>2. QED
    BY <1>1, <2>1, Zenon DEF ResizeAndShrink
<1>3. ~Abort
  BY DEF Abort
<1>4. /\ Whole(array) /\ Sized(array) /\ array._length \in Nat
      /\ array._capacity \in Nat /\ array._length <= array._capacity
  <2>1. sound
    BY <1>2, <1>3, Zenon DEF Done, NoMemory
  <2>2. Whole(array)
    BY <2>1, Zenon DEF Sane
  <2>3. QED
    BY <2>2, WholeIs
<1>5. CASE NoMemory(what)
  <2>1. what[1] # "build"
    BY <1>1
  <2>2. QED
    BY <1>5, <2>1, NoMemoryIs, Zenon
<1>6. CASE length = array._length /\ Done(what, array, TRUE, TRUE)
  <2>1. length <= array._length
    BY <1>4, <1>6
  <2>2. \A i \in Range0(0, length) : array._data[i] = array._data[i]
    OBVIOUS
  <2>3. QED
    BY <1>1, <1>4, <1>6, <2>1, <2>2, ShorterDoes, Zenon
<1>7. CASE /\ length > array._length /\ ~Fits(length) /\ (construct \/ trivial)
           /\ Done(what, Grow(array, length, length, construct), TRUE, TRUE)
  <2>1. length <= length
    OBVIOUS
  <2>2. PICK b : Grow(array, length, length, construct) = b /\ Longer(b, length)
    BY ONLY <1>4, <1>7, <2>1, length \in Nat, construct \in BOOLEAN, GrowLonger
  <2>3. Done(what, b, TRUE, TRUE)
    BY <1>7, <2>2, Zenon
  <2>4. QED
    BY <1>1, <1>7, <2>2, <2>3, LongerDoes, Zenon
<1>8. CASE /\ length < array._length
           /\ Done(what, ShrinkCapacity(array, length), TRUE, ShrinkSafe(length))
  <2>1. ShrinkSafe(length)
    BY <1>8, Zenon DEF Done
  <2>2. length <= array._length /\ length <= array._capacity
    BY <1>4, <1>8
  <2>3. PICK b :
          /\ ShrinkCapacity(array, length) = b /\ Whole(b) /\ b._length = length
          /\ \A i \in Range0(0, length) : b._data[i] = array._data[i]
    BY ONLY <1>4, <2>1, <2>2, length \in Nat, ShrinkCapacityIs
  <2>4. Done(what, b, TRUE, ShrinkSafe(length))
    BY <1>8, <2>3, Zenon
  <2>5. QED
    BY <1>1, <2>2, <2>3, <2>4, ShorterDoes, Zenon
<1>9. QED
  BY <1>2, <1>3, <1>5, <1>6, <1>7, <1>8, Zenon

LEMMA ExtractRangeDoes ==
  ASSUME Sane, NEW first \in Nat, NEW last \in Nat, ExtractRange(first, last), sound'
  PROVE  Faithful
<1>1. PICK what : what = <<"extract_range", first, last>>
  OBVIOUS
<1>2. PICK length : length = last - first
  OBVIOUS
<1>3. PICK moved : moved = IF first > 0 /\ length \notin {0, array._length}
                           THEN MoveData(array, 0, first, length) ELSE array
  OBVIOUS
<1>4. /\ first <= last /\ last <= array._length
      /\ Done(what, IF length = array._length THEN array
                    ELSE Cropped(moved, length),
              TRUE, first = 0 \/ ShiftSafe(0, first, length))
  BY <1>1, <1>2, <1>3, Zenon DEF ExtractRange, Cropped
<1>5. /\ Whole(array) /\ (first = 0 \/ ShiftSafe(0, first, length)) /\ array._length \in Nat
  <2>1. sound /\ (first = 0 \/ ShiftSafe(0, first, length))
    BY <1>4, Zenon DEF Done
  <2>2. Whole(array)
    BY <2>1, Zenon DEF Sane
  <2>3. QED
    BY <2>1, <2>2, WholeIs
<1>6. CASE length = array._length
  <2>1. first = 0 /\ array._length = last - first
    BY <1>2, <1>4, <1>5, <1>6
  <2>2. ASSUME NEW i \in Range0(0, last - first) PROVE array._data[i] = array._data[i + first]
    <3>1. i + first = i
      BY <2>1, <1>4 DEF Range0
    <3>2. QED
      BY <3>1
  <2>3. Done(what, array, TRUE, first = 0 \/ ShiftSafe(0, first, length))
    BY <1>4, <1>6, Zenon
  <2>4. QED
    BY <1>1, <1>4, <1>5, <2>1, <2>2, <2>3, ExtractedDoes, Zenon
<1>7. CASE length # array._length
  <2>1. first \in 0 .. array._length /\ last \in first .. array._length
    BY <1>4, <1>5
  <2>2. PICK b :
          /\ Cropped(moved, length) = b
          /\ Whole(b) /\ b._length = length
          /\ \A i \in Range0(0, length) : b._data[i] = array._data[i + first]
    <3>1. Whole(array)
      BY <1>5
    <3>2. first = 0 \/ ShiftSafe(0, first, length)
      BY <1>5
    <3>3. first \in 0 .. array._length
      BY <2>1
    <3>4. last \in first .. array._length
      BY <2>1
    <3>5. QED
      BY ONLY <1>2, <1>3, <1>7, <3>1, <3>2, <3>3, <3>4, ExtractedIs
  <2>3. Done(what, b, TRUE, first = 0 \/ ShiftSafe(0, first, length))
    BY <1>4, <1>7, <2>2, Zenon
  <2>4. QED
    BY <1>1, <1>2, <1>4, <2>2, <2>3, ExtractedDoes, Zenon
<1>8. QED
  BY <1>6, <1>7, Zenon

LEMMA ExtractRangeAndShrinkDoes ==
  ASSUME Sane, NEW first \in Nat, NEW last \in Nat, ExtractRangeAndShrink(first, last), sound'
  PROVE  Faithful
<1>1. PICK what : what = <<"extract_range", first, last>>
  OBVIOUS
<1>2. PICK length : length = last - first
  OBVIOUS
<1>3. /\ first <= last /\ last <= array._length
      /\ \/ length = array._length /\ Done(what, array, TRUE, TRUE)
         \/ NoMemory(what)
         \/ Done(what, ShrinkCapacity(array, length), TRUE, first = 0 /\ ShrinkSafe(length))
  BY <1>1, <1>2, Zenon DEF ExtractRangeAndShrink
<1>4. /\ Whole(array) /\ Sized(array) /\ array._length \in Nat
      /\ array._capacity \in Nat /\ array._length <= array._capacity
  <2>1. sound
    BY <1>3, Zenon DEF Done, NoMemory
  <2>2. Whole(array)
    BY <2>1, Zenon DEF Sane
  <2>3. QED
    BY <2>2, WholeIs
<1>5. CASE NoMemory(what)
  <2>1. what[1] # "build"
    BY <1>1
  <2>2. QED
    BY <1>5, <2>1, NoMemoryIs, Zenon
<1>6. CASE length = array._length /\ Done(what, array, TRUE, TRUE)
  <2>1. first = 0 /\ array._length = last - first
    BY <1>2, <1>3, <1>4, <1>6
  <2>2. ASSUME NEW i \in Range0(0, last - first) PROVE array._data[i] = array._data[i + first]
    <3>1. i + first = i
      BY <2>1, <1>3 DEF Range0
    <3>2. QED
      BY <3>1
  <2>3. QED
    BY <1>1, <1>3, <1>4, <1>6, <2>1, <2>2, ExtractedDoes, Zenon
<1>7. CASE Done(what, ShrinkCapacity(array, length), TRUE, first = 0 /\ ShrinkSafe(length))
  <2>1. first = 0 /\ ShrinkSafe(length)
    BY <1>7, Zenon DEF Done
  <2>2. length \in Nat /\ length <= array._capacity
    BY <1>2, <1>3, <1>4
  <2>3. PICK b :
          /\ ShrinkCapacity(array, length) = b /\ Whole(b) /\ b._length = length
          /\ \A i \in Range0(0, length) : b._data[i] = array._data[i]
    BY ONLY <1>4, <2>1, <2>2, ShrinkCapacityIs
  <2>4. ASSUME NEW i \in Range0(0, last - first) PROVE b._data[i] = array._data[i + first]
    <3>1. i \in Range0(0, length) /\ i + first = i
      BY <1>2, <1>3, <2>1 DEF Range0
    <3>2. QED
      BY <2>3, <3>1
  <2>5. Done(what, b, TRUE, first = 0 /\ ShrinkSafe(length))
    BY <1>7, <2>3, Zenon
  <2>6. QED
    BY <1>1, <1>2, <1>3, <2>3, <2>4, <2>5, ExtractedDoes, Zenon
<1>8. QED
  BY <1>3, <1>5, <1>6, <1>7, Zenon

LEMMA ShrinkToFitDoes ==
  ASSUME Sane, ShrinkToFit, sound'
  PROVE  Faithful
<1>1. PICK what : what = <<"shrink_to_fit">>
  OBVIOUS
<1>2. Done(what, array, TRUE, TRUE)
  BY <1>1, Zenon DEF ShrinkToFit
<1>3. Whole(array)
  <2>1. sound
    BY <1>2, Zenon DEF Done
  <2>2. QED
    BY <2>1, Zenon DEF Sane
<1>4. /\ Elements = Contents(array) /\ Elements' = Contents(array)
      /\ Promise!Take(what) => Faithful
  BY <1>2, <1>3, SuccessIs, Zenon
<1>5. Promise!Take(what)
  <2>1. what[1] = "shrink_to_fit"
    BY <1>1
  <2>2. Promise!Kept
    BY <1>4, Zenon DEF Promise!Kept
  <2>3. QED
    BY <2>1, <2>2, Zenon DEF Promise!Take
<1>6. QED
  BY <1>4, <1>5, Zenon

LEMMA BuildDoes ==
  ASSUME Sane, NEW values \in Seq(Values), Build(values), sound'
  PROVE  Faithful
<1>1. PICK what : what = <<"build", values>>
  OBVIOUS
<1>2. PICK n : n = Len(values)
  OBVIOUS
<1>3. PICK opened : opened = IF Fits(Len(values)) THEN [Truncated(0) EXCEPT !._length = Len(values)]
                  ELSE Grow(Truncated(0), Len(values), GrownCapacity(Len(values), array._capacity), FALSE)
  OBVIOUS
<1>4. \/ Done(what, Building(opened, values, n), TRUE, TRUE)
      \/ Done(what, Truncated(0), FALSE, TRUE)
  <2>1. \/ Done(what, Building(opened, values, Len(values)), TRUE, TRUE)
        \/ Done(what, Truncated(0), FALSE, TRUE)
    <3>1. ~FirstBlockAborts(Len(values))
      BY NoFirstBlock, Zenon
    <3>2. QED
      BY <1>1, <1>3, <3>1, Zenon DEF Build, Building
  <2>2. QED
    BY <1>2, <2>1, Zenon
<1>5. Whole(array) /\ n \in Nat /\ array._length \in Nat
  <2>1. sound
    BY <1>4, Zenon DEF Done
  <2>2. Whole(array)
    BY <2>1, Zenon DEF Sane
  <2>3. n \in Nat
    BY <1>2
  <2>4. QED
    BY <2>2, <2>3, WholeIs
<1>6. what[1] = "build" /\ what[2] = values
  BY <1>1
<1>7. CASE Done(what, Building(opened, values, n), TRUE, TRUE)
  <2>1. PICK o :
          /\ opened = o /\ Sized(o) /\ o._length = n
          /\ ~trivial => /\ \A i \in Range0(0, n) : o._data[i] \notin Owners
                         /\ \A i \in Range0(n, o._capacity) : o._data[i] \in {Raw, Moved}
    <3>1. opened = IF Fits(n) THEN [Truncated(0) EXCEPT !._length = n]
                   ELSE Grow(Truncated(0), n, GrownCapacity(n, array._capacity), FALSE)
      BY <1>2, <1>3, Zenon
    <3>2. QED
      BY <1>5, <3>1, BlankIs, Zenon
  <2>2. PICK b :
          /\ Building(o, values, n) = b /\ Whole(b) /\ b._length = n
          /\ \A i \in Range0(0, n) : b._data[i] = values[i + 1]
    BY ONLY <1>2, <2>1, values \in Seq(Values), BuiltIs
  <2>3. Done(what, b, TRUE, TRUE)
    BY <1>7, <2>1, <2>2, Zenon
  <2>4. /\ Elements' = Contents(b)
        /\ Promise!Take(what) => Faithful
    BY <2>2, <2>3, SuccessIs, Zenon
  <2>5. Contents(b) = values
    <3>1. PICK t : t = Contents(b)
      OBVIOUS
    <3>2. t \in Seq(Slots) /\ Len(t) = n /\ \A m \in 1 .. n : t[m] = b._data[m - 1]
      BY <2>2, <3>1, ContentsIs
    <3>3. ASSUME NEW m \in 1 .. n PROVE t[m] = values[m]
      <4>1. m - 1 \in Range0(0, n) /\ (m - 1) + 1 = m
        BY <1>5 DEF Range0
      <4>2. QED
        BY <2>2, <3>2, <4>1
    <3>4. t = values
      BY ONLY <1>2, <3>2, <3>3, values \in Seq(Values)
    <3>5. QED
      BY <3>1, <3>4, Zenon
  <2>6. Promise!Take(what)
    BY <1>6, <2>4, <2>5, Zenon DEF Promise!Take
  <2>7. QED
    BY <2>4, <2>6, Zenon
<1>8. CASE Done(what, Truncated(0), FALSE, TRUE)
  <2>1. PICK length \in Nat : length = 0
    OBVIOUS
  <2>2. length \in 0 .. array._length
    BY <1>5, <2>1
  <2>3. PICK b : Truncated(length) = b /\ Whole(b) /\ b._length = length
    BY ONLY <1>5, <2>2, TruncatedIs
  <2>4. Contents(b) = <<>>
    BY <2>1, <2>3, ContentsIs
  <2>5. Done(what, b, FALSE, TRUE)
    BY <1>8, <2>1, <2>3, Zenon
  <2>6. QED
    BY <1>6, <2>3, <2>4, <2>5, FailureIs, Zenon
<1>9. QED
  BY <1>4, <1>7, <1>8, Zenon

LEMMA ClearAndShrinkDoes ==
  ASSUME Sane, ClearAndShrink, sound'
  PROVE  Faithful
<1>1. Done(<<"resize", 0>>, Clear(array), TRUE, TRUE)
  BY Zenon DEF ClearAndShrink
<1>2. Whole(array) /\ Sized(array) /\ array._length \in Nat
  <2>1. sound
    BY <1>1, Zenon DEF Done
  <2>2. Whole(array)
    BY <2>1, Zenon DEF Sane
  <2>3. QED
    BY <2>2, WholeIs
<1>3. ~trivial => \A i \in Range0(0, array._capacity) :
                    IF i < array._length THEN array._data[i] # Raw
                    ELSE array._data[i] \notin Owners
  BY <1>2, SlotKinds DEF Whole, Tidy
<1>4. Clear(array) = Empty
  BY <1>2, <1>3, ClearIs
<1>5. PICK e : e = Empty
  OBVIOUS
<1>6. PICK length \in Nat : length = 0
  OBVIOUS
<1>7. Whole(e) /\ e._length = length /\ length <= array._length
  <2>1. e._length = 0
    BY <1>5 DEF Empty
  <2>2. Whole(e)
    BY <1>5, EmptyIs, Zenon
  <2>3. QED
    BY <1>2, <1>6, <2>1, <2>2
<1>8. \A i \in Range0(0, length) : e._data[i] = array._data[i]
  BY <1>6 DEF Range0
<1>9. PICK what : what = <<"resize", length>>
  OBVIOUS
<1>10. Done(what, e, TRUE, TRUE)
  BY <1>1, <1>4, <1>5, <1>6, <1>9, Zenon
<1>11. QED
  BY <1>7, <1>8, <1>9, <1>10, ShorterDoes, Zenon

-----------------------------------------------------------------------------
(* Every step.  A call returns or aborts, which settles whether the calls  *)
(* so far were sound.                                                      *)
LEMMA ReturnOrAbort ==
  ASSUME Next
  PROVE  sound' \in BOOLEAN
<1>1. ASSUME NEW what, NEW a, NEW ok, NEW safe, Done(what, a, ok, safe) PROVE sound' \in BOOLEAN
  <2>1. sound' = (sound /\ safe)
    BY <1>1, Zenon DEF Done
  <2>2. QED
    BY <2>1
<1>2. /\ Abort => sound' \in BOOLEAN
      /\ \A n : FirstBlockAborts(n) => sound' \in BOOLEAN
  BY DEF FirstBlockAborts, Abort
<1>3. ASSUME NEW what, NoMemory(what) PROVE sound' \in BOOLEAN
  BY <1>1, <1>3, Zenon DEF NoMemory
<1>4. ASSUME NEW first, NEW last, EraseRange(first, last) \/ EraseRangeAndShrink(first, last)
      PROVE  sound' \in BOOLEAN
  BY <1>1, <1>2, <1>4, Zenon DEF EraseRange, EraseRangeAndShrink
<1>5. ASSUME NEW first, NEW last, ExtractRange(first, last) \/ ExtractRangeAndShrink(first, last)
      PROVE  sound' \in BOOLEAN
  BY <1>1, <1>3, <1>5, Zenon DEF ExtractRange, ExtractRangeAndShrink
<1>6. ASSUME NEW index, NEW value, Insert(index, value) PROVE sound' \in BOOLEAN
  BY <1>1, <1>2, <1>3, <1>6, Zenon DEF Insert
<1>7. ASSUME NEW index, NEW n, InsertRange(index, n) PROVE sound' \in BOOLEAN
  BY <1>1, <1>2, <1>3, <1>7, Zenon DEF InsertRange
<1>8. ASSUME NEW length, NEW construct, Resize(length, construct) PROVE sound' \in BOOLEAN
  BY <1>1, <1>2, <1>3, <1>8, Zenon DEF Resize
<1>9. ASSUME NEW length, NEW construct, ResizeAndShrink(length, construct)
      PROVE  sound' \in BOOLEAN
  BY <1>1, <1>2, <1>3, <1>9, Zenon DEF ResizeAndShrink
<1>10. ASSUME NEW values, Build(values) PROVE sound' \in BOOLEAN
  BY <1>1, <1>2, <1>10, Zenon DEF Build
<1>11. ASSUME PopFront \/ PopFrontAndShrink \/ ShrinkToFit \/ ClearAndShrink
       PROVE  sound' \in BOOLEAN
  BY <1>1, <1>11, Zenon DEF PopFront, PopFrontAndShrink, ShrinkToFit, ClearAndShrink
<1>12. QED
  BY <1>4, <1>5, <1>6, <1>7, <1>8, <1>9, <1>10, <1>11, Zenon DEF Next

(* A step after which the calls were all sound leaves the array whole, and *)
(* does what the sequence promises.                                        *)
LEMMA StepDoes ==
  ASSUME Sane, Next, sound'
  PROVE  Faithful
<1>1. 0 .. MaxLength \subseteq Nat /\ 1 .. 2 \subseteq Nat /\ \A n \in 1 .. 2 : n > 0
  BY SlotAssumption
<1>2. ASSUME NEW first \in 0 .. MaxLength, NEW last \in 0 .. MaxLength,
             \/ EraseRange(first, last) \/ EraseRangeAndShrink(first, last)
             \/ ExtractRange(first, last) \/ ExtractRangeAndShrink(first, last)
      PROVE  Faithful
  <2>1. first \in Nat /\ last \in Nat
    BY <1>1
  <2>2. QED
    BY <1>2, <2>1, EraseRangeDoes, EraseRangeAndShrinkDoes, ExtractRangeDoes,
       ExtractRangeAndShrinkDoes, Zenon
<1>3. ASSUME NEW index \in 0 .. MaxLength, NEW value \in Fresh, Insert(index, value)
      PROVE  Faithful
  <2>1. index \in Nat /\ value \in Values
    BY <1>1 DEF Fresh
  <2>2. QED
    BY <1>3, <2>1, InsertDoes, Zenon
<1>4. ASSUME NEW index \in 0 .. MaxLength, NEW n \in 1 .. 2, InsertRange(index, n)
      PROVE  Faithful
  <2>1. index \in Nat /\ n \in Nat /\ n > 0
    BY <1>1
  <2>2. QED
    BY <1>4, <2>1, InsertRangeDoes, Zenon
<1>5. ASSUME NEW length \in 0 .. MaxLength, NEW construct \in BOOLEAN,
             Resize(length, construct) \/ ResizeAndShrink(length, construct)
      PROVE  Faithful
  <2>1. length \in Nat
    BY <1>1
  <2>2. QED
    BY <1>5, <2>1, ResizeDoes, ResizeAndShrinkDoes, Zenon
<1>6. ASSUME NEW v \in Values, NEW w \in Values, Build(<<>>) \/ Build(<<v>>) \/ Build(<<v, w>>)
      PROVE  Faithful
  <2>1. <<>> \in Seq(Values) /\ <<v>> \in Seq(Values) /\ <<v, w>> \in Seq(Values)
    OBVIOUS
  <2>2. QED
    BY <1>6, <2>1, BuildDoes, Zenon
<1>7. ASSUME PopFront \/ PopFrontAndShrink \/ ShrinkToFit \/ ClearAndShrink
      PROVE  Faithful
  BY <1>7, PopFrontDoes, PopFrontAndShrinkDoes, ShrinkToFitDoes, ClearAndShrinkDoes, Zenon
<1>8. QED
  BY <1>2, <1>3, <1>4, <1>5, <1>6, <1>7, Zenon DEF Next

LEMMA SaneInit ==
  ASSUME Init PROVE Sane
<1>1. array = Empty /\ sound = TRUE
  BY Zenon DEF Init
<1>2. Whole(array)
  BY <1>1, EmptyIs, Zenon
<1>3. QED
  BY <1>1, <1>2 DEF Sane

LEMMA SaneStep ==
  ASSUME Sane, [Next]_vars PROVE Sane'
<1>1. CASE Next
  <2>1. sound' \in BOOLEAN
    BY <1>1, ReturnOrAbort
  <2>2. ASSUME sound' PROVE Whole(array)'
    <3>1. Whole(array') /\ kind' = kind
      BY <1>1, <2>2, StepDoes, Zenon DEF Faithful
    <3>2. trivial' = trivial
      BY <3>1, Zenon DEF trivial
    <3>3. QED
      BY <3>1, <3>2, Zenon DEF Whole, Sized, Tidy
  <2>3. QED
    BY <2>1, <2>2, Zenon DEF Sane
<1>2. CASE UNCHANGED vars
  <2>1. array' = array /\ kind' = kind /\ sound' = sound
    BY <1>2 DEF vars
  <2>2. QED
    BY <2>1, Zenon DEF Sane, Whole, Sized, Tidy, trivial
<1>3. QED
  BY <1>1, <1>2

(* Whatever sound calls a client makes, in any order and whether or not    *)
(* there was memory, the array is whole: its block is the one that its     *)
(* capacity speaks of, it is consistent with its length, every element is  *)
(* an object and behind the last there are only moved-from objects.        *)
THEOREM SanityTheorem == Spec => []Sane
<1>1. Init => Sane
  BY SaneInit
<1>2. Sane /\ [Next]_vars => Sane'
  BY SaneStep
<1>3. QED
  BY <1>1, <1>2, PTL DEF Spec

(* Lifetimes: with sound calls, among which there is no insert_range of    *)
(* objects for which the block grows, every element is an object, behind   *)
(* the last one there are only moved-from objects, and no call of          *)
(* dynarray.h destroys an object twice, constructs over one that was not   *)
(* moved from, leaves one in a released block, or leaves the block.        *)
THEOREM LifetimesTheorem == Spec => []Lifetimes
<1>1. ASSUME Sane PROVE Lifetimes
  <2>1. SUFFICES ASSUME sound
                 PROVE  /\ ~array.fault /\ array._length <= array._capacity
                        /\ array.null <=> array._capacity = 0
                        /\ DOMAIN array._data = Range0(0, array._capacity)
                        /\ ~trivial => \A i \in DOMAIN array._data :
                             IF i < array._length THEN array._data[i] # Raw
                             ELSE array._data[i] \in {Raw, Moved}
    BY Zenon DEF Lifetimes
  <2>2. Whole(array)
    BY <1>1, <2>1, Zenon DEF Sane
  <2>3. /\ array.fault = FALSE /\ array._length <= array._capacity
        /\ array.null <=> array._capacity = 0
        /\ DOMAIN array._data = Range0(0, array._capacity)
    <3>1. Sized(array)
      BY <2>2, Zenon DEF Whole
    <3>2. QED
      BY <3>1, SizedIs
  <2>4. QED
    BY <2>2, <2>3 DEF Whole, Tidy
<1>2. Spec => []Sane
  BY SanityTheorem
<1>3. QED
  BY <1>1, <1>2, PTL

(* SequenceSpec: with sound calls the array is the sequence its interface  *)
(* promises, in ElementSequence; each call inserts, erases, extracts,      *)
(* resizes or builds as it says, and one that finds no memory changes      *)
(* nothing.                                                                *)
THEOREM SequenceTheorem == Spec => SequenceSpec
<1>1. Init => Promise!Init
  <2>1. SUFFICES ASSUME Init PROVE Promise!Init
    OBVIOUS
  <2>2. array._length = 0 /\ call = NoCall
    BY <2>1 DEF Init, Empty
  <2>3. Elements = <<>>
    BY <2>2 DEF Elements
  <2>4. QED
    BY <2>2, <2>3, Zenon DEF Promise!Init
<1>2. Sane /\ [Next]_vars => [sound' => Promise!Next]_<<Elements, call>>
  <2>1. CASE Sane /\ Next
    BY <2>1, StepDoes, Zenon DEF Faithful
  <2>2. CASE UNCHANGED vars
    <3>1. array' = array /\ call' = call
      BY <2>2 DEF vars
    <3>2. Elements' = Elements
      BY <3>1, Zenon DEF Elements
    <3>3. QED
      BY <3>1, <3>2, Zenon
  <2>3. QED
    BY <2>1, <2>2
<1>3. Spec => []Sane
  BY SanityTheorem
<1>4. QED
  BY <1>1, <1>2, <1>3, PTL DEF Spec, SequenceSpec
=============================================================================
