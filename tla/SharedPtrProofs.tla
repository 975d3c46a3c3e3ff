-------------------------- MODULE SharedPtrProofs --------------------------
(***************************************************************************)
(* Theorems about SharedPtr for all finite sets of threads and handles and *)
(* every set of objects, whatever handles the objects have as members.     *)
(***************************************************************************)
EXTENDS SharedPtr, FiniteSetTheorems, TLAPS

-----------------------------------------------------------------------------
(* The inductive invariant. *)

Solo == \A t, u \in Threads : t = u

(* What clients keep to: weak handles belong to programs of one thread     *)
(* (shared_ptr.h:39 is wrong for more), and the right-hand side of an      *)
(* assignment is a local handle.                                           *)
Contract == (Weak = {} \/ Solo) /\ \A h \in Sources : In[h] = Null

Frame ==
  ({"dec_strong", "last_strong", "weak_left", "destroy", "members", "free"}
     \X Objects)
  \cup ({"dec_weak", "strong_left", "destructed"}
          \X {o \in Objects : Weak # {}})
  \cup ({"null", "inc"} \X Handles)
  \cup ({"copy", "move"} \X Handles \X Handles)
  \cup ({"take"} \X Weak \X Objects)

(* Frames that no other frame is ever pushed on. *)
TopOnly == {"dec_strong", "last_strong", "weak_left", "dec_weak",
            "strong_left", "destructed", "destroy", "inc"}

Elems(s) == {s[i] : i \in 1 .. Len(s)}

(* A call has no frame twice, and below all others the assignment. *)
Shape(s) ==
  /\ \A i, j \in 1 .. Len(s) : s[i] = s[j] => i = j
  /\ \A i \in 1 .. Len(s) : s[i][1] \in Assigning <=> i = Len(s)
  /\ \A i \in 2 .. Len(s) : s[i][1] \notin TopOnly

Stacks == /\ stack \in [Threads -> Seq(Frame)]
          /\ \A t \in Threads : Shape(stack[t])

Typed ==
  /\ ptr \in [Handles -> Objects \cup {Null}]
  /\ strong_ref_num \in [Objects -> Nat] /\ weak_ref_num \in [Objects -> Nat]
  /\ destructed \in [Objects -> BOOLEAN]
  /\ object \in [Objects -> {"none", "live", "dying", "dead"}]
  /\ block \in [Objects -> {"none", "live", "dead"}]
  /\ fault \in {"none", "terminated"}

(* The temporary WeakPtrs to o that will be moved into a handle. *)
Takes(o) == {t \in Threads : \E w \in Weak : <<"take", w, o>> \in Frames(t)}

Counted ==
  \A o \in Objects :
    /\ strong_ref_num[o] = Cardinality(Settled(o, Strong))
                             + Cardinality(Pending(<<"dec_strong", o>>))
    /\ weak_ref_num[o] = Cardinality(Settled(o, Weak))
                           + Cardinality(Pending(<<"dec_weak", o>>))
                           + Cardinality(Takes(o))

(* At most one frame of the class on all stacks concerns an object, or a   *)
(* handle.                                                                 *)
Once(class) ==
  \A t, u \in Threads : \A fr \in Frames(t), gr \in Frames(u) :
    fr[1] \in class /\ gr[1] \in class /\ fr[2] = gr[2] => t = u /\ fr = gr

(* The duty to destroy an object, and the duty to release a control block. *)
Ending == {"last_strong", "weak_left", "destroy", "members"}
Releasing == {"free", "strong_left", "destructed"}

Has(l, o) == \E t \in Threads : <<l, o>> \in Frames(t)

(* An object lives as long as it is counted; then somebody has the duty    *)
(* to destroy it.  Its control block lives as long as either counter       *)
(* counts or somebody has yet to look; then somebody releases it.          *)
Life(o) ==
  /\ object[o] = "none" <=> block[o] = "none"
  /\ object[o] = "none" => /\ strong_ref_num[o] = 0 /\ weak_ref_num[o] = 0
                           /\ ~destructed[o]
                           /\ \A l \in Ending \cup Releasing : ~Has(l, o)
  /\ strong_ref_num[o] > 0 => object[o] = "live" /\ ~destructed[o]
  /\ object[o] \in {"dying", "dead"} => destructed[o]
  /\ Has("last_strong", o) => /\ strong_ref_num[o] = 0 /\ object[o] = "live"
                              /\ ~destructed[o]
  /\ Has("weak_left", o) \/ Has("destroy", o) =>
       /\ strong_ref_num[o] = 0 /\ object[o] = "live" /\ destructed[o]
  /\ object[o] = "dying" <=> Has("members", o)
  /\ object[o] = "live" /\ strong_ref_num[o] = 0 =>
       Has("last_strong", o) \/ Has("weak_left", o) \/ Has("destroy", o)
  /\ object[o] # "none" /\ strong_ref_num[o] = 0 /\ ~destructed[o] =>
       Has("last_strong", o)
  /\ Has("free", o) \/ Has("destructed", o) =>
       strong_ref_num[o] = 0 /\ destructed[o] /\ ~Has("weak_left", o)
  /\ \A l \in Releasing : Has(l, o) => weak_ref_num[o] = 0
  /\ object[o] # "none" =>
       (block[o] = "live" <=>
          \/ strong_ref_num[o] > 0 \/ weak_ref_num[o] > 0
          \/ Has("last_strong", o) \/ Has("weak_left", o)
          \/ \E l \in Releasing : Has(l, o))

Lives == \A o \in Objects : Life(o)
Known == \A h \in Handles : ptr[h] # Null => object[ptr[h]] # "none"

DestroyGuarded ==
  \A t \in Threads, o \in Objects :
    <<"destroy", o>> \in Frames(t) =>
      weak_ref_num[o] > 0 \/ <<"free", o>> \in Frames(t)

(* A member that t assigns to belongs to an object t keeps alive. *)
Anchored(t, h) ==
  In[h] # Null => \E s \in Strong : /\ User[s] = t /\ In[s] = Null
                                    /\ ptr[s] = In[h] /\ ~Busy(s)

(* A copy about to be counted was made of a handle that still counts. *)
Held(t, h) ==
  /\ ptr[h] # Null
  /\ \E g \in Handles : /\ User[g] = t /\ SameKind(g, h) /\ ptr[g] = ptr[h]
                        /\ ~Busy(g) /\ (In[g] = Null \/ Solo)

(* The right-hand side g of an assignment to h. *)
From(t, h, g) ==
  /\ User[g] = t /\ In[g] = Null /\ SameKind(g, h)
  /\ g # h => ~Busy(g)
  /\ h \in Strong => g # h

Calls ==
  \A t \in Threads : \A fr \in Frames(t) :
    fr[1] \in Assigning =>
      /\ Anchored(t, fr[2])
      /\ fr[1] \in {"copy", "move"} => From(t, fr[2], fr[3])
      /\ fr[1] = "inc" => Held(t, fr[2])

Owners == Once(Assigning) /\ Once(Ending) /\ Once(Releasing)

IInv == /\ Typed /\ Stacks /\ Counted /\ Owners /\ Lives /\ Known
        /\ DestroyGuarded /\ Calls

-----------------------------------------------------------------------------
(* Stacks. *)

LEMMA FramesAreElems == \A t : Frames(t) = Elems(stack[t])
BY DEF Frames, Elems

(* What a frame is, by its label. *)
LEMMA FrameParts ==
  ASSUME NEW fr \in Frame
  PROVE  /\ fr[1] \in Label
         /\ fr[1] \notin Assigning => fr = <<fr[1], fr[2]>> /\ fr[2] \in Objects
         /\ fr[1] \in Assigning => fr[2] \in Handles
         /\ fr[1] \in {"null", "inc"} => fr = <<fr[1], fr[2]>>
         /\ fr[1] \in {"copy", "move"} =>
              fr = <<fr[1], fr[2], fr[3]>> /\ fr[3] \in Handles
         /\ fr[1] = "take" =>
              fr = <<fr[1], fr[2], fr[3]>> /\ fr[2] \in Weak /\ fr[3] \in Objects
         /\ fr[1] \in {"dec_weak", "strong_left", "destructed", "take"} =>
              Weak # {}
BY DEF Frame, Label, Assigning, Handles

LEMMA ElemsOf ==
  ASSUME NEW S, NEW s \in Seq(S), s # <<>>
  PROVE  /\ Head(s) = s[1] /\ Head(s) \in S /\ Head(s) \in Elems(s)
         /\ Len(s) \in Nat \ {0} /\ Elems(s) \subseteq S
BY DEF Elems

LEMMA TailOf ==
  ASSUME NEW S, NEW s \in Seq(S), s # <<>>
  PROVE  /\ Tail(s) \in Seq(S) /\ Len(Tail(s)) = Len(s) - 1
         /\ \A i \in 1 .. Len(s) - 1 : Tail(s)[i] = s[i + 1]
OBVIOUS

(* The frames of s when the one on top has become the frames fs. *)
After(s, fs) == (Elems(s) \ {Head(s)}) \cup Elems(fs)

LEMMA ConcatOf ==
  ASSUME NEW S, NEW a \in Seq(S), NEW b \in Seq(S), NEW r, r = a \o b
  PROVE  /\ r \in Seq(S) /\ Len(r) = Len(a) + Len(b)
         /\ \A i \in 1 .. Len(a) : r[i] = a[i]
         /\ \A i \in Len(a) + 1 .. Len(a) + Len(b) : r[i] = b[i - Len(a)]
OBVIOUS

(* The frames fs may replace the one on top of s. *)
Follows(fs, s) ==
  /\ \A i, j \in 1 .. Len(fs) : fs[i] = fs[j] => i = j
  /\ \A i \in 1 .. Len(fs) : fs[i] = Head(s) \/ fs[i] \notin Elems(s)
  /\ \A i \in 1 .. Len(fs) :
       fs[i][1] \in Assigning <=> Len(s) = 1 /\ i = Len(fs)
  /\ \A i \in 2 .. Len(fs) : fs[i][1] \notin TopOnly

LEMMA Replaced ==
  ASSUME NEW S, NEW s \in Seq(S), s # <<>>, Shape(s),
         NEW fs \in Seq(S), Follows(fs, s), NEW r, r = fs \o Tail(s)
  PROVE  r \in Seq(S) /\ Shape(r) /\ Elems(r) = After(s, fs)
<1> USE DEF Follows
<1> DEFINE n == Len(fs)
           rest == Tail(s)
<1>1. /\ Len(s) \in Nat \ {0} /\ Head(s) = s[1] /\ n \in Nat
      /\ rest \in Seq(S) /\ Len(rest) = Len(s) - 1
      /\ \A i \in 1 .. Len(s) - 1 : rest[i] = s[i + 1]
  BY ElemsOf, TailOf
<1>2. /\ r \in Seq(S) /\ Len(r) = n + Len(s) - 1
      /\ \A i \in 1 .. n : r[i] = fs[i]
      /\ \A i \in n + 1 .. n + Len(s) - 1 : r[i] = rest[i - n]
  <2>1. /\ r \in Seq(S) /\ Len(r) = n + Len(rest)
        /\ \A i \in 1 .. n : r[i] = fs[i]
        /\ \A i \in n + 1 .. n + Len(rest) : r[i] = rest[i - n]
    BY <1>1, ConcatOf
  <2> HIDE DEF rest
  <2>2. n + Len(rest) = n + Len(s) - 1
    BY <1>1
  <2>3. QED
    BY <2>1, <2>2
<1> HIDE DEF rest
<1>3. \A i \in n + 1 .. n + Len(s) - 1 :
        r[i] = s[i - n + 1] /\ i - n + 1 \in 2 .. Len(s)
  BY <1>1, <1>2
<1>0. n \in Nat /\ Len(s) \in Nat \ {0} /\ Len(r) = n + Len(s) - 1
  BY <1>1, <1>2
<1>c. \A c \in 2 .. Len(s) : c \in 1 .. Len(s) /\ 1 \in 1 .. Len(s) /\ c # 1
  BY ONLY <1>0
<1>4. \A i \in 1 .. Len(r) : i \in 1 .. n \/ i \in n + 1 .. n + Len(s) - 1
  BY <1>1, <1>2
<1>5. \A i, j \in 1 .. Len(r) : r[i] = r[j] => i = j
  <2> SUFFICES ASSUME NEW i \in 1 .. Len(r), NEW j \in 1 .. Len(r), r[i] = r[j]
               PROVE  i = j
    OBVIOUS
  <2>1. ASSUME NEW a \in 1 .. n, NEW b \in n + 1 .. n + Len(s) - 1, r[a] = r[b]
        PROVE  FALSE
    <3>1. PICK c \in 2 .. Len(s) : fs[a] = s[c]
      BY <1>2, <1>3, <2>1
    <3>2. \A m, k \in 1 .. Len(s) : s[m] = s[k] => m = k
      BY DEF Shape
    <3>3. s[c] # s[1] /\ c \in 1 .. Len(s)
      <4>1. c \in 1 .. Len(s) /\ 1 \in 1 .. Len(s) /\ c # 1
        BY <1>c, <3>1
      <4>2. QED
        BY <4>1, <3>2
    <3>4. fs[a] \in Elems(s) /\ fs[a] # Head(s)
      BY <1>1, <3>1, <3>3 DEF Elems
    <3>5. QED
      BY <2>1, <3>4
  <2>2. CASE i \in 1 .. n /\ j \in 1 .. n
    BY <1>2, <2>2
  <2>3. CASE i \in n + 1 .. n + Len(s) - 1 /\ j \in n + 1 .. n + Len(s) - 1
    <3>1. PICK c \in 2 .. Len(s), d \in 2 .. Len(s) :
            c = i - n + 1 /\ d = j - n + 1 /\ s[c] = s[d]
      BY <1>3, <2>3
    <3>2. c = d
      <4>1. \A k, l \in 1 .. Len(s) : s[k] = s[l] => k = l
        BY DEF Shape
      <4>2. c \in 1 .. Len(s) /\ d \in 1 .. Len(s)
        BY <1>1
      <4>3. QED
        BY <3>1, <4>1, <4>2
    <3>3. QED
      BY <1>1, <2>3, <3>1, <3>2
  <2>4. QED
    BY <1>4, <2>1, <2>2, <2>3
<1>6. \A i \in 1 .. Len(r) : r[i][1] \in Assigning <=> i = Len(r)
  <2> SUFFICES ASSUME NEW i \in 1 .. Len(r)
               PROVE  r[i][1] \in Assigning <=> i = Len(r)
    OBVIOUS
  <2>1. CASE i \in 1 .. n
    <3>1. r[i][1] \in Assigning <=> Len(s) = 1 /\ i = n
      BY <1>2, <2>1
    <3>2. \A m, k \in Nat : i \in 1 .. m /\ k # 0 =>
                              (k = 1 /\ i = m <=> i = m + k - 1)
      OBVIOUS
    <3>3. Len(s) = 1 /\ i = n <=> i = Len(r)
      BY <1>0, <2>1, <3>2, Zenon
    <3>4. QED
      BY <3>1, <3>3
  <2>2. CASE i \in n + 1 .. n + Len(s) - 1
    <3>1. PICK c \in 2 .. Len(s) : c = i - n + 1 /\ r[i] = s[c]
      BY <1>3, <2>2
    <3>2. r[i][1] \in Assigning <=> c = Len(s)
      <4>1. \A k \in 1 .. Len(s) : s[k][1] \in Assigning <=> k = Len(s)
        BY DEF Shape
      <4>2. c \in 1 .. Len(s)
        BY <1>1
      <4>3. QED
        BY <3>1, <4>1, <4>2
    <3>3. c = Len(s) <=> i = Len(r)
      BY <1>1, <1>2, <2>2, <3>1
    <3>4. QED
      BY <3>2, <3>3
  <2>3. QED
    BY <1>4, <2>1, <2>2
<1>7. \A i \in 2 .. Len(r) : r[i][1] \notin TopOnly
  <2> SUFFICES ASSUME NEW i \in 2 .. Len(r)
               PROVE  r[i][1] \notin TopOnly
    OBVIOUS
  <2>1. CASE i \in 1 .. n
    BY <1>1, <1>2, <2>1
  <2>2. CASE i \in n + 1 .. n + Len(s) - 1
    BY <1>3, <2>2 DEF Shape
  <2>3. QED
    BY <1>1, <1>2, <1>4, <2>1, <2>2
<1>8. Elems(r) = After(s, fs)
  <2>1. ASSUME NEW x \in Elems(r)
        PROVE  x \in (Elems(s) \ {Head(s)}) \cup Elems(fs)
    <3>1. PICK i \in 1 .. Len(r) : x = r[i]
      BY DEF Elems
    <3>2. CASE i \in 1 .. n
      BY <1>2, <3>1, <3>2 DEF Elems
    <3>3. CASE i \in n + 1 .. n + Len(s) - 1
      <4>1. PICK c \in 2 .. Len(s) : x = s[c]
        BY <1>3, <3>1, <3>3
      <4>2. \A m, k \in 1 .. Len(s) : s[m] = s[k] => m = k
        BY DEF Shape
      <4>3. s[c] # s[1] /\ c \in 1 .. Len(s)
        <5>1. c \in 1 .. Len(s) /\ 1 \in 1 .. Len(s) /\ c # 1
          BY <1>c, <4>1
        <5>2. QED
          BY <5>1, <4>2
      <4>4. QED
        BY <1>1, <4>1, <4>3 DEF Elems
    <3>4. QED
      BY <1>4, <3>2, <3>3
  <2>2. ASSUME NEW x \in Elems(s), x # Head(s) PROVE x \in Elems(r)
    <3>1. PICK c \in 1 .. Len(s) : x = s[c]
      BY DEF Elems
    <3>2. c \in 2 .. Len(s)
      BY <1>1, <2>2, <3>1
    <3>3. PICK i \in n + 1 .. n + Len(s) - 1 : i - n + 1 = c
      <4>1. \A m \in Nat, k \in Nat \ {0} : \A d \in 2 .. k :
              m + d - 1 \in m + 1 .. m + k - 1
        OBVIOUS
      <4>2. n + c - 1 \in n + 1 .. n + Len(s) - 1
        BY <1>0, <3>2, <4>1, Zenon
      <4>3. (n + c - 1) - n + 1 = c
        BY <1>0, <3>2
      <4>4. QED
        BY <4>2, <4>3, Zenon
    <3>4. r[i] = x
      BY <1>3, <3>1, <3>3
    <3>5. i \in 1 .. Len(r)
      <4>1. \A m \in Nat, k \in Nat \ {0} :
              i \in m + 1 .. m + k - 1 => i \in 1 .. m + k - 1
        OBVIOUS
      <4>2. QED
        BY <1>0, <4>1, Zenon
    <3>6. QED
      BY <3>4, <3>5 DEF Elems
  <2>3. ASSUME NEW x \in Elems(fs) PROVE x \in Elems(r)
    <3>1. PICK c \in 1 .. n : x = fs[c]
      BY DEF Elems
    <3>2. c \in 1 .. Len(r) /\ r[c] = x
      BY <1>1, <1>2, <3>1
    <3>3. QED
      BY <3>2 DEF Elems
  <2>4. QED
    BY <2>1, <2>2, <2>3 DEF After
<1>9. QED
  BY <1>2, <1>5, <1>6, <1>7, <1>8 DEF Shape

(* What the frame on top of a stack says of the others. *)
LEMMA Top ==
  ASSUME Stacks, NEW t \in Threads, stack[t] # <<>>
  PROVE  /\ stack[t] \in Seq(Frame) /\ Shape(stack[t])
         /\ Head(stack[t]) \in Frame /\ Head(stack[t]) \in Frames(t)
         /\ Frames(t) \subseteq Frame
         /\ \A fr \in Frames(t) : fr[1] \in TopOnly => fr = Head(stack[t])
         /\ Head(stack[t])[1] \in Assigning <=> Len(stack[t]) = 1
         /\ Head(stack[t])[1] \in Assigning => Frames(t) = {Head(stack[t])}
<1> DEFINE s == stack[t]
<1>1. s \in Seq(Frame) /\ Shape(s) /\ Frames(t) = Elems(s)
  BY FramesAreElems DEF Stacks
<1>2. /\ Head(s) = s[1] /\ Head(s) \in Frame /\ Head(s) \in Elems(s)
      /\ Len(s) \in Nat \ {0} /\ Elems(s) \subseteq Frame
  BY <1>1, ElemsOf
<1> HIDE DEF s
<1>3. \A fr \in Elems(s) : fr[1] \in TopOnly => fr = Head(s)
  BY <1>1, <1>2 DEF Elems, Shape
<1>4. Head(s)[1] \in Assigning <=> Len(s) = 1
  <2>1. 1 \in 1 .. Len(s)
    BY <1>2
  <2>2. \A i \in 1 .. Len(s) : s[i][1] \in Assigning <=> i = Len(s)
    BY <1>1 DEF Shape
  <2>3. QED
    BY <1>2, <2>1, <2>2
<1>5. Len(s) = 1 => Elems(s) = {Head(s)}
  BY <1>2 DEF Elems
<1>6. QED
  BY <1>1, <1>2, <1>3, <1>4, <1>5 DEF s

LEMMA OneElem ==
  ASSUME NEW S, NEW f \in S
  PROVE  /\ <<f>> \in Seq(S) /\ Len(<<f>>) = 1 /\ <<f>>[1] = f
         /\ Elems(<<f>>) = {f}
<1>1. <<f>> \in Seq(S) /\ Len(<<f>>) = 1 /\ <<f>>[1] = f
  OBVIOUS
<1>2. \A x \in Elems(<<f>>) : x = f
  BY <1>1 DEF Elems
<1>3. f \in Elems(<<f>>)
  BY <1>1 DEF Elems
<1>4. QED
  BY <1>1, <1>2, <1>3

LEMMA TwoElems ==
  ASSUME NEW S, NEW f \in S, NEW g \in S
  PROVE  /\ <<f, g>> \in Seq(S) /\ Len(<<f, g>>) = 2
         /\ <<f, g>>[1] = f /\ <<f, g>>[2] = g /\ Elems(<<f, g>>) = {f, g}
<1>1. /\ <<f, g>> \in Seq(S) /\ Len(<<f, g>>) = 2
      /\ <<f, g>>[1] = f /\ <<f, g>>[2] = g
  OBVIOUS
<1>2. \A x \in Elems(<<f, g>>) : x = f \/ x = g
  BY <1>1 DEF Elems
<1>3. f \in Elems(<<f, g>>) /\ g \in Elems(<<f, g>>)
  BY <1>1 DEF Elems
<1>4. QED
  BY <1>1, <1>2, <1>3

LEMMA StepStack ==
  ASSUME Stacks, NEW t \in Threads, NEW r \in Seq(Frame), Shape(r),
         stack' = [stack EXCEPT ![t] = r]
  PROVE  /\ Stacks'
         /\ \A u \in Threads : Frames(u)' = IF u = t THEN Elems(r) ELSE Frames(u)
<1>1. \A u \in Threads : stack'[u] = IF u = t THEN r ELSE stack[u]
  BY DEF Stacks
<1>2. stack' \in [Threads -> Seq(Frame)]
  BY DEF Stacks
<1>3. \A u \in Threads : Shape(stack'[u])
  <2> TAKE u \in Threads
  <2>1. Shape(stack[u])
    BY DEF Stacks
  <2>2. QED
    BY <1>1, <2>1
<1>4. \A u \in Threads : Frames(u)' = IF u = t THEN Elems(r) ELSE Frames(u)
  BY <1>1 DEF Frames, Elems
<1>5. QED
  BY <1>2, <1>3, <1>4 DEF Stacks

(* The frame on top is done. *)
LEMMA Pop ==
  ASSUME Stacks, NEW t \in Threads, stack[t] # <<>>, Become(t, <<>>)
  PROVE  /\ Stacks'
         /\ \A u \in Threads : Frames(u)' =
              IF u = t THEN Frames(t) \ {Head(stack[t])} ELSE Frames(u)
<1> DEFINE fs == <<>>
<1>1. PICK r : r = fs \o Tail(stack[t])
  OBVIOUS
<1>2. stack[t] \in Seq(Frame) /\ Shape(stack[t])
  BY Top
<1>0. fs \in Seq(Frame) /\ Len(fs) = 0 /\ Elems(fs) = {}
  BY DEF Elems
<1> HIDE DEF fs
<1>3. r \in Seq(Frame) /\ Shape(r) /\ Elems(r) = After(stack[t], fs)
  <2>1. Follows(fs, stack[t])
    BY <1>0 DEF Follows
  <2>2. QED
    BY <1>0, <1>1, <1>2, <2>1, Replaced, Zenon
<1>4. stack' = [stack EXCEPT ![t] = r]
  BY <1>1 DEF Become, Rest, fs
<1>5. QED
  BY <1>3, <1>4, <1>0, StepStack, FramesAreElems DEF After

(* The frame on top becomes another one. *)
LEMMA Swap ==
  ASSUME Stacks, NEW t \in Threads, stack[t] # <<>>, NEW f \in Frame,
         f = Head(stack[t]) \/ f \notin Frames(t),
         f[1] \in Assigning <=> Head(stack[t])[1] \in Assigning,
         Become(t, <<f>>)
  PROVE  /\ Stacks'
         /\ \A u \in Threads : Frames(u)' =
              IF u = t THEN (Frames(t) \ {Head(stack[t])}) \cup {f} ELSE Frames(u)
<1> DEFINE fs == <<f>>
<1>1. PICK r : r = fs \o Tail(stack[t])
  OBVIOUS
<1>2. stack' = [stack EXCEPT ![t] = r]
  BY <1>1 DEF Become, Rest
<1>3. fs \in Seq(Frame) /\ Len(fs) = 1 /\ fs[1] = f /\ Elems(fs) = {f}
  BY OneElem
<1> HIDE DEF fs
<1>4. stack[t] \in Seq(Frame) /\ Shape(stack[t]) /\ Frames(t) = Elems(stack[t])
      /\ (f[1] \in Assigning <=> Len(stack[t]) = 1)
  BY Top, FramesAreElems
<1>5. r \in Seq(Frame) /\ Shape(r) /\ Elems(r) = After(stack[t], fs)
  <2>1. Follows(fs, stack[t])
    BY <1>3, <1>4 DEF Follows
  <2>2. QED
    BY <1>1, <1>3, <1>4, <2>1, Replaced, ZenonT(60)
<1>6. QED
  BY <1>2, <1>3, <1>4, <1>5, StepStack DEF After

(* The frame on top becomes two. *)
LEMMA Push ==
  ASSUME Stacks, NEW t \in Threads, stack[t] # <<>>,
         NEW f \in Frame, NEW g \in Frame, f # g,
         f \notin Frames(t), g = Head(stack[t]) \/ g \notin Frames(t),
         f[1] \notin Assigning, g[1] \notin Assigning \cup TopOnly,
         Head(stack[t])[1] \notin Assigning, Become(t, <<f, g>>)
  PROVE  /\ Stacks'
         /\ \A u \in Threads : Frames(u)' =
              IF u = t THEN (Frames(t) \ {Head(stack[t])}) \cup {f, g}
              ELSE Frames(u)
<1> DEFINE fs == <<f, g>>
<1>1. PICK r : r = fs \o Tail(stack[t])
  OBVIOUS
<1>2. stack' = [stack EXCEPT ![t] = r]
  BY <1>1 DEF Become, Rest
<1>3. fs \in Seq(Frame) /\ Len(fs) = 2 /\ fs[1] = f /\ fs[2] = g /\ Elems(fs) = {f, g}
  BY TwoElems
<1> HIDE DEF fs
<1>4. stack[t] \in Seq(Frame) /\ Shape(stack[t]) /\ Frames(t) = Elems(stack[t])
      /\ Len(stack[t]) # 1
  BY Top, FramesAreElems
<1>5. r \in Seq(Frame) /\ Shape(r) /\ Elems(r) = After(stack[t], fs)
  <2>1. Follows(fs, stack[t])
    <3>0. (\A i \in 1 .. 2 : i = 1 \/ i = 2) /\ (\A i \in 2 .. 2 : i = 2)
      OBVIOUS
    <3>1. \A i \in 1 .. Len(fs) : (i = 1 /\ fs[i] = f) \/ (i = 2 /\ fs[i] = g)
      BY <1>3, <3>0
    <3>2. \A i \in 2 .. Len(fs) : fs[i] = g
      BY <1>3, <3>0, Zenon
    <3>3. \A i, j \in 1 .. Len(fs) : fs[i] = fs[j] => i = j
      BY <3>1
    <3>4. \A i \in 1 .. Len(fs) : fs[i][1] \notin Assigning
      BY <3>1
    <3>5. \A i \in 1 .. Len(fs) :
            fs[i] = Head(stack[t]) \/ fs[i] \notin Elems(stack[t])
      BY <1>4, <3>1
    <3>6. \A i \in 2 .. Len(fs) : fs[i][1] \notin TopOnly
      BY <3>2
    <3>7. \A i \in 1 .. Len(fs) :
            fs[i][1] \in Assigning <=> Len(stack[t]) = 1 /\ i = Len(fs)
      BY <1>4, <3>4, Zenon
    <3>8. QED
      BY <1>4, <3>3, <3>5, <3>6, <3>7 DEF Follows
  <2>2. QED
    BY ONLY <1>1, <1>3, <1>4, <2>1, stack[t] # <<>>, Replaced, ZenonT(60)
<1>6. QED
  BY <1>2, <1>3, <1>4, <1>5, StepStack DEF After

(* A call begins, with a decrement on top of the assignment or without. *)
LEMMA Enter ==
  ASSUME Stacks, NEW t \in Threads, NEW f \in Frame, f[1] \in Assigning,
         stack' = [stack EXCEPT ![t] = <<f>>]
  PROVE  /\ Stacks'
         /\ \A u \in Threads : Frames(u)' = IF u = t THEN {f} ELSE Frames(u)
<1> DEFINE r == <<f>>
<1>1. /\ r \in Seq(Frame) /\ Len(r) = 1 /\ r[1] = f /\ Elems(r) = {f}
      /\ stack' = [stack EXCEPT ![t] = r]
  BY OneElem
<1> HIDE DEF r
<1>2. Shape(r)
  BY <1>1 DEF Shape
<1>3. QED
  BY <1>1, <1>2, StepStack, ZenonT(60)

LEMMA EnterDropping ==
  ASSUME Stacks, NEW t \in Threads, NEW d \in Frame, NEW f \in Frame,
         f[1] \in Assigning \ TopOnly, d[1] \notin Assigning,
         stack' = [stack EXCEPT ![t] = <<d, f>>]
  PROVE  /\ Stacks'
         /\ \A u \in Threads : Frames(u)' = IF u = t THEN {d, f} ELSE Frames(u)
<1> DEFINE r == <<d, f>>
<1>1. /\ r \in Seq(Frame) /\ Len(r) = 2 /\ r[1] = d /\ r[2] = f
      /\ Elems(r) = {d, f} /\ stack' = [stack EXCEPT ![t] = r]
  BY TwoElems
<1> HIDE DEF r
<1>2. Shape(r)
  BY <1>1 DEF Shape
<1>3. QED
  BY <1>1, <1>2, StepStack, ZenonT(60)

-----------------------------------------------------------------------------
(* What a step changes.  A step of t leaves it the frames F. *)

Moved(t, F) == \A u \in Threads : Frames(u)' = IF u = t THEN F ELSE Frames(u)

(* The frame on top, gone, becomes the frames new. *)
Step(t, gone, new) ==
  gone \in Frames(t) /\ Moved(t, (Frames(t) \ {gone}) \cup new)

(* No assignment begins or ends, and no handle changes. *)
LEMMA SameAssigning ==
  ASSUME NEW t \in Threads, NEW F, Moved(t, F), ptr' = ptr,
         \A fr : fr[1] \in Assigning => (fr \in F <=> fr \in Frames(t))
  PROVE  /\ \A h : Busy(h)' = Busy(h)
         /\ \A o, kind : Settled(o, kind)' = Settled(o, kind)
         /\ \A o : Takes(o)' = Takes(o)
         /\ Calls => Calls'
         /\ Once(Assigning) => Once(Assigning)'
<1>1. \A u \in Threads : \A fr :
        fr[1] \in Assigning => (fr \in Frames(u)' <=> fr \in Frames(u))
  BY DEF Moved
<1>2. \A h : Busy(h)' = Busy(h)
  <2> TAKE h
  <2>1. Busy(h)' <=> Busy(h)
    BY <1>1 DEF Busy
  <2>2. QED
    BY <2>1 DEF Busy
<1>3. \A o, kind : Settled(o, kind)' = Settled(o, kind)
  BY <1>2 DEF Settled
<1>4. \A o : Takes(o)' = Takes(o)
  <2> TAKE o
  <2>1. \A w : <<"take", w, o>>[1] \in Assigning
    BY DEF Assigning
  <2>2. \A u \in Threads : \A w :
          <<"take", w, o>> \in Frames(u)' <=> <<"take", w, o>> \in Frames(u)
    BY <1>1, <2>1
  <2>3. QED
    BY <2>2 DEF Takes
<1>5. ASSUME Calls PROVE Calls'
  <2> SUFFICES ASSUME NEW u \in Threads, NEW fr \in Frames(u)', fr[1] \in Assigning
               PROVE  /\ Anchored(u, fr[2])'
                      /\ fr[1] \in {"copy", "move"} => From(u, fr[2], fr[3])'
                      /\ fr[1] = "inc" => Held(u, fr[2])'
    BY DEF Calls
  <2>1. fr \in Frames(u)
    BY <1>1
  <2>2. /\ Anchored(u, fr[2])
        /\ fr[1] \in {"copy", "move"} => From(u, fr[2], fr[3])
        /\ fr[1] = "inc" => Held(u, fr[2])
    BY <1>5, <2>1 DEF Calls
  <2>3. Anchored(u, fr[2])'
    BY <1>2, <2>2 DEF Anchored
  <2>4. From(u, fr[2], fr[3]) => From(u, fr[2], fr[3])'
    BY <1>2 DEF From
  <2>5. Held(u, fr[2]) => Held(u, fr[2])'
    BY <1>2 DEF Held
  <2>6. QED
    BY <2>2, <2>3, <2>4, <2>5
<1>6. Once(Assigning) => Once(Assigning)'
  BY <1>1 DEF Once
<1>7. QED
  BY <1>2, <1>3, <1>4, <1>5, <1>6

(* Whether a duty towards o is on some stack. *)
LEMMA HasStep ==
  ASSUME NEW t \in Threads, NEW gone, NEW new, Step(t, gone, new), Owners
  PROVE  \A l \in Ending \cup Releasing : \A o :
           Has(l, o)' <=> (Has(l, o) /\ <<l, o>> # gone) \/ <<l, o>> \in new
<1> TAKE l \in Ending \cup Releasing
<1> TAKE o
<1> DEFINE fr == <<l, o>>
<1>1. \A u \in Threads :
        fr \in Frames(u)' <=> IF u = t THEN (fr \in Frames(t) /\ fr # gone) \/ fr \in new
                              ELSE fr \in Frames(u)
  BY DEF Step, Moved
<1>2. gone = fr => \A u \in Threads : fr \in Frames(u) => u = t
  <2>1. fr[1] \in Ending \/ fr[1] \in Releasing
    OBVIOUS
  <2>2. QED
    BY <2>1 DEF Owners, Once, Step
<1>3. QED
  BY <1>1, <1>2 DEF Has

(* A step keeps the frames of a class unique when those it adds take over  *)
(* from the frame on top or are the first ones.                            *)
LEMMA OnceStep ==
  ASSUME NEW t \in Threads, NEW gone, NEW new, Step(t, gone, new),
         NEW class, Once(class),
         \A f, g \in new : f[1] \in class /\ g[1] \in class /\ f[2] = g[2] => f = g,
         \A f \in new : f[1] \in class =>
           \/ gone[1] \in class /\ gone[2] = f[2]
           \/ \A u \in Threads : \A fr \in Frames(u) :
                fr[1] \in class => fr[2] # f[2]
  PROVE  Once(class)'
<1> SUFFICES ASSUME NEW u \in Threads, NEW v \in Threads,
                    NEW f \in Frames(u)', NEW g \in Frames(v)',
                    f[1] \in class, g[1] \in class, f[2] = g[2]
             PROVE  u = v /\ f = g
  BY DEF Once
<1>1. \A w \in Threads : \A x \in Frames(w)' :
        \/ x \in Frames(w) /\ (w = t => x # gone)
        \/ x \in new /\ w = t
  BY DEF Step, Moved
<1>2. \A x \in new : x[1] \in class =>
        \A w \in Threads : \A y \in Frames(w) :
          y[1] \in class /\ y[2] = x[2] => w = t /\ y = gone
  BY DEF Step, Once
<1>3. CASE f \in Frames(u) /\ g \in Frames(v)
  BY <1>3 DEF Once
<1>4. QED
  BY <1>1, <1>2, <1>3

LEMMA PendingStep ==
  ASSUME NEW t \in Threads, NEW F, Moved(t, F)
  PROVE  \A fr : Pending(fr)' = IF fr \in F THEN Pending(fr) \cup {t}
                                ELSE Pending(fr) \ {t}
<1> TAKE fr
<1>1. \A u : u \in Pending(fr)' <=>
                u \in Threads /\ IF u = t THEN fr \in F ELSE u \in Pending(fr)
  BY DEF Moved, Pending
<1>2. Pending(fr) \subseteq Threads
  BY DEF Pending
<1>3. QED
  BY <1>1, <1>2

LEMMA SamePending ==
  ASSUME NEW t \in Threads, NEW F, Moved(t, F), NEW fr,
         fr \in F <=> fr \in Frames(t)
  PROVE  Pending(fr)' = Pending(fr)
BY DEF Moved, Pending

(* The sets that are counted are finite. *)
LEMMA Finite ==
  ASSUME NEW o
  PROVE  /\ \A kind \in {Strong, Weak} :
              IsFiniteSet(Settled(o, kind)) /\ Cardinality(Settled(o, kind)) \in Nat
         /\ \A fr : IsFiniteSet(Pending(fr)) /\ Cardinality(Pending(fr)) \in Nat
         /\ IsFiniteSet(Takes(o)) /\ Cardinality(Takes(o)) \in Nat
<1>1. \A S, T : IsFiniteSet(S) /\ T \subseteq S =>
                  IsFiniteSet(T) /\ Cardinality(T) \in Nat
  BY FS_Subset, FS_CardinalityType
<1>2. /\ Settled(o, Strong) \subseteq Strong /\ Settled(o, Weak) \subseteq Weak
      /\ (\A fr : Pending(fr) \subseteq Threads) /\ Takes(o) \subseteq Threads
  BY DEF Settled, Pending, Takes
<1>3. QED
  BY <1>1, <1>2, HandlesAssumption

LEMMA CountAdd ==
  ASSUME NEW S, NEW T, NEW x, IsFiniteSet(S), x \notin S, T = S \cup {x}
  PROVE  Cardinality(T) = Cardinality(S) + 1
BY FS_AddElement

LEMMA CountRemove ==
  ASSUME NEW S, NEW T, NEW x, IsFiniteSet(S), x \in S, T = S \ {x}
  PROVE  Cardinality(T) = Cardinality(S) - 1
BY FS_RemoveElement

(* An object that a step does not concern. *)
LEMMA SameLife ==
  ASSUME NEW o, Life(o),
         strong_ref_num'[o] = strong_ref_num[o],
         weak_ref_num'[o] = weak_ref_num[o], destructed'[o] = destructed[o],
         object'[o] = object[o], block'[o] = block[o],
         \A l \in Ending \cup Releasing : Has(l, o)' <=> Has(l, o)
  PROVE  Life(o)'
BY DEF Life, Ending, Releasing

-----------------------------------------------------------------------------
(* The steps that release a count.  The frame <<l, o>> on top becomes the  *)
(* frames new, which concern o as well.                                    *)

Drops == Label \ Assigning

LEMMA RunTop ==
  ASSUME Stacks, NEW t \in Threads, NEW l, l \notin Assigning, At(t, l)
  PROVE  /\ stack[t] # <<>> /\ Arg(t, 2) \in Objects
         /\ Head(stack[t]) = <<l, Arg(t, 2)>>
         /\ <<l, Arg(t, 2)>> \in Frames(t) /\ l \in Drops
         /\ \A fr \in Frames(t) : fr[1] \in TopOnly => fr = <<l, Arg(t, 2)>>
         /\ l \in {"dec_weak", "strong_left", "destructed"} => Weak # {}
<1> DEFINE f == Head(stack[t])
<1>1. stack[t] # <<>> /\ f[1] = l /\ Arg(t, 2) = f[2]
  BY DEF At, Arg
<1>2. f \in Frame /\ f \in Frames(t)
      /\ \A fr \in Frames(t) : fr[1] \in TopOnly => fr = f
  BY <1>1, Top
<1> HIDE DEF f
<1>3. f = <<l, f[2]>> /\ f[2] \in Objects /\ l \in Label
      /\ (l \in {"dec_weak", "strong_left", "destructed"} => Weak # {})
  BY <1>1, <1>2, FrameParts
<1>4. QED
  BY <1>1, <1>2, <1>3 DEF f, Drops

Concern(new, o) == \A f \in new : \E m \in Drops : f = <<m, o>>

(* What such a step keeps, whatever it does to the counters. *)
Keeps(l, o, new) ==
  /\ \A x, kind : Settled(x, kind)' = Settled(x, kind)
  /\ \A x : Takes(x)' = Takes(x)
  /\ Calls' /\ Once(Assigning)'
  /\ \A m \in Ending \cup Releasing :
       /\ Has(m, o)' <=> (Has(m, o) /\ m # l) \/ <<m, o>> \in new
       /\ \A x : x # o => (Has(m, x)' <=> Has(m, x))
  /\ \A x, d : <<d, x>> # <<l, o>> /\ <<d, x>> \notin new =>
       Pending(<<d, x>>)' = Pending(<<d, x>>)

LEMMA RunStep ==
  ASSUME IInv, NEW t \in Threads, NEW l \in Drops, NEW o \in Objects, NEW new,
         Step(t, <<l, o>>, new), Concern(new, o), ptr' = ptr
  PROVE  Keeps(l, o, new)
<1> DEFINE F == (Frames(t) \ {<<l, o>>}) \cup new
<1>1. Moved(t, F) /\ <<l, o>> \in Frames(t)
  BY DEF Step
<1>2. l \notin Assigning /\ \A f \in new : f[1] \notin Assigning
  BY DEF Drops, Concern
<1>3. \A fr : fr[1] \in Assigning => (fr \in F <=> fr \in Frames(t))
  BY <1>2
<1>4. /\ \A x, kind : Settled(x, kind)' = Settled(x, kind)
      /\ \A x : Takes(x)' = Takes(x)
      /\ Calls' /\ Once(Assigning)'
  <2> HIDE DEF F
  <2>1. Calls /\ Once(Assigning)
    BY DEF IInv, Owners
  <2>2. QED
    BY <1>1, <1>3, <2>1, SameAssigning
<1>5. \A m \in Ending \cup Releasing : \A x :
        Has(m, x)' <=> (Has(m, x) /\ <<m, x>> # <<l, o>>) \/ <<m, x>> \in new
  BY HasStep DEF IInv
<1>6. \A m, x : <<m, x>> \in new => x = o
  BY DEF Concern
<1>7. \A m, x : <<m, x>> = <<l, o>> <=> m = l /\ x = o
  OBVIOUS
<1>8. \A m \in Ending \cup Releasing :
        /\ Has(m, o)' <=> (Has(m, o) /\ m # l) \/ <<m, o>> \in new
        /\ \A x : x # o => (Has(m, x)' <=> Has(m, x))
  BY <1>5, <1>6, <1>7
<1>9. ASSUME NEW x, NEW d, <<d, x>> # <<l, o>>, <<d, x>> \notin new
      PROVE  Pending(<<d, x>>)' = Pending(<<d, x>>)
  <2>1. <<d, x>> \in F <=> <<d, x>> \in Frames(t)
    BY <1>9
  <2> HIDE DEF F
  <2>2. QED
    BY <1>1, <2>1, SamePending
<1>10. QED
  BY <1>4, <1>8, <1>9 DEF Keeps

(* The counters keep their values, and the counts as well. *)
LEMMA SameCounts ==
  ASSUME Counted, strong_ref_num' = strong_ref_num, weak_ref_num' = weak_ref_num,
         \A o \in Objects : /\ Settled(o, Strong)' = Settled(o, Strong)
                            /\ Settled(o, Weak)' = Settled(o, Weak)
                            /\ Takes(o)' = Takes(o)
          /\ Pending(<<"dec_strong", o>>)' = Pending(<<"dec_strong", o>>)
          /\ Pending(<<"dec_weak", o>>)' = Pending(<<"dec_weak", o>>)
  PROVE  Counted'
BY DEF Counted

(* The duties of the others are not touched. *)
LEMMA SameLives ==
  ASSUME Lives, NEW o, Life(o)',
         \A x \in Objects : x # o =>
           /\ strong_ref_num'[x] = strong_ref_num[x]
           /\ weak_ref_num'[x] = weak_ref_num[x]
           /\ destructed'[x] = destructed[x]
           /\ object'[x] = object[x] /\ block'[x] = block[x]
           /\ \A l \in Ending \cup Releasing : Has(l, x)' <=> Has(l, x)
  PROVE  Lives'
<1> SUFFICES ASSUME NEW x \in Objects, x # o PROVE Life(x)'
  BY DEF Lives
<1>1. Life(x)
  BY DEF Lives
<1>2. QED
  BY <1>1, SameLife

(* What a frame is, and that it is the only one of its kind when there are *)
(* weak handles.                                                           *)
LEMMA FramesAre ==
  ASSUME Stacks, NEW t \in Threads, NEW fr \in Frames(t), fr[1] \notin Assigning
  PROVE  fr = <<fr[1], fr[2]>> /\ fr[2] \in Objects /\ fr \in Frame
<1>1. stack[t] \in Seq(Frame) /\ fr \in Elems(stack[t])
  BY FramesAreElems DEF Stacks
<1>2. fr \in Frame
  BY <1>1 DEF Elems
<1>3. QED
  BY <1>2, FrameParts

(* A decrement to come has a count to take. *)
LEMMA Positive ==
  ASSUME Typed, Counted, NEW o \in Objects, NEW t
  PROVE  /\ strong_ref_num[o] \in Nat /\ weak_ref_num[o] \in Nat
         /\ t \in Pending(<<"dec_strong", o>>) => strong_ref_num[o] > 0
         /\ t \in Pending(<<"dec_weak", o>>) => weak_ref_num[o] > 0
         /\ \A h \in Strong : ptr[h] = o /\ ~Busy(h) => strong_ref_num[o] > 0
         /\ \A h \in Weak : ptr[h] = o /\ ~Busy(h) => weak_ref_num[o] > 0
<1>1. \A S, x : IsFiniteSet(S) /\ x \in S => Cardinality(S) # 0
  BY FS_EmptySet
<1>2. \A a, b, c \in Nat : (a # 0 => a + b > 0) /\ (b # 0 => a + b > 0)
                           /\ (a # 0 => a + b + c > 0) /\ (b # 0 => a + b + c > 0)
  OBVIOUS
<1>3. /\ strong_ref_num[o] = Cardinality(Settled(o, Strong))
                               + Cardinality(Pending(<<"dec_strong", o>>))
      /\ weak_ref_num[o] = Cardinality(Settled(o, Weak))
                             + Cardinality(Pending(<<"dec_weak", o>>))
                             + Cardinality(Takes(o))
      /\ strong_ref_num[o] \in Nat /\ weak_ref_num[o] \in Nat
  BY DEF Typed, Counted
<1>4. /\ Cardinality(Settled(o, Strong)) \in Nat /\ IsFiniteSet(Settled(o, Strong))
      /\ Cardinality(Settled(o, Weak)) \in Nat /\ IsFiniteSet(Settled(o, Weak))
      /\ \A fr : Cardinality(Pending(fr)) \in Nat /\ IsFiniteSet(Pending(fr))
      /\ Cardinality(Takes(o)) \in Nat
  BY Finite
<1>5. ASSUME NEW h \in Strong, ptr[h] = o, ~Busy(h) PROVE h \in Settled(o, Strong)
  BY <1>5 DEF Settled
<1>6. ASSUME NEW h \in Weak, ptr[h] = o, ~Busy(h) PROVE h \in Settled(o, Weak)
  BY <1>6 DEF Settled
<1>7. QED
  BY <1>1, <1>2, <1>3, <1>4, <1>5, <1>6

LEMMA Alone ==
  ASSUME Stacks, Contract, NEW t \in Threads, stack[t] # <<>>,
         NEW m \in TopOnly, NEW x, Has(m, x),
         \/ m \in {"dec_weak", "strong_left", "destructed"}
         \/ Head(stack[t])[1] \in {"dec_weak", "strong_left", "destructed"}
  PROVE  <<m, x>> = Head(stack[t])
<1>1. PICK u \in Threads : <<m, x>> \in Frames(u)
  BY DEF Has
<1>2. <<m, x>>[1] = m
  OBVIOUS
<1>3. m \in {"dec_weak", "strong_left", "destructed"} => Weak # {}
  <2>1. m \in {"dec_weak", "strong_left", "destructed"} => <<m, x>> \in Frame
    BY <1>1, <1>2, FramesAre DEF Assigning
  <2>2. QED
    BY <1>2, <2>1, FrameParts
<1>4. Head(stack[t])[1] \in {"dec_weak", "strong_left", "destructed"} => Weak # {}
  BY Top, FrameParts
<1>5. u = t
  BY <1>3, <1>4 DEF Contract, Solo
<1>6. QED
  BY <1>1, <1>2, <1>5, Top

LEMMA LastStrongStep ==
  ASSUME IInv, NEW t \in Threads, LastStrong(t)
  PROVE  IInv'
<1>a. PICK o : o = Arg(t, 2)
  OBVIOUS
<1> DEFINE new == {<<"weak_left", o>>}
<1>0. Typed /\ Stacks /\ Counted /\ Owners /\ Lives /\ Known /\ DestroyGuarded
  BY DEF IInv
<1>1. /\ stack[t] # <<>> /\ o \in Objects /\ Head(stack[t]) = <<"last_strong", o>>
      /\ <<"last_strong", o>> \in Frames(t) /\ "last_strong" \in Drops
      /\ \A fr \in Frames(t) : fr[1] \in TopOnly => fr = <<"last_strong", o>>
  BY <1>a, <1>0, RunTop DEF LastStrong, Assigning
<1>2. /\ Become(t, <<<<"weak_left", o>>>>)
      /\ destructed' = [destructed EXCEPT ![o] = TRUE]
      /\ fault' = IF block[o] # "live" THEN "use_after_free"
                  ELSE IF destructed[o] THEN "assert" ELSE "none"
      /\ UNCHANGED <<ptr, strong_ref_num, weak_ref_num, object, block>>
  BY <1>a DEF LastStrong, counts
<1>3. Has("last_strong", o) /\ Life(o)
  BY <1>0, <1>1 DEF Has, Lives
<1>4. block[o] = "live" /\ ~destructed[o]
  BY <1>3 DEF Life
<1>5. Stacks' /\ Step(t, <<"last_strong", o>>, new)
  <2>1. <<"weak_left", o>> \in Frame /\ <<"weak_left", o>> \notin Frames(t)
    BY <1>1 DEF Frame, TopOnly
  <2>2. "weak_left" \notin Assigning /\ "last_strong" \notin Assigning
    BY DEF Assigning
  <2>3. QED
    BY <1>0, <1>1, <1>2, <2>1, <2>2, Swap DEF Step, Moved
<1>6. Concern(new, o)
  BY DEF Concern, Drops, Label, Assigning
<1>7. Keeps("last_strong", o, new)
  <2> HIDE DEF new
  <2>1. ptr' = ptr
    BY <1>2
  <2>2. QED
    BY <1>1, <2>1, <1>5, <1>6, RunStep, Zenon
<1>8. Typed'
  BY <1>0, <1>2, <1>4 DEF Typed
<1>9. Counted'
  BY <1>0, <1>2, <1>7, SameCounts DEF Keeps
<1>10. Once(Ending)' /\ Once(Releasing)'
  <2>1. Once(Ending)'
    BY <1>0, <1>5, OnceStep DEF Owners, Ending
  <2>2. Once(Releasing)'
    BY <1>0, <1>5, OnceStep DEF Owners, Releasing
  <2>3. QED
    BY <2>1, <2>2
<1>11. Life(o)'
  <2>1. /\ ~Has("last_strong", o)' /\ Has("weak_left", o)'
        /\ Has("destroy", o)' <=> Has("destroy", o)
        /\ Has("members", o)' <=> Has("members", o)
        /\ Has("free", o)' <=> Has("free", o)
        /\ Has("strong_left", o)' <=> Has("strong_left", o)
        /\ Has("destructed", o)' <=> Has("destructed", o)
    BY <1>7 DEF Keeps, Ending, Releasing
  <2>2. QED
    BY <1>0, <1>1, <1>2, <1>3, <1>4, <2>1 DEF Life, Ending, Releasing, Typed
<1>12. Lives'
  BY <1>0, <1>2, <1>7, <1>11, SameLives DEF Typed, Keeps
<1>13. Known'
  BY <1>0, <1>2 DEF Known
<1>14. DestroyGuarded'
  BY <1>0, <1>2, <1>5 DEF DestroyGuarded, Step, Moved
<1>15. QED
  BY <1>5, <1>7, <1>8, <1>9, <1>10, <1>12, <1>13, <1>14 DEF IInv, Owners, Keeps

LEMMA DecStrongStep ==
  ASSUME IInv, Contract, NEW t \in Threads, DecStrong(t)
  PROVE  IInv'
<1>a. PICK o : o = Arg(t, 2)
  OBVIOUS
<1> DEFINE new == IF strong_ref_num[o] = 1 THEN {<<"last_strong", o>>} ELSE {}
<1>0. /\ Typed /\ Stacks /\ Counted /\ Owners /\ Lives /\ Known
      /\ DestroyGuarded
  BY DEF IInv
<1>1. /\ stack[t] # <<>> /\ o \in Objects /\ Head(stack[t]) = <<"dec_strong", o>>
      /\ <<"dec_strong", o>> \in Frames(t) /\ "dec_strong" \in Drops
      /\ \A fr \in Frames(t) : fr[1] \in TopOnly => fr = <<"dec_strong", o>>
  BY <1>a, <1>0, RunTop DEF DecStrong, OnBlock, Assigning
<1>2. /\ fault' = IF block[o] = "live" THEN "none" ELSE "use_after_free"
      /\ strong_ref_num' = [strong_ref_num EXCEPT ![o] = @ - 1]
      /\ Become(t, IF strong_ref_num[o] = 1 THEN <<<<"last_strong", o>>>> ELSE <<>>)
      /\ UNCHANGED <<ptr, weak_ref_num, destructed, object, block>>
  BY <1>a DEF DecStrong, OnBlock, counts, memory
<1>3. Has("dec_strong", o) /\ Life(o)
  BY <1>0, <1>1 DEF Has, Lives
<1>4. strong_ref_num[o] > 0 /\ strong_ref_num[o] \in Nat /\ object[o] # "none" /\ block[o] = "live"
  <2>1. t \in Pending(<<"dec_strong", o>>)
    BY <1>1 DEF Pending
  <2>2. strong_ref_num[o] > 0 /\ strong_ref_num[o] \in Nat
    BY <1>0, <1>1, <2>1, Positive
  <2>3. QED
    BY <2>2, <1>3 DEF Life
<1>n. \A u \in Threads : \A fr \in Frames(u) : fr[1] \in Ending => fr[2] # o
  <2> SUFFICES ASSUME NEW u \in Threads, NEW fr \in Frames(u), fr[1] \in Ending, fr[2] = o
               PROVE  FALSE
    OBVIOUS
  <2>1. fr = <<fr[1], o>>
    BY <1>0, FramesAre DEF Ending, Assigning
  <2>2. Has(fr[1], o)
    BY <2>1 DEF Has
  <2>3. QED
    BY <1>3, <1>4, <2>2 DEF Life, Ending
<1>5. Stacks' /\ Step(t, <<"dec_strong", o>>, new)
  <2>1. CASE strong_ref_num[o] = 1
    <3>1. <<"last_strong", o>> \in Frame /\ <<"last_strong", o>> \notin Frames(t)
      BY <1>1 DEF Frame, TopOnly
    <3>2. "dec_strong" \notin Assigning /\ "last_strong" \notin Assigning
      BY DEF Assigning
    <3>3. Become(t, <<<<"last_strong", o>>>>) /\ new = {<<"last_strong", o>>}
      BY <1>2, <2>1
    <3> HIDE DEF new
    <3>4. QED
      BY <1>0, <1>1, <3>1, <3>2, <3>3, Swap DEF Step, Moved
  <2>2. CASE ~(strong_ref_num[o] = 1)
    <3>1. Become(t, <<>>) /\ new = {}
      BY <1>2, <2>2
    <3> HIDE DEF new
    <3>2. QED
      BY <1>0, <1>1, <3>1, Pop DEF Step, Moved
  <2>3. QED
    BY <2>1, <2>2
<1>6. Concern(new, o)
  BY DEF Concern, Drops, Label, Assigning
<1>7. Keeps("dec_strong", o, new)
  <2> HIDE DEF new
  <2>1. ptr' = ptr
    BY <1>2
  <2>2. QED
    BY <1>1, <1>5, <1>6, <2>1, RunStep, Zenon
<1>8. Typed'
  <2>1. strong_ref_num' \in [Objects -> Nat]
    <3>1. strong_ref_num[o] - 1 \in Nat
      BY <1>4
    <3>2. QED
      BY <1>0, <1>2, <3>1 DEF Typed
  <2>2. QED
    BY <1>0, <1>2, <1>4, <2>1 DEF Typed
<1>9. Counted'
  <2>1. Pending(<<"dec_strong", o>>)' = Pending(<<"dec_strong", o>>) \ {t} /\ t \in Pending(<<"dec_strong", o>>)
    <3>1. <<"dec_strong", o>> \notin (Frames(t) \ {<<"dec_strong", o>>}) \cup new
      OBVIOUS
    <3> HIDE DEF new
    <3>2. QED
      BY <1>1, <1>5, <3>1, PendingStep DEF Step, Pending
  <2>2. Cardinality(Pending(<<"dec_strong", o>>)') = Cardinality(Pending(<<"dec_strong", o>>)) - 1
    BY <2>1, Finite, CountRemove
  <2>3. \A x \in Objects :
          /\ Settled(x, Strong)' = Settled(x, Strong)
          /\ Settled(x, Weak)' = Settled(x, Weak)
          /\ Takes(x)' = Takes(x)
          /\ Pending(<<"dec_weak", x>>)' = Pending(<<"dec_weak", x>>)
          /\ x # o =>
               Pending(<<"dec_strong", x>>)' = Pending(<<"dec_strong", x>>)
    BY <1>7 DEF Keeps
  <2>4. \A x \in Objects : x # o =>
          /\ strong_ref_num'[x] = strong_ref_num[x]
          /\ weak_ref_num'[x] = weak_ref_num[x]
    BY <1>0, <1>2 DEF Typed
  <2>5. /\ strong_ref_num'[o] = strong_ref_num[o] - 1
        /\ weak_ref_num'[o] = weak_ref_num[o]
    BY <1>0, <1>1, <1>2 DEF Typed
  <2>6. /\ strong_ref_num[o] = Cardinality(Settled(o, Strong))
                                        + Cardinality(Pending(<<"dec_strong", o>>))
        /\ weak_ref_num[o] = Cardinality(Settled(o, Weak))
                                       + Cardinality(Pending(<<"dec_weak", o>>))
                                       + Cardinality(Takes(o))
    BY <1>0, <1>1 DEF Counted
  <2>7. /\ Cardinality(Settled(o, Strong)) \in Nat /\ Cardinality(Settled(o, Weak)) \in Nat
        /\ Cardinality(Pending(<<"dec_strong", o>>)) \in Nat
        /\ Cardinality(Pending(<<"dec_weak", o>>)) \in Nat /\ Cardinality(Takes(o)) \in Nat
    BY Finite
  <2>8. /\ strong_ref_num'[o] = Cardinality(Settled(o, Strong)')
                                         + Cardinality(Pending(<<"dec_strong", o>>)')
        /\ weak_ref_num'[o] = Cardinality(Settled(o, Weak)')
                                       + Cardinality(Pending(<<"dec_weak", o>>)')
                                       + Cardinality(Takes(o)')
    <3>1. \A a, b, c, d, e \in Nat : (a + b) - 1 = a + (b - 1) /\ (c + d + e) - 1 = c + (d - 1) + e
      OBVIOUS
    <3>2. /\ Settled(o, Strong)' = Settled(o, Strong) /\ Settled(o, Weak)' = Settled(o, Weak)
          /\ Takes(o)' = Takes(o)
          /\ Pending(<<"dec_weak", o>>)' = Pending(<<"dec_weak", o>>)
      BY <1>1, <2>3
    <3>3. QED
      BY <2>2, <2>5, <2>6, <2>7, <3>1, <3>2
  <2>9. ASSUME NEW x \in Objects, x # o
        PROVE  /\ strong_ref_num'[x] = Cardinality(Settled(x, Strong)')
                                                + Cardinality(Pending(<<"dec_strong", x>>)')
               /\ weak_ref_num'[x] = Cardinality(Settled(x, Weak)')
                                              + Cardinality(Pending(<<"dec_weak", x>>)')
                                              + Cardinality(Takes(x)')
    BY <1>0, <2>3, <2>4, <2>9 DEF Counted
  <2>10. QED
    BY <2>8, <2>9 DEF Counted
<1>10. Once(Ending)' /\ Once(Releasing)'
  <2>1. Once(Ending)'
    BY <1>0, <1>1, <1>5, <1>n, OnceStep DEF Owners, Ending
  <2>2. Once(Releasing)'
    BY <1>0, <1>1, <1>5, OnceStep DEF Owners, Releasing
  <2>3. QED
    BY <2>1, <2>2
<1>11. Life(o)'
  <2>1. /\ Has("last_strong", o)' <=> Has("last_strong", o) \/ strong_ref_num[o] = 1
        /\ Has("weak_left", o)' <=> Has("weak_left", o)
        /\ Has("destroy", o)' <=> Has("destroy", o)
        /\ Has("members", o)' <=> Has("members", o)
        /\ Has("free", o)' <=> Has("free", o)
        /\ Has("strong_left", o)' <=> Has("strong_left", o)
        /\ Has("destructed", o)' <=> Has("destructed", o)
    BY <1>7 DEF Keeps, Ending, Releasing
  <2>2. QED
    BY <1>0, <1>1, <1>2, <1>3, <1>4, <2>1 DEF Life, Ending, Releasing, Typed
<1>12. Lives'
  BY <1>0, <1>2, <1>7, <1>11, SameLives DEF Typed, Keeps
<1>13. Known'
  BY <1>0, <1>2 DEF Known
<1>14. DestroyGuarded'
  BY <1>0, <1>2, <1>5 DEF DestroyGuarded, Step, Moved
<1>15. QED
  BY <1>5, <1>7, <1>8, <1>9, <1>10, <1>12, <1>13, <1>14
  DEF IInv, Owners, Keeps

LEMMA WeakLeftStep ==
  ASSUME IInv, Contract, NEW t \in Threads, WeakLeft(t)
  PROVE  IInv'
<1>a. PICK o : o = Arg(t, 2)
  OBVIOUS
<1> DEFINE new == IF weak_ref_num[o] = 0 THEN {<<"destroy", o>>, <<"free", o>>}
                  ELSE {<<"destroy", o>>}
<1>0. /\ Typed /\ Stacks /\ Counted /\ Owners /\ Lives /\ Known
      /\ DestroyGuarded
  BY DEF IInv
<1>1. /\ stack[t] # <<>> /\ o \in Objects /\ Head(stack[t]) = <<"weak_left", o>>
      /\ <<"weak_left", o>> \in Frames(t) /\ "weak_left" \in Drops
      /\ \A fr \in Frames(t) : fr[1] \in TopOnly => fr = <<"weak_left", o>>
  BY <1>a, <1>0, RunTop DEF WeakLeft, OnBlock, Assigning
<1>2. /\ fault' = IF block[o] = "live" THEN "none" ELSE "use_after_free"
      /\ Become(t, IF weak_ref_num[o] = 0 THEN <<<<"destroy", o>>, <<"free", o>>>>
                   ELSE <<<<"destroy", o>>>>)
      /\ UNCHANGED <<ptr, strong_ref_num, weak_ref_num, destructed, object, block>>
  BY <1>a DEF WeakLeft, OnBlock, counts, memory
<1>3. Has("weak_left", o) /\ Life(o)
  BY <1>0, <1>1 DEF Has, Lives
<1>4. object[o] = "live" /\ block[o] = "live" /\ destructed[o]
  BY <1>3 DEF Life
<1>n. \A u \in Threads : \A fr \in Frames(u) : fr[1] \in Releasing => fr[2] # o
  <2> SUFFICES ASSUME NEW u \in Threads, NEW fr \in Frames(u), fr[1] \in Releasing, fr[2] = o
               PROVE  FALSE
    OBVIOUS
  <2>1. fr = <<fr[1], o>>
    BY <1>0, FramesAre DEF Releasing, Assigning
  <2>2. Has(fr[1], o)
    BY <2>1 DEF Has
  <2>3. fr[1] # "strong_left"
    BY <1>0, <1>1, <2>1, <2>2, Alone DEF Assigning, TopOnly
  <2>4. QED
    BY <1>3, <2>2, <2>3 DEF Life, Releasing
<1>5. Stacks' /\ Step(t, <<"weak_left", o>>, new)
  <2>0. /\ <<"destroy", o>> \in Frame /\ <<"destroy", o>> \notin Frames(t)
        /\ <<"free", o>> \in Frame /\ <<"free", o>> \notin Frames(t)
        /\ <<"destroy", o>> # <<"free", o>> /\ "free" \notin TopOnly
    BY <1>1, <1>n DEF Frame, TopOnly, Releasing
  <2>1. /\ "weak_left" \notin Assigning /\ "destroy" \notin Assigning
        /\ "free" \notin Assigning
    BY DEF Assigning
  <2>2. CASE weak_ref_num[o] = 0
    <3>1. /\ Become(t, <<<<"destroy", o>>, <<"free", o>>>>)
          /\ new = {<<"destroy", o>>, <<"free", o>>}
      BY <1>2, <2>2
    <3> HIDE DEF new
    <3>2. QED
      BY <1>0, <1>1, <2>0, <2>1, <3>1, Push DEF Step, Moved
  <2>3. CASE weak_ref_num[o] # 0
    <3>1. Become(t, <<<<"destroy", o>>>>) /\ new = {<<"destroy", o>>}
      BY <1>2, <2>3
    <3> HIDE DEF new
    <3>2. QED
      BY <1>0, <1>1, <2>0, <2>1, <3>1, Swap DEF Step, Moved
  <2>4. QED
    BY <2>2, <2>3
<1>6. Concern(new, o)
  BY DEF Concern, Drops, Label, Assigning
<1>7. Keeps("weak_left", o, new)
  <2> HIDE DEF new
  <2>1. ptr' = ptr
    BY <1>2
  <2>2. QED
    BY <1>1, <1>5, <1>6, <2>1, RunStep, Zenon
<1>8. Typed'
  BY <1>0, <1>2, <1>4 DEF Typed
<1>9. Counted'
  BY <1>0, <1>2, <1>7, SameCounts DEF Keeps
<1>10. Once(Ending)' /\ Once(Releasing)'
  <2>1. Once(Ending)'
    BY <1>0, <1>1, <1>5, OnceStep DEF Owners, Ending
  <2>2. Once(Releasing)'
    BY <1>0, <1>1, <1>5, <1>n, OnceStep DEF Owners, Releasing
  <2>3. QED
    BY <2>1, <2>2
<1>11. Life(o)'
  <2>1. /\ Has("last_strong", o)' <=> Has("last_strong", o)
        /\ ~Has("weak_left", o)'
        /\ Has("destroy", o)'
        /\ Has("members", o)' <=> Has("members", o)
        /\ Has("free", o)' <=> Has("free", o) \/ weak_ref_num[o] = 0
        /\ Has("strong_left", o)' <=> Has("strong_left", o)
        /\ Has("destructed", o)' <=> Has("destructed", o)
    BY <1>7 DEF Keeps, Ending, Releasing
  <2>2. QED
    BY <1>0, <1>1, <1>2, <1>3, <1>4, <2>1 DEF Life, Ending, Releasing, Typed
<1>12. Lives'
  BY <1>0, <1>2, <1>7, <1>11, SameLives DEF Typed, Keeps
<1>13. Known'
  BY <1>0, <1>2 DEF Known
<1>14. DestroyGuarded'
  <2> SUFFICES ASSUME NEW u \in Threads, NEW x \in Objects,
                      <<"destroy", x>> \in Frames(u)'
               PROVE  weak_ref_num'[x] > 0 \/ <<"free", x>> \in Frames(u)'
    BY DEF DestroyGuarded
  <2>1. CASE <<"destroy", x>> \in Frames(u)
    <3>1. <<"free", x>> # <<"weak_left", o>>
      OBVIOUS
    <3>2. QED
      BY <1>0, <1>2, <1>5, <2>1, <3>1 DEF DestroyGuarded, Step, Moved
  <2>2. CASE <<"destroy", x>> \notin Frames(u)
    <3>1. <<"destroy", x>> \in new /\ u = t
      BY <1>5, <2>2 DEF Step, Moved
    <3>2. x = o
      BY <3>1
    <3>3. CASE weak_ref_num[o] = 0
      BY <1>5, <3>1, <3>2, <3>3 DEF Step, Moved
    <3>4. CASE weak_ref_num[o] # 0
      BY <1>0, <1>1, <1>2, <3>2, <3>4 DEF Typed
    <3>5. QED
      BY <3>3, <3>4
  <2>3. QED
    BY <2>1, <2>2
<1>15. QED
  BY <1>5, <1>7, <1>8, <1>9, <1>10, <1>12, <1>13, <1>14
  DEF IInv, Owners, Keeps

LEMMA DecWeakStep ==
  ASSUME IInv, Contract, NEW t \in Threads, DecWeak(t)
  PROVE  IInv'
<1>a. PICK o : o = Arg(t, 2)
  OBVIOUS
<1> DEFINE new == IF weak_ref_num[o] = 1 THEN {<<"strong_left", o>>} ELSE {}
<1>0. /\ Typed /\ Stacks /\ Counted /\ Owners /\ Lives /\ Known
      /\ DestroyGuarded
  BY DEF IInv
<1>1. /\ stack[t] # <<>> /\ o \in Objects /\ Head(stack[t]) = <<"dec_weak", o>>
      /\ <<"dec_weak", o>> \in Frames(t) /\ "dec_weak" \in Drops
      /\ \A fr \in Frames(t) : fr[1] \in TopOnly => fr = <<"dec_weak", o>>
      /\ Weak # {}
  BY <1>a, <1>0, RunTop DEF DecWeak, OnBlock, Assigning
<1>2. /\ fault' = IF block[o] = "live" THEN "none" ELSE "use_after_free"
      /\ weak_ref_num' = [weak_ref_num EXCEPT ![o] = @ - 1]
      /\ Become(t, IF weak_ref_num[o] = 1 THEN <<<<"strong_left", o>>>> ELSE <<>>)
      /\ UNCHANGED <<ptr, strong_ref_num, destructed, object, block>>
  BY <1>a DEF DecWeak, OnBlock, counts, memory
<1>3. Has("dec_weak", o) /\ Life(o)
  BY <1>0, <1>1 DEF Has, Lives
<1>4. weak_ref_num[o] > 0 /\ weak_ref_num[o] \in Nat /\ object[o] # "none" /\ block[o] = "live"
  <2>1. t \in Pending(<<"dec_weak", o>>)
    BY <1>1 DEF Pending
  <2>2. weak_ref_num[o] > 0 /\ weak_ref_num[o] \in Nat
    BY <1>0, <1>1, <2>1, Positive
  <2>3. QED
    BY <2>2, <1>3 DEF Life
<1>w. ~Has("last_strong", o) /\ ~Has("weak_left", o)
      /\ \A x : ~Has("destroy", x)
  BY <1>0, <1>1, Alone DEF Assigning, TopOnly
<1>n. \A u \in Threads : \A fr \in Frames(u) : fr[1] \in Releasing => fr[2] # o
  <2> SUFFICES ASSUME NEW u \in Threads, NEW fr \in Frames(u), fr[1] \in Releasing, fr[2] = o
               PROVE  FALSE
    OBVIOUS
  <2>1. fr = <<fr[1], o>>
    BY <1>0, FramesAre DEF Releasing, Assigning
  <2>2. Has(fr[1], o)
    BY <2>1 DEF Has
  <2>3. QED
    BY <1>3, <1>4, <2>2 DEF Life, Releasing
<1>5. Stacks' /\ Step(t, <<"dec_weak", o>>, new)
  <2>1. CASE weak_ref_num[o] = 1
    <3>1. <<"strong_left", o>> \in Frame /\ <<"strong_left", o>> \notin Frames(t)
      BY <1>1, <1>w DEF Frame, TopOnly
    <3>2. "dec_weak" \notin Assigning /\ "strong_left" \notin Assigning
      BY DEF Assigning
    <3>3. Become(t, <<<<"strong_left", o>>>>) /\ new = {<<"strong_left", o>>}
      BY <1>2, <2>1
    <3> HIDE DEF new
    <3>4. QED
      BY <1>0, <1>1, <3>1, <3>2, <3>3, Swap DEF Step, Moved
  <2>2. CASE ~(weak_ref_num[o] = 1)
    <3>1. Become(t, <<>>) /\ new = {}
      BY <1>2, <2>2
    <3> HIDE DEF new
    <3>2. QED
      BY <1>0, <1>1, <3>1, Pop DEF Step, Moved
  <2>3. QED
    BY <2>1, <2>2
<1>6. Concern(new, o)
  BY DEF Concern, Drops, Label, Assigning
<1>7. Keeps("dec_weak", o, new)
  <2> HIDE DEF new
  <2>1. ptr' = ptr
    BY <1>2
  <2>2. QED
    BY <1>1, <1>5, <1>6, <2>1, RunStep, Zenon
<1>8. Typed'
  <2>1. weak_ref_num' \in [Objects -> Nat]
    <3>1. weak_ref_num[o] - 1 \in Nat
      BY <1>4
    <3>2. QED
      BY <1>0, <1>2, <3>1 DEF Typed
  <2>2. QED
    BY <1>0, <1>2, <1>4, <2>1 DEF Typed
<1>9. Counted'
  <2>1. Pending(<<"dec_weak", o>>)' = Pending(<<"dec_weak", o>>) \ {t} /\ t \in Pending(<<"dec_weak", o>>)
    <3>1. <<"dec_weak", o>> \notin (Frames(t) \ {<<"dec_weak", o>>}) \cup new
      OBVIOUS
    <3> HIDE DEF new
    <3>2. QED
      BY <1>1, <1>5, <3>1, PendingStep DEF Step, Pending
  <2>2. Cardinality(Pending(<<"dec_weak", o>>)') = Cardinality(Pending(<<"dec_weak", o>>)) - 1
    BY <2>1, Finite, CountRemove
  <2>3. \A x \in Objects :
          /\ Settled(x, Strong)' = Settled(x, Strong)
          /\ Settled(x, Weak)' = Settled(x, Weak)
          /\ Takes(x)' = Takes(x)
          /\ Pending(<<"dec_strong", x>>)' = Pending(<<"dec_strong", x>>)
          /\ x # o =>
               Pending(<<"dec_weak", x>>)' = Pending(<<"dec_weak", x>>)
    BY <1>7 DEF Keeps
  <2>4. \A x \in Objects : x # o =>
          /\ strong_ref_num'[x] = strong_ref_num[x]
          /\ weak_ref_num'[x] = weak_ref_num[x]
    BY <1>0, <1>2 DEF Typed
  <2>5. /\ strong_ref_num'[o] = strong_ref_num[o]
        /\ weak_ref_num'[o] = weak_ref_num[o] - 1
    BY <1>0, <1>1, <1>2 DEF Typed
  <2>6. /\ strong_ref_num[o] = Cardinality(Settled(o, Strong))
                                        + Cardinality(Pending(<<"dec_strong", o>>))
        /\ weak_ref_num[o] = Cardinality(Settled(o, Weak))
                                       + Cardinality(Pending(<<"dec_weak", o>>))
                                       + Cardinality(Takes(o))
    BY <1>0, <1>1 DEF Counted
  <2>7. /\ Cardinality(Settled(o, Strong)) \in Nat /\ Cardinality(Settled(o, Weak)) \in Nat
        /\ Cardinality(Pending(<<"dec_strong", o>>)) \in Nat
        /\ Cardinality(Pending(<<"dec_weak", o>>)) \in Nat /\ Cardinality(Takes(o)) \in Nat
    BY Finite
  <2>8. /\ strong_ref_num'[o] = Cardinality(Settled(o, Strong)')
                                         + Cardinality(Pending(<<"dec_strong", o>>)')
        /\ weak_ref_num'[o] = Cardinality(Settled(o, Weak)')
                                       + Cardinality(Pending(<<"dec_weak", o>>)')
                                       + Cardinality(Takes(o)')
    <3>1. \A a, b, c, d, e \in Nat : (a + b) - 1 = a + (b - 1) /\ (c + d + e) - 1 = c + (d - 1) + e
      OBVIOUS
    <3>2. /\ Settled(o, Strong)' = Settled(o, Strong) /\ Settled(o, Weak)' = Settled(o, Weak)
          /\ Takes(o)' = Takes(o)
          /\ Pending(<<"dec_strong", o>>)' = Pending(<<"dec_strong", o>>)
      BY <1>1, <2>3
    <3>3. QED
      BY <2>2, <2>5, <2>6, <2>7, <3>1, <3>2
  <2>9. ASSUME NEW x \in Objects, x # o
        PROVE  /\ strong_ref_num'[x] = Cardinality(Settled(x, Strong)')
                                                + Cardinality(Pending(<<"dec_strong", x>>)')
               /\ weak_ref_num'[x] = Cardinality(Settled(x, Weak)')
                                              + Cardinality(Pending(<<"dec_weak", x>>)')
                                              + Cardinality(Takes(x)')
    BY <1>0, <2>3, <2>4, <2>9 DEF Counted
  <2>10. QED
    BY <2>8, <2>9 DEF Counted
<1>10. Once(Ending)' /\ Once(Releasing)'
  <2>1. Once(Ending)'
    BY <1>0, <1>1, <1>5, OnceStep DEF Owners, Ending
  <2>2. Once(Releasing)'
    BY <1>0, <1>1, <1>5, <1>n, OnceStep DEF Owners, Releasing
  <2>3. QED
    BY <2>1, <2>2
<1>11. Life(o)'
  <2>1. /\ Has("last_strong", o)' <=> Has("last_strong", o)
        /\ Has("weak_left", o)' <=> Has("weak_left", o)
        /\ Has("destroy", o)' <=> Has("destroy", o)
        /\ Has("members", o)' <=> Has("members", o)
        /\ Has("free", o)' <=> Has("free", o)
        /\ Has("strong_left", o)' <=> Has("strong_left", o) \/ weak_ref_num[o] = 1
        /\ Has("destructed", o)' <=> Has("destructed", o)
    BY <1>7 DEF Keeps, Ending, Releasing
  <2>2. QED
    BY <1>0, <1>1, <1>2, <1>3, <1>4, <2>1, <1>w DEF Life, Ending, Releasing, Typed
<1>12. Lives'
  BY <1>0, <1>2, <1>7, <1>11, SameLives DEF Typed, Keeps
<1>13. Known'
  BY <1>0, <1>2 DEF Known
<1>14. DestroyGuarded'
  <2>1. \A x, u : ~(u \in Threads /\ <<"destroy", x>> \in Frames(u))
    BY <1>w DEF Has
  <2>2. QED
    BY <1>5, <2>1 DEF DestroyGuarded, Step, Moved
<1>15. QED
  BY <1>5, <1>7, <1>8, <1>9, <1>10, <1>12, <1>13, <1>14
  DEF IInv, Owners, Keeps

LEMMA StrongLeftStep ==
  ASSUME IInv, Contract, NEW t \in Threads, StrongLeft(t)
  PROVE  IInv'
<1>a. PICK o : o = Arg(t, 2)
  OBVIOUS
<1> DEFINE new == IF strong_ref_num[o] = 0 THEN {<<"destructed", o>>} ELSE {}
<1>0. /\ Typed /\ Stacks /\ Counted /\ Owners /\ Lives /\ Known
      /\ DestroyGuarded
  BY DEF IInv
<1>1. /\ stack[t] # <<>> /\ o \in Objects /\ Head(stack[t]) = <<"strong_left", o>>
      /\ <<"strong_left", o>> \in Frames(t) /\ "strong_left" \in Drops
      /\ \A fr \in Frames(t) : fr[1] \in TopOnly => fr = <<"strong_left", o>>
      /\ Weak # {}
  BY <1>a, <1>0, RunTop DEF StrongLeft, OnBlock, Assigning
<1>2. /\ fault' = IF block[o] = "live" THEN "none" ELSE "use_after_free"
      /\ Become(t, IF strong_ref_num[o] = 0 THEN <<<<"destructed", o>>>> ELSE <<>>)
      /\ UNCHANGED <<ptr, strong_ref_num, weak_ref_num, destructed, object, block>>
  BY <1>a DEF StrongLeft, OnBlock, counts, memory
<1>3. Has("strong_left", o) /\ Life(o)
  BY <1>0, <1>1 DEF Has, Lives
<1>4. object[o] # "none" /\ block[o] = "live" /\ weak_ref_num[o] = 0
  BY <1>3 DEF Life, Ending, Releasing
<1>w. ~Has("last_strong", o) /\ ~Has("weak_left", o)
      /\ \A x : ~Has("destroy", x)
  BY <1>0, <1>1, Alone DEF Assigning, TopOnly
<1>5. Stacks' /\ Step(t, <<"strong_left", o>>, new)
  <2>1. CASE strong_ref_num[o] = 0
    <3>1. <<"destructed", o>> \in Frame /\ <<"destructed", o>> \notin Frames(t)
      BY <1>1, <1>w DEF Frame, TopOnly
    <3>2. "strong_left" \notin Assigning /\ "destructed" \notin Assigning
      BY DEF Assigning
    <3>3. Become(t, <<<<"destructed", o>>>>) /\ new = {<<"destructed", o>>}
      BY <1>2, <2>1
    <3> HIDE DEF new
    <3>4. QED
      BY <1>0, <1>1, <3>1, <3>2, <3>3, Swap DEF Step, Moved
  <2>2. CASE ~(strong_ref_num[o] = 0)
    <3>1. Become(t, <<>>) /\ new = {}
      BY <1>2, <2>2
    <3> HIDE DEF new
    <3>2. QED
      BY <1>0, <1>1, <3>1, Pop DEF Step, Moved
  <2>3. QED
    BY <2>1, <2>2
<1>6. Concern(new, o)
  BY DEF Concern, Drops, Label, Assigning
<1>7. Keeps("strong_left", o, new)
  <2> HIDE DEF new
  <2>1. ptr' = ptr
    BY <1>2
  <2>2. QED
    BY <1>1, <1>5, <1>6, <2>1, RunStep, Zenon
<1>8. Typed'
  BY <1>0, <1>2, <1>4 DEF Typed
<1>9. Counted'
  BY <1>0, <1>2, <1>7, SameCounts DEF Keeps
<1>10. Once(Ending)' /\ Once(Releasing)'
  <2>1. Once(Ending)'
    BY <1>0, <1>1, <1>5, OnceStep DEF Owners, Ending
  <2>2. Once(Releasing)'
    BY <1>0, <1>1, <1>5, OnceStep DEF Owners, Releasing
  <2>3. QED
    BY <2>1, <2>2
<1>11. Life(o)'
  <2>1. /\ Has("last_strong", o)' <=> Has("last_strong", o)
        /\ Has("weak_left", o)' <=> Has("weak_left", o)
        /\ Has("destroy", o)' <=> Has("destroy", o)
        /\ Has("members", o)' <=> Has("members", o)
        /\ Has("free", o)' <=> Has("free", o)
        /\ ~Has("strong_left", o)'
        /\ Has("destructed", o)' <=> Has("destructed", o) \/ strong_ref_num[o] = 0
    BY <1>7 DEF Keeps, Ending, Releasing
  <2>2. QED
    BY <1>0, <1>1, <1>2, <1>3, <1>4, <2>1, <1>w DEF Life, Ending, Releasing, Typed
<1>12. Lives'
  BY <1>0, <1>2, <1>7, <1>11, SameLives DEF Typed, Keeps
<1>13. Known'
  BY <1>0, <1>2 DEF Known
<1>14. DestroyGuarded'
  BY <1>0, <1>2, <1>5 DEF DestroyGuarded, Step, Moved
<1>15. QED
  BY <1>5, <1>7, <1>8, <1>9, <1>10, <1>12, <1>13, <1>14
  DEF IInv, Owners, Keeps

LEMMA TestDestructedStep ==
  ASSUME IInv, Contract, NEW t \in Threads, TestDestructed(t)
  PROVE  IInv'
<1>a. PICK o : o = Arg(t, 2)
  OBVIOUS
<1> DEFINE new == {<<"free", o>>}
<1>0. /\ Typed /\ Stacks /\ Counted /\ Owners /\ Lives /\ Known
      /\ DestroyGuarded
  BY DEF IInv
<1>1. /\ stack[t] # <<>> /\ o \in Objects /\ Head(stack[t]) = <<"destructed", o>>
      /\ <<"destructed", o>> \in Frames(t) /\ "destructed" \in Drops
      /\ \A fr \in Frames(t) : fr[1] \in TopOnly => fr = <<"destructed", o>>
  BY <1>a, <1>0, RunTop DEF TestDestructed, OnBlock, Assigning
<1>2. /\ fault' = IF block[o] = "live" THEN "none" ELSE "use_after_free"
      /\ destructed' = [destructed EXCEPT ![o] = TRUE]
      /\ Become(t, IF destructed[o] THEN <<<<"free", o>>>>
                   ELSE <<<<"destroy", o>>, <<"free", o>>>>)
      /\ UNCHANGED <<ptr, strong_ref_num, weak_ref_num, object, block>>
  BY <1>a DEF TestDestructed, OnBlock, counts, memory
<1>3. Has("destructed", o) /\ Life(o)
  BY <1>0, <1>1 DEF Has, Lives
<1>4. /\ object[o] # "none" /\ block[o] = "live" /\ destructed[o]
      /\ Become(t, <<<<"free", o>>>>)
  BY <1>2, <1>3 DEF Life, Ending, Releasing
<1>5. Stacks' /\ Step(t, <<"destructed", o>>, new)
  <2>1. <<"free", o>> \in Frame /\ <<"free", o>> \notin Frames(t)
    <3>1. <<"free", o>> # <<"destructed", o>>
      OBVIOUS
    <3>2. QED
      BY <1>0, <1>1, <3>1 DEF Owners, Once, Releasing, Frame
  <2>2. "destructed" \notin Assigning /\ "free" \notin Assigning
    BY DEF Assigning
  <2>3. QED
    BY <1>0, <1>1, <1>4, <2>1, <2>2, Swap DEF Step, Moved
<1>6. Concern(new, o)
  BY DEF Concern, Drops, Label, Assigning
<1>7. Keeps("destructed", o, new)
  <2> HIDE DEF new
  <2>1. ptr' = ptr
    BY <1>2
  <2>2. QED
    BY <1>1, <1>5, <1>6, <2>1, RunStep, Zenon
<1>8. Typed'
  BY <1>0, <1>2, <1>4 DEF Typed
<1>9. Counted'
  BY <1>0, <1>2, <1>7, SameCounts DEF Keeps
<1>10. Once(Ending)' /\ Once(Releasing)'
  <2>1. Once(Ending)'
    BY <1>0, <1>1, <1>5, OnceStep DEF Owners, Ending
  <2>2. Once(Releasing)'
    BY <1>0, <1>1, <1>5, OnceStep DEF Owners, Releasing
  <2>3. QED
    BY <2>1, <2>2
<1>11. Life(o)'
  <2>1. /\ Has("last_strong", o)' <=> Has("last_strong", o)
        /\ Has("weak_left", o)' <=> Has("weak_left", o)
        /\ Has("destroy", o)' <=> Has("destroy", o)
        /\ Has("members", o)' <=> Has("members", o)
        /\ Has("free", o)'
        /\ Has("strong_left", o)' <=> Has("strong_left", o)
        /\ ~Has("destructed", o)'
    BY <1>7 DEF Keeps, Ending, Releasing
  <2>2. QED
    BY <1>0, <1>1, <1>2, <1>3, <1>4, <2>1 DEF Life, Ending, Releasing, Typed
<1>12. Lives'
  BY <1>0, <1>2, <1>7, <1>11, SameLives DEF Typed, Keeps
<1>13. Known'
  BY <1>0, <1>2 DEF Known
<1>14. DestroyGuarded'
  BY <1>0, <1>2, <1>5 DEF DestroyGuarded, Step, Moved
<1>15. QED
  BY <1>5, <1>7, <1>8, <1>9, <1>10, <1>12, <1>13, <1>14
  DEF IInv, Owners, Keeps

LEMMA DestroyStep ==
  ASSUME IInv, Contract, NEW t \in Threads, Destroy(t)
  PROVE  IInv'
<1>a. PICK o : o = Arg(t, 2)
  OBVIOUS
<1> DEFINE new == {<<"members", o>>}
<1>0. /\ Typed /\ Stacks /\ Counted /\ Owners /\ Lives /\ Known
      /\ DestroyGuarded
  BY DEF IInv
<1>1. /\ stack[t] # <<>> /\ o \in Objects /\ Head(stack[t]) = <<"destroy", o>>
      /\ <<"destroy", o>> \in Frames(t) /\ "destroy" \in Drops
      /\ \A fr \in Frames(t) : fr[1] \in TopOnly => fr = <<"destroy", o>>
  BY <1>a, <1>0, RunTop DEF Destroy, OnBlock, Assigning
<1>2. /\ fault' = IF block[o] # "live" THEN "use_after_free"
                  ELSE IF object[o] # "live" THEN "double_destroy" ELSE "none"
      /\ object' = [object EXCEPT ![o] = "dying"]
      /\ Become(t, <<<<"members", o>>>>)
      /\ UNCHANGED <<ptr, strong_ref_num, weak_ref_num, destructed, block>>
  BY <1>a DEF Destroy, OnBlock, counts, memory
<1>3. Has("destroy", o) /\ Life(o)
  BY <1>0, <1>1 DEF Has, Lives
<1>4. /\ object[o] = "live" /\ block[o] = "live" /\ destructed[o]
      /\ ~Has("members", o)
  <2>1. weak_ref_num[o] > 0 \/ Has("free", o)
    BY <1>0, <1>1 DEF DestroyGuarded, Has
  <2>2. QED
    BY <1>3, <2>1 DEF Life, Releasing
<1>w. ~Has("weak_left", o)
  <2>1. <<"weak_left", o>> # <<"destroy", o>>
    OBVIOUS
  <2>2. QED
    BY <1>0, <1>1, <2>1 DEF Owners, Once, Ending, Has
<1>5. Stacks' /\ Step(t, <<"destroy", o>>, new)
  <2>1. <<"members", o>> \in Frame /\ <<"members", o>> \notin Frames(t)
    BY <1>1, <1>4 DEF Frame, Has
  <2>2. "destroy" \notin Assigning /\ "members" \notin Assigning
    BY DEF Assigning
  <2>3. QED
    BY <1>0, <1>1, <1>2, <2>1, <2>2, Swap DEF Step, Moved
<1>6. Concern(new, o)
  BY DEF Concern, Drops, Label, Assigning
<1>7. Keeps("destroy", o, new)
  <2> HIDE DEF new
  <2>1. ptr' = ptr
    BY <1>2
  <2>2. QED
    BY <1>1, <1>5, <1>6, <2>1, RunStep, Zenon
<1>8. Typed'
  BY <1>0, <1>2, <1>4 DEF Typed
<1>9. Counted'
  BY <1>0, <1>2, <1>7, SameCounts DEF Keeps
<1>10. Once(Ending)' /\ Once(Releasing)'
  <2>1. Once(Ending)'
    BY <1>0, <1>1, <1>5, OnceStep DEF Owners, Ending
  <2>2. Once(Releasing)'
    BY <1>0, <1>1, <1>5, OnceStep DEF Owners, Releasing
  <2>3. QED
    BY <2>1, <2>2
<1>11. Life(o)'
  <2>1. /\ Has("last_strong", o)' <=> Has("last_strong", o)
        /\ Has("weak_left", o)' <=> Has("weak_left", o)
        /\ ~Has("destroy", o)'
        /\ Has("members", o)'
        /\ Has("free", o)' <=> Has("free", o)
        /\ Has("strong_left", o)' <=> Has("strong_left", o)
        /\ Has("destructed", o)' <=> Has("destructed", o)
    BY <1>7 DEF Keeps, Ending, Releasing
  <2>2. QED
    BY <1>0, <1>1, <1>2, <1>3, <1>4, <2>1, <1>w DEF Life, Ending, Releasing, Typed
<1>12. Lives'
  BY <1>0, <1>2, <1>7, <1>11, SameLives DEF Typed, Keeps
<1>13. Known'
  BY <1>0, <1>2 DEF Known, Typed
<1>14. DestroyGuarded'
  BY <1>0, <1>2, <1>5 DEF DestroyGuarded, Step, Moved
<1>15. QED
  BY <1>5, <1>7, <1>8, <1>9, <1>10, <1>12, <1>13, <1>14
  DEF IInv, Owners, Keeps

LEMMA FreeStep ==
  ASSUME IInv, Contract, NEW t \in Threads, Free(t)
  PROVE  IInv'
<1>a. PICK o : o = Arg(t, 2)
  OBVIOUS
<1> DEFINE new == {}
<1>0. /\ Typed /\ Stacks /\ Counted /\ Owners /\ Lives /\ Known
      /\ DestroyGuarded
  BY DEF IInv
<1>1. /\ stack[t] # <<>> /\ o \in Objects /\ Head(stack[t]) = <<"free", o>>
      /\ <<"free", o>> \in Frames(t) /\ "free" \in Drops
      /\ \A fr \in Frames(t) : fr[1] \in TopOnly => fr = <<"free", o>>
  BY <1>a, <1>0, RunTop DEF Free, OnBlock, Assigning
<1>2. /\ fault' = IF block[o] = "live" THEN "none" ELSE "use_after_free"
      /\ block' = [block EXCEPT ![o] = "dead"]
      /\ Become(t, <<>>)
      /\ UNCHANGED <<ptr, strong_ref_num, weak_ref_num, destructed, object>>
  BY <1>a DEF Free, OnBlock, counts, memory
<1>3. Has("free", o) /\ Life(o)
  BY <1>0, <1>1 DEF Has, Lives
<1>4. object[o] # "none" /\ block[o] = "live" /\ destructed[o]
  BY <1>3 DEF Life, Ending, Releasing
<1>w. ~Has("strong_left", o) /\ ~Has("destructed", o)
  <2>1. <<"strong_left", o>> # <<"free", o>> /\ <<"destructed", o>> # <<"free", o>>
    OBVIOUS
  <2>2. QED
    BY <1>0, <1>1, <2>1 DEF Owners, Once, Releasing, Has
<1>5. Stacks' /\ Step(t, <<"free", o>>, new)
  BY <1>0, <1>1, <1>2, Pop DEF Step, Moved
<1>6. Concern(new, o)
  BY DEF Concern, Drops, Label, Assigning
<1>7. Keeps("free", o, new)
  <2> HIDE DEF new
  <2>1. ptr' = ptr
    BY <1>2
  <2>2. QED
    BY <1>1, <1>5, <1>6, <2>1, RunStep, Zenon
<1>8. Typed'
  BY <1>0, <1>2, <1>4 DEF Typed
<1>9. Counted'
  BY <1>0, <1>2, <1>7, SameCounts DEF Keeps
<1>10. Once(Ending)' /\ Once(Releasing)'
  <2>1. Once(Ending)'
    BY <1>0, <1>1, <1>5, OnceStep DEF Owners, Ending
  <2>2. Once(Releasing)'
    BY <1>0, <1>1, <1>5, OnceStep DEF Owners, Releasing
  <2>3. QED
    BY <2>1, <2>2
<1>11. Life(o)'
  <2>1. /\ Has("last_strong", o)' <=> Has("last_strong", o)
        /\ Has("weak_left", o)' <=> Has("weak_left", o)
        /\ Has("destroy", o)' <=> Has("destroy", o)
        /\ Has("members", o)' <=> Has("members", o)
        /\ ~Has("free", o)'
        /\ Has("strong_left", o)' <=> Has("strong_left", o)
        /\ Has("destructed", o)' <=> Has("destructed", o)
    BY <1>7 DEF Keeps, Ending, Releasing
  <2>2. QED
    BY <1>0, <1>1, <1>2, <1>3, <1>4, <2>1, <1>w DEF Life, Ending, Releasing, Typed
<1>12. Lives'
  BY <1>0, <1>2, <1>7, <1>11, SameLives DEF Typed, Keeps
<1>13. Known'
  BY <1>0, <1>2 DEF Known
<1>14. DestroyGuarded'
  <2> SUFFICES ASSUME NEW u \in Threads, NEW x \in Objects,
                      <<"destroy", x>> \in Frames(u)'
               PROVE  weak_ref_num'[x] > 0 \/ <<"free", x>> \in Frames(u)'
    BY DEF DestroyGuarded
  <2>1. <<"destroy", x>> \in Frames(u) /\ u # t
    <3>1. <<"destroy", x>> # <<"free", o>>
      OBVIOUS
    <3>2. QED
      BY <1>1, <1>5, <3>1 DEF Step, Moved, TopOnly
  <2>2. QED
    BY <1>0, <1>2, <1>5, <2>1 DEF DestroyGuarded, Step, Moved
<1>15. QED
  BY <1>5, <1>7, <1>8, <1>9, <1>10, <1>12, <1>13, <1>14
  DEF IInv, Owners, Keeps

-----------------------------------------------------------------------------
(* The steps that move a count.  They touch no object and no duty: only    *)
(* handles, assignments and decrements.                                    *)

LEMMA Quiet ==
  ASSUME IInv, NEW t \in Threads, NEW F, Moved(t, F),
         UNCHANGED <<destructed, object, block>>,
         \A fr : fr[1] \in Ending \cup Releasing => (fr \in F <=> fr \in Frames(t)),
         \A x \in Objects :
           /\ \/ strong_ref_num'[x] = strong_ref_num[x]
              \/ strong_ref_num[x] > 0 /\ strong_ref_num'[x] = strong_ref_num[x] + 1
           /\ \/ weak_ref_num'[x] = weak_ref_num[x]
              \/ /\ weak_ref_num'[x] = weak_ref_num[x] + 1
                 /\ \/ weak_ref_num[x] > 0
                    \/ strong_ref_num[x] > 0 /\ ~Has("strong_left", x)
  PROVE  Once(Ending)' /\ Once(Releasing)' /\ Lives' /\ DestroyGuarded'
<1>0. Typed /\ Owners /\ Lives /\ DestroyGuarded
  BY DEF IInv
<1>1. \A u \in Threads : \A fr :
        fr[1] \in Ending \cup Releasing => (fr \in Frames(u)' <=> fr \in Frames(u))
  BY DEF Moved
<1>2. Once(Ending)' /\ Once(Releasing)'
  <2>1. Once(Ending)'
    BY <1>0, <1>1 DEF Owners, Once
  <2>2. Once(Releasing)'
    BY <1>0, <1>1 DEF Owners, Once
  <2>3. QED
    BY <2>1, <2>2
<1>3. \A l \in Ending \cup Releasing : \A x :
        \A u \in Threads : <<l, x>> \in Frames(u)' <=> <<l, x>> \in Frames(u)
  <2>1. \A l, x : <<l, x>>[1] = l
    OBVIOUS
  <2>2. QED
    BY <1>1, <2>1
<1>4. \A l \in Ending \cup Releasing : \A x : Has(l, x)' <=> Has(l, x)
  BY <1>3 DEF Has
<1>5. Lives'
  <2> SUFFICES ASSUME NEW x \in Objects PROVE Life(x)'
    BY DEF Lives
  <2>1. Life(x)
    BY <1>0 DEF Lives
  <2>2. CASE strong_ref_num'[x] = strong_ref_num[x] /\ weak_ref_num'[x] = weak_ref_num[x]
    BY <1>4, <2>1, <2>2, SameLife
  <2>3. /\ strong_ref_num[x] \in Nat /\ weak_ref_num[x] \in Nat
        /\ strong_ref_num'[x] = 0 <=> strong_ref_num[x] = 0
        /\ strong_ref_num'[x] > 0 <=> strong_ref_num[x] > 0
    BY <1>0 DEF Typed
  <2>4. /\ Has("last_strong", x)' <=> Has("last_strong", x)
        /\ Has("weak_left", x)' <=> Has("weak_left", x)
        /\ Has("destroy", x)' <=> Has("destroy", x)
        /\ Has("members", x)' <=> Has("members", x)
        /\ Has("free", x)' <=> Has("free", x)
        /\ Has("strong_left", x)' <=> Has("strong_left", x)
        /\ Has("destructed", x)' <=> Has("destructed", x)
    BY <1>4 DEF Ending, Releasing
  <2>5. CASE weak_ref_num'[x] = weak_ref_num[x]
    BY <2>1, <2>3, <2>4, <2>5 DEF Life, Ending, Releasing
  <2>6. CASE weak_ref_num'[x] = weak_ref_num[x] + 1 /\ weak_ref_num[x] > 0
    BY <2>1, <2>3, <2>4, <2>6 DEF Life, Ending, Releasing
  <2>7. CASE /\ weak_ref_num'[x] = weak_ref_num[x] + 1
             /\ strong_ref_num[x] > 0 /\ ~Has("strong_left", x)
    BY <2>1, <2>3, <2>4, <2>7 DEF Life, Ending, Releasing
  <2>8. QED
    BY <2>5, <2>6, <2>7
<1>6. DestroyGuarded'
  <2> SUFFICES ASSUME NEW u \in Threads, NEW x \in Objects,
                      <<"destroy", x>> \in Frames(u)'
               PROVE  weak_ref_num'[x] > 0 \/ <<"free", x>> \in Frames(u)'
    BY DEF DestroyGuarded
  <2>1. /\ <<"destroy", x>> \in Frames(u)
        /\ <<"free", x>> \in Frames(u)' <=> <<"free", x>> \in Frames(u)
    BY <1>3 DEF Ending, Releasing
  <2>2. weak_ref_num[x] > 0 => weak_ref_num'[x] > 0
    BY <1>0 DEF Typed
  <2>3. QED
    BY <1>0, <2>1, <2>2 DEF DestroyGuarded
<1>7. QED
  BY <1>2, <1>5, <1>6

(* What a counter owes: to handles and to decrements. *)
Owed(o, kind, dec) == Cardinality(Settled(o, kind)) + Cardinality(Pending(<<dec, o>>))

LEMMA OwedFacts ==
  ASSUME Counted, NEW o \in Objects
  PROVE  /\ strong_ref_num[o] = Owed(o, Strong, "dec_strong")
         /\ weak_ref_num[o] = Owed(o, Weak, "dec_weak") + Cardinality(Takes(o))
         /\ Owed(o, Strong, "dec_strong") \in Nat /\ Owed(o, Weak, "dec_weak") \in Nat
         /\ Cardinality(Takes(o)) \in Nat
<1>1. /\ \A kind \in {Strong, Weak} : Cardinality(Settled(o, kind)) \in Nat
      /\ \A fr : Cardinality(Pending(fr)) \in Nat
      /\ Cardinality(Takes(o)) \in Nat
  BY Finite
<1>2. QED
  BY <1>1 DEF Counted, Owed

(* h is dropped: what pointed to x is now a decrement of t. *)
LEMMA Transfer ==
  ASSUME NEW h \in Handles, ~Busy(h), NEW t, NEW kind \in {Strong, Weak},
         NEW x, NEW dec,
         Settled(x, kind)' = Settled(x, kind) \ {h},
         IF h \in kind /\ ptr[h] = x
         THEN /\ t \notin Pending(<<dec, x>>)
              /\ Pending(<<dec, x>>)' = Pending(<<dec, x>>) \cup {t}
         ELSE Pending(<<dec, x>>)' = Pending(<<dec, x>>)
  PROVE  Owed(x, kind, dec)' = Owed(x, kind, dec)
<1>1. /\ IsFiniteSet(Settled(x, kind)) /\ Cardinality(Settled(x, kind)) \in Nat
      /\ IsFiniteSet(Pending(<<dec, x>>)) /\ Cardinality(Pending(<<dec, x>>)) \in Nat
  BY Finite
<1>2. Owed(x, kind, dec)' = Cardinality(Settled(x, kind)')
                              + Cardinality(Pending(<<dec, x>>)')
  BY DEF Owed
<1>3. CASE h \in kind /\ ptr[h] = x
  <2>1. h \in Settled(x, kind)
    BY <1>3 DEF Settled
  <2>2. Cardinality(Settled(x, kind)') = Cardinality(Settled(x, kind)) - 1
    BY <1>1, <2>1, CountRemove
  <2>3. Cardinality(Pending(<<dec, x>>)') = Cardinality(Pending(<<dec, x>>)) + 1
    BY <1>1, <1>3, CountAdd
  <2>4. QED
    BY <1>1, <1>2, <2>2, <2>3 DEF Owed
<1>4. CASE ~(h \in kind /\ ptr[h] = x)
  <2>1. h \notin Settled(x, kind)
    BY <1>4 DEF Settled
  <2>2. Settled(x, kind)' = Settled(x, kind) /\ Pending(<<dec, x>>)' = Pending(<<dec, x>>)
    BY <1>4, <2>1
  <2>3. QED
    BY <1>2, <2>2 DEF Owed
<1>5. QED
  BY <1>3, <1>4

LEMMA MembersEndStep ==
  ASSUME IInv, NEW t \in Threads, Members(t), ptr' = ptr
  PROVE  IInv'
<1>a. PICK o : o = Arg(t, 2)
  OBVIOUS
<1>0. /\ Typed /\ Stacks /\ Counted /\ Owners /\ Lives /\ Known
      /\ DestroyGuarded
  BY DEF IInv
<1>1. /\ stack[t] # <<>> /\ o \in Objects /\ Head(stack[t]) = <<"members", o>>
      /\ <<"members", o>> \in Frames(t) /\ "members" \in Drops
      /\ \A fr \in Frames(t) : fr[1] \in TopOnly => fr = <<"members", o>>
  BY <1>a, <1>0, RunTop DEF Members, Assigning
<1>2. /\ object' = [object EXCEPT ![o] = "dead"] /\ Become(t, <<>>)
      /\ UNCHANGED <<strong_ref_num, weak_ref_num, destructed, block, fault>>
  <2>1. \A h \in Handles : ptr[h] # Null => ptr' # [ptr EXCEPT ![h] = Null]
    BY <1>0 DEF Typed
  <2>2. QED
    BY <1>a, <2>1 DEF Members, counts
<1>3. Has("members", o) /\ Life(o)
  BY <1>0, <1>1 DEF Has, Lives
<1>4. object[o] = "dying" /\ destructed[o]
  BY <1>3 DEF Life
<1>5. Stacks' /\ Step(t, <<"members", o>>, {})
  BY <1>0, <1>1, <1>2, Pop DEF Step, Moved
<1>6. Concern({}, o)
  BY DEF Concern
<1>7. Keeps("members", o, {})
  BY <1>1, <1>5, <1>6, RunStep, Zenon
<1>8. Typed'
  BY <1>0, <1>2 DEF Typed
<1>9. Counted'
  BY <1>0, <1>2, <1>7, SameCounts DEF Keeps
<1>10. Once(Ending)' /\ Once(Releasing)'
  <2>1. Once(Ending)'
    BY <1>0, <1>5, OnceStep DEF Owners
  <2>2. Once(Releasing)'
    BY <1>0, <1>5, OnceStep DEF Owners
  <2>3. QED
    BY <2>1, <2>2
<1>11. Life(o)'
  <2>1. /\ Has("last_strong", o)' <=> Has("last_strong", o)
        /\ Has("weak_left", o)' <=> Has("weak_left", o)
        /\ Has("destroy", o)' <=> Has("destroy", o)
        /\ ~Has("members", o)'
        /\ Has("free", o)' <=> Has("free", o)
        /\ Has("strong_left", o)' <=> Has("strong_left", o)
        /\ Has("destructed", o)' <=> Has("destructed", o)
    BY <1>7 DEF Keeps, Ending, Releasing
  <2>2. QED
    BY <1>0, <1>1, <1>2, <1>3, <1>4, <2>1 DEF Life, Ending, Releasing, Typed
<1>12. Lives'
  BY <1>0, <1>2, <1>7, <1>11, SameLives DEF Typed, Keeps
<1>13. Known'
  BY <1>0, <1>2 DEF Known, Typed
<1>14. DestroyGuarded'
  BY <1>0, <1>2, <1>5 DEF DestroyGuarded, Step, Moved
<1>15. QED
  BY <1>5, <1>7, <1>8, <1>9, <1>10, <1>12, <1>13, <1>14
  DEF IInv, Owners, Keeps

(* A member of an object that is being destroyed is not being assigned to: *)
(* whoever assigns to it keeps the object alive.                           *)
LEMMA AnchorLives ==
  ASSUME Typed, Counted, Lives, NEW u, NEW h \in Handles, Anchored(u, h), In[h] # Null
  PROVE  In[h] \in Objects /\ object[In[h]] = "live"
<1>1. PICK s \in Strong : ptr[s] = In[h] /\ ~Busy(s)
  BY DEF Anchored
<1>2. In[h] \in Objects
  BY HandlesAssumption
<1>3. strong_ref_num[In[h]] > 0
  BY <1>1, <1>2, Positive
<1>4. QED
  BY <1>2, <1>3 DEF Lives, Life

LEMMA MemberIdle ==
  ASSUME IInv, NEW h \in Handles, In[h] # Null, object[In[h]] # "live"
  PROVE  ~Busy(h)
<1> SUFFICES ASSUME NEW u \in Threads, NEW fr \in Frames(u),
                    fr[1] \in Assigning, fr[2] = h
             PROVE  FALSE
  BY DEF Busy
<1>1. Anchored(u, h)
  BY DEF IInv, Calls
<1>2. QED
  BY <1>1, AnchorLives DEF IInv

(* The decrement that dropping h leaves to do, for the object x. *)
Dec(h) == IF h \in Strong THEN "dec_strong" ELSE "dec_weak"

LEMMA DropFrameIs ==
  ASSUME Typed, NEW h \in Handles, NEW x, x = ptr[h], x # Null
  PROVE  /\ DropFrame(h) = <<Dec(h), x>> /\ <<Dec(h), x>> \in Frame /\ x \in Objects
         /\ Dec(h) \in TopOnly /\ Dec(h) \notin Assigning \cup Ending \cup Releasing
         /\ h \in Strong => Dec(h) = "dec_strong" /\ h \notin Weak
         /\ h \in Weak => Dec(h) = "dec_weak" /\ h \notin Strong
<1>1. x \in Objects /\ (h \in Strong \/ h \in Weak) /\ ~(h \in Strong /\ h \in Weak)
  BY HandlesAssumption DEF Typed, Handles
<1>2. DropFrame(h) = <<Dec(h), x>>
  BY DEF DropFrame, Dec
<1>3. <<Dec(h), x>> \in Frame
  BY <1>1 DEF Dec, Frame
<1>4. QED
  BY <1>1, <1>2, <1>3 DEF Dec, TopOnly, Assigning, Ending, Releasing

(* h is dropped by t, and its count becomes a decrement on the stack of t. *)
LEMMA DropCounted ==
  ASSUME Typed, Counted, NEW h \in Handles, ~Busy(h), NEW t \in Threads,
         NEW x, x = ptr[h], x # Null,
         \A fr \in Frames(t) : fr[1] \notin {"dec_strong", "dec_weak"},
         NEW F, Moved(t, F), <<Dec(h), x>> \in F,
         \A fr \in F : fr[1] \in {"dec_strong", "dec_weak"} => fr = <<Dec(h), x>>,
         \A y \in Objects : \A kind : Settled(y, kind)' = Settled(y, kind) \ {h}
  PROVE  \A y \in Objects :
           /\ Owed(y, Strong, "dec_strong")' = Owed(y, Strong, "dec_strong")
           /\ Owed(y, Weak, "dec_weak")' = Owed(y, Weak, "dec_weak")
<1>1. /\ h \in Strong => Dec(h) = "dec_strong" /\ h \notin Weak
      /\ h \in Weak => Dec(h) = "dec_weak" /\ h \notin Strong
  BY DropFrameIs
<1>2. \A y, d : d \in {"dec_strong", "dec_weak"} =>
        /\ t \notin Pending(<<d, y>>)
        /\ <<d, y>> \in F <=> d = Dec(h) /\ y = x
  <2>1. \A y, d : <<d, y>>[1] = d
    OBVIOUS
  <2>2. QED
    BY <2>1 DEF Pending
<1>3. \A y, d : d \in {"dec_strong", "dec_weak"} =>
        Pending(<<d, y>>)' = IF d = Dec(h) /\ y = x THEN Pending(<<d, y>>) \cup {t}
                             ELSE Pending(<<d, y>>)
  <2>1. \A fr : Pending(fr)' = IF fr \in F THEN Pending(fr) \cup {t}
                               ELSE Pending(fr) \ {t}
    BY PendingStep
  <2>2. QED
    BY <1>2, <2>1
<1> TAKE y \in Objects
<1>5. Owed(y, Strong, "dec_strong")' = Owed(y, Strong, "dec_strong")
  <2>1. IF h \in Strong /\ ptr[h] = y
        THEN /\ t \notin Pending(<<"dec_strong", y>>)
             /\ Pending(<<"dec_strong", y>>)' = Pending(<<"dec_strong", y>>) \cup {t}
        ELSE Pending(<<"dec_strong", y>>)' = Pending(<<"dec_strong", y>>)
    BY <1>1, <1>2, <1>3 DEF Handles
  <2>2. QED
    BY <2>1, Transfer
<1>6. Owed(y, Weak, "dec_weak")' = Owed(y, Weak, "dec_weak")
  <2>1. IF h \in Weak /\ ptr[h] = y
        THEN /\ t \notin Pending(<<"dec_weak", y>>)
             /\ Pending(<<"dec_weak", y>>)' = Pending(<<"dec_weak", y>>) \cup {t}
        ELSE Pending(<<"dec_weak", y>>)' = Pending(<<"dec_weak", y>>)
    BY <1>1, <1>2, <1>3 DEF Handles
  <2>2. QED
    BY <2>1, Transfer
<1>7. QED
  BY <1>5, <1>6

(* The counters agree with what they owe when both are what they were. *)
LEMMA OwedSame ==
  ASSUME Counted, strong_ref_num' = strong_ref_num, weak_ref_num' = weak_ref_num,
         \A y \in Objects :
           /\ Owed(y, Strong, "dec_strong")' = Owed(y, Strong, "dec_strong")
           /\ Owed(y, Weak, "dec_weak")' = Owed(y, Weak, "dec_weak")
           /\ Takes(y)' = Takes(y)
  PROVE  Counted'
<1> SUFFICES ASSUME NEW y \in Objects
             PROVE  /\ strong_ref_num'[y] = Owed(y, Strong, "dec_strong")'
                    /\ weak_ref_num'[y] = Owed(y, Weak, "dec_weak")'
                                            + Cardinality(Takes(y)')
  BY DEF Counted, Owed
<1>1. QED
  BY OwedFacts

LEMMA MembersDropStep ==
  ASSUME IInv, Contract, NEW t \in Threads, Members(t), ptr' # ptr
  PROVE  IInv'
<1>a. PICK o : o = Arg(t, 2)
  OBVIOUS
<1>0. /\ Typed /\ Stacks /\ Counted /\ Owners /\ Lives /\ Known
      /\ DestroyGuarded /\ Calls
  BY DEF IInv
<1>1. /\ stack[t] # <<>> /\ o \in Objects /\ Head(stack[t]) = <<"members", o>>
      /\ <<"members", o>> \in Frames(t) /\ "members" \in Drops
      /\ \A fr \in Frames(t) : fr[1] \in TopOnly => fr = <<"members", o>>
  BY <1>a, <1>0, RunTop DEF Members, Assigning
<1>2. PICK h \in Handles :
        /\ In[h] = o /\ ptr[h] # Null /\ ptr' = [ptr EXCEPT ![h] = Null]
        /\ Become(t, <<DropFrame(h), <<"members", o>>>>)
        /\ UNCHANGED <<strong_ref_num, weak_ref_num, destructed, object, block, fault>>
  BY <1>a, <1>1 DEF Members, counts
<1>3. PICK x : x = ptr[h]
  OBVIOUS
<1> DEFINE d == <<Dec(h), x>>
           F == Frames(t) \cup {d}
<1>4. /\ DropFrame(h) = d /\ d \in Frame /\ x \in Objects
      /\ Dec(h) \in TopOnly /\ Dec(h) \notin Assigning \cup Ending \cup Releasing
      /\ h \in Strong => Dec(h) = "dec_strong" /\ h \notin Weak
      /\ h \in Weak => Dec(h) = "dec_weak" /\ h \notin Strong
      /\ d[1] = Dec(h)
  BY <1>0, <1>2, <1>3, DropFrameIs
<1>5. ~Busy(h)
  <2>1. Has("members", o) /\ Life(o)
    BY <1>0, <1>1 DEF Has, Lives
  <2>2. object[o] = "dying" /\ o # Null
    BY <1>1, <2>1, HandlesAssumption DEF Life
  <2>3. QED
    BY <1>2, <2>2, MemberIdle
<1> HIDE DEF d
<1>6. Stacks' /\ Moved(t, F)
  <2>1. /\ d \notin Frames(t) /\ d # <<"members", o>> /\ "members" \notin Assigning \cup TopOnly
        /\ <<"members", o>> \in Frame
    <3>1. "members" \notin Assigning \cup TopOnly /\ <<"members", o>> \in Frame
      BY <1>1 DEF Assigning, TopOnly, Frame
    <3>2. d # <<"members", o>>
      BY <1>4, <3>1 DEF d
    <3>3. QED
      BY <1>1, <1>4, <3>1, <3>2
  <2>2. /\ Stacks'
        /\ \A u \in Threads : Frames(u)' =
             IF u = t THEN (Frames(t) \ {Head(stack[t])}) \cup {d, <<"members", o>>}
             ELSE Frames(u)
    BY <1>0, <1>1, <1>2, <1>4, <2>1, Push
  <2>3. (Frames(t) \ {Head(stack[t])}) \cup {d, <<"members", o>>} = F
    BY <1>1
  <2>4. QED
    BY <2>2, <2>3 DEF Moved
<1>7. /\ d \in F /\ \A fr : fr # d => (fr \in F <=> fr \in Frames(t))
  OBVIOUS
<1> HIDE DEF F
<1>8. /\ Once(Ending)' /\ Once(Releasing)' /\ Lives' /\ DestroyGuarded'
  <2>1. \A fr : fr[1] \in Ending \cup Releasing => (fr \in F <=> fr \in Frames(t))
    BY <1>4, <1>7
  <2>2. QED
    BY <1>2, <1>6, <2>1, Quiet
<1>9. \A k : ptr'[k] = ptr[k] \/ k = h
  BY <1>0, <1>2 DEF Typed
<1>10. \A u \in Threads : \A fr :
         fr[1] \in Assigning => (fr \in Frames(u)' <=> fr \in Frames(u))
  BY <1>4, <1>6, <1>7 DEF Moved
<1>11. \A k : Busy(k)' <=> Busy(k)
  BY <1>10 DEF Busy
<1>12. Once(Assigning)'
  BY <1>0, <1>10 DEF Owners, Once
<1>13. ptr'[h] = Null /\ Null \notin Objects
  BY <1>0, <1>2, HandlesAssumption DEF Typed
<1>14. Typed'
  BY <1>0, <1>2 DEF Typed
<1>15. Known'
  BY <1>0, <1>2, <1>9, <1>13 DEF Known
<1>16. Counted'
  <2>1. \A y \in Objects : \A kind : Settled(y, kind)' = Settled(y, kind) \ {h}
    BY <1>9, <1>11, <1>13 DEF Settled
  <2>2. \A y : Takes(y)' = Takes(y)
    <3>1. \A w, y : <<"take", w, y>>[1] \in Assigning
      BY DEF Assigning
    <3>2. QED
      BY <1>10, <3>1 DEF Takes
  <2>3. \A fr \in Frames(t) : fr[1] \notin {"dec_strong", "dec_weak"}
    <3>1. <<"members", o>>[1] = "members"
      OBVIOUS
    <3>2. QED
      BY <1>1, <3>1 DEF TopOnly
  <2>4. \A fr \in F : fr[1] \in {"dec_strong", "dec_weak"} => fr = d
    BY <1>7, <2>3
  <2>5. \A y \in Objects :
          /\ Owed(y, Strong, "dec_strong")' = Owed(y, Strong, "dec_strong")
          /\ Owed(y, Weak, "dec_weak")' = Owed(y, Weak, "dec_weak")
    <3>1. <<Dec(h), x>> \in F
      BY <1>7 DEF d
    <3>2. \A fr \in F : fr[1] \in {"dec_strong", "dec_weak"} => fr = <<Dec(h), x>>
      BY <2>4 DEF d
    <3>3. Typed /\ Counted /\ ptr[h] # Null /\ x = ptr[h] /\ x # Null
      BY <1>0, <1>2, <1>3
    <3>4. QED
      BY <1>5, <1>6, <2>1, <2>3, <3>1, <3>2, <3>3, DropCounted
  <2>6. strong_ref_num' = strong_ref_num /\ weak_ref_num' = weak_ref_num
    BY <1>2
  <2>7. QED
    BY <1>0, <2>2, <2>5, <2>6, OwedSame
<1>17. Calls'
  <2> SUFFICES ASSUME NEW u \in Threads, NEW fr \in Frames(u)', fr[1] \in Assigning
               PROVE  /\ Anchored(u, fr[2])'
                      /\ fr[1] \in {"copy", "move"} => From(u, fr[2], fr[3])'
                      /\ fr[1] = "inc" => Held(u, fr[2])'
    BY DEF Calls
  <2>1. fr \in Frames(u) /\ Busy(fr[2])
    BY <1>10 DEF Busy
  <2>2. /\ Anchored(u, fr[2])
        /\ fr[1] \in {"copy", "move"} => From(u, fr[2], fr[3])
        /\ fr[1] = "inc" => Held(u, fr[2])
    BY <1>0, <2>1 DEF Calls
  <2>3. fr[2] # h /\ In[h] # Null
    BY <1>1, <1>2, <1>5, <2>1, HandlesAssumption
  <2>4. Anchored(u, fr[2])'
    BY <1>9, <1>11, <2>2, <2>3 DEF Anchored
  <2>5. From(u, fr[2], fr[3]) => From(u, fr[2], fr[3])'
    BY <1>11 DEF From
  <2>6. ASSUME fr[1] = "inc" PROVE Held(u, fr[2])'
    <3>1. u # t
      BY <1>1, <2>1, <2>6 DEF TopOnly
    <3>2. PICK g \in Handles :
            /\ User[g] = u /\ SameKind(g, fr[2]) /\ ptr[g] = ptr[fr[2]]
            /\ ~Busy(g) /\ (In[g] = Null \/ Solo)
      BY <2>2, <2>6 DEF Held
    <3>3. g # h
      BY <2>3, <3>1, <3>2 DEF Solo
    <3>4. ptr'[g] = ptr[g] /\ ptr'[fr[2]] = ptr[fr[2]] /\ ptr[fr[2]] # Null
      BY <1>9, <2>2, <2>3, <2>6, <3>3 DEF Held
    <3>5. QED
      BY <1>11, <3>2, <3>4 DEF Held
  <2>7. QED
    BY <2>2, <2>4, <2>5, <2>6
<1>18. QED
  BY <1>6, <1>8, <1>12, <1>14, <1>15, <1>16, <1>17 DEF IInv, Owners

-----------------------------------------------------------------------------
(* The operations.  A call of t claims the handle h with the frame f, and  *)
(* may put a decrement on top of it.                                       *)

Claim(t, h, f, F) ==
  /\ f \in F /\ f[1] \in Assigning /\ f[2] = h
  /\ \A fr \in F : fr # f => fr[1] \in {"dec_strong", "dec_weak"}
  /\ Moved(t, F)

(* h can be claimed by t. *)
CanClaim(t, h) ==
  /\ ~Busy(h) /\ Anchored(t, h)
  /\ User[h] = t \/ (ptr[h] = Null /\ stack[User[h]] = <<>>)

LEMMA Claimable ==
  ASSUME NEW t, NEW h, Usable(t, h) \/ Mailbox(t, h)
  PROVE  CanClaim(t, h)
BY DEF Usable, Mailbox, Anchored, CanClaim

LEMMA NoFrames ==
  ASSUME NEW t, stack[t] = <<>>
  PROVE  Frames(t) = {}
<1>1. Len(stack[t]) = 0
  OBVIOUS
<1>2. QED
  BY <1>1 DEF Frames

LEMMA ClaimBusy ==
  ASSUME NEW t \in Threads, stack[t] = <<>>, NEW h, NEW f, NEW F, Claim(t, h, f, F)
  PROVE  /\ \A u \in Threads : \A fr : fr[1] \in Assigning =>
              (fr \in Frames(u)' <=> fr \in Frames(u) \/ (u = t /\ fr = f))
         /\ \A k : Busy(k)' <=> Busy(k) \/ k = h
<1>1. Frames(t) = {}
  BY NoFrames
<1>2. \A u \in Threads : \A fr : fr[1] \in Assigning =>
        (fr \in Frames(u)' <=> fr \in Frames(u) \/ (u = t /\ fr = f))
  <2>1. "dec_strong" \notin Assigning /\ "dec_weak" \notin Assigning
    BY DEF Assigning
  <2>2. QED
    BY <1>1, <2>1 DEF Claim, Moved
<1>3. f[1] \in Assigning /\ f[2] = h
  BY DEF Claim
<1>4. QED
  BY <1>2, <1>3 DEF Busy

LEMMA ClaimCalls ==
  ASSUME IInv, NEW t \in Threads, stack[t] = <<>>, NEW h \in Handles, CanClaim(t, h),
         NEW f, NEW F, Claim(t, h, f, F), \A k : k # h => ptr'[k] = ptr[k],
         f[1] \in {"copy", "move"} => From(t, h, f[3]),
         f[1] = "inc" => Held(t, h)'
  PROVE  Calls' /\ Once(Assigning)'
<1>1. /\ \A u \in Threads : \A fr : fr[1] \in Assigning =>
           (fr \in Frames(u)' <=> fr \in Frames(u) \/ (u = t /\ fr = f))
      /\ \A k : Busy(k)' <=> Busy(k) \/ k = h
  BY ClaimBusy
<1>2. f[2] = h /\ f[1] \in Assigning
  BY DEF Claim
<1>3. Calls /\ Once(Assigning)
  BY DEF IInv, Owners
<1>4. \A u \in Threads : \A fr \in Frames(u) : fr[1] \in Assigning => fr[2] # h
  BY DEF CanClaim, Busy
<1>5. Once(Assigning)'
  <2> SUFFICES ASSUME NEW u \in Threads, NEW v \in Threads,
                      NEW a \in Frames(u)', NEW b \in Frames(v)',
                      a[1] \in Assigning, b[1] \in Assigning, a[2] = b[2]
               PROVE  u = v /\ a = b
    BY DEF Once
  <2>1. /\ a \in Frames(u) \/ (u = t /\ a = f)
        /\ b \in Frames(v) \/ (v = t /\ b = f)
    BY <1>1
  <2>2. CASE a \in Frames(u) /\ b \in Frames(v)
    BY <1>3, <2>2 DEF Once
  <2>3. QED
    BY <1>2, <1>4, <2>1, <2>2
<1>6. ASSUME NEW u \in Threads, u # t, Frames(u) # {}, NEW k, User[k] = u, ptr[k] # Null
      PROVE  k # h
  BY <1>6, NoFrames DEF CanClaim
<1>7. Calls'
  <2> SUFFICES ASSUME NEW u \in Threads, NEW fr \in Frames(u)', fr[1] \in Assigning
               PROVE  /\ Anchored(u, fr[2])'
                      /\ fr[1] \in {"copy", "move"} => From(u, fr[2], fr[3])'
                      /\ fr[1] = "inc" => Held(u, fr[2])'
    BY DEF Calls
  <2>1. CASE u = t /\ fr = f
    <3>1. Anchored(t, h)'
      <4>1. Anchored(t, h)
        BY DEF CanClaim
      <4>2. QED
        BY <1>1, <4>1 DEF Anchored
    <3>2. f[1] \in {"copy", "move"} => From(t, h, f[3])'
      BY <1>1 DEF From
    <3>3. QED
      BY <1>2, <2>1, <3>1, <3>2
  <2>2. CASE fr \in Frames(u)
    <3>1. u # t /\ Frames(u) # {} /\ fr[2] # h
      BY <1>4, <2>2, NoFrames
    <3>2. /\ Anchored(u, fr[2])
          /\ fr[1] \in {"copy", "move"} => From(u, fr[2], fr[3])
          /\ fr[1] = "inc" => Held(u, fr[2])
      BY <1>3, <2>2 DEF Calls
    <3>3. Anchored(u, fr[2])'
      <4>1. ASSUME In[fr[2]] # Null PROVE Anchored(u, fr[2])'
        <5>1. PICK s \in Strong : /\ User[s] = u /\ In[s] = Null
                                  /\ ptr[s] = In[fr[2]] /\ ~Busy(s)
          BY <3>2, <4>1 DEF Anchored
        <5>2. s # h
          BY <1>6, <3>1, <4>1, <5>1
        <5>3. QED
          BY <1>1, <5>1, <5>2 DEF Anchored
      <4>2. QED
        BY <4>1 DEF Anchored
    <3>4. ASSUME From(u, fr[2], fr[3]) PROVE From(u, fr[2], fr[3])'
      <4>1. fr[3] = h => User[h] = u
        BY <3>4 DEF From
      <4>2. fr[3] # h
        BY <3>1, <4>1, NoFrames DEF CanClaim
      <4>3. QED
        BY <1>1, <3>4, <4>2 DEF From
    <3>5. ASSUME Held(u, fr[2]) PROVE Held(u, fr[2])'
      <4>1. PICK g \in Handles :
              /\ User[g] = u /\ SameKind(g, fr[2]) /\ ptr[g] = ptr[fr[2]]
              /\ ~Busy(g) /\ (In[g] = Null \/ Solo)
        BY <3>5 DEF Held
      <4>2. ptr[fr[2]] # Null
        BY <3>5 DEF Held
      <4>3. g # h
        BY <1>6, <3>1, <4>1, <4>2
      <4>4. ptr'[g] = ptr[g] /\ ptr'[fr[2]] = ptr[fr[2]] /\ ~Busy(g)'
        BY <1>1, <3>1, <4>1, <4>3
      <4>5. QED
        BY <4>1, <4>2, <4>4 DEF Held
    <3>6. QED
      BY <3>2, <3>3, <3>4, <3>5
  <2>3. QED
    BY <1>1, <2>1, <2>2
<1>8. QED
  BY <1>5, <1>7

(* A call that first resets h, then does f. *)
LEMMA ResetCall ==
  ASSUME IInv, NEW t \in Threads, stack[t] = <<>>, NEW h \in Handles,
         CanClaim(t, h), NEW f \in Frame, f[1] \in {"null", "copy", "move", "take"},
         f[2] = h, ResetThen(t, h, f), ptr' = ptr,
         f[1] \in {"copy", "move"} => From(t, h, f[3])
  PROVE  \E F : /\ Claim(t, h, f, F) /\ Stacks' /\ Calls' /\ Once(Assigning)'
                /\ \A y \in Objects :
                     /\ Owed(y, Strong, "dec_strong")' = Owed(y, Strong, "dec_strong")
                     /\ Owed(y, Weak, "dec_weak")' = Owed(y, Weak, "dec_weak")
<1>0. Typed /\ Stacks /\ Counted /\ ~Busy(h)
  BY DEF IInv, CanClaim
<1>1. f[1] \in Assigning \ TopOnly /\ f[1] \notin {"dec_strong", "dec_weak", "inc"}
  BY DEF Assigning, TopOnly
<1>2. Frames(t) = {}
  BY NoFrames
<1>3. ASSUME NEW F, Claim(t, h, f, F) PROVE Calls' /\ Once(Assigning)'
  <2>1. \A k : k # h => ptr'[k] = ptr[k]
    OBVIOUS
  <2>2. f[1] # "inc"
    BY <1>1
  <2>3. QED
    BY <1>3, <2>1, <2>2, ClaimCalls
<1>4. ASSUME NEW F, Claim(t, h, f, F)
      PROVE  \A y \in Objects : \A kind : Settled(y, kind)' = Settled(y, kind) \ {h}
  BY <1>4, ClaimBusy DEF Settled
<1>5. CASE ptr[h] = Null
  <2>1. stack' = [stack EXCEPT ![t] = <<f>>]
    BY <1>5 DEF ResetThen
  <2>2. Stacks' /\ Moved(t, {f})
    BY <1>0, <1>1, <2>1, Enter DEF Moved
  <2>3. Claim(t, h, f, {f})
    BY <1>1, <2>2 DEF Claim
  <2>4. \A y \in Objects :
          /\ Owed(y, Strong, "dec_strong")' = Owed(y, Strong, "dec_strong")
          /\ Owed(y, Weak, "dec_weak")' = Owed(y, Weak, "dec_weak")
    <3> TAKE y \in Objects
    <3>1. \A fr : fr[1] \in {"dec_strong", "dec_weak"} => Pending(fr)' = Pending(fr)
      BY <1>1, <1>2, <2>2, SamePending
    <3>2. Pending(<<"dec_strong", y>>)' = Pending(<<"dec_strong", y>>)
          /\ Pending(<<"dec_weak", y>>)' = Pending(<<"dec_weak", y>>)
      BY <3>1
    <3>3. ~(ptr[h] = y)
      BY <1>5, HandlesAssumption
    <3>4. Settled(y, Strong)' = Settled(y, Strong) \ {h}
          /\ Settled(y, Weak)' = Settled(y, Weak) \ {h}
      BY <1>4, <2>3
    <3>5. QED
      BY <1>0, <3>2, <3>3, <3>4, Transfer
  <2>5. QED
    BY <1>3, <2>2, <2>3, <2>4
<1>6. CASE ptr[h] # Null
  <2>0. PICK x : x = ptr[h]
    OBVIOUS
  <2> DEFINE d == <<Dec(h), x>>
  <2>1. DropFrame(h) = d /\ d \in Frame /\ d[1] = Dec(h) /\ Dec(h) \notin Assigning
        /\ Dec(h) \in {"dec_strong", "dec_weak"}
    BY <1>0, <1>6, <2>0, DropFrameIs DEF Dec
  <2>2. stack' = [stack EXCEPT ![t] = <<d, f>>]
    BY <1>6, <2>1 DEF ResetThen
  <2> HIDE DEF d
  <2>3. Stacks' /\ Moved(t, {d, f})
    <3>1. d[1] \notin Assigning
      BY <2>1
    <3>2. QED
      BY <1>0, <1>1, <2>1, <2>2, <3>1, EnterDropping, Zenon DEF Moved
  <2>4. Claim(t, h, f, {d, f})
    BY <1>1, <2>1, <2>3 DEF Claim
  <2>5. \A y \in Objects :
          /\ Owed(y, Strong, "dec_strong")' = Owed(y, Strong, "dec_strong")
          /\ Owed(y, Weak, "dec_weak")' = Owed(y, Weak, "dec_weak")
    <3>1. \A y \in Objects : \A kind : Settled(y, kind)' = Settled(y, kind) \ {h}
      BY <1>4, <2>4
    <3>2. PICK F : F = {d, f}
      OBVIOUS
    <3>3. /\ <<Dec(h), x>> \in F /\ Moved(t, F)
          /\ \A fr \in F : fr[1] \in {"dec_strong", "dec_weak"} => fr = <<Dec(h), x>>
      BY <1>1, <2>3, <3>2 DEF d
    <3>4. \A fr \in Frames(t) : fr[1] \notin {"dec_strong", "dec_weak"}
      BY <1>2
    <3>5. x = ptr[h] /\ x # Null
      BY <1>6, <2>0
    <3>6. QED
      BY <1>0, <3>1, <3>3, <3>4, <3>5, DropCounted
  <2>6. QED
    BY <1>3, <2>3, <2>4, <2>5
<1>7. QED
  BY <1>5, <1>6

(* A claim concerns no duty, and no temporary unless it takes one. *)
LEMMA ClaimQuiet ==
  ASSUME NEW t \in Threads, stack[t] = <<>>, NEW h, NEW f, NEW F, Claim(t, h, f, F)
  PROVE  /\ Moved(t, F)
         /\ \A fr : fr[1] \in Ending \cup Releasing => (fr \in F <=> fr \in Frames(t))
         /\ f[1] # "take" => \A y : Takes(y)' = Takes(y)
<1>1. Frames(t) = {}
  BY NoFrames
<1>2. \A fr : fr[1] \in Ending \cup Releasing => fr \notin F
  BY DEF Claim, Ending, Releasing, Assigning
<1>3. ASSUME f[1] # "take" PROVE \A y : Takes(y)' = Takes(y)
  <2>1. \A w, y : <<"take", w, y>>[1] = "take" /\ "take" \in Assigning
    BY DEF Assigning
  <2>2. \A u \in Threads : \A w, y :
          <<"take", w, y>> \in Frames(u)' <=> <<"take", w, y>> \in Frames(u)
    BY <1>3, <2>1, ClaimBusy
  <2>3. QED
    BY <2>2 DEF Takes
<1>4. QED
  BY <1>1, <1>2, <1>3 DEF Claim

LEMMA ResetThenStep ==
  ASSUME IInv, NEW t \in Threads, stack[t] = <<>>, NEW h \in Handles,
         CanClaim(t, h), NEW f \in Frame, f[1] \in {"null", "copy", "move"},
         f[2] = h, ResetThen(t, h, f), UNCHANGED <<ptr, counts, memory, fault>>,
         f[1] \in {"copy", "move"} => From(t, h, f[3])
  PROVE  IInv'
<1>0. Typed /\ Counted /\ Known
  BY DEF IInv
<1>1. UNCHANGED <<ptr, strong_ref_num, weak_ref_num, destructed, object, block, fault>>
  BY DEF counts, memory
<1>2. PICK F :
        /\ Claim(t, h, f, F) /\ Stacks' /\ Calls' /\ Once(Assigning)'
        /\ \A y \in Objects :
             /\ Owed(y, Strong, "dec_strong")' = Owed(y, Strong, "dec_strong")
             /\ Owed(y, Weak, "dec_weak")' = Owed(y, Weak, "dec_weak")
  BY <1>1, ResetCall
<1>3. Once(Ending)' /\ Once(Releasing)' /\ Lives' /\ DestroyGuarded'
  BY <1>1, <1>2, ClaimQuiet, Quiet
<1>4. Counted'
  BY <1>0, <1>1, <1>2, ClaimQuiet, OwedSame
<1>5. Typed' /\ Known'
  BY <1>0, <1>1 DEF Typed, Known
<1>6. QED
  BY <1>2, <1>3, <1>4, <1>5 DEF IInv, Owners

LEMMA ResetStep ==
  ASSUME IInv, NEW t \in Threads, NEW h \in Handles, Reset(t, h)
  PROVE  IInv'
<1>1. /\ stack[t] = <<>> /\ CanClaim(t, h) /\ ResetThen(t, h, <<"null", h>>)
      /\ UNCHANGED <<ptr, counts, memory, fault>>
  BY Claimable DEF Reset, CanCall
<1>2. <<"null", h>> \in Frame
  BY DEF Frame
<1>3. QED
  BY <1>1, <1>2, ResetThenStep

LEMMA AssignStep ==
  ASSUME IInv, Contract, NEW t \in Threads, NEW h \in Handles, NEW g \in Handles,
         NEW how \in {"copy", "move"}, Assign(t, h, g, how)
  PROVE  IInv'
<1>1. /\ stack[t] = <<>> /\ CanClaim(t, h) /\ ResetThen(t, h, <<how, h, g>>)
      /\ UNCHANGED <<ptr, counts, memory, fault>>
  BY Claimable DEF Assign, CanCall
<1>2. <<how, h, g>> \in Frame
  BY DEF Frame
<1>3. From(t, h, g)
  BY DEF Assign, Usable, Contract, From, SameKind
<1>4. /\ <<how, h, g>>[1] = how /\ <<how, h, g>>[2] = h /\ <<how, h, g>>[3] = g
  OBVIOUS
<1>5. PICK f : f = <<how, h, g>>
  OBVIOUS
<1>6. QED
  BY <1>1, <1>2, <1>3, <1>4, <1>5, ResetThenStep

LEMMA AssignWeakStep ==
  ASSUME IInv, Contract, NEW t \in Threads, NEW w \in Weak, NEW p \in Strong,
         AssignWeak(t, w, p)
  PROVE  IInv'
<1>a. PICK x : x = ptr[p]
  OBVIOUS
<1>0. Typed /\ Counted /\ Known
  BY DEF IInv
<1>1. /\ stack[t] = <<>> /\ w \in Handles /\ CanClaim(t, w)
      /\ ptr[p] # Null /\ ~Busy(p)
      /\ weak_ref_num' = [weak_ref_num EXCEPT ![x] = @ + 1]
      /\ ResetThen(t, w, <<"take", w, x>>)
      /\ UNCHANGED <<ptr, strong_ref_num, destructed, object, block, fault>>
  <2>1. Usable(t, w) \/ Mailbox(t, w)
    BY DEF AssignWeak
  <2>2. QED
    BY <1>a, <2>1, Claimable DEF AssignWeak, CanCall, Usable, Handles, memory
<1>2. x \in Objects /\ strong_ref_num[x] > 0 /\ weak_ref_num[x] \in Nat
  BY <1>a, <1>0, <1>1, Positive DEF Typed, Handles
<1>3. PICK f : f = <<"take", w, x>>
  OBVIOUS
<1>4. f \in Frame /\ f[1] = "take" /\ f[2] = w /\ f[3] = x
  BY <1>2, <1>3 DEF Frame
<1>5. PICK F :
        /\ Claim(t, w, f, F) /\ Stacks' /\ Calls' /\ Once(Assigning)'
        /\ \A y \in Objects :
             /\ Owed(y, Strong, "dec_strong")' = Owed(y, Strong, "dec_strong")
             /\ Owed(y, Weak, "dec_weak")' = Owed(y, Weak, "dec_weak")
  BY <1>1, <1>3, <1>4, ResetCall
<1>6. Frames(t) = {} /\ \A u \in Threads : u = t
  BY <1>1, NoFrames DEF Contract, Solo
<1>7. \A y : strong_ref_num'[y] = strong_ref_num[y]
  BY <1>1
<1>8. /\ weak_ref_num'[x] = weak_ref_num[x] + 1
      /\ \A y \in Objects : y # x => weak_ref_num'[y] = weak_ref_num[y]
  BY <1>0, <1>1, <1>2 DEF Typed
<1>9. Once(Ending)' /\ Once(Releasing)' /\ Lives' /\ DestroyGuarded'
  <2>1. ~Has("strong_left", x)
    BY <1>6 DEF Has
  <2>2. UNCHANGED <<destructed, object, block>>
    BY <1>1
  <2>3. \A y \in Objects :
           /\ \/ strong_ref_num'[y] = strong_ref_num[y]
              \/ strong_ref_num[y] > 0 /\ strong_ref_num'[y] = strong_ref_num[y] + 1
           /\ \/ weak_ref_num'[y] = weak_ref_num[y]
              \/ /\ weak_ref_num'[y] = weak_ref_num[y] + 1
                 /\ \/ weak_ref_num[y] > 0
                    \/ strong_ref_num[y] > 0 /\ ~Has("strong_left", y)
    BY <1>2, <1>7, <1>8, <2>1
  <2>4. /\ Moved(t, F)
        /\ \A fr : fr[1] \in Ending \cup Releasing => (fr \in F <=> fr \in Frames(t))
    BY <1>1, <1>5, ClaimQuiet
  <2>5. QED
    BY <2>2, <2>3, <2>4, Quiet
<1>10. Counted'
  <2>1. /\ \A y : y # x => Takes(y)' = Takes(y)
        /\ t \notin Takes(x) /\ Takes(x)' = Takes(x) \cup {t}
    <3>1. \A v, y : <<"take", v, y>>[1] \in Assigning
      BY DEF Assigning
    <3>2. \A v, y : <<"take", v, y>> \in Frames(t)' <=> v = w /\ y = x
      BY <1>1, <1>3, <1>5, <1>6, <3>1, ClaimBusy
    <3>3. \A y : Takes(y) = {}
      BY <1>6 DEF Takes
    <3>4. ASSUME NEW y, y # x PROVE Takes(y)' = {}
      <4>1. \A u : u \notin Takes(y)'
        BY <1>6, <3>2, <3>4 DEF Takes
      <4>2. QED
        BY <4>1
    <3>5. Takes(x)' = {t}
      <4>1. \A u : u \in Takes(x)' <=> u = t
        BY <1>6, <3>2 DEF Takes
      <4>2. QED
        BY <4>1
    <3>6. QED
      BY <3>3, <3>4, <3>5
  <2>2. Cardinality(Takes(x)') = Cardinality(Takes(x)) + 1
    BY <2>1, Finite, CountAdd
  <2>3. SUFFICES ASSUME NEW y \in Objects
        PROVE  /\ strong_ref_num'[y] = Owed(y, Strong, "dec_strong")'
               /\ weak_ref_num'[y] = Owed(y, Weak, "dec_weak")' + Cardinality(Takes(y)')
    BY DEF Counted, Owed
  <2>4. /\ strong_ref_num[y] = Owed(y, Strong, "dec_strong")
        /\ weak_ref_num[y] = Owed(y, Weak, "dec_weak") + Cardinality(Takes(y))
        /\ Owed(y, Weak, "dec_weak") \in Nat /\ Cardinality(Takes(y)) \in Nat
    BY <1>0, OwedFacts
  <2>5. CASE y = x
    BY <1>5, <1>7, <1>8, <2>2, <2>4, <2>5
  <2>6. CASE y # x
    BY <1>5, <1>7, <1>8, <2>1, <2>4, <2>6
  <2>7. QED
    BY <2>5, <2>6
<1>11. Typed' /\ Known'
  <2>1. weak_ref_num[x] + 1 \in Nat
    BY <1>2
  <2>2. weak_ref_num' \in [Objects -> Nat]
    BY <1>0, <1>1, <1>2, <2>1 DEF Typed
  <2>3. Typed'
    BY <1>0, <1>1, <2>2 DEF Typed
  <2>4. Known'
    BY <1>0, <1>1 DEF Known
  <2>5. QED
    BY <2>3, <2>4
<1>12. QED
  BY <1>5, <1>9, <1>10, <1>11 DEF IInv, Owners

(* Nothing changes but how the program ended. *)
LEMMA SameState ==
  ASSUME IInv, UNCHANGED <<ptr, counts, memory, stack>>, fault' \in {"none", "terminated"}
  PROVE  IInv'
<1>0. /\ Typed /\ Stacks /\ Counted /\ Owners /\ Lives /\ Known
      /\ DestroyGuarded /\ Calls
  BY DEF IInv
<1>1. /\ ptr' = ptr /\ strong_ref_num' = strong_ref_num /\ weak_ref_num' = weak_ref_num
      /\ destructed' = destructed /\ object' = object /\ block' = block /\ stack' = stack
  BY DEF counts, memory
<1>2. \A u : Frames(u)' = Frames(u)
  BY <1>1 DEF Frames
<1>3. Typed' /\ Stacks' /\ Known'
  BY <1>0, <1>1 DEF Typed, Stacks, Known
<1>4. \A k : Busy(k)' = Busy(k)
  <2> TAKE k
  <2>1. Busy(k)' <=> Busy(k)
    BY <1>2 DEF Busy
  <2>2. QED
    BY <2>1 DEF Busy
<1>5. Counted'
  <2>1. /\ \A o, kind : Settled(o, kind)' = Settled(o, kind)
        /\ \A o : Takes(o)' = Takes(o)
        /\ \A fr : Pending(fr)' = Pending(fr)
    BY <1>1, <1>2, <1>4 DEF Settled, Takes, Pending
  <2>2. QED
    BY <1>0, <1>1, <2>1, SameCounts
<1>6. Owners'
  BY <1>0, <1>2 DEF Owners, Once
<1>7. Lives'
  <2>1. \A l, o : Has(l, o)' <=> Has(l, o)
    BY <1>2 DEF Has
  <2> SUFFICES ASSUME NEW o \in Objects PROVE Life(o)'
    BY DEF Lives
  <2>2. QED
    BY <1>0, <1>1, <2>1, SameLife DEF Lives
<1>8. DestroyGuarded'
  BY <1>0, <1>1, <1>2 DEF DestroyGuarded
<1>9. Calls'
  <2>1. \A u, h : Anchored(u, h)' <=> Anchored(u, h)
    BY <1>1, <1>4 DEF Anchored
  <2>2. \A u, h, g : From(u, h, g)' <=> From(u, h, g)
    BY <1>4 DEF From
  <2>3. \A u, h : Held(u, h)' <=> Held(u, h)
    BY <1>1, <1>4 DEF Held
  <2>4. QED
    BY <1>0, <1>2, <2>1, <2>2, <2>3 DEF Calls
<1>10. QED
  BY <1>3, <1>5, <1>6, <1>7, <1>8, <1>9 DEF IInv

LEMMA LockStep ==
  ASSUME IInv, Contract, NEW t \in Threads, NEW h \in Strong, NEW w \in Weak,
         Lock(t, h, w)
  PROVE  IInv'
<1>a. PICK o : o = ptr[w]
  OBVIOUS
<1>0. Typed /\ Stacks /\ Counted /\ Known /\ w \in Handles /\ h \in Handles
  BY DEF IInv, Handles
<1>1. /\ stack[t] = <<>> /\ CanClaim(t, h) /\ In[h] = Null /\ ptr[h] = Null
      /\ o # Null /\ o \in Objects
      /\ UNCHANGED <<strong_ref_num, weak_ref_num, destructed, object, block>>
  <2>1. Usable(t, h)
    BY DEF Lock
  <2>2. QED
    BY <1>a, <1>0, <2>1, Claimable DEF Lock, CanCall, counts, memory, Typed
<1>2. CASE strong_ref_num[o] = 0
  <2>1. UNCHANGED <<ptr, counts, memory, stack>> /\ fault' = "terminated"
    BY <1>a, <1>2 DEF Lock
  <2>2. QED
    BY <2>1, SameState
<1>3. CASE strong_ref_num[o] # 0
  <2>1. /\ ptr' = [ptr EXCEPT ![h] = o]
        /\ stack' = [stack EXCEPT ![t] = <<<<"inc", h>>>>]
        /\ fault' = fault
    BY <1>a, <1>3 DEF Lock
  <2>2. PICK f : f = <<"inc", h>>
    OBVIOUS
  <2>3. /\ f \in Frame /\ f[1] = "inc" /\ f[2] = h /\ f[1] \in Assigning
        /\ stack' = [stack EXCEPT ![t] = <<f>>]
    BY <1>0, <2>1, <2>2 DEF Frame, Assigning
  <2>4. Stacks' /\ Moved(t, {f})
    BY <1>0, <2>3, Enter DEF Moved
  <2>5. Claim(t, h, f, {f})
    BY <2>3, <2>4 DEF Claim
  <2>6. Frames(t) = {} /\ \A u \in Threads : u = t
    BY <1>1, NoFrames DEF Contract, Solo
  <2>7. ptr'[h] = o /\ \A k : k # h => ptr'[k] = ptr[k]
    BY <1>0, <2>1 DEF Typed
  <2>8. \A k : Busy(k)' <=> Busy(k) \/ k = h
    BY <1>1, <2>5, ClaimBusy
  <2>9. Held(t, h)'
    <3>1. Pending(<<"dec_strong", o>>) = {}
      BY <2>6 DEF Pending
    <3>2. Cardinality(Settled(o, Strong)) # 0
      <4>1. strong_ref_num[o] = Cardinality(Settled(o, Strong)) + 0
        BY <1>0, <1>1, <3>1, FS_EmptySet DEF Counted
      <4>2. QED
        BY <1>3, <4>1
    <3>3. PICK g : g \in Settled(o, Strong)
      BY <3>2, FS_EmptySet
    <3>4. g \in Strong /\ ptr[g] = o /\ ~Busy(g) /\ g # h
      BY <1>1, <3>3 DEF Settled
    <3>5. User[g] = t /\ Solo /\ g \in Handles
      BY <2>6, <3>4, HandlesAssumption DEF Solo, Handles
    <3>6. QED
      BY <1>1, <2>7, <2>8, <3>4, <3>5 DEF Held, SameKind
  <2>10. Calls' /\ Once(Assigning)'
    <3>1. f[1] \notin {"copy", "move"}
      BY <2>3
    <3>2. QED
      BY <1>0, <1>1, <2>5, <2>7, <2>9, <3>1, ClaimCalls
  <2>11. Once(Ending)' /\ Once(Releasing)' /\ Lives' /\ DestroyGuarded'
    <3>1. /\ Moved(t, {f})
          /\ \A fr : fr[1] \in Ending \cup Releasing => (fr \in {f} <=> fr \in Frames(t))
      BY <1>1, <2>5, ClaimQuiet
    <3>2. QED
      BY <1>1, <3>1, Quiet
  <2>12. Counted'
    <3>1. \A y : Takes(y)' = Takes(y)
      BY <1>1, <2>3, <2>5, ClaimQuiet
    <3>2. \A y \in Objects : \A kind : Settled(y, kind)' = Settled(y, kind)
      <4>1. Null \notin Objects /\ ~Busy(h) /\ Busy(h)'
        BY <1>1, <2>8, HandlesAssumption DEF CanClaim
      <4>2. QED
        BY <1>1, <2>7, <2>8, <4>1 DEF Settled
    <3>3. \A y : /\ Pending(<<"dec_strong", y>>)' = Pending(<<"dec_strong", y>>)
                 /\ Pending(<<"dec_weak", y>>)' = Pending(<<"dec_weak", y>>)
      <4>1. \A fr : fr[1] \in {"dec_strong", "dec_weak"} => Pending(fr)' = Pending(fr)
        BY <2>3, <2>4, <2>6, SamePending
      <4>2. QED
        BY <4>1
    <3>4. QED
      BY <1>0, <1>1, <3>1, <3>2, <3>3, SameCounts
  <2>13. Typed'
    BY <1>0, <1>1, <2>1 DEF Typed
  <2>14. Known'
    <3>1. object[o] # "none"
      BY <1>a, <1>0, <1>1 DEF Known
    <3>2. QED
      BY <1>0, <1>1, <2>7, <3>1 DEF Known
  <2>15. QED
    BY <2>4, <2>10, <2>11, <2>12, <2>13, <2>14 DEF IInv, Owners
<1>4. QED
  BY <1>2, <1>3

LEMMA MakeSharedStep ==
  ASSUME IInv, NEW t \in Threads, NEW h \in Strong, NEW o \in Objects,
         MakeShared(t, h, o)
  PROVE  IInv'
<1>0. /\ Typed /\ Stacks /\ Counted /\ Owners /\ Lives /\ Known
      /\ DestroyGuarded /\ Calls /\ h \in Handles
  BY DEF IInv, Handles
<1>1. /\ ptr[h] = Null /\ ~Busy(h) /\ object[o] = "none"
      /\ object' = [object EXCEPT ![o] = "live"] /\ block' = [block EXCEPT ![o] = "live"]
      /\ ptr' = [ptr EXCEPT ![h] = o]
      /\ strong_ref_num' = [strong_ref_num EXCEPT ![o] = 1]
      /\ UNCHANGED <<weak_ref_num, destructed, stack, fault>>
  BY DEF MakeShared, Usable
<1>2. ptr'[h] = o /\ o # Null /\ \A k : k # h => ptr'[k] = ptr[k]
  BY <1>0, <1>1, HandlesAssumption DEF Typed
<1>3. \A u : Frames(u)' = Frames(u)
  BY <1>1 DEF Frames
<1>4. \A k : Busy(k)' <=> Busy(k)
  BY <1>3 DEF Busy
<1>5. /\ \A y : Takes(y)' = Takes(y)
      /\ \A fr : Pending(fr)' = Pending(fr)
      /\ \A l, y : Has(l, y)' <=> Has(l, y)
  BY <1>3 DEF Takes, Pending, Has
<1>6. Life(o) /\ strong_ref_num[o] = 0 /\ weak_ref_num[o] = 0
  BY <1>0, <1>1 DEF Lives, Life
<1>7. Typed'
  BY <1>0, <1>1 DEF Typed
<1>8. Stacks' /\ Owners'
  BY <1>0, <1>1, <1>3 DEF Stacks, Owners, Once
<1>9. Counted'
  <2>2. ASSUME NEW y \in Objects, y # o
        PROVE  \A kind : Settled(y, kind)' = Settled(y, kind)
    <3>1. y # Null
      BY HandlesAssumption
    <3>2. QED
      BY <1>1, <1>2, <1>4, <2>2, <3>1 DEF Settled
  <2>3. h \notin Settled(o, Strong) /\ Settled(o, Strong)' = Settled(o, Strong) \cup {h}
    BY <1>1, <1>2, <1>4 DEF Settled
  <2>4. Settled(o, Weak)' = Settled(o, Weak)
    <3>1. h \notin Weak
      BY HandlesAssumption
    <3>2. QED
      BY <1>2, <1>4, <3>1 DEF Settled
  <2>5. Cardinality(Settled(o, Strong)') = Cardinality(Settled(o, Strong)) + 1
    BY <2>3, Finite, CountAdd
  <2>6. /\ strong_ref_num'[o] = 1 /\ weak_ref_num'[o] = weak_ref_num[o]
        /\ \A y \in Objects : y # o => /\ strong_ref_num'[y] = strong_ref_num[y]
                                       /\ weak_ref_num'[y] = weak_ref_num[y]
    BY <1>0, <1>1 DEF Typed
  <2>7. ASSUME NEW y \in Objects
        PROVE  /\ Owed(y, Strong, "dec_strong")' =
                    Cardinality(Settled(y, Strong)') + Cardinality(Pending(<<"dec_strong", y>>))
               /\ Owed(y, Weak, "dec_weak")' =
                    Cardinality(Settled(y, Weak)') + Cardinality(Pending(<<"dec_weak", y>>))
    BY <1>5 DEF Owed
  <2>8. SUFFICES ASSUME NEW y \in Objects
        PROVE  /\ strong_ref_num'[y] = Owed(y, Strong, "dec_strong")'
               /\ weak_ref_num'[y] = Owed(y, Weak, "dec_weak")' + Cardinality(Takes(y)')
    BY DEF Counted, Owed
  <2>9. CASE y # o
    BY <1>0, <1>5, <2>2, <2>6, <2>7, <2>9, OwedFacts DEF Owed
  <2>10. CASE y = o
    <3>1. /\ Cardinality(Settled(o, Strong)) \in Nat
          /\ Cardinality(Pending(<<"dec_strong", o>>)) \in Nat
          /\ Cardinality(Settled(o, Strong)) + Cardinality(Pending(<<"dec_strong", o>>)) = 0
      BY <1>0, <1>6, Finite DEF Counted
    <3>2. /\ Owed(o, Weak, "dec_weak")' = Owed(o, Weak, "dec_weak")
          /\ weak_ref_num[o] = Owed(o, Weak, "dec_weak") + Cardinality(Takes(o))
      <4>1. Owed(o, Weak, "dec_weak")' =
              Cardinality(Settled(o, Weak)) + Cardinality(Pending(<<"dec_weak", o>>))
        BY <2>4, <2>7
      <4>2. Owed(o, Weak, "dec_weak") =
              Cardinality(Settled(o, Weak)) + Cardinality(Pending(<<"dec_weak", o>>))
        BY DEF Owed
      <4>3. weak_ref_num[o] = Owed(o, Weak, "dec_weak") + Cardinality(Takes(o))
        BY <1>0, OwedFacts
      <4>4. QED
        BY <4>1, <4>2, <4>3
    <3>3. Owed(o, Strong, "dec_strong")' = 1
      <4>1. \A a, b \in Nat : a + b = 0 => (a + 1) + b = 1
        OBVIOUS
      <4>2. Owed(o, Strong, "dec_strong")' =
              (Cardinality(Settled(o, Strong)) + 1) + Cardinality(Pending(<<"dec_strong", o>>))
        BY <2>5, <2>7
      <4>3. QED
        BY <3>1, <4>1, <4>2
    <3>4. Takes(o)' = Takes(o)
      BY <1>5
    <3>5. strong_ref_num'[o] = Owed(o, Strong, "dec_strong")'
      BY <2>6, <3>3
    <3>6. weak_ref_num'[o] = Owed(o, Weak, "dec_weak")' + Cardinality(Takes(o)')
      BY <2>6, <3>2, <3>4
    <3>7. QED
      BY <2>10, <3>5, <3>6
  <2>11. QED
    BY <2>9, <2>10
<1>10. Life(o)'
  BY <1>0, <1>1, <1>5, <1>6 DEF Life, Typed, Ending, Releasing
<1>11. Lives'
  BY <1>0, <1>1, <1>5, <1>10, SameLives DEF Typed
<1>12. Known'
  BY <1>0, <1>1, <1>2 DEF Known, Typed
<1>13. DestroyGuarded'
  BY <1>0, <1>1, <1>3 DEF DestroyGuarded
<1>14. Calls'
  <2> SUFFICES ASSUME NEW u \in Threads, NEW fr \in Frames(u), fr[1] \in Assigning
               PROVE  /\ Anchored(u, fr[2])'
                      /\ fr[1] \in {"copy", "move"} => From(u, fr[2], fr[3])'
                      /\ fr[1] = "inc" => Held(u, fr[2])'
    BY <1>3 DEF Calls
  <2>1. /\ Anchored(u, fr[2])
        /\ fr[1] \in {"copy", "move"} => From(u, fr[2], fr[3])
        /\ fr[1] = "inc" => Held(u, fr[2])
    BY <1>0 DEF Calls
  <2>2. fr[2] # h
    BY <1>1 DEF Busy
  <2>3. Anchored(u, fr[2])'
    BY <1>1, <1>2, <1>4, <2>1 DEF Anchored
  <2>4. From(u, fr[2], fr[3]) => From(u, fr[2], fr[3])'
    BY <1>4 DEF From
  <2>5. Held(u, fr[2]) => Held(u, fr[2])'
    BY <1>1, <1>2, <1>4, <2>2 DEF Held
  <2>6. QED
    BY <2>1, <2>3, <2>4, <2>5
<1>15. QED
  BY <1>7, <1>8, <1>9, <1>11, <1>12, <1>13, <1>14 DEF IInv

-----------------------------------------------------------------------------
(* The assignments.  The only frame of t, gone, assigns to h; a copy still *)
(* has to be counted then.                                                 *)

Landing(t, l, gone, h) ==
  /\ stack[t] # <<>> /\ Head(stack[t]) = gone /\ gone \in Frame
  /\ Frames(t) = {gone} /\ gone[1] = l /\ gone[2] = h /\ h \in Handles
  /\ Anchored(t, h) /\ Busy(h)

LEMMA LandTop ==
  ASSUME IInv, NEW t \in Threads, NEW l \in Assigning, At(t, l),
         NEW gone, gone = Head(stack[t])
  PROVE  /\ Landing(t, l, gone, gone[2])
         /\ gone[2] = Arg(t, 2) /\ gone[3] = Arg(t, 3)
         /\ l \in {"copy", "move"} => From(t, gone[2], gone[3]) /\ gone[3] \in Handles
         /\ l = "inc" => Held(t, gone[2])
<1>1. stack[t] # <<>> /\ gone[1] = l /\ gone[2] = Arg(t, 2) /\ gone[3] = Arg(t, 3)
  BY DEF At, Arg
<1>2. Stacks /\ Calls
  BY DEF IInv
<1>3. gone \in Frame /\ gone \in Frames(t) /\ Frames(t) = {gone}
  BY <1>1, <1>2, Top
<1>4. gone[2] \in Handles /\ (l \in {"copy", "move"} => gone[3] \in Handles)
  BY <1>1, <1>3, FrameParts
<1>5. Busy(gone[2])
  BY <1>1, <1>3 DEF Busy
<1>6. /\ Anchored(t, gone[2])
      /\ l \in {"copy", "move"} => From(t, gone[2], gone[3])
      /\ l = "inc" => Held(t, gone[2])
  BY <1>1, <1>2, <1>3 DEF Calls
<1>7. QED
  BY <1>1, <1>3, <1>4, <1>5, <1>6 DEF Landing

LEMMA NotGone ==
  ASSUME IInv, NEW t, NEW h \in Handles, Anchored(t, h)
  PROVE  ~Gone(h)
BY AnchorLives DEF IInv, Gone

(* The handles that a landing changes: h, or another one of t. *)
Changes(t, h, new) ==
  \A k : \/ ptr'[k] = ptr[k] \/ k = h
         \/ new = {} /\ User[k] = t /\ ~Busy(k)

LEMMA Land ==
  ASSUME IInv, NEW t \in Threads, NEW l \in Assigning, NEW gone, NEW h,
         Landing(t, l, gone, h), NEW new, Moved(t, new),
         new = {} \/ new = {<<"inc", h>>}, Changes(t, h, new),
         new # {} => Held(t, h)'
  PROVE  /\ Calls' /\ Once(Assigning)'
         /\ \A k : Busy(k)' <=> (Busy(k) /\ k # h) \/ (k = h /\ new # {})
         /\ \A fr : fr[1] \in Ending \cup Releasing =>
              (fr \in new <=> fr \in Frames(t))
         /\ \A y : /\ Pending(<<"dec_strong", y>>)' = Pending(<<"dec_strong", y>>)
                   /\ Pending(<<"dec_weak", y>>)' = Pending(<<"dec_weak", y>>)
         /\ l # "take" => \A y : Takes(y)' = Takes(y)
<1>0. Calls /\ Once(Assigning)
  BY DEF IInv, Owners
<1>1. /\ Frames(t) = {gone} /\ gone[1] = l /\ gone[2] = h
      /\ Anchored(t, h) /\ Busy(h)
  BY DEF Landing
<1>2. \A fr \in new : fr = <<"inc", h>> /\ fr[1] = "inc" /\ fr[2] = h
  OBVIOUS
<1>i. "inc" \in Assigning
  BY DEF Assigning
<1>3. \A u \in Threads : Frames(u)' = IF u = t THEN new ELSE Frames(u)
  BY DEF Moved
<1>4. \A u \in Threads : \A fr \in Frames(u) : fr[1] \in Assigning /\ fr[2] = h => u = t
  BY <1>0, <1>1 DEF Once
<1>5. \A k : Busy(k)' <=> (Busy(k) /\ k # h) \/ (k = h /\ new # {})
  <2> TAKE k
  <2>1. Busy(k)' <=> \E u \in Threads : \E fr \in Frames(u)' :
                       fr[1] \in Assigning /\ fr[2] = k
    BY DEF Busy
  <2>2. CASE k = h
    <3>1. ASSUME new # {} PROVE Busy(k)'
      <4>1. PICK fr : fr \in new
        BY <3>1
      <4>2. fr \in Frames(t)' /\ fr[1] \in Assigning /\ fr[2] = k
        BY <1>2, <1>3, <1>i, <2>2, <4>1
      <4>3. QED
        BY <2>1, <4>2
    <3>2. ASSUME Busy(k)' PROVE new # {}
      <4>1. PICK u \in Threads :
              \E fr \in Frames(u)' : fr[1] \in Assigning /\ fr[2] = k
        BY <2>1, <3>2
      <4>2. u = t
        BY <1>3, <1>4, <2>2, <4>1
      <4>3. QED
        BY <1>3, <4>1, <4>2
    <3>3. QED
      BY <2>2, <3>1, <3>2
  <2>3. CASE k # h
    <3>1. \A u \in Threads : \A fr : fr[1] \in Assigning /\ fr[2] = k =>
            (fr \in Frames(u)' <=> fr \in Frames(u))
      BY <1>1, <1>2, <1>3, <2>3
    <3>2. QED
      BY <2>3, <3>1 DEF Busy
  <2>4. QED
    BY <2>2, <2>3
<1>6. Once(Assigning)'
  <2> SUFFICES ASSUME NEW u \in Threads, NEW v \in Threads,
                      NEW a \in Frames(u)', NEW b \in Frames(v)',
                      a[1] \in Assigning, b[1] \in Assigning, a[2] = b[2]
               PROVE  u = v /\ a = b
    BY DEF Once
  <2>1. CASE u # t /\ v # t
    BY <1>0, <1>3, <2>1 DEF Once
  <2>2. CASE u = t
    BY <1>2, <1>3, <1>4, <2>2
  <2>3. CASE v = t
    BY <1>2, <1>3, <1>4, <2>3
  <2>4. QED
    BY <2>1, <2>2, <2>3
<1>7. ASSUME NEW u \in Threads, u # t, NEW k, User[k] = u, ~Busy(k)
      PROVE  ptr'[k] = ptr[k] /\ ~Busy(k)'
  BY <1>1, <1>5, <1>7 DEF Changes
<1>8. Calls'
  <2> SUFFICES ASSUME NEW u \in Threads, NEW fr \in Frames(u)', fr[1] \in Assigning
               PROVE  /\ Anchored(u, fr[2])'
                      /\ fr[1] \in {"copy", "move"} => From(u, fr[2], fr[3])'
                      /\ fr[1] = "inc" => Held(u, fr[2])'
    BY DEF Calls
  <2>1. CASE u = t
    <3>1. fr \in new /\ new # {} /\ fr[1] = "inc" /\ fr[2] = h
      BY <1>2, <1>3, <2>1
    <3>2. Anchored(t, h)'
      BY <1>1, <1>5, <3>1 DEF Anchored, Changes
    <3>3. QED
      BY <2>1, <3>1, <3>2
  <2>2. CASE u # t
    <3>1. fr \in Frames(u) /\ fr[2] # h /\ Busy(fr[2])
      BY <1>3, <1>4, <2>2 DEF Busy
    <3>2. /\ Anchored(u, fr[2])
          /\ fr[1] \in {"copy", "move"} => From(u, fr[2], fr[3])
          /\ fr[1] = "inc" => Held(u, fr[2])
      BY <1>0, <3>1 DEF Calls
    <3>3. Anchored(u, fr[2])'
      BY <1>7, <2>2, <3>2 DEF Anchored
    <3>4. From(u, fr[2], fr[3]) => From(u, fr[2], fr[3])'
      BY <1>7, <2>2 DEF From
    <3>5. ASSUME Held(u, fr[2]) PROVE Held(u, fr[2])'
      <4>1. PICK g \in Handles :
              /\ User[g] = u /\ SameKind(g, fr[2]) /\ ptr[g] = ptr[fr[2]]
              /\ ~Busy(g) /\ (In[g] = Null \/ Solo)
        BY <3>5 DEF Held
      <4>2. ptr[fr[2]] # Null /\ ptr'[fr[2]] = ptr[fr[2]]
        BY <3>1, <3>5 DEF Held, Changes
      <4>3. ptr'[g] = ptr[g] /\ ~Busy(g)'
        BY <1>7, <2>2, <4>1
      <4>4. QED
        BY <4>1, <4>2, <4>3 DEF Held
    <3>6. QED
      BY <3>2, <3>3, <3>4, <3>5
  <2>3. QED
    BY <2>1, <2>2
<1>9. \A fr : fr \in new \cup Frames(t) => fr[1] \in Assigning
  BY <1>1, <1>2, <1>i
<1>10. \A fr : fr[1] \in Ending \cup Releasing => (fr \in new <=> fr \in Frames(t))
  BY <1>9 DEF Ending, Releasing, Assigning
<1>11. \A fr : fr[1] \in {"dec_strong", "dec_weak"} => Pending(fr)' = Pending(fr)
  <2>1. "dec_strong" \notin Assigning /\ "dec_weak" \notin Assigning
    BY DEF Assigning
  <2>2. QED
    BY <1>9, <2>1, SamePending
<1>12. ASSUME l # "take", NEW y PROVE Takes(y)' = Takes(y)
  <2>1. \A w : <<"take", w, y>>[1] = "take"
    OBVIOUS
  <2>2. \A w : <<"take", w, y>> \notin new /\ <<"take", w, y>> \notin Frames(t)
    BY <1>1, <1>2, <1>12, <2>1
  <2>3. \A w : \A u \in Threads :
          <<"take", w, y>> \in Frames(u)' <=> <<"take", w, y>> \in Frames(u)
    BY <1>3, <2>2
  <2>4. QED
    BY <2>3 DEF Takes
<1>13. QED
  BY <1>5, <1>6, <1>8, <1>10, <1>11, <1>12

(* A landing preserves the invariant when the counters agree after it. *)
LEMMA LandStep ==
  ASSUME IInv, NEW t \in Threads, NEW l \in Assigning, NEW gone, NEW h,
         Landing(t, l, gone, h), NEW new, Moved(t, new),
         new = {} \/ new = {<<"inc", h>>}, Changes(t, h, new),
         new # {} => Held(t, h)',
         UNCHANGED <<destructed, object, block>>,
         \A x \in Objects :
           /\ \/ strong_ref_num'[x] = strong_ref_num[x]
              \/ strong_ref_num[x] > 0 /\ strong_ref_num'[x] = strong_ref_num[x] + 1
           /\ \/ weak_ref_num'[x] = weak_ref_num[x]
              \/ weak_ref_num[x] > 0 /\ weak_ref_num'[x] = weak_ref_num[x] + 1,
         Typed', Stacks', Known', Counted'
  PROVE  IInv'
<1>1. /\ Calls' /\ Once(Assigning)'
      /\ \A fr : fr[1] \in Ending \cup Releasing => (fr \in new <=> fr \in Frames(t))
  BY Land
<1>2. Once(Ending)' /\ Once(Releasing)' /\ Lives' /\ DestroyGuarded'
  BY <1>1, Quiet
<1>3. QED
  BY <1>1, <1>2 DEF IInv, Owners

(* h lands empty. *)
LEMMA LandNull ==
  ASSUME IInv, NEW t \in Threads, NEW l \in Assigning, l # "take", NEW gone, NEW h,
         Landing(t, l, gone, h), Become(t, <<>>), ptr' = [ptr EXCEPT ![h] = Null],
         UNCHANGED <<counts, memory>>, fault' = "none"
  PROVE  IInv'
<1>0. Typed /\ Stacks /\ Counted /\ Known
  BY DEF IInv
<1>1. /\ stack[t] # <<>> /\ Head(stack[t]) = gone /\ Frames(t) = {gone}
      /\ h \in Handles /\ Busy(h)
  BY DEF Landing
<1>2. UNCHANGED <<strong_ref_num, weak_ref_num, destructed, object, block>>
  BY DEF counts, memory
<1>3. Stacks' /\ Moved(t, {})
  BY <1>0, <1>1, Pop DEF Moved
<1>4. ptr'[h] = Null /\ \A k : k # h => ptr'[k] = ptr[k]
  BY <1>0, <1>1 DEF Typed
<1>5. Changes(t, h, {})
  BY <1>4 DEF Changes
<1>6. /\ \A k : Busy(k)' <=> Busy(k) /\ k # h
      /\ \A y : /\ Pending(<<"dec_strong", y>>)' = Pending(<<"dec_strong", y>>)
                /\ Pending(<<"dec_weak", y>>)' = Pending(<<"dec_weak", y>>)
      /\ \A y : Takes(y)' = Takes(y)
  BY <1>3, <1>5, Land
<1>7. \A y \in Objects : \A kind : Settled(y, kind)' = Settled(y, kind)
  <2>1. Null \notin Objects
    BY HandlesAssumption
  <2>2. QED
    BY <1>1, <1>4, <1>6, <2>1 DEF Settled
<1>8. Counted'
  BY <1>0, <1>2, <1>6, <1>7, SameCounts
<1>9. Typed' /\ Known'
  BY <1>0, <1>2, <1>4 DEF Typed, Known
<1>10. QED
  BY <1>2, <1>3, <1>5, <1>8, <1>9, LandStep

LEMMA SetNullStep ==
  ASSUME IInv, NEW t \in Threads, SetNull(t)
  PROVE  IInv'
<1>1. PICK gone : gone = Head(stack[t])
  OBVIOUS
<1>2. PICK h : h = gone[2]
  OBVIOUS
<1>3. "null" \in Assigning /\ At(t, "null")
  BY DEF Assigning, SetNull
<1>4. Landing(t, "null", gone, h) /\ h = Arg(t, 2)
  BY <1>1, <1>2, <1>3, LandTop
<1>5. ~Gone(h)
  BY <1>4, NotGone DEF Landing
<1>6. /\ fault' = "none" /\ Become(t, <<>>) /\ ptr' = [ptr EXCEPT ![h] = Null]
      /\ UNCHANGED <<counts, memory>>
  BY <1>4, <1>5 DEF SetNull, Landed
<1>7. QED
  BY <1>3, <1>4, <1>6, LandNull

LEMMA SetCopyStep ==
  ASSUME IInv, NEW t \in Threads, SetCopy(t)
  PROVE  IInv'
<1>0. Typed /\ Stacks /\ Counted /\ Known
  BY DEF IInv
<1>1. PICK gone : gone = Head(stack[t])
  OBVIOUS
<1>2. PICK h, g : h = gone[2] /\ g = gone[3]
  OBVIOUS
<1>3. "copy" \in Assigning /\ At(t, "copy")
  BY DEF Assigning, SetCopy
<1>4. /\ Landing(t, "copy", gone, h) /\ h = Arg(t, 2) /\ g = Arg(t, 3)
      /\ From(t, h, g) /\ g \in Handles
  BY <1>1, <1>2, <1>3, LandTop
<1>5. /\ stack[t] # <<>> /\ Head(stack[t]) = gone /\ Frames(t) = {gone}
      /\ h \in Handles /\ Busy(h) /\ gone[1] = "copy"
  BY <1>4 DEF Landing
<1>6. ~Gone(h) /\ ~Gone(g)
  BY <1>4, NotGone DEF Landing, From, Gone
<1>7. PICK o : o = IF g = h THEN Null ELSE ptr[g]
  OBVIOUS
<1>8. /\ fault' = "none" /\ ptr' = [ptr EXCEPT ![h] = o]
      /\ Become(t, IF o = Null THEN <<>> ELSE <<<<"inc", h>>>>)
      /\ UNCHANGED <<counts, memory>>
  BY <1>4, <1>6, <1>7 DEF SetCopy, Landed
<1>9. CASE o = Null
  <2>1. Become(t, <<>>) /\ ptr' = [ptr EXCEPT ![h] = Null]
    BY <1>8, <1>9
  <2>2. QED
    BY <1>3, <1>4, <1>8, <2>1, LandNull
<1>10. CASE o # Null
  <2>1. g # h /\ o = ptr[g] /\ o \in Objects /\ ~Busy(g)
    BY <1>0, <1>4, <1>7, <1>10 DEF Typed, From
  <2>2. UNCHANGED <<strong_ref_num, weak_ref_num, destructed, object, block>>
    BY <1>8 DEF counts, memory
  <2>3. PICK f : f = <<"inc", h>>
    OBVIOUS
  <2>4. f \in Frame /\ f[1] = "inc" /\ f[1] \in Assigning /\ f # gone
    BY <1>5, <2>3 DEF Frame, Assigning
  <2>5. Stacks' /\ Moved(t, {f})
    <3>1. Become(t, <<f>>)
      BY <1>8, <1>10, <2>3
    <3>2. f \notin Frames(t) /\ Head(stack[t])[1] \in Assigning
      BY <1>3, <1>5, <2>4
    <3>3. \A u \in Threads : Frames(u)' =
            IF u = t THEN (Frames(t) \ {Head(stack[t])}) \cup {f} ELSE Frames(u)
      BY <1>0, <1>5, <2>4, <3>1, <3>2, Swap
    <3>4. Stacks'
      BY <1>0, <1>5, <2>4, <3>1, <3>2, Swap
    <3>5. (Frames(t) \ {Head(stack[t])}) \cup {f} = {f}
      BY <1>5
    <3>6. QED
      BY <3>3, <3>4, <3>5 DEF Moved
  <2>6. ptr'[h] = o /\ \A k : k # h => ptr'[k] = ptr[k]
    BY <1>0, <1>5, <1>8 DEF Typed
  <2>7. Changes(t, h, {f})
    BY <2>6 DEF Changes
  <2>8. PICK new : new = {f} /\ new = {<<"inc", h>>} /\ new # {}
    BY <2>3
  <2>9. \A u \in Threads : \A fr : fr[1] \in Assigning /\ fr[2] # h =>
          (fr \in Frames(u)' <=> fr \in Frames(u))
    BY <1>4, <1>5, <2>3, <2>5 DEF Moved, Landing
  <2>10. ~Busy(g)'
    BY <2>1, <2>9 DEF Busy
  <2>11. Held(t, h)'
    BY <1>4, <1>10, <2>1, <2>6, <2>10 DEF Held, From
  <2>12. Moved(t, new) /\ Changes(t, h, new)
    BY <2>5, <2>7, <2>8
  <2>13. /\ \A k : Busy(k)' <=> (Busy(k) /\ k # h) \/ k = h
         /\ \A y : /\ Pending(<<"dec_strong", y>>)' = Pending(<<"dec_strong", y>>)
                   /\ Pending(<<"dec_weak", y>>)' = Pending(<<"dec_weak", y>>)
         /\ \A y : Takes(y)' = Takes(y)
    BY <1>3, <1>4, <2>8, <2>11, <2>12, Land
  <2>14. \A y \in Objects : \A kind : Settled(y, kind)' = Settled(y, kind)
    BY <1>5, <2>6, <2>13 DEF Settled
  <2>15. Counted'
    BY <1>0, <2>2, <2>13, <2>14, SameCounts
  <2>16. Typed'
    BY <1>0, <1>8, <2>1, <2>2 DEF Typed
  <2>17. Known'
    <3>1. object[o] # "none"
      BY <1>0, <1>4, <1>10, <2>1 DEF Known
    <3>2. QED
      BY <1>0, <2>2, <2>6, <3>1 DEF Known
  <2>18. QED
    BY <1>3, <1>4, <2>2, <2>5, <2>8, <2>11, <2>12, <2>15, <2>16, <2>17, LandStep
<1>11. QED
  BY <1>9, <1>10

LEMMA SetMoveStep ==
  ASSUME IInv, NEW t \in Threads, SetMove(t)
  PROVE  IInv'
<1>0. Typed /\ Stacks /\ Counted /\ Known
  BY DEF IInv
<1>1. PICK gone : gone = Head(stack[t])
  OBVIOUS
<1>2. PICK h, g : h = gone[2] /\ g = gone[3]
  OBVIOUS
<1>3. "move" \in Assigning /\ At(t, "move")
  BY DEF Assigning, SetMove
<1>4. /\ Landing(t, "move", gone, h) /\ h = Arg(t, 2) /\ g = Arg(t, 3)
      /\ From(t, h, g) /\ g \in Handles
  BY <1>1, <1>2, <1>3, LandTop
<1>5. /\ stack[t] # <<>> /\ Head(stack[t]) = gone /\ Frames(t) = {gone}
      /\ h \in Handles /\ Busy(h)
  BY <1>4 DEF Landing
<1>6. ~Gone(h) /\ ~Gone(g)
  BY <1>4, NotGone DEF Landing, From, Gone
<1>7. /\ fault' = "none" /\ ptr' = [ptr EXCEPT ![h] = ptr[g], ![g] = Null]
      /\ Become(t, <<>>) /\ UNCHANGED <<counts, memory>>
  BY <1>4, <1>6 DEF SetMove, Landed
<1>8. UNCHANGED <<strong_ref_num, weak_ref_num, destructed, object, block>>
  BY <1>7 DEF counts, memory
<1>9. CASE g = h
  <2>1. ptr' = [ptr EXCEPT ![h] = Null]
    BY <1>0, <1>5, <1>7, <1>9 DEF Typed
  <2>2. "move" # "take"
    OBVIOUS
  <2>3. QED
    BY <1>3, <1>4, <1>7, <2>1, <2>2, LandNull
<1>10. CASE g # h
  <2>1. ~Busy(g) /\ User[g] = t /\ SameKind(g, h)
    BY <1>4, <1>10 DEF From
  <2>2. PICK x : x = ptr[g]
    OBVIOUS
  <2>3. /\ ptr'[h] = x /\ ptr'[g] = Null
        /\ \A k : k # h /\ k # g => ptr'[k] = ptr[k]
        /\ ptr' \in [Handles -> Objects \cup {Null}]
    <3>1. PICK q : q = [ptr EXCEPT ![h] = x]
      OBVIOUS
    <3>2. ptr' = [q EXCEPT ![g] = Null]
      BY <1>7, <2>2, <3>1
    <3>3. x \in Objects \cup {Null} /\ ptr \in [Handles -> Objects \cup {Null}]
      BY <1>0, <1>4, <2>2 DEF Typed
    <3>4. /\ q \in [Handles -> Objects \cup {Null}] /\ q[h] = x
          /\ \A k : k # h => q[k] = ptr[k]
      BY <1>5, <3>1, <3>3
    <3>5. /\ ptr' \in [Handles -> Objects \cup {Null}] /\ ptr'[g] = Null
          /\ \A k : k # g => ptr'[k] = q[k]
      BY <1>4, <3>2, <3>4
    <3>6. QED
      BY <1>10, <3>4, <3>5
  <2>4. Stacks' /\ Moved(t, {})
    BY <1>0, <1>5, Pop, <1>7 DEF Moved
  <2>5. Changes(t, h, {})
    BY <2>1, <2>3 DEF Changes
  <2>6. /\ \A k : Busy(k)' <=> Busy(k) /\ k # h
        /\ \A y : /\ Pending(<<"dec_strong", y>>)' = Pending(<<"dec_strong", y>>)
                  /\ Pending(<<"dec_weak", y>>)' = Pending(<<"dec_weak", y>>)
        /\ \A y : Takes(y)' = Takes(y)
    BY <1>3, <1>4, <2>4, <2>5, Land
  <2>7. ASSUME NEW y \in Objects, NEW kind \in {Strong, Weak}
        PROVE  Cardinality(Settled(y, kind)') = Cardinality(Settled(y, kind))
    <3>1. Null \notin Objects
      BY HandlesAssumption
    <3>2. g \in kind <=> h \in kind
      BY <1>4, <1>5, <2>1, HandlesAssumption DEF SameKind, Handles
    <3>3. CASE x = y /\ g \in kind
      <4>1. g \in Settled(y, kind) /\ h \notin Settled(y, kind)
        BY <1>5, <2>1, <2>2, <3>3 DEF Settled
      <4>2. Settled(y, kind)' = (Settled(y, kind) \ {g}) \cup {h}
        BY <1>5, <1>10, <2>1, <2>2, <2>3, <2>6, <3>1, <3>2, <3>3 DEF Settled
      <4>3. PICK S : S = Settled(y, kind) \ {g}
        OBVIOUS
      <4>4. /\ Cardinality(S) = Cardinality(Settled(y, kind)) - 1
            /\ IsFiniteSet(S) /\ h \notin S /\ Cardinality(Settled(y, kind)) \in Nat
        BY <4>1, <4>3, Finite, CountRemove, FS_Subset
      <4>5. Cardinality(Settled(y, kind)') = Cardinality(S) + 1
        BY <4>2, <4>3, <4>4, CountAdd
      <4>6. QED
        BY <4>4, <4>5
    <3>4. CASE ~(x = y /\ g \in kind)
      <4>1. Settled(y, kind)' = Settled(y, kind)
        BY <1>5, <1>10, <2>1, <2>2, <2>3, <2>6, <3>1, <3>2, <3>4 DEF Settled
      <4>2. QED
        BY <4>1
    <3>5. QED
      BY <3>3, <3>4
  <2>8. Counted'
    BY <1>0, <1>8, <2>6, <2>7 DEF Counted
  <2>9. Typed' /\ Known'
    BY <1>0, <1>4, <1>7, <1>8, <2>2, <2>3 DEF Typed, Known
  <2>10. QED
    BY <1>3, <1>4, <1>8, <2>4, <2>5, <2>8, <2>9, LandStep
<1>11. QED
  BY <1>9, <1>10

LEMMA SetTakenStep ==
  ASSUME IInv, NEW t \in Threads, SetTaken(t)
  PROVE  IInv'
<1>0. Typed /\ Stacks /\ Counted /\ Known
  BY DEF IInv
<1>1. PICK gone : gone = Head(stack[t])
  OBVIOUS
<1>2. PICK w, x : w = gone[2] /\ x = gone[3]
  OBVIOUS
<1>3. "take" \in Assigning /\ At(t, "take")
  BY DEF Assigning, SetTaken
<1>4. Landing(t, "take", gone, w) /\ w = Arg(t, 2) /\ x = Arg(t, 3)
  BY <1>1, <1>2, <1>3, LandTop
<1>5. /\ stack[t] # <<>> /\ Head(stack[t]) = gone /\ Frames(t) = {gone}
      /\ w \in Handles /\ Busy(w) /\ gone[1] = "take" /\ gone \in Frame
  BY <1>4 DEF Landing
<1>6. gone = <<"take", w, x>> /\ w \in Weak /\ x \in Objects /\ w \notin Strong
  BY <1>2, <1>5, FrameParts, HandlesAssumption
<1>7. ~Gone(w)
  BY <1>4, NotGone DEF Landing
<1>8. /\ fault' = "none" /\ ptr' = [ptr EXCEPT ![w] = x] /\ Become(t, <<>>)
      /\ UNCHANGED <<strong_ref_num, weak_ref_num, destructed, object, block>>
  BY <1>4, <1>7 DEF SetTaken, Landed, counts, memory
<1>9. ptr'[w] = x /\ \A k : k # w => ptr'[k] = ptr[k]
  BY <1>0, <1>5, <1>8 DEF Typed
<1>10. Stacks' /\ Moved(t, {})
  BY <1>0, <1>5, <1>8, Pop DEF Moved
<1>11. Changes(t, w, {})
  BY <1>9 DEF Changes
<1>12. /\ \A k : Busy(k)' <=> Busy(k) /\ k # w
       /\ \A y : /\ Pending(<<"dec_strong", y>>)' = Pending(<<"dec_strong", y>>)
                 /\ Pending(<<"dec_weak", y>>)' = Pending(<<"dec_weak", y>>)
  BY <1>3, <1>4, <1>10, <1>11, Land
<1>13. /\ t \in Takes(x) /\ Takes(x)' = Takes(x) \ {t}
       /\ \A y : y # x => Takes(y)' = Takes(y)
  <2>1. \A v, y : <<"take", v, y>> \in Frames(t) <=> v = w /\ y = x
    <3>1. \A v, y : <<"take", v, y>> = <<"take", w, x>> <=> v = w /\ y = x
      OBVIOUS
    <3>2. Frames(t) = {<<"take", w, x>>}
      BY <1>5, <1>6
    <3>3. QED
      BY <3>1, <3>2
  <2>2. \A y : t \in Takes(y) <=> \E v \in Weak : <<"take", v, y>> \in Frames(t)
    BY DEF Takes
  <2>3. \A y : t \in Takes(y) <=> y = x
    <3>1. w \in Weak
      BY <1>6
    <3>2. <<"take", w, x>> \in Frames(t)
      BY <2>1
    <3>3. \A y : \A v \in Weak : <<"take", v, y>> \in Frames(t) => y = x
      BY <2>1
    <3>4. t \in Takes(x)
      BY <2>2, <3>1, <3>2
    <3>5. \A y : t \in Takes(y) => y = x
      BY <2>2, <3>3
    <3>6. QED
      BY <3>4, <3>5
  <2>4. \A y : \A u : u \in Takes(y)' <=> u \in Takes(y) /\ u # t
    BY <1>10 DEF Takes, Moved
  <2>5. Takes(x)' = Takes(x) \ {t}
    BY <2>4
  <2>6. ASSUME NEW y, y # x PROVE Takes(y)' = Takes(y)
    <3>1. \A u : u \in Takes(y)' <=> u \in Takes(y)
      BY <2>3, <2>4, <2>6
    <3>2. QED
      BY <3>1
  <2>7. QED
    BY <2>3, <2>5, <2>6
<1>14. Counted'
  <2>1. \A y \in Objects : Settled(y, Strong)' = Settled(y, Strong)
    BY <1>6, <1>9, <1>12 DEF Settled
  <2>2. \A y \in Objects : y # x => Settled(y, Weak)' = Settled(y, Weak)
    BY <1>5, <1>9, <1>12 DEF Settled
  <2>3. w \notin Settled(x, Weak) /\ Settled(x, Weak)' = Settled(x, Weak) \cup {w}
    BY <1>5, <1>6, <1>9, <1>12 DEF Settled
  <2>4. /\ Cardinality(Settled(x, Weak)') = Cardinality(Settled(x, Weak)) + 1
        /\ Cardinality(Takes(x)') = Cardinality(Takes(x)) - 1
    <3>1. IsFiniteSet(Settled(x, Weak)) /\ IsFiniteSet(Takes(x))
      BY Finite
    <3>2. QED
      BY <1>13, <2>3, <3>1, CountAdd, CountRemove
  <2>5. \A a, b, c \in Nat : (a + 1) + b + (c - 1) = a + b + c
    OBVIOUS
  <2>6. /\ Cardinality(Settled(x, Weak)) \in Nat /\ Cardinality(Takes(x)) \in Nat
        /\ Cardinality(Pending(<<"dec_weak", x>>)) \in Nat
    BY Finite
  <2>7. weak_ref_num[x] = Cardinality(Settled(x, Weak))
                            + Cardinality(Pending(<<"dec_weak", x>>))
                            + Cardinality(Takes(x))
    BY <1>0, <1>6 DEF Counted
  <2>8. Pending(<<"dec_weak", x>>)' = Pending(<<"dec_weak", x>>)
    BY <1>12
  <2>9. weak_ref_num[x] = Cardinality(Settled(x, Weak)')
                            + Cardinality(Pending(<<"dec_weak", x>>)')
                            + Cardinality(Takes(x)')
    BY <2>4, <2>5, <2>6, <2>7, <2>8
  <2>10. ASSUME NEW y \in Objects
         PROVE  /\ strong_ref_num[y] = Cardinality(Settled(y, Strong)')
                                         + Cardinality(Pending(<<"dec_strong", y>>)')
                /\ weak_ref_num[y] = Cardinality(Settled(y, Weak)')
                                       + Cardinality(Pending(<<"dec_weak", y>>)')
                                       + Cardinality(Takes(y)')
    <3>1. strong_ref_num[y] = Cardinality(Settled(y, Strong)')
                                + Cardinality(Pending(<<"dec_strong", y>>)')
      BY <1>0, <1>12, <2>1 DEF Counted
    <3>2. CASE y # x
      BY <1>0, <1>12, <1>13, <2>2, <3>1, <3>2 DEF Counted
    <3>3. CASE y = x
      BY <2>9, <3>1, <3>3
    <3>4. QED
      BY <3>2, <3>3
  <2>11. QED
    BY <1>8, <2>10 DEF Counted
<1>15. Typed'
  BY <1>0, <1>6, <1>8 DEF Typed
<1>16. Known'
  <2>1. weak_ref_num[x] > 0
    <3>1. Cardinality(Takes(x)) # 0
      BY <1>13, Finite, FS_EmptySet
    <3>2. /\ Cardinality(Settled(x, Weak)) \in Nat /\ Cardinality(Takes(x)) \in Nat
          /\ Cardinality(Pending(<<"dec_weak", x>>)) \in Nat
      BY Finite
    <3>3. weak_ref_num[x] = Cardinality(Settled(x, Weak))
                              + Cardinality(Pending(<<"dec_weak", x>>))
                              + Cardinality(Takes(x))
      BY <1>0, <1>6 DEF Counted
    <3>4. \A a, b, c \in Nat : c # 0 => a + b + c > 0
      OBVIOUS
    <3>5. QED
      BY <3>1, <3>2, <3>3, <3>4
  <2>2. object[x] # "none"
    BY <1>6, <2>1 DEF IInv, Lives, Life
  <2>3. QED
    BY <1>0, <1>8, <1>9, <2>2 DEF Known
<1>17. QED
  BY <1>3, <1>4, <1>8, <1>10, <1>11, <1>14, <1>15, <1>16, LandStep

LEMMA IncStep ==
  ASSUME IInv, NEW t \in Threads, Inc(t)
  PROVE  IInv'
<1>0. Typed /\ Stacks /\ Counted /\ Known /\ Lives
  BY DEF IInv
<1>1. PICK gone : gone = Head(stack[t])
  OBVIOUS
<1>2. PICK h : h = gone[2]
  OBVIOUS
<1>3. "inc" \in Assigning /\ At(t, "inc")
  BY DEF Assigning, Inc
<1>4. Landing(t, "inc", gone, h) /\ h = Arg(t, 2) /\ Held(t, h)
  BY <1>1, <1>2, <1>3, LandTop
<1>5. /\ stack[t] # <<>> /\ Head(stack[t]) = gone /\ Frames(t) = {gone}
      /\ h \in Handles /\ Busy(h)
  BY <1>4 DEF Landing
<1>6. PICK o : o = ptr[h]
  OBVIOUS
<1>7. /\ o \in Objects /\ strong_ref_num[o] \in Nat /\ weak_ref_num[o] \in Nat
      /\ h \in Strong => strong_ref_num[o] > 0
      /\ h \in Weak => weak_ref_num[o] > 0
      /\ h \in Strong \/ h \in Weak
      /\ ~(h \in Strong /\ h \in Weak)
  <2>1. o # Null /\ \E g \in Handles : SameKind(g, h) /\ ptr[g] = o /\ ~Busy(g)
    BY <1>4, <1>6 DEF Held
  <2>2. o \in Objects
    BY <1>0, <1>5, <1>6, <2>1 DEF Typed
  <2>3. (h \in Strong \/ h \in Weak) /\ ~(h \in Strong /\ h \in Weak)
    BY <1>5, HandlesAssumption DEF Handles
  <2>4. PICK g \in Handles : SameKind(g, h) /\ ptr[g] = o /\ ~Busy(g)
    BY <2>1
  <2>5. (h \in Strong => g \in Strong) /\ (h \in Weak => g \in Weak)
    BY <2>3, <2>4 DEF SameKind, Handles
  <2>6. QED
    BY <1>0, <2>2, <2>3, <2>4, <2>5, Positive
<1>8. object[o] # "none" /\ block[o] = "live"
  <2>1. Life(o)
    BY <1>0, <1>7 DEF Lives
  <2>2. strong_ref_num[o] > 0 \/ weak_ref_num[o] > 0
    BY <1>7
  <2>3. QED
    BY <2>1, <2>2 DEF Life
<1>9. /\ fault' = "none" /\ Become(t, <<>>)
      /\ UNCHANGED <<ptr, destructed, object, block>>
      /\ \/ /\ h \in Strong /\ weak_ref_num' = weak_ref_num
            /\ strong_ref_num' = [strong_ref_num EXCEPT ![o] = @ + 1]
         \/ /\ h \in Weak /\ strong_ref_num' = strong_ref_num
            /\ weak_ref_num' = [weak_ref_num EXCEPT ![o] = @ + 1]
  BY <1>4, <1>6, <1>8 DEF Inc, memory
<1>10. Stacks' /\ Moved(t, {})
  BY <1>0, <1>5, <1>9, Pop DEF Moved
<1>11. Changes(t, h, {})
  BY <1>9 DEF Changes
<1>12. /\ \A k : Busy(k)' <=> Busy(k) /\ k # h
       /\ \A y : /\ Pending(<<"dec_strong", y>>)' = Pending(<<"dec_strong", y>>)
                 /\ Pending(<<"dec_weak", y>>)' = Pending(<<"dec_weak", y>>)
       /\ \A y : Takes(y)' = Takes(y)
  <2>1. "inc" # "take"
    OBVIOUS
  <2>2. QED
    BY <1>3, <1>4, <1>10, <1>11, <2>1, Land
<1>13. ASSUME NEW y, NEW kind
       PROVE  /\ ~(y = o /\ h \in kind) => Settled(y, kind)' = Settled(y, kind)
              /\ y = o /\ h \in kind => /\ h \notin Settled(y, kind)
                                        /\ Settled(y, kind)' = Settled(y, kind) \cup {h}
  <2>1. ptr' = ptr
    BY <1>9
  <2>2. CASE y = o /\ h \in kind
    BY <1>5, <1>6, <1>12, <2>1, <2>2 DEF Settled
  <2>3. CASE ~(y = o /\ h \in kind)
    BY <1>5, <1>6, <1>12, <2>1, <2>3 DEF Settled
  <2>4. QED
    BY <2>2, <2>3
<1>14. ASSUME NEW y \in Objects, NEW kind \in {Strong, Weak}, NEW dec,
              Pending(<<dec, y>>)' = Pending(<<dec, y>>)
       PROVE  Owed(y, kind, dec)' = IF y = o /\ h \in kind THEN Owed(y, kind, dec) + 1
                                    ELSE Owed(y, kind, dec)
  <2>1. /\ IsFiniteSet(Settled(y, kind)) /\ Cardinality(Settled(y, kind)) \in Nat
        /\ Cardinality(Pending(<<dec, y>>)) \in Nat
    BY Finite
  <2>2. Owed(y, kind, dec)' = Cardinality(Settled(y, kind)')
                                + Cardinality(Pending(<<dec, y>>)')
    BY DEF Owed
  <2>3. Owed(y, kind, dec) = Cardinality(Settled(y, kind))
                               + Cardinality(Pending(<<dec, y>>))
    BY DEF Owed
  <2>4. CASE y = o /\ h \in kind
    <3>1. Cardinality(Settled(y, kind)') = Cardinality(Settled(y, kind)) + 1
      BY <1>13, <2>1, <2>4, CountAdd
    <3>2. QED
      BY <1>14, <2>1, <2>2, <2>3, <2>4, <3>1
  <2>5. CASE ~(y = o /\ h \in kind)
    BY <1>13, <1>14, <2>2, <2>3, <2>5
  <2>6. QED
    BY <2>4, <2>5
<1>15. \A y \in Objects :
         /\ strong_ref_num'[y] = IF y = o /\ h \in Strong THEN strong_ref_num[y] + 1
                                 ELSE strong_ref_num[y]
         /\ weak_ref_num'[y] = IF y = o /\ h \in Weak THEN weak_ref_num[y] + 1
                               ELSE weak_ref_num[y]
  BY <1>0, <1>7, <1>9 DEF Typed
<1>16. Counted'
  <2> SUFFICES ASSUME NEW y \in Objects
      PROVE  /\ strong_ref_num'[y] = Owed(y, Strong, "dec_strong")'
             /\ weak_ref_num'[y] = Owed(y, Weak, "dec_weak")' + Cardinality(Takes(y)')
    BY DEF Counted, Owed
  <2>1. /\ strong_ref_num[y] = Owed(y, Strong, "dec_strong")
        /\ weak_ref_num[y] = Owed(y, Weak, "dec_weak") + Cardinality(Takes(y))
        /\ Owed(y, Weak, "dec_weak") \in Nat /\ Cardinality(Takes(y)) \in Nat
    BY <1>0, OwedFacts
  <2>2. Owed(y, Strong, "dec_strong")' =
          IF y = o /\ h \in Strong THEN Owed(y, Strong, "dec_strong") + 1
          ELSE Owed(y, Strong, "dec_strong")
    BY <1>12, <1>14
  <2>3. Owed(y, Weak, "dec_weak")' =
          IF y = o /\ h \in Weak THEN Owed(y, Weak, "dec_weak") + 1
          ELSE Owed(y, Weak, "dec_weak")
    BY <1>12, <1>14
  <2>4. Takes(y)' = Takes(y)
    BY <1>12
  <2>5. strong_ref_num'[y] = Owed(y, Strong, "dec_strong")'
    BY <1>15, <2>1, <2>2
  <2>6. weak_ref_num'[y] = Owed(y, Weak, "dec_weak")' + Cardinality(Takes(y)')
    BY <1>15, <2>1, <2>3, <2>4
  <2>7. QED
    BY <2>5, <2>6
<1>17. Typed' /\ Known'
  <2>1. strong_ref_num' \in [Objects -> Nat] /\ weak_ref_num' \in [Objects -> Nat]
    <3>1. strong_ref_num[o] + 1 \in Nat /\ weak_ref_num[o] + 1 \in Nat
      BY <1>7
    <3>2. CASE strong_ref_num' = [strong_ref_num EXCEPT ![o] = @ + 1] /\ weak_ref_num' = weak_ref_num
      BY <1>0, <3>1, <3>2 DEF Typed
    <3>3. CASE weak_ref_num' = [weak_ref_num EXCEPT ![o] = @ + 1] /\ strong_ref_num' = strong_ref_num
      BY <1>0, <3>1, <3>3 DEF Typed
    <3>4. QED
      BY <1>9, <3>2, <3>3
  <2>2. QED
    BY <1>0, <1>9, <2>1 DEF Typed, Known
<1>18. \A x \in Objects :
         /\ \/ strong_ref_num'[x] = strong_ref_num[x]
            \/ strong_ref_num[x] > 0 /\ strong_ref_num'[x] = strong_ref_num[x] + 1
         /\ \/ weak_ref_num'[x] = weak_ref_num[x]
            \/ weak_ref_num[x] > 0 /\ weak_ref_num'[x] = weak_ref_num[x] + 1
  BY <1>7, <1>15
<1>19. QED
  BY <1>3, <1>4, <1>9, <1>10, <1>11, <1>16, <1>17, <1>18, LandStep

-----------------------------------------------------------------------------
(* The invariant and the theorems. *)

LEMMA InitIInv == Init => IInv
<1> SUFFICES ASSUME Init PROVE IInv
  OBVIOUS
<1> USE DEF Init
<1>1. Null \notin Objects
  BY HandlesAssumption
<1>2. \A t \in Threads : stack[t] = <<>> /\ Len(stack[t]) = 0 /\ Frames(t) = {}
  BY NoFrames
<1>3. Typed /\ Known /\ Owners /\ DestroyGuarded /\ Calls
  BY <1>2 DEF Typed, Known, Owners, Once, DestroyGuarded, Calls
<1>4. Stacks
  <2>1. stack \in [Threads -> Seq(Frame)]
    BY <1>2
  <2>2. ASSUME NEW t \in Threads PROVE Shape(stack[t])
    BY <1>2 DEF Shape
  <2>3. QED
    BY <2>1, <2>2 DEF Stacks
<1>5. Counted
  <2> SUFFICES ASSUME NEW o \in Objects
      PROVE  /\ strong_ref_num[o] = Cardinality(Settled(o, Strong))
                                      + Cardinality(Pending(<<"dec_strong", o>>))
             /\ weak_ref_num[o] = Cardinality(Settled(o, Weak))
                                    + Cardinality(Pending(<<"dec_weak", o>>))
                                    + Cardinality(Takes(o))
    BY DEF Counted
  <2>1. /\ Settled(o, Strong) = {} /\ Settled(o, Weak) = {}
        /\ Pending(<<"dec_strong", o>>) = {} /\ Pending(<<"dec_weak", o>>) = {}
        /\ Takes(o) = {}
    BY <1>1, <1>2 DEF Settled, Pending, Takes, Handles
  <2>2. strong_ref_num[o] = 0 /\ weak_ref_num[o] = 0
    OBVIOUS
  <2>3. Cardinality({}) = 0
    BY FS_EmptySet
  <2>4. QED
    BY ONLY <2>1, <2>2, <2>3
<1>6. Lives
  BY <1>2 DEF Lives, Life, Has
<1>7. QED
  BY <1>3, <1>4, <1>5, <1>6 DEF IInv

LEMMA NextIInv == ASSUME Contract PROVE IInv /\ [Next]_vars => IInv'
<1> SUFFICES ASSUME IInv, [Next]_vars PROVE IInv'
  OBVIOUS
<1>1. CASE UNCHANGED vars
  <2>1. UNCHANGED <<ptr, counts, memory, stack>> /\ fault' \in {"none", "terminated"}
    BY <1>1 DEF vars, IInv, Typed
  <2>2. QED
    BY <2>1, SameState
<1>2. ASSUME NEW t \in Threads, Run(t) PROVE IInv'
  <2>1. CASE DecStrong(t)
    BY <2>1, DecStrongStep
  <2>2. CASE LastStrong(t)
    BY <2>2, LastStrongStep
  <2>3. CASE WeakLeft(t)
    BY <2>3, WeakLeftStep
  <2>4. CASE DecWeak(t)
    BY <2>4, DecWeakStep
  <2>5. CASE StrongLeft(t)
    BY <2>5, StrongLeftStep
  <2>6. CASE TestDestructed(t)
    BY <2>6, TestDestructedStep
  <2>7. CASE Destroy(t)
    BY <2>7, DestroyStep
  <2>8. CASE Members(t)
    BY <2>8, MembersEndStep, MembersDropStep
  <2>9. CASE Free(t)
    BY <2>9, FreeStep
  <2>10. CASE SetNull(t)
    BY <2>10, SetNullStep
  <2>11. CASE SetCopy(t)
    BY <2>11, SetCopyStep
  <2>12. CASE SetMove(t)
    BY <2>12, SetMoveStep
  <2>13. CASE SetTaken(t)
    BY <2>13, SetTakenStep
  <2>14. CASE Inc(t)
    BY <2>14, IncStep
  <2>15. QED
    BY <1>2, <2>1, <2>2, <2>3, <2>4, <2>5, <2>6, <2>7, <2>8, <2>9, <2>10, <2>11,
       <2>12, <2>13, <2>14 DEF Run
<1>3. ASSUME NEW t \in Threads, Operation(t) PROVE IInv'
  <2>1. ASSUME NEW h \in Strong, NEW o \in Objects, MakeShared(t, h, o) PROVE IInv'
    BY <2>1, MakeSharedStep
  <2>2. ASSUME NEW h \in Handles, Reset(t, h) PROVE IInv'
    BY <2>2, ResetStep
  <2>3. ASSUME NEW h \in Handles, NEW g \in Handles, NEW how \in {"copy", "move"},
               Assign(t, h, g, how)
        PROVE  IInv'
    BY <2>3, AssignStep
  <2>4. ASSUME NEW w \in Weak, NEW p \in Strong, AssignWeak(t, w, p) PROVE IInv'
    BY <2>4, AssignWeakStep
  <2>5. ASSUME NEW h \in Strong, NEW w \in Weak, Lock(t, h, w) PROVE IInv'
    BY <2>5, LockStep
  <2>6. QED
    BY <1>3, <2>1, <2>2, <2>3, <2>4, <2>5 DEF Operation
<1>4. QED
  BY <1>1, <1>2, <1>3 DEF Next

(* The invariant of reference counting: counters that agree with the       *)
(* handles, one party with the duty to destroy an object and one with the  *)
(* duty to release its control block, in every interleaving of the steps   *)
(* of shared_ptr.h's dec_strong_ref, dec_weak_ref and the assignments.     *)
THEOREM SharedPtrInvariant == ASSUME Contract PROVE Spec => []IInv
<1>1. Init => IInv
  BY InitIInv
<1>2. IInv /\ [Next]_vars => IInv'
  BY NextIInv
<1>3. QED
  BY <1>1, <1>2, PTL DEF Spec

LEMMA IInvCountsExact == IInv => CountsExact
<1> SUFFICES ASSUME IInv PROVE CountsExact
  OBVIOUS
<1>1. Typed /\ Stacks /\ Counted
  BY DEF IInv
<1>2. TypeOK
  <2>1. ASSUME NEW t \in Threads, NEW fr \in Frames(t)
        PROVE  fr[1] \in Label /\ fr[2] \in Objects \cup Handles
    <3>1. stack[t] \in Seq(Frame) /\ fr \in Elems(stack[t])
      BY <1>1, FramesAreElems DEF Stacks
    <3>2. fr \in Frame
      BY <3>1 DEF Elems
    <3>3. QED
      BY <3>2, FrameParts
  <2>2. QED
    BY <1>1, <2>1 DEF TypeOK, Typed
<1>3. \A o : UNION {Pending(<<"take", w, o>>) : w \in Weak} = Takes(o)
  <2> TAKE o
  <2>1. \A t : t \in UNION {Pending(<<"take", w, o>>) : w \in Weak} <=>
                 \E w \in Weak : t \in Pending(<<"take", w, o>>)
    OBVIOUS
  <2>2. \A t : t \in Takes(o) <=> \E w \in Weak : t \in Pending(<<"take", w, o>>)
    BY DEF Takes, Pending
  <2>3. QED
    BY <2>1, <2>2, Zenon
<1>4. QED
  BY <1>1, <1>2, <1>3 DEF CountsExact, Counted

LEMMA IInvNoDangling == IInv => NoDangling
<1> SUFFICES ASSUME IInv, NEW h \in Handles, ptr[h] # Null, ~Busy(h)
             PROVE  block[ptr[h]] = "live" /\ (h \in Strong => object[ptr[h]] = "live")
  BY DEF NoDangling
<1>1. PICK o : o = ptr[h]
  OBVIOUS
<1>2. Typed /\ Counted /\ Lives
  BY DEF IInv
<1>3. o \in Objects
  BY <1>1, <1>2 DEF Typed
<1>4. /\ h \in Strong => strong_ref_num[o] > 0
      /\ h \in Weak => weak_ref_num[o] > 0
      /\ strong_ref_num[o] \in Nat /\ weak_ref_num[o] \in Nat
  BY <1>1, <1>2, <1>3, Positive
<1>5. Life(o) /\ (h \in Strong \/ h \in Weak)
  BY <1>2, <1>3 DEF Lives, Handles
<1>6. QED
  BY <1>1, <1>4, <1>5 DEF Life

LEMMA IInvNoLeak == IInv => NoLeak
<1> SUFFICES ASSUME IInv, \A t \in Threads : stack[t] = <<>>, NEW o \in Objects
             PROVE  /\ object[o] \in {"live", "dying"} => \E h \in Strong : ptr[h] = o
                    /\ block[o] = "live" => \E h \in Handles : ptr[h] = o
  BY DEF NoLeak
<1>1. Typed /\ Counted /\ Lives
  BY DEF IInv
<1>2. \A t \in Threads : Frames(t) = {}
  BY NoFrames
<1>3. \A l : ~Has(l, o)
  BY <1>2 DEF Has
<1>4. /\ Takes(o) = {} /\ Pending(<<"dec_strong", o>>) = {}
      /\ Pending(<<"dec_weak", o>>) = {}
  BY <1>2 DEF Takes, Pending
<1>5. /\ strong_ref_num[o] \in Nat /\ weak_ref_num[o] \in Nat
      /\ strong_ref_num[o] > 0 => Cardinality(Settled(o, Strong)) # 0
      /\ weak_ref_num[o] > 0 => Cardinality(Settled(o, Weak)) # 0
  <2>1. /\ strong_ref_num[o] = Cardinality(Settled(o, Strong)) + 0
        /\ weak_ref_num[o] = Cardinality(Settled(o, Weak)) + 0 + 0
    BY <1>1, <1>4, FS_EmptySet DEF Counted
  <2>2. QED
    BY <1>1, <2>1 DEF Typed
<1>6. /\ strong_ref_num[o] > 0 => \E h \in Strong : ptr[h] = o
      /\ weak_ref_num[o] > 0 => \E h \in Weak : ptr[h] = o
  <2>1. \A kind : Cardinality(Settled(o, kind)) # 0 => \E h \in kind : ptr[h] = o
    <3> TAKE kind
    <3>1. Cardinality(Settled(o, kind)) # 0 => \E h : h \in Settled(o, kind)
      BY FS_EmptySet
    <3>2. QED
      BY <3>1 DEF Settled
  <2>2. QED
    BY <1>5, <2>1
<1>7. Life(o)
  BY <1>1 DEF Lives
<1>8. object[o] \in {"live", "dying"} => strong_ref_num[o] > 0
  BY <1>3, <1>5, <1>7 DEF Life
<1>9. block[o] = "live" => strong_ref_num[o] > 0 \/ weak_ref_num[o] > 0
  BY <1>3, <1>7 DEF Life
<1>10. QED
  BY <1>6, <1>8, <1>9 DEF Handles

(* In every state, within calls too, each counter is exactly the number of *)
(* handles, of decrements still to come and of temporaries that it counts  *)
(* (shared_ptr.h, inc_ and dec_strong_ref, inc_ and dec_weak_ref).         *)
THEOREM CountsExactHolds == ASSUME Contract PROVE Spec => []CountsExact
BY SharedPtrInvariant, IInvCountsExact, PTL

(* dec_strong_ref's assertion holds, no object is destroyed twice, and no  *)
(* call reads or writes a control block or a handle after its release.     *)
THEOREM NoFaultHolds == ASSUME Contract PROVE Spec => []NoFault
<1>1. IInv => NoFault
  BY DEF IInv, Typed, NoFault
<1>2. QED
  BY <1>1, SharedPtrInvariant, PTL

(* The object of a SharedPtr at rest is alive, and the control block of a  *)
(* WeakPtr at rest is still there.                                         *)
THEOREM NoDanglingHolds == ASSUME Contract PROVE Spec => []NoDangling
BY SharedPtrInvariant, IInvNoDangling, PTL

(* When no call is in progress, every object without owners has been       *)
(* destroyed and every control block without handles released: on_ref_zero *)
(* and on_strong_ref_zero have been called by one party or the other.      *)
THEOREM NoLeakHolds == ASSUME Contract PROVE Spec => []NoLeak
BY SharedPtrInvariant, IInvNoLeak, PTL
=============================================================================
