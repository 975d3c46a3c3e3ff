------------------------------ MODULE SharedPtr ------------------------------
(***************************************************************************)
(* peff::SharedPtr and WeakPtr over one SharedPtrControlBlock per object   *)
(* (advutils/shared_ptr.h).  The counters are atomic, the destructed flag  *)
(* and the decisions between two counter accesses are not: every access to *)
(* a control block is a step of its own, and threads interleave.           *)
(*                                                                         *)
(* A call is a stack of frames <<label, argument, ...>>, the first one on  *)
(* top: destroying an object destroys the handles it has as members, which *)
(* may drop further objects.                                               *)
(***************************************************************************)
EXTENDS Integers, Sequences, FiniteSets

CONSTANTS
  Threads,
  Objects,     \* the objects ever made, each with its control block
  Strong,      \* the SharedPtr handles
  Weak,        \* the WeakPtr handles
  User,        \* the thread that uses a handle
  In,          \* the object a handle is a member of, or Null for a local one
  Sources,     \* the handles that occur on the right of an assignment
  Null

Handles == Strong \cup Weak

ASSUME HandlesAssumption ==
  /\ Strong \cap Weak = {} /\ Sources \subseteq Handles
  /\ User \in [Handles -> Threads] /\ In \in [Handles -> Objects \cup {Null}]
  /\ Null \notin Objects
  /\ IsFiniteSet(Strong) /\ IsFiniteSet(Weak) /\ IsFiniteSet(Threads)

VARIABLES
  ptr,              \* the handles' control_block
  strong_ref_num, weak_ref_num, destructed,   \* the control blocks' fields
  object, block,    \* the state of each object's and control block's memory
  stack,            \* the frames of each thread's call
  fault             \* "none", or how the program died

counts == <<strong_ref_num, weak_ref_num>>
memory == <<destructed, object, block>>
vars == <<ptr, counts, memory, stack, fault>>

-----------------------------------------------------------------------------
Init ==
  /\ ptr = [h \in Handles |-> Null]
  /\ strong_ref_num = [o \in Objects |-> 0]
  /\ weak_ref_num = [o \in Objects |-> 0]
  /\ destructed = [o \in Objects |-> FALSE]
  /\ object = [o \in Objects |-> "none"]
  /\ block = [o \in Objects |-> "none"]
  /\ stack = [t \in Threads |-> <<>>]
  /\ fault = "none"

Frames(t) == {stack[t][i] : i \in 1 .. Len(stack[t])}

(* h is being assigned: its count and its pointer do not agree yet. *)
Assigning == {"null", "copy", "move", "take", "inc"}
Busy(h) == \E t \in Threads : \E fr \in Frames(t) :
             fr[1] \in Assigning /\ fr[2] = h

Gone(h) == In[h] # Null /\ object[In[h]] = "dead"

(* t can name h: a local handle, or a member of an object that a local     *)
(* SharedPtr of t keeps alive.                                             *)
Usable(t, h) ==
  /\ User[h] = t /\ ~Busy(h)
  /\ In[h] # Null => \E s \in Strong : /\ User[s] = t /\ In[s] = Null
                                       /\ ptr[s] = In[h] /\ ~Busy(s)

(* An empty local handle of another thread that is not in a call can be    *)
(* handed a copy; clients synchronise access to the handles themselves.    *)
Mailbox(t, h) ==
  /\ User[h] # t /\ In[h] = Null /\ ptr[h] = Null
  /\ stack[User[h]] = <<>> /\ ~Busy(h)

CanCall(t) == fault = "none" /\ stack[t] = <<>>
SameKind(h, g) == h \in Strong <=> g \in Strong

DropFrame(h) == <<IF h \in Strong THEN "dec_strong" ELSE "dec_weak", ptr[h]>>

ResetThen_Leaks(t, h, frame) == stack' = [stack EXCEPT ![t] = <<frame>>]
(* reset's decrement, then what the caller does with the handle. *)
ResetThen(t, h, frame) ==
  stack' = [stack EXCEPT ![t] = IF ptr[h] = Null THEN <<frame>>
                                ELSE <<DropFrame(h), frame>>]

-----------------------------------------------------------------------------
(* The operations. *)

(* SharedPtr h = make_shared(...); a failed allocation leaves h empty and  *)
(* nothing else behind.                                                    *)
MakeShared(t, h, o) ==
  /\ CanCall(t) /\ Usable(t, h) /\ In[h] = Null /\ ptr[h] = Null
  /\ object[o] = "none"
  /\ object' = [object EXCEPT ![o] = "live"]
  /\ block' = [block EXCEPT ![o] = "live"]
  /\ ptr' = [ptr EXCEPT ![h] = o]
  /\ strong_ref_num' = [strong_ref_num EXCEPT ![o] = 1]
  /\ UNCHANGED <<weak_ref_num, destructed, stack, fault>>

(* reset, and the destructor of a local handle. *)
Reset(t, h) ==
  /\ CanCall(t) /\ Usable(t, h) /\ ptr[h] # Null
  /\ ResetThen(t, h, <<"null", h>>)
  /\ UNCHANGED <<ptr, counts, memory, fault>>

(* operator= by copy or by move, and the constructors, which find h empty. *)
(* Only SharedPtr's operator= guards against self-assignment.              *)
Assign(t, h, g, how) ==
  /\ CanCall(t) /\ SameKind(h, g) /\ g \in Sources
  /\ Usable(t, h) \/ Mailbox(t, h)
  /\ Usable(t, g) /\ ptr[g] # Null
  /\ h \in Strong => h # g
  /\ ResetThen(t, h, <<how, h, g>>)
  /\ UNCHANGED <<ptr, counts, memory, fault>>

(* w = p: a temporary WeakPtr is made of p, counted, and moved into w.     *)
AssignWeak(t, w, p) ==
  /\ CanCall(t) /\ w \in Weak /\ p \in Strong \cap Sources
  /\ Usable(t, w) \/ Mailbox(t, w)
  /\ Usable(t, p) /\ ptr[p] # Null
  /\ weak_ref_num' = [weak_ref_num EXCEPT ![ptr[p]] = @ + 1]
  /\ ResetThen(t, w, <<"take", w, ptr[p]>>)
  /\ UNCHANGED <<ptr, strong_ref_num, memory, fault>>

(* SharedPtr h = w.lock(): terminates when the object has expired, and     *)
(* otherwise counts the new owner in a later access.                       *)
Lock_Unchecked(t, h, w) ==
  /\ CanCall(t) /\ h \in Strong /\ w \in Weak
  /\ Usable(t, h) /\ In[h] = Null /\ ptr[h] = Null
  /\ Usable(t, w) /\ ptr[w] # Null
  /\ ptr' = [ptr EXCEPT ![h] = ptr[w]]
  /\ stack' = [stack EXCEPT ![t] = <<<<"inc", h>>>>]
  /\ UNCHANGED <<counts, memory, fault>>
Lock(t, h, w) ==
  /\ CanCall(t) /\ h \in Strong /\ w \in Weak
  /\ Usable(t, h) /\ In[h] = Null /\ ptr[h] = Null
  /\ Usable(t, w) /\ ptr[w] # Null
  /\ \/ /\ strong_ref_num[ptr[w]] # 0
        /\ ptr' = [ptr EXCEPT ![h] = ptr[w]]
        /\ stack' = [stack EXCEPT ![t] = <<<<"inc", h>>>>]
        /\ UNCHANGED fault
     \/ /\ strong_ref_num[ptr[w]] = 0
        /\ fault' = "terminated" /\ UNCHANGED <<ptr, stack>>
  /\ UNCHANGED <<counts, memory>>

-----------------------------------------------------------------------------
(* The frames. *)

At(t, label) == fault = "none" /\ stack[t] # <<>> /\ Head(stack[t])[1] = label
Arg(t, i) == Head(stack[t])[i]
Rest(t) == Tail(stack[t])

(* The frame on top becomes the frames fs. *)
Become(t, fs) == stack' = [stack EXCEPT ![t] = fs \o Rest(t)]

(* A step on o's control block, which faults if its memory was released.   *)
OnBlock(t, label) ==
  /\ At(t, label)
  /\ fault' = IF block[Arg(t, 2)] = "live" THEN "none" ELSE "use_after_free"

(* dec_strong_ref: the atomic decrement, ... *)
DecStrong_Reread(t) ==
  LET o == Arg(t, 2) IN
  /\ OnBlock(t, "dec_strong")
  /\ strong_ref_num' = [strong_ref_num EXCEPT ![o] = @ - 1]
  /\ Become(t, <<<<"strong_left", o>>>>)
  /\ UNCHANGED <<ptr, weak_ref_num, memory>>
DecStrong(t) ==
  LET o == Arg(t, 2) IN
  /\ OnBlock(t, "dec_strong")
  /\ strong_ref_num' = [strong_ref_num EXCEPT ![o] = @ - 1]
  /\ Become(t, IF strong_ref_num[o] = 1 THEN <<<<"last_strong", o>>>> ELSE <<>>)
  /\ UNCHANGED <<ptr, weak_ref_num, memory>>

(* ... assert(!destructed) and the flag, ... *)
LastStrong(t) ==
  LET o == Arg(t, 2) IN
  /\ At(t, "last_strong")
  /\ fault' = IF block[o] # "live" THEN "use_after_free"
              ELSE IF destructed[o] THEN "assert" ELSE "none"
  /\ destructed' = [destructed EXCEPT ![o] = TRUE]
  /\ Become(t, <<<<"weak_left", o>>>>)
  /\ UNCHANGED <<ptr, counts, object, block>>

(* ... and the test that decides who releases the control block. *)
WeakLeft_Always(t) ==
  LET o == Arg(t, 2) IN
  /\ OnBlock(t, "weak_left")
  /\ Become(t, <<<<"destroy", o>>, <<"free", o>>>>)
  /\ UNCHANGED <<ptr, counts, memory>>
WeakLeft(t) ==
  LET o == Arg(t, 2) IN
  /\ OnBlock(t, "weak_left")
  /\ Become(t, IF weak_ref_num[o] = 0 THEN <<<<"destroy", o>>, <<"free", o>>>>
               ELSE <<<<"destroy", o>>>>)
  /\ UNCHANGED <<ptr, counts, memory>>

(* dec_weak_ref, in four accesses. *)
DecWeak(t) ==
  LET o == Arg(t, 2) IN
  /\ OnBlock(t, "dec_weak")
  /\ weak_ref_num' = [weak_ref_num EXCEPT ![o] = @ - 1]
  /\ Become(t, IF weak_ref_num[o] = 1 THEN <<<<"strong_left", o>>>> ELSE <<>>)
  /\ UNCHANGED <<ptr, strong_ref_num, memory>>

StrongLeft_Never(t) ==
  LET o == Arg(t, 2) IN
  /\ OnBlock(t, "strong_left")
  /\ Become(t, <<>>)
  /\ UNCHANGED <<ptr, counts, memory>>
StrongLeft(t) ==
  LET o == Arg(t, 2) IN
  /\ OnBlock(t, "strong_left")
  /\ Become(t, IF strong_ref_num[o] = 0 THEN <<<<"destructed", o>>>> ELSE <<>>)
  /\ UNCHANGED <<ptr, counts, memory>>

TestDestructed(t) ==
  LET o == Arg(t, 2) IN
  /\ OnBlock(t, "destructed")
  /\ destructed' = [destructed EXCEPT ![o] = TRUE]
  /\ Become(t, IF destructed[o] THEN <<<<"free", o>>>>
               ELSE <<<<"destroy", o>>, <<"free", o>>>>)
  /\ UNCHANGED <<ptr, counts, object, block>>

(* on_strong_ref_zero: the object's destructor starts, ... *)
Destroy(t) ==
  LET o == Arg(t, 2) IN
  /\ At(t, "destroy")
  /\ fault' = IF block[o] # "live" THEN "use_after_free"
              ELSE IF object[o] # "live" THEN "double_destroy" ELSE "none"
  /\ object' = [object EXCEPT ![o] = "dying"]
  /\ Become(t, <<<<"members", o>>>>)
  /\ UNCHANGED <<ptr, counts, destructed, block>>

(* ... destroys the members one by one, and the memory is released.        *)
Members(t) ==
  LET o == Arg(t, 2)
      owned == {h \in Handles : In[h] = o /\ ptr[h] # Null}
  IN /\ At(t, "members")
     /\ \/ \E h \in owned :
             /\ ptr' = [ptr EXCEPT ![h] = Null]
             /\ Become(t, <<DropFrame(h), Head(stack[t])>>)
             /\ UNCHANGED object
        \/ /\ owned = {}
           /\ object' = [object EXCEPT ![o] = "dead"]
           /\ Become(t, <<>>) /\ UNCHANGED ptr
     /\ UNCHANGED <<counts, destructed, block, fault>>

(* on_ref_zero: the control block is released. *)
Free(t) ==
  LET o == Arg(t, 2) IN
  /\ OnBlock(t, "free")
  /\ block' = [block EXCEPT ![o] = "dead"]
  /\ Become(t, <<>>)
  /\ UNCHANGED <<ptr, counts, destructed, object>>

(* The handle after reset, and the right-hand side read only now. *)
Landed(t, h, g) ==
  fault' = IF Gone(h) \/ Gone(g) THEN "use_after_free" ELSE "none"

SetNull(t) ==
  LET h == Arg(t, 2) IN
  /\ At(t, "null") /\ Landed(t, h, h)
  /\ ptr' = [ptr EXCEPT ![h] = Null]
  /\ Become(t, <<>>) /\ UNCHANGED <<counts, memory>>

SetCopy(t) ==
  LET h == Arg(t, 2)
      g == Arg(t, 3)
      o == IF g = h THEN Null ELSE ptr[g]
  IN /\ At(t, "copy") /\ Landed(t, h, g)
     /\ ptr' = [ptr EXCEPT ![h] = o]
     /\ Become(t, IF o = Null THEN <<>> ELSE <<<<"inc", h>>>>)
     /\ UNCHANGED <<counts, memory>>

SetMove_KeepsSource(t) ==
  LET h == Arg(t, 2)
      g == Arg(t, 3)
  IN /\ At(t, "move") /\ Landed(t, h, g)
     /\ ptr' = [ptr EXCEPT ![h] = ptr[g]]
     /\ Become(t, <<>>) /\ UNCHANGED <<counts, memory>>
SetMove(t) ==
  LET h == Arg(t, 2)
      g == Arg(t, 3)
  IN /\ At(t, "move") /\ Landed(t, h, g)
     /\ ptr' = [ptr EXCEPT ![h] = ptr[g], ![g] = Null]
     /\ Become(t, <<>>) /\ UNCHANGED <<counts, memory>>

SetTaken(t) ==
  LET h == Arg(t, 2) IN
  /\ At(t, "take") /\ Landed(t, h, h)
  /\ ptr' = [ptr EXCEPT ![h] = Arg(t, 3)]
  /\ Become(t, <<>>) /\ UNCHANGED <<counts, memory>>

(* inc_strong_ref or inc_weak_ref for a handle that was copied. *)
Inc(t) ==
  LET h == Arg(t, 2)
      o == ptr[h]
  IN /\ At(t, "inc")
     /\ fault' = IF block[o] = "live" THEN "none" ELSE "use_after_free"
     /\ \/ /\ h \in Strong /\ UNCHANGED weak_ref_num
           /\ strong_ref_num' = [strong_ref_num EXCEPT ![o] = @ + 1]
        \/ /\ h \in Weak /\ UNCHANGED strong_ref_num
           /\ weak_ref_num' = [weak_ref_num EXCEPT ![o] = @ + 1]
     /\ Become(t, <<>>) /\ UNCHANGED <<ptr, memory>>

-----------------------------------------------------------------------------
Run(t) == \/ DecStrong(t) \/ LastStrong(t) \/ WeakLeft(t)
          \/ DecWeak(t) \/ StrongLeft(t) \/ TestDestructed(t)
          \/ Destroy(t) \/ Members(t) \/ Free(t)
          \/ SetNull(t) \/ SetCopy(t) \/ SetMove(t) \/ SetTaken(t) \/ Inc(t)

Operation(t) ==
  \/ \E h \in Strong, o \in Objects : MakeShared(t, h, o)
  \/ \E h \in Handles : Reset(t, h)
  \/ \E h, g \in Handles, how \in {"copy", "move"} : Assign(t, h, g, how)
  \/ \E w \in Weak, p \in Strong : AssignWeak(t, w, p)
  \/ \E h \in Strong, w \in Weak : Lock(t, h, w)

Next == \E t \in Threads : Run(t) \/ Operation(t)

Spec == Init /\ [][Next]_vars
(* A thread that is in a call keeps running. *)
FairSpec == Spec /\ \A t \in Threads : WF_vars(Run(t))

-----------------------------------------------------------------------------
(* Properties. *)

Label == {"dec_strong", "last_strong", "weak_left", "dec_weak", "strong_left",
          "destructed", "destroy", "members", "free"} \cup Assigning

(* The handles, control blocks and frames have their types; the counters   *)
(* never wrap below zero.                                                  *)
TypeOK ==
  /\ ptr \in [Handles -> Objects \cup {Null}]
  /\ strong_ref_num \in [Objects -> Nat]
  /\ weak_ref_num \in [Objects -> Nat]
  /\ destructed \in [Objects -> BOOLEAN]
  /\ object \in [Objects -> {"none", "live", "dying", "dead"}]
  /\ block \in [Objects -> {"none", "live", "dead"}]
  /\ \A t \in Threads : \A fr \in Frames(t) :
       fr[1] \in Label /\ fr[2] \in Objects \cup Handles
  /\ fault \in {"none", "terminated", "assert", "use_after_free",
                 "double_destroy"}

(* The threads that have frame fr on their stacks. *)
Pending(fr) == {t \in Threads : fr \in Frames(t)}
Settled(o, kind) == {h \in kind : ptr[h] = o /\ ~Busy(h)}

(* In every state, within calls too, a counter is the number of handles    *)
(* that point to the object, of decrements still to come (one at most in a *)
(* thread), and of temporaries about to be moved into a handle.            *)
CountsExact ==
  /\ TypeOK
  /\ fault = "none" => \A o \in Objects :
       /\ strong_ref_num[o] = Cardinality(Settled(o, Strong))
                                + Cardinality(Pending(<<"dec_strong", o>>))
       /\ weak_ref_num[o] = Cardinality(Settled(o, Weak))
                              + Cardinality(Pending(<<"dec_weak", o>>))
                              + Cardinality(UNION {Pending(<<"take", w, o>>)
                                                    : w \in Weak})

(* No assertion fails, nothing is destroyed twice, and no call touches a   *)
(* control block or a handle whose memory was released.                    *)
NoFault == fault \in {"none", "terminated"}

(* A handle at rest never dangles: a SharedPtr's object is alive, and a    *)
(* WeakPtr's control block still there.                                    *)
NoDangling ==
  fault = "none" =>
    \A h \in Handles : ptr[h] # Null /\ ~Busy(h) =>
      /\ block[ptr[h]] = "live"
      /\ h \in Strong => object[ptr[h]] = "live"

(* When no call is in progress, an object without owners is destroyed and  *)
(* a control block without handles released; no weak handle delays the     *)
(* one, no order of the last two releases loses the other.                 *)
NoLeak ==
  fault = "none" /\ (\A t \in Threads : stack[t] = <<>>) =>
    \A o \in Objects :
      /\ object[o] \in {"live", "dying"} => \E h \in Strong : ptr[h] = o
      /\ block[o] = "live" => \E h \in Handles : ptr[h] = o

(* Every call ends, whatever chain of objects it drops. *)
CallsEnd == \A t \in Threads :
              stack[t] # <<>> ~> stack[t] = <<>>

(* dec_strong_ref's assert(!destructed), shared_ptr.h:28. *)
AssertHolds == fault # "assert"
=============================================================================
