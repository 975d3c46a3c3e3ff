----------------------------- MODULE BlockArena -----------------------------
(***************************************************************************)
(* What a client of an Alloc over a fixed buffer is promised: every live   *)
(* block lies in the buffer, has the alignment it was asked for and shares *)
(* no byte with another live block; a refused request returns the null     *)
(* pointer and changes nothing else.                                       *)
(* The interface is class Alloc of base/alloc.h as BufferAlloc keeps it;   *)
(* how a place is searched for, and the descriptors, are not seen here.    *)
(***************************************************************************)
EXTENDS Integers

CONSTANTS Base,         \* the address of the buffer
          BufferSize,   \* its size in bytes
          NullPtr       \* the null pointer

VARIABLES blocks,       \* the live blocks, as [ptr, size, alignment]
          ret,          \* what the last call that returns a pointer returned
          open          \* FALSE once the arena is destroyed or the program died

Block == [ptr : Nat, size : Nat, alignment : Nat \ {0}]

(* Two blocks share no byte, and no two live blocks have one address. *)
Apart(b, c) == /\ b.ptr # c.ptr
               /\ \/ b.ptr + b.size <= c.ptr
                  \/ c.ptr + c.size <= b.ptr

Placed(b) == /\ b.ptr + b.size <= BufferSize
             /\ (Base + b.ptr) % b.alignment = 0

Init == blocks = {} /\ ret = NullPtr /\ open = TRUE

(* alloc returned b. *)
Alloc(b) == /\ b \in Block /\ Placed(b)
            /\ \A c \in blocks : Apart(b, c)
            /\ blocks' = blocks \cup {b} /\ ret' = b.ptr

(* realloc returned b for the block old, which may overlap b: it is gone. *)
Realloc(old, b) == /\ b \in Block /\ Placed(b)
                   /\ \A c \in blocks \ {old} : Apart(b, c)
                   /\ blocks' = (blocks \ {old}) \cup {b} /\ ret' = b.ptr

(* alloc, realloc or realloc_in_place returned the null pointer. *)
Refuse == ret' = NullPtr /\ UNCHANGED blocks

Release(old) == blocks' = blocks \ {old} /\ UNCHANGED ret

Next == \/ /\ open
           /\ UNCHANGED open
           /\ \/ \E b \in blocks' : Alloc(b)
              \/ \E old \in blocks, b \in blocks' : Realloc(old, b)
              \/ \E old \in blocks : Release(old)
              \/ Refuse
        \/ open /\ open' = FALSE /\ UNCHANGED <<blocks, ret>>

Spec == Init /\ [][Next]_<<blocks, ret, open>>
=============================================================================
