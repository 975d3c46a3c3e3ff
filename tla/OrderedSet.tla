----------------------------- MODULE OrderedSet -----------------------------
(***************************************************************************)
(* What peff's sets, the tree and the hash table, promise: a set of keys,  *)
(* for each call exactly the change it asks for.  An insertion may fail    *)
(* for want of memory; then, and for a key already present, nothing        *)
(* changes.                                                                *)
(***************************************************************************)
CONSTANTS Keys, NoCall

VARIABLES keys,      \* the keys in the container
          call       \* the last call, as <<operation, key>>

Init == keys = {} /\ call = NoCall

Insert(k) == /\ call' = <<"insert", k>>
             /\ keys' \in {keys, keys \cup {k}}

Remove(k) == /\ k \in keys
             /\ call' = <<"remove", k>>
             /\ keys' = keys \ {k}

Clear == call' = <<"clear">> /\ keys' = {}

Next == Clear \/ \E k \in Keys : Insert(k) \/ Remove(k)

Spec == Init /\ [][Next]_<<keys, call>>
=============================================================================
