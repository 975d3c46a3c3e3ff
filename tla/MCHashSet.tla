----------------------------- MODULE MCHashSet -----------------------------
(* An instance of HashSet for TLC: the first and the last element have the *)
(* same hash code.  No property depends on call before a step.             *)
EXTENDS HashSet

Hashes == [k \in Nodes |-> IF k = Cardinality(Nodes) THEN 1 ELSE k]
AllButCall ==
  <<_buckets, new_buckets, _size, links, live, pc, args, honest>>
=============================================================================
