----------------------------- MODULE MCDynArray -----------------------------
(* An instance of DynArray for TLC.  No property depends on call before a  *)
(* step; the elements are alike.                                           *)
EXTENDS DynArray

AllButCall == <<kind, array, pc, sound>>
Symmetry == Permutations(Values)
=============================================================================
