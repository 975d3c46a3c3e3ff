---------------------------- MODULE MCRadixTree ----------------------------
(* An instance of RadixTree for TLC: no property depends on call before a  *)
(* step.                                                                   *)
EXTENDS RadixTreeWord

AllButCall == <<tree, pc, arg, regs>>
=============================================================================
