--------------------------- MODULE RadixTreeWord ---------------------------
(***************************************************************************)
(* RadixTree with keys that count_leading_zero counts the bits of rightly: *)
(* those of 32 bits, which the repository uses, and on other targets than  *)
(* x86 those of every width.                                               *)
(***************************************************************************)
EXTENDS RadixTree

ASSUME WordAssumption == KeyBits = ClzBits
=============================================================================
