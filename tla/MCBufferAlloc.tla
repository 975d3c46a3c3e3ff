--------------------------- MODULE MCBufferAlloc ---------------------------
(* Instances of BufferAlloc for TLC. *)
EXTENDS BufferAlloc

(* Clients that only ever grow a block. *)
Growing == {p \in Sizes \X Sizes : p[1] <= p[2]}
=============================================================================
