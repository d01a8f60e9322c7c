------------------------------ MODULE MCPxAttr ------------------------------
(* PxAttr for TLC: sockets and threads are alike.                          *)
EXTENDS PxAttr, TLC

Symmetry == Permutations(Sockets) \cup Permutations(Threads)

=============================================================================
