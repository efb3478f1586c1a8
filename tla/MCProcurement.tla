--------------------------- MODULE MCProcurement ---------------------------
(* Two requests, two connections, four receipts, quantities up to three. *)
EXTENDS Procurement, TLC

Symmetry == Permutations(Requests) \cup Permutations(Procs)
=============================================================================
