--------------------------- MODULE MCIdempotency ---------------------------
(* Four requests with one key, two payloads, two faults. *)
EXTENDS Idempotency, TLC

Symmetry == Permutations(Attempts) \cup Permutations(Payloads)
=============================================================================
