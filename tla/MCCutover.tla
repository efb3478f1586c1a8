----------------------------- MODULE MCCutover -----------------------------
(***************************************************************************)
(* A plan of four gates: one before the publication, health_readiness with *)
(* its two steps, one after it, and uat_signoff.  Two runs, two operators. *)
(***************************************************************************)
EXTENDS Cutover, TLC

GateSummaries == {2, 5, 7, 9}
PublicSteps == {4, 6}

Symmetry == Permutations(Runs) \cup Permutations(Operators)
=============================================================================
