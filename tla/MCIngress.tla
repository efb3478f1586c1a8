------------------------------ MODULE MCIngress ------------------------------
(* Five runs of the four commands, in any order and at once, two faults. *)
EXTENDS Ingress, TLC

AnyRun == Permutations(Runs)
=============================================================================
