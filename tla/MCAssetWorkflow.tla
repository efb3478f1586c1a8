-------------------------- MODULE MCAssetWorkflow --------------------------
(* One asset, a manager, an administrator and a plain user, two requests   *)
(* of every type and plans of one and of two steps.                        *)
EXTENDS AssetWorkflow, TLC

MCPlans == {<<"MANAGER">>, <<"MANAGER", "ADMIN">>}

(* For the stale return: assignments and returns only, one step each. *)
OneStepPlans == {<<"MANAGER">>}

RequestSymmetry == Permutations(Requests)
=============================================================================
