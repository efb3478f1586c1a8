----------------------------- MODULE CutoverGates -----------------------------
(***************************************************************************)
(* What a production cutover promises, whatever happens to the processes:  *)
(* a run passes the entries of the gate plan one after the other and a     *)
(* failure ends it; only a run that has passed everything before the       *)
(* publication makes the service public; GO is given once, and only to a   *)
(* run that has passed everything.                                         *)
(***************************************************************************)
EXTENDS Integers

CONSTANTS Runs, None, Entries, Publication

VARIABLES
    stage,      \* stage[r]: how many entries r has passed, or Failed
    public,     \* the run that made the service public, or None
    evidence    \* the run that has been given GO, or None

vars == <<stage, public, evidence>>

Failed == Entries + 1

Init ==
    /\ stage = [r \in Runs |-> 0]
    /\ public = None
    /\ evidence = None

Pass(r) ==
    /\ stage[r] < Entries
    /\ stage' = [stage EXCEPT ![r] = @ + 1]
    /\ UNCHANGED <<public, evidence>>

Fail(r) ==
    /\ stage' = [stage EXCEPT ![r] = Failed]
    /\ UNCHANGED <<public, evidence>>

Open(r) ==
    /\ stage[r] = Publication - 1
    /\ public = None
    /\ public' = r
    /\ UNCHANGED <<stage, evidence>>

Close ==
    /\ public' = None
    /\ UNCHANGED <<stage, evidence>>

Go(r) ==
    /\ evidence = None
    /\ stage[r] = Entries
    /\ evidence' = r
    /\ UNCHANGED <<stage, public>>

Next == Close \/ \E r \in Runs : Pass(r) \/ Fail(r) \/ Open(r) \/ Go(r)

Spec == Init /\ [][Next]_vars
=============================================================================
