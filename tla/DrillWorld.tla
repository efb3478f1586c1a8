------------------------------ MODULE DrillWorld ------------------------------
(* What the drills have in common: the clock, and a number of incidents.   *)
EXTENDS Integers

CONSTANTS
    None,
    MaxTime,        \* bound: the clock
    MaxIncidents    \* bound: failures, kills and interventions

ASSUME DrillWorldAssumption ==
    None \notin Int /\ MaxTime \in Nat /\ MaxIncidents \in Nat

VARIABLES time, mishaps

Times == 0..MaxTime

Mishap ==
    /\ mishaps < MaxIncidents
    /\ mishaps' = mishaps + 1

TimePasses ==
    /\ time < MaxTime
    /\ time' = time + 1
    /\ UNCHANGED mishaps
=============================================================================
