------------------------------ MODULE MCOutbox ------------------------------
(* Two events, two workers, three attempts and two faults. *)
EXTENDS Outbox
=============================================================================
