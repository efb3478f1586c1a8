------------------------------- MODULE Outbox -------------------------------
(***************************************************************************)
(* The outbox publisher (src/services/outbox-service.js, run by the timer  *)
(* of src/server.js): workers claim events that business transactions have *)
(* inserted, deliver them to an external service and record the outcome.   *)
(* Every publishOne has a fresh worker id; a model worker runs one         *)
(* publishOne after another and the id of one that is over is Gone.        *)
(***************************************************************************)
EXTENDS Integers

CONSTANTS
    MaxEvents,      \* bound: events, numbered by created_at
    Workers,        \* publishOne loops of all server processes
    Nobody,         \* locked_by IS NULL
    Gone,           \* locked_by names a publishOne that is over
    MaxAttempts,    \* attempts before the dead letter, 10 in the code
    MaxFaults       \* bound: crashes, statement errors and slow deliveries

ASSUME OutboxAssumption ==
    /\ MaxEvents \in Nat
    /\ Nobody \notin Workers /\ Gone \notin Workers /\ Nobody # Gone
    /\ MaxAttempts \in Nat \ {0}
    /\ MaxFaults \in Nat

VARIABLES
    row,        \* row[e]: the row of outbox_events, from its COMMIT on
    job,        \* job[w]: where the publishOne of worker w is
    deliveries, \* deliveries[e]: how often the service has received e
    faults      \* how many faults there have been

outboxVars == <<row, job, deliveries, faults>>

Events == 1..MaxEvents

NoRow == [owner |-> Nobody]

(* old: locked_at is more than 5 minutes ago; due: next_attempt_at is over. *)
Row == [owner: Workers \cup {Nobody, Gone}, old: BOOLEAN, due: BOOLEAN,
        attempts: Nat, published: BOOLEAN, dead: BOOLEAN]

IdleJob == [step |-> "idle"]

Job == [step: {"publish", "ack", "fail"}, event: Events, attempt: Nat \ {0}]

OutboxTypeOK ==
    /\ row \in [Events -> Row \cup {NoRow}]
    /\ job \in [Workers -> Job \cup {IdleJob}]
    /\ deliveries \in [Events -> Nat]
    /\ faults \in 0..MaxFaults

OutboxInit ==
    /\ row = [e \in Events |-> NoRow]
    /\ job = [w \in Workers |-> IdleJob]
    /\ deliveries = [e \in Events |-> 0]
    /\ faults = 0

Fault ==
    /\ faults < MaxFaults
    /\ faults' = faults + 1

Settled(e) == row[e] # NoRow /\ (row[e].published \/ row[e].dead)

(* A business transaction commits its event; created_at is when it began,  *)
(* so events may appear out of order.                                      *)
Insert(e) ==
    /\ row[e] = NoRow
    /\ row' = [row EXCEPT ![e] =
                 [owner |-> Nobody, old |-> FALSE, due |-> TRUE, attempts |-> 0,
                  published |-> FALSE, dead |-> FALSE]]
    /\ UNCHANGED <<job, deliveries, faults>>

(* Mutant of Claimable: the lock of another worker is not looked at. *)
ClaimableThoughLocked(e) ==
    row[e] # NoRow /\ ~row[e].published /\ ~row[e].dead /\ row[e].due

(* Mutant of Claimable: a lock is for ever. *)
ClaimableIfNeverLocked(e) ==
    /\ row[e] # NoRow
    /\ ~row[e].published /\ ~row[e].dead /\ row[e].due
    /\ row[e].owner = Nobody

----------------------------------------------------------------------------
(* claimNext: the oldest event that is due and not locked.  SKIP LOCKED    *)
(* and the row lock make SELECT and UPDATE one step.                       *)
Claimable(e) ==
    /\ row[e] # NoRow
    /\ ~row[e].published
    /\ ~row[e].dead
    /\ row[e].due
    /\ row[e].owner = Nobody \/ row[e].old

Claim(w, e) ==
    LET attempt == row[e].attempts + 1 IN
    /\ job[w] = IdleJob
    /\ Claimable(e)
    /\ \A d \in 1..(e - 1) : ~Claimable(d)
    /\ row' = [row EXCEPT ![e].owner = w, ![e].old = FALSE, ![e].attempts = attempt]
    /\ job' = [job EXCEPT ![w] = [step |-> "publish", event |-> e, attempt |-> attempt]]
    /\ UNCHANGED <<deliveries, faults>>

(* publisher.publish resolves, or rejects: before or after the service has *)
(* taken the event.                                                        *)
Publish(w) ==
    /\ job[w].step = "publish"
    /\ \E received, resolved \in BOOLEAN :
          /\ resolved => received
          /\ deliveries' = [deliveries EXCEPT ![job[w].event] =
                              IF received THEN @ + 1 ELSE @]
          /\ job' = [job EXCEPT ![w].step = IF resolved THEN "ack" ELSE "fail"]
    /\ UNCHANGED <<row, faults>>

(* The statements that end an attempt have WHERE id AND locked_by. *)
Owns(w) == row[job[w].event].owner = w

Acknowledged(w) ==
    IF Owns(w)
    THEN [row EXCEPT ![job[w].event].published = TRUE,
                     ![job[w].event].owner = Nobody, ![job[w].event].old = FALSE]
    ELSE row

Ack(w) ==
    /\ job[w].step = "ack"
    /\ row' = Acknowledged(w)
    /\ job' = [job EXCEPT ![w] = IdleJob]
    /\ UNCHANGED <<deliveries, faults>>

(* That statement fails, or its answer is lost: it is in the same try. *)
AckError(w) ==
    /\ job[w].step = "ack"
    /\ Fault
    /\ row' \in {row, Acknowledged(w)}
    /\ job' = [job EXCEPT ![w].step = "fail"]
    /\ UNCHANGED deliveries

(* Mutant of Fail: the UPDATE does not ask whose lock it is. *)
FailAnyLock(w) ==
    /\ job[w].step = "fail"
    /\ row' = [row EXCEPT ![job[w].event].owner = Nobody, ![job[w].event].due = FALSE,
                          ![job[w].event].dead = job[w].attempt >= MaxAttempts]
    /\ job' = [job EXCEPT ![w] = IdleJob]
    /\ UNCHANGED <<deliveries, faults>>

Fail(w) ==
    LET e == job[w].event IN
    /\ job[w].step = "fail"
    /\ row' = IF Owns(w)
              THEN [row EXCEPT ![e].owner = Nobody, ![e].old = FALSE, ![e].due = FALSE,
                               ![e].dead = job[w].attempt >= MaxAttempts]
              ELSE row
    /\ job' = [job EXCEPT ![w] = IdleJob]
    /\ UNCHANGED <<deliveries, faults>>

(* The process dies, is shut down, or the UPDATE of the catch fails. *)
Abort(w) ==
    /\ job[w] # IdleJob
    /\ Fault
    /\ row' = IF Owns(w) THEN [row EXCEPT ![job[w].event].owner = Gone] ELSE row
    /\ job' = [job EXCEPT ![w] = IdleJob]
    /\ UNCHANGED deliveries

(* Five minutes after the claim.  The delivery has no timeout of its own:  *)
(* a slow one, a fault, outlives the lock of its worker.                   *)
LockExpires(e) ==
    /\ row[e].owner # Nobody
    /\ ~row[e].old
    /\ IF row[e].owner = Gone THEN UNCHANGED faults ELSE Fault
    /\ row' = [row EXCEPT ![e].old = TRUE]
    /\ UNCHANGED <<job, deliveries>>

(* The retry delay is over. *)
RetryDue(e) ==
    /\ row[e] # NoRow
    /\ ~row[e].due
    /\ row' = [row EXCEPT ![e].due = TRUE]
    /\ UNCHANGED <<job, deliveries, faults>>

----------------------------------------------------------------------------
OutboxNext ==
    \/ \E e \in Events : Insert(e) \/ LockExpires(e) \/ RetryDue(e)
    \/ \E w \in Workers :
          \/ \E e \in Events : Claim(w, e)
          \/ Publish(w)
          \/ Ack(w)
          \/ AckError(w)
          \/ Fail(w)
          \/ Abort(w)

OutboxSpec == OutboxInit /\ [][OutboxNext]_outboxVars

(* The timer keeps calling publishBatch, a delivery ends (fetch gives up   *)
(* in the end), statements return, and clocks go on.                       *)
Fairness ==
    /\ \A w \in Workers :
          /\ WF_outboxVars(\E e \in Events : Claim(w, e))
          /\ WF_outboxVars(Publish(w))
          /\ WF_outboxVars(Ack(w) \/ Fail(w))
    /\ \A e \in Events :
          /\ WF_outboxVars(RetryDue(e))
          /\ WF_outboxVars(row[e].owner = Gone /\ LockExpires(e))

FairSpec == OutboxSpec /\ Fairness

----------------------------------------------------------------------------
(* A lock names a worker that is at this very attempt, and a worker whose  *)
(* event is no longer its own owes that to a fault: without one, no two    *)
(* workers ever deliver the same event.                                    *)
OneWorkerPerEvent ==
    /\ \A e \in Events : row[e].owner \in Workers =>
          LET theirs == job[row[e].owner] IN
          theirs # IdleJob /\ theirs.event = e /\ theirs.attempt = row[e].attempts
    /\ \A w \in Workers : job[w] # IdleJob /\ ~Owns(w) => faults > 0

(* A published event has been received; one given up has had all its       *)
(* attempts; none is both, and nobody has it locked.                       *)
NothingLost ==
    \A e \in Events : Settled(e) =>
        /\ row[e].published => deliveries[e] > 0
        /\ row[e].dead => row[e].attempts >= MaxAttempts
        /\ ~(row[e].published /\ row[e].dead)
        /\ row[e].owner = Nobody

(* Every event is published or goes to the dead letters in the end,        *)
(* whatever crashes meanwhile.                                             *)
EventuallySettled == \A e \in Events : row[e] # NoRow ~> Settled(e)
=============================================================================
