---------------------------- MODULE Idempotency ----------------------------
(***************************************************************************)
(* createIdempotencyMiddleware (src/idempotency.js) around a handler that  *)
(* commits one business transaction: the life of one (user, key) pair      *)
(* under HTTP requests that carry it at the same time or one after another,*)
(* with their payloads.  Each statement on api_idempotency_keys is an      *)
(* action; the handler and its transaction are one.                        *)
(***************************************************************************)
EXTENDS Integers, FiniteSets

CONSTANTS
    Attempts,       \* HTTP requests that carry the key
    Payloads,       \* what requestHash tells apart
    SlowHandlers,   \* are there handlers that run for more than two minutes?
    MaxFaults       \* bound: crashes, lost COMMITs, failed statements, slow handlers

ASSUME IdempotencyAssumption ==
    /\ IsFiniteSet(Attempts)
    /\ SlowHandlers \in BOOLEAN
    /\ MaxFaults \in Nat

VARIABLES
    record,     \* the row of api_idempotency_keys
    attempt,    \* attempt[a]: where request a is, its payload and outcome
    committed,  \* the requests whose business transaction has committed
    answer,     \* answer[a]: what the client of a has been told
    faults      \* how many faults there have been

vars == <<record, attempt, committed, answer, faults>>

NoRecord == [status |-> "NONE"]

(* What a handler ends with: 2xx, a 4xx refusal, or 5xx. *)
Outcomes == {"ok", "refused", "failed"}

(* A response: whose execution it reports, and how that ended. *)
Response == [by: Attempts, outcome: Outcomes]

Record ==
         {NoRecord}
    \cup [status: {"PROCESSING"}, hash: Payloads, old: BOOLEAN]
    \cup [status: {"COMPLETED"}, hash: Payloads, response: Response]

Steps == {"idle", "look", "reclaim", "run", "end", "done"}

(* ... or what a client is told that reports no execution. *)
NoResponse == [outcome: {"none", "conflict", "busy", "error", "lost"}]

Told(what) == [outcome |-> what]

TypeOK ==
    /\ record \in Record
    /\ attempt \in [Attempts -> [step: Steps, payload: Payloads, outcome: Outcomes]]
    /\ committed \subseteq Attempts
    /\ answer \in [Attempts -> Response \cup NoResponse]
    /\ faults \in 0..MaxFaults

Init ==
    /\ record = NoRecord
    /\ attempt \in [Attempts -> [step: {"idle"}, payload: Payloads, outcome: {"failed"}]]
    /\ committed = {}
    /\ answer = [a \in Attempts |-> Told("none")]
    /\ faults = 0

(* Request a goes on to a step; or is over, with the answer its client gets. *)
Goto(a, step) ==
    /\ attempt' = [attempt EXCEPT ![a].step = step]
    /\ UNCHANGED answer

Reply(a, what) ==
    /\ attempt' = [attempt EXCEPT ![a].step = "done"]
    /\ answer' = [answer EXCEPT ![a] = what]

Fault ==
    /\ faults < MaxFaults
    /\ faults' = faults + 1

----------------------------------------------------------------------------
(* Mutant of Insert: a conflict is not noticed. *)
InsertAnyway(a) ==
    /\ attempt[a].step = "idle"
    /\ record' = [status |-> "PROCESSING", hash |-> attempt[a].payload, old |-> FALSE]
    /\ Goto(a, "run")
    /\ UNCHANGED <<committed, faults>>

(* INSERT ... ON CONFLICT DO NOTHING: the winner runs the handler. *)
Insert(a) ==
    /\ attempt[a].step = "idle"
    /\ IF record = NoRecord
       THEN /\ record' = [status |-> "PROCESSING", hash |-> attempt[a].payload,
                          old |-> FALSE]
            /\ Goto(a, "run")
       ELSE Goto(a, "look") /\ UNCHANGED record
    /\ UNCHANGED <<committed, faults>>

(* Mutant of Matches: the hash is not compared. *)
MatchesAnything(a) == record # NoRecord

Matches(a) == record # NoRecord /\ record.hash = attempt[a].payload

(* The SELECT after a conflict: replay, refuse or try to take over. *)
Look(a) ==
    /\ attempt[a].step = "look"
    /\ \/ ~Matches(a) /\ Reply(a, Told("conflict"))
       \/ Matches(a) /\ record.status = "COMPLETED" /\ Reply(a, record.response)
       \/ Matches(a) /\ record.status = "PROCESSING" /\ Goto(a, "reclaim")
    /\ UNCHANGED <<record, committed, faults>>

(* Mutant of Reclaim: the age of the row is not looked at. *)
ReclaimYoung(a) ==
    /\ attempt[a].step = "reclaim"
    /\ IF record.status = "PROCESSING"
       THEN record' = [record EXCEPT !.old = FALSE] /\ Goto(a, "run")
       ELSE Reply(a, Told("busy")) /\ UNCHANGED record
    /\ UNCHANGED <<committed, faults>>

(* UPDATE ... WHERE status='PROCESSING' AND updated_at is 2 minutes old.   *)
Reclaim(a) ==
    /\ attempt[a].step = "reclaim"
    /\ IF record.status = "PROCESSING" /\ record.old
       THEN record' = [record EXCEPT !.old = FALSE] /\ Goto(a, "run")
       ELSE Reply(a, Told("busy")) /\ UNCHANGED record
    /\ UNCHANGED <<committed, faults>>

(* The handler: its transaction commits, is refused or rolled back, or     *)
(* commits while the answer to COMMIT is lost, which looks like a failure. *)
Handle(a, outcome) ==
    /\ attempt[a].step = "run"
    /\ attempt' = [attempt EXCEPT ![a].step = "end", ![a].outcome = outcome]
    /\ \/ outcome = "ok" /\ committed' = committed \cup {a} /\ UNCHANGED faults
       \/ outcome # "ok" /\ UNCHANGED <<committed, faults>>
       \/ outcome = "failed" /\ committed' = committed \cup {a} /\ Fault
    /\ UNCHANGED <<record, answer>>

(* res.end: a 5xx deletes the row, whoever it belongs to by now; anything  *)
(* else completes it with the response, if it is still there.              *)
ResponseOf(a) == [by |-> a, outcome |-> attempt[a].outcome]

Ended(a) ==
    IF attempt[a].outcome = "failed" \/ record = NoRecord THEN NoRecord
    ELSE [status |-> "COMPLETED", hash |-> record.hash, response |-> ResponseOf(a)]

End(a) ==
    /\ attempt[a].step = "end"
    /\ record' = Ended(a)
    /\ Reply(a, ResponseOf(a))
    /\ UNCHANGED <<committed, faults>>

(* The statement of res.end fails, or its answer is lost: the row is       *)
(* deleted, if that works, and the client is told of an error.             *)
EndError(a) ==
    /\ attempt[a].step = "end"
    /\ Fault
    /\ record' \in {record, Ended(a), NoRecord}
    /\ Reply(a, Told("error"))
    /\ UNCHANGED committed

(* The server dies with every request in it. *)
InFlight == {a \in Attempts : attempt[a].step \in {"look", "reclaim", "run", "end"}}

Crash ==
    /\ InFlight # {}
    /\ Fault
    /\ attempt' = [a \in Attempts |->
                     IF a \in InFlight THEN [attempt[a] EXCEPT !.step = "done"]
                     ELSE attempt[a]]
    /\ answer' = [a \in Attempts |-> IF a \in InFlight THEN Told("lost") ELSE answer[a]]
    /\ UNCHANGED <<record, committed>>

(* Two minutes pass.  The statements of a handler time out after 5 s, so   *)
(* the request is gone by then, unless it waits for an object store or a   *)
(* scanner, whose calls may take longer.                                   *)
Age ==
    /\ record.status = "PROCESSING"
    /\ ~record.old
    /\ IF InFlight = {} THEN UNCHANGED faults ELSE SlowHandlers /\ Fault
    /\ record' = [record EXCEPT !.old = TRUE]
    /\ UNCHANGED <<attempt, committed, answer>>

Next ==
    \/ \E a \in Attempts :
          \/ Insert(a)
          \/ Look(a)
          \/ Reclaim(a)
          \/ \E outcome \in Outcomes : Handle(a, outcome)
          \/ End(a)
          \/ EndError(a)
    \/ Crash
    \/ Age

Spec == Init /\ [][Next]_vars

----------------------------------------------------------------------------
Running == {a \in Attempts : attempt[a].step \in {"run", "end"}}

(* No two requests with the key are ever inside the handler together, if   *)
(* no handler outlives the two minutes.                                    *)
OneAtATime == ~SlowHandlers => \A a, b \in Running : a = b

(* A client that is told of a result is told the truth, its own or a       *)
(* replayed one: it was committed if the answer says so and was not if the *)
(* answer is a refusal; and it is a result of the client's own payload, if *)
(* no handler outlives the two minutes.                                    *)
AnswersAreTrue ==
    \A a \in Attempts : answer[a] \in Response =>
        LET b == answer[a].by IN
        /\ SlowHandlers \/ attempt[b].payload = attempt[a].payload
        /\ answer[a].outcome = "ok" => b \in committed
        /\ answer[a].outcome = "refused" => b \notin committed

(* Every execution beyond the first, committed or under way, is paid for   *)
(* by a fault: retries and double clicks alone never execute a request     *)
(* twice.                                                                  *)
RepeatsNeedFaults == Cardinality(committed \cup Running) <= 1 + faults

(* develop docs/30_Phase34_39_운영완성체인.md:22: a repeated request leaves  *)
(* one ledger entry.                                                       *)
AtMostOnce == Cardinality(committed) <= 1
=============================================================================
