------------------------------- MODULE GateSteps -------------------------------
(***************************************************************************)
(* The steps by which the gates after publication try production: they     *)
(* write the test actors, log them in over the public route, write an      *)
(* asset twice under one idempotency key and remove it again, read the     *)
(* logs of the change window and look at the health of the database.       *)
(* Module Cutover runs them as steps of gates; here is what they do.       *)
(*                                                                         *)
(* A step may be killed at any point by its time limit.  What it has       *)
(* started elsewhere goes on: the transaction of the worker in the         *)
(* container, and the first write in the server, may be applied while the  *)
(* step cleans up or a later run is under way.  A request or a command     *)
(* may time out with or without its effect, and be answered by a 5xx.      *)
(*                                                                         *)
(* The unit of time is the 30 s of a TOTP step, and the clock of the       *)
(* runner is the server's (the server accepts the steps before and after). *)
(* A step that finds the window closed, or a file of secrets changed, ends *)
(* before it does anything; the confirmations are given.                   *)
(***************************************************************************)
EXTENDS DrillWorld, Sequences

CONSTANTS
    Actors,         \* the test actors, in the order of their logins
    Admin,          \* the one that writes
    MaxAttempts,    \* logins of an actor in 15 minutes: 10 in the code
    MaxTries        \* bound: runs of the gates

ASSUME GateStepsAssumption ==
    /\ Actors \in Seq(STRING) /\ Len(Actors) > 0
    /\ \E i \in DOMAIN Actors : Actors[i] = Admin
    /\ MaxAttempts \in Nat /\ MaxTries \in Nat \ {0}

VARIABLES
    try,        \* the run of the gates, and where it stands
    account,    \* of each actor, what the database holds
    workers,    \* of each run, the transaction that provisions the actors
    copies,      \* the runs whose worker lies in the container
    writes,     \* of each run, its first write in the server
    marked,     \* of each run, the rows of its marker asset in production
    errors,     \* a 5xx has been logged since the window began
    results     \* of each run, the verdicts of its steps

inProduction == <<account, workers, copies, writes, marked, errors>>
gateVars == <<try, inProduction, results>>

Tries == 1..MaxTries
Persons == {Actors[i] : i \in DOMAIN Actors}
GateStepNames == {"provision", "smoke", "idempotency", "logs", "health"}
Verdicts == {"none", "PASS", "FAIL", "killed"}

Places == {"copy", "execute", "remove", "password", "code", "wait", "retry",
           "reads", "logout", "write", "answer", "repeat", "count", "clean",
           "recount", "leave", "rescue", "look", "over"}

(* step, at: where the run is.  actor: the index of the one that logs in.  *)
(* bad: something was not as expected.  since: when a code was refused.    *)
(* refused: the second code was refused as well.                           *)
GatesTypeOK ==
    /\ try \in [run : Tries, step : GateStepNames, at : Places,
                actor : DOMAIN Actors, bad : BOOLEAN, since : Times,
                refused : BOOLEAN]
    /\ account \in [Persons -> [counter : Times \cup {None}, session : BOOLEAN,
                              logins : 0..MaxAttempts]]
    /\ workers \in [Tries -> {"none", "running", "done", "failed"}]
    /\ copies \subseteq Tries
    /\ writes \in [Tries -> {"none", "sent", "keyed", "done", "failed"}]
    /\ marked \in [Tries -> SUBSET {"key", "asset"}]
    /\ errors \in BOOLEAN
    /\ results \in [Tries -> [GateStepNames -> Verdicts]]

GatesInit ==
    /\ try = [run |-> 1, step |-> "provision", at |-> "copy", actor |-> 1,
              bad |-> FALSE, since |-> 0, refused |-> FALSE]
    /\ account = [n \in Persons |->
                    [counter |-> None, session |-> FALSE, logins |-> 0]]
    /\ workers = [r \in Tries |-> "none"]
    /\ copies = {}
    /\ writes = [r \in Tries |-> "none"]
    /\ marked = [r \in Tries |-> {}]
    /\ errors = FALSE
    /\ results = [r \in Tries |-> [s \in GateStepNames |-> "none"]]

At(step, place) == try.step = step /\ try.at = place
Move(place) == try' = [try EXCEPT !.at = place]
MoveBadly(place) == try' = [try EXCEPT !.at = place, !.bad = TRUE]

Who == Actors[try.actor]

(* Where each step begins, and the step that follows.                      *)
Begin == [provision |-> "copy", smoke |-> "password", idempotency |-> "password",
          logs |-> "look", health |-> "look"]
After == [provision |-> "smoke", smoke |-> "idempotency",
          idempotency |-> "logs", logs |-> "health"]
AdminIndex == CHOOSE i \in DOMAIN Actors : Actors[i] = Admin

(* The step ends with its verdict, and a pass begins the next one.         *)
Conclude(pass) ==
    /\ results' = [results EXCEPT ![try.run][try.step] =
                                    IF pass THEN "PASS" ELSE "FAIL"]
    /\ \/ /\ pass /\ try.step # "health"
          /\ LET next == After[try.step] IN
             try' = [try EXCEPT !.step = next, !.at = Begin[next], !.bad = FALSE,
                                !.actor = IF next = "idempotency"
                                          THEN AdminIndex ELSE 1]
       \/ /\ ~pass \/ try.step = "health"
          /\ Move("over")

----------------------------------------------------------------------------
(* The provisioning of the actors. *)

(* A copy that fails is not removed, for it is not known to be there.      *)
CopyWorker ==
    /\ At("provision", "copy")
    /\ \/ /\ copies' = copies \cup {try.run}
          /\ Move("execute")
          /\ UNCHANGED <<mishaps, results>>
       \/ /\ Mishap
          /\ copies' \in {copies, copies \cup {try.run}}
          /\ Conclude(FALSE)
    /\ UNCHANGED <<account, workers, writes, marked, errors, time>>

ExecuteWorker ==
    /\ At("provision", "execute") /\ workers[try.run] = "none"
    /\ workers' = [workers EXCEPT ![try.run] = "running"]
    /\ UNCHANGED <<try, account, copies, writes, marked, errors, results, time, mishaps>>

(* One transaction writes all the actors: the counter of the last code is  *)
(* forgotten and the sessions are removed.  Nobody waits for it when the   *)
(* runner has gone.                                                        *)
WorkerCommits(r) ==
    /\ workers[r] = "running"
    /\ workers' = [workers EXCEPT ![r] = "done"]
    /\ account' = [n \in Persons |->
                    [account[n] EXCEPT !.counter = None, !.session = FALSE]]
    /\ UNCHANGED <<try, copies, writes, marked, errors, results, time, mishaps>>

WorkerFails(r) ==
    /\ workers[r] = "running"
    /\ Mishap
    /\ workers' = [workers EXCEPT ![r] = "failed"]
    /\ UNCHANGED <<try, account, copies, writes, marked, errors, results, time>>

WorkerAnswers ==
    /\ At("provision", "execute")
    /\ \/ /\ workers[try.run] = "done"
          /\ Move("remove")
          /\ UNCHANGED mishaps
       \/ /\ workers[try.run] = "failed"
          /\ MoveBadly("remove")
          /\ UNCHANGED mishaps
       \/ /\ workers[try.run] # "none"
          /\ Mishap
          /\ MoveBadly("remove")
    /\ UNCHANGED <<inProduction, results, time>>

(* Mutant of RemoveWorker: that the worker could not be removed is         *)
(* swallowed, as it is after the other steps.                              *)
RemoveQuietly ==
    /\ At("provision", "remove")
    /\ \/ /\ copies' = copies \ {try.run}
          /\ UNCHANGED mishaps
       \/ /\ Mishap
          /\ copies' \in {copies, copies \ {try.run}}
    /\ Conclude(~try.bad)
    /\ UNCHANGED <<account, workers, writes, marked, errors, time>>

(* The worker is removed whatever happened, and if that fails so does the  *)
(* step.                                                                   *)
RemoveWorker ==
    /\ At("provision", "remove")
    /\ \/ /\ copies' = copies \ {try.run}
          /\ Conclude(~try.bad)
          /\ UNCHANGED mishaps
       \/ /\ Mishap
          /\ copies' \in {copies, copies \ {try.run}}
          /\ Conclude(FALSE)
    /\ UNCHANGED <<account, workers, writes, marked, errors, time>>

----------------------------------------------------------------------------
(* The login of an actor, in the smoke test and before the write. *)

(* The limiter counts every login, for only one that needs no code clears  *)
(* it.  Past the limit every answer is a refusal.                          *)
Password ==
    /\ try.at = "password"
    /\ \/ /\ account[Who].logins < MaxAttempts
          /\ account' = [account EXCEPT ![Who].logins = @ + 1]
          /\ Move("code")
       \/ /\ account[Who].logins >= MaxAttempts
          /\ MoveBadly(IF try.step = "smoke" THEN "logout" ELSE "rescue")
          /\ UNCHANGED account
    /\ UNCHANGED <<workers, copies, writes, marked, errors, results, time, mishaps>>

(* A code is accepted once: its step must be after the last one's.         *)
Unused(n) == account[n].counter # None => time > account[n].counter

LogIn ==
    /\ account' = [account EXCEPT ![Who].counter = time, ![Who].session = TRUE]
    /\ Move(IF try.step = "smoke" THEN "reads" ELSE "write")

Code ==
    /\ try.at = "code"
    /\ \/ Unused(Who) /\ LogIn
       \/ /\ ~Unused(Who)
          /\ try' = [try EXCEPT !.at = "wait", !.since = time]
          /\ UNCHANGED account
    /\ UNCHANGED <<workers, copies, writes, marked, errors, results, time, mishaps>>

(* Mutant of AwaitNextStep: the second code is sent at once.               *)
AwaitNothing ==
    /\ try.at = "wait"
    /\ Move("retry")
    /\ UNCHANGED <<inProduction, results, time, mishaps>>

(* A second after the next step of the clock has begun.                    *)
AwaitNextStep ==
    /\ try.at = "wait" /\ time > try.since
    /\ Move("retry")
    /\ UNCHANGED <<inProduction, results, time, mishaps>>

SecondCode ==
    /\ try.at = "retry"
    /\ \/ Unused(Who) /\ LogIn
       \/ /\ ~Unused(Who)
          /\ try' = [try EXCEPT !.refused = TRUE, !.bad = TRUE,
                        !.at = IF try.step = "smoke" THEN "reads" ELSE "rescue"]
          /\ UNCHANGED account
    /\ UNCHANGED <<workers, copies, writes, marked, errors, results, time, mishaps>>

(* The smoke test reads three views as the actor, ...                      *)
Reads ==
    /\ At("smoke", "reads")
    /\ IF account[Who].session THEN Move("logout") ELSE MoveBadly("logout")
    /\ UNCHANGED <<inProduction, results, time, mishaps>>

(* ... logs out, and goes on with the next one whatever it found.          *)
SmokeLogout ==
    /\ At("smoke", "logout")
    /\ account' = [account EXCEPT ![Who].session = FALSE]
    /\ LET bad == try.bad \/ ~account[Who].session IN
       IF try.actor < Len(Actors)
       THEN /\ try' = [try EXCEPT !.at = "password", !.actor = @ + 1, !.bad = bad]
            /\ UNCHANGED results
       ELSE Conclude(~bad)
    /\ UNCHANGED <<workers, copies, writes, marked, errors, time, mishaps>>

----------------------------------------------------------------------------
(* The write under an idempotency key. *)

(* A write without the CSRF token is refused before it gets a key; then    *)
(* the first write goes to the server.                                     *)
FirstWrite ==
    /\ At("idempotency", "write")
    /\ IF account[Admin].session
       THEN /\ writes' = [writes EXCEPT ![try.run] = "sent"]
            /\ Move("answer")
       ELSE /\ MoveBadly("rescue")
            /\ UNCHANGED writes
    /\ UNCHANGED <<account, workers, copies, marked, errors, results, time, mishaps>>

(* In the server, past the checks of the session: the key, then the asset  *)
(* in one transaction; the answer is kept under the key if it is still     *)
(* there.  A request whose key is there is answered from it.               *)
ServerTakesKey(r) ==
    /\ writes[r] = "sent"
    /\ writes' = [writes EXCEPT ![r] =
                    IF "key" \in marked[r] THEN "done" ELSE "keyed"]
    /\ marked' = [marked EXCEPT ![r] = @ \cup {"key"}]
    /\ UNCHANGED <<try, account, workers, copies, errors, results, time, mishaps>>

ServerWrites(r) ==
    /\ writes[r] = "keyed"
    /\ writes' = [writes EXCEPT ![r] = "done"]
    /\ marked' = [marked EXCEPT ![r] = @ \cup {"asset"}]
    /\ UNCHANGED <<try, account, workers, copies, errors, results, time, mishaps>>

(* A 5xx removes the key, and is logged.                                   *)
ServerFails(r) ==
    /\ writes[r] = "keyed"
    /\ Mishap
    /\ writes' = [writes EXCEPT ![r] = "failed"]
    /\ marked' = [marked EXCEPT ![r] = @ \ {"key"}]
    /\ errors' = TRUE
    /\ UNCHANGED <<try, account, workers, copies, results, time>>

(* After a failure the same request writes, and the other one under the    *)
(* key conflicts with it; without the number of the asset in the first     *)
(* answer the step gives up.                                               *)
Answer ==
    /\ At("idempotency", "answer")
    /\ \/ /\ writes[try.run] = "done"
          /\ Move("repeat")
          /\ UNCHANGED marked
       \/ /\ writes[try.run] = "failed"
          /\ marked' = [marked EXCEPT ![try.run] = {"key", "asset"}]
          /\ MoveBadly("rescue")
    /\ UNCHANGED <<account, workers, copies, writes, errors, results, time, mishaps>>

(* The repetition is answered from the key, another request under the key  *)
(* is a conflict.                                                          *)
Repeat ==
    /\ At("idempotency", "repeat")
    /\ IF "key" \in marked[try.run] THEN Move("count") ELSE MoveBadly("count")
    /\ UNCHANGED <<inProduction, results, time, mishaps>>

CountRows ==
    /\ At("idempotency", "count")
    /\ IF marked[try.run] = {"key", "asset"} THEN Move("clean") ELSE MoveBadly("clean")
    /\ UNCHANGED <<inProduction, results, time, mishaps>>

(* One transaction deletes what the marker names.  A command that fails    *)
(* may have been carried out.                                              *)
Clean ==
    /\ At("idempotency", "clean")
    /\ \/ /\ Move("recount")
          /\ marked' = [marked EXCEPT ![try.run] = {}]
          /\ UNCHANGED mishaps
       \/ /\ Mishap
          /\ MoveBadly("rescue")
          /\ marked' \in {marked, [marked EXCEPT ![try.run] = {}]}
    /\ UNCHANGED <<account, workers, copies, writes, errors, results, time>>

Recount ==
    /\ At("idempotency", "recount")
    /\ IF marked[try.run] = {} THEN Move("leave") ELSE MoveBadly("leave")
    /\ UNCHANGED <<inProduction, results, time, mishaps>>

Leave ==
    /\ At("idempotency", "leave")
    /\ account' = [account EXCEPT ![Admin].session = FALSE]
    /\ Conclude(~try.bad /\ account[Admin].session)
    /\ UNCHANGED <<workers, copies, writes, marked, errors, time, mishaps>>

(* After an error the rows are deleted, if a marker was chosen, and the    *)
(* session ends; that either of them fails is swallowed.                   *)
Rescue ==
    /\ At("idempotency", "rescue")
    /\ \/ /\ marked' = [marked EXCEPT ![try.run] = {}]
          /\ account' = [account EXCEPT ![Admin].session = FALSE]
          /\ UNCHANGED mishaps
       \/ /\ Mishap
          /\ marked' \in {marked, [marked EXCEPT ![try.run] = {}]}
          /\ UNCHANGED account
    /\ Conclude(FALSE)
    /\ UNCHANGED <<workers, copies, writes, errors, time>>

----------------------------------------------------------------------------
(* The logs and the health. *)

(* A 5xx since the window began fails the gate, whichever run caused it.   *)
CleanLogs == ~errors

ReadLogs ==
    /\ At("logs", "look")
    /\ Conclude(CleanLogs)
    /\ UNCHANGED <<inProduction, time, mishaps>>

(* A key whose request has not come to an end is stuck after two minutes.  *)
(* A 5xx that the gate before did not see is a recent one.                 *)
Unfinished == {r \in Tries : writes[r] = "keyed" /\ "key" \in marked[r]}

Healthy(stuck, recent5xx) == stuck = {} /\ ~recent5xx

ReadHealth ==
    /\ At("health", "look")
    /\ \E stuck \in SUBSET Unfinished : Conclude(Healthy(stuck, errors))
    /\ UNCHANGED <<inProduction, time, mishaps>>

----------------------------------------------------------------------------
(* What may go wrong between any two of these. *)

(* A request is not answered in time: the code may have been accepted, and *)
(* a repetition of the write may still be on its way.  The step gives up;  *)
(* the smoke test tries to end the session it knows of.                    *)
RequestTimesOut ==
    /\ try.at \in {"password", "code", "retry", "reads", "write", "answer", "repeat"}
    /\ Mishap
    /\ account' \in {account, [account EXCEPT ![Who].session = FALSE]} \cup
                    (IF try.at \in {"code", "retry"} /\ Unused(Who)
                     THEN {[account EXCEPT ![Who].counter = time]} ELSE {})
    /\ writes' \in {writes} \cup (IF try.at = "repeat"
                                   THEN {[writes EXCEPT ![try.run] = "sent"]} ELSE {})
    /\ \/ try.step = "smoke" /\ Conclude(FALSE)
       \/ try.step = "idempotency" /\ MoveBadly("rescue") /\ UNCHANGED results
    /\ UNCHANGED <<workers, copies, marked, errors, time>>

(* A request is answered by a 5xx: the smoke test goes on with the next    *)
(* actor, the other step gives up.                                         *)
AnsweredByError ==
    /\ try.at \in {"password", "code", "retry", "reads", "write"}
    /\ Mishap
    /\ errors' = TRUE
    /\ MoveBadly(IF try.step = "smoke" THEN "logout" ELSE "rescue")
    /\ UNCHANGED <<account, workers, copies, writes, marked, results, time>>

(* Outside the window of the change no step passes: most of them refuse to *)
(* begin, and the reading of the logs is a baseline only.                  *)
WindowClosed ==
    /\ try.at = Begin[try.step] /\ (try.step = "smoke" => try.actor = 1)
    /\ Mishap
    /\ Conclude(FALSE)
    /\ UNCHANGED <<inProduction, time>>

(* The files of the secrets must be physical files outside the repository  *)
(* that do not change while they are read.                                 *)
InputsRefused ==
    /\ try.step \in {"provision", "smoke", "idempotency"}
    /\ try.at = Begin[try.step] /\ (try.step = "smoke" => try.actor = 1)
    /\ Mishap
    /\ Conclude(FALSE)
    /\ UNCHANGED <<inProduction, time>>

(* The step runs into its time limit.                                      *)
KillStep ==
    /\ try.at # "over"
    /\ Mishap
    /\ results' = [results EXCEPT ![try.run][try.step] = "killed"]
    /\ Move("over")
    /\ UNCHANGED <<inProduction, time>>

(* A run that failed is followed by another in the same window.            *)
TryAgain ==
    /\ try.at = "over" /\ try.run < MaxTries
    /\ results[try.run]["health"] # "PASS"
    /\ try' = [try EXCEPT !.run = @ + 1, !.step = "provision", !.at = "copy",
                          !.actor = 1, !.bad = FALSE]
    /\ UNCHANGED <<inProduction, results, time, mishaps>>

GatesNext ==
    \/ CopyWorker \/ ExecuteWorker \/ WorkerAnswers \/ RemoveWorker
    \/ Password \/ Code \/ AwaitNextStep \/ SecondCode \/ Reads \/ SmokeLogout
    \/ FirstWrite \/ Answer \/ Repeat \/ CountRows \/ Clean \/ Recount \/ Leave
    \/ Rescue \/ ReadLogs \/ ReadHealth
    \/ RequestTimesOut \/ AnsweredByError \/ WindowClosed
    \/ InputsRefused \/ KillStep \/ TryAgain
    \/ \E r \in Tries : WorkerCommits(r) \/ WorkerFails(r) \/ ServerTakesKey(r)
                        \/ ServerWrites(r) \/ ServerFails(r)
    \/ TimePasses /\ UNCHANGED gateVars

----------------------------------------------------------------------------
(* A step that passed has left nothing of its own in production, and       *)
(* nothing of it comes later: no worker in the container, no transaction   *)
(* still to be committed, no row of the marker asset.                      *)
PassLeavesNothing ==
    \A r \in Tries :
        /\ results[r]["provision"] = "PASS" => r \notin copies /\ workers[r] = "done"
        /\ results[r]["idempotency"] = "PASS" => marked[r] = {} /\ writes[r] = "done"

(* The gates log the same actor in one after the other, faster than its    *)
(* codes change: the second code is accepted, whatever else has happened,  *)
(* an actor that is provisioned anew by a run given up included.           *)
SecondCodeWorks == ~try.refused
================================================================================
