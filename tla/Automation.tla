------------------------------- MODULE Automation -------------------------------
(***************************************************************************)
(* The rules of the inventory, run by a timer in every server and by hand: *)
(* one run takes a lease of 55 seconds that it neither renews nor gives    *)
(* back, works through the rules one after another, and writes a notice    *)
(* for each thing a rule finds, one per rule, thing and day.               *)
(*                                                                         *)
(* The lease is compared with the clock of the host, and the day of a      *)
(* notice is the host's; the times of the runs are the database's, and the *)
(* host may be ahead of it or behind.  What a rule finds is any set of     *)
(* things.  A statement may fail, with or without effect, and a process    *)
(* may be killed at any point.                                             *)
(***************************************************************************)
EXTENDS DrillWorld, Sequences, FiniteSets

CONSTANTS
    Hosts,              \* processes that run the rules
    Ahead,              \* function: host -> how far its clock is ahead, or behind if
                        \* that is negative, of the database's
    Rules,              \* the active rules in the order of their ids
    Things,             \* assets and requests
    Limit,              \* things one query returns, 200 in the code
    Lease,              \* 55 seconds
    Midnight,           \* length of a day
    MaxRuleRuns         \* bound: rows of automation_runs

ASSUME AutomationAssumption ==
    /\ Ahead \in [Hosts -> Int]
    /\ Rules \in Seq(STRING)
    /\ Limit \in Nat /\ Lease \in Nat /\ MaxRuleRuns \in Nat
    /\ Midnight \in Nat \ {0}
    /\ IsFiniteSet(Things)

VARIABLES
    workerLease,    \* when automation_leases says it expires, or None
    job,            \* where the run of each host stands
    ruleRuns,       \* the rows of automation_runs
    notices         \* the rows of notifications

automationVars == <<workerLease, job, ruleRuns, notices>>

Resting == [at |-> "rest"]
DayOf(t) == t \div Midnight
Now(h) == time + Ahead[h]

(* began: the time of the host when the run took the lease; row: its row   *)
(* of automation_runs; left: what it has still to write notices of; by,    *)
(* which is history and in no column: the host that began the run.         *)
Jobs == [at : {"next", "query", "notify", "failing"}, began : Int, rule : Nat \ {0},
         row : Nat, left : SUBSET Things, matched : Nat]
RuleRun == [rule : STRING, status : {"RUNNING", "SUCCEEDED", "FAILED"},
            matched : Nat, started : Nat, by : Hosts]

AutomationTypeOK ==
    /\ workerLease \in Int \cup {None}
    /\ job \in [Hosts -> Jobs \cup {Resting}]
    /\ ruleRuns \in Seq(RuleRun)
    /\ notices \subseteq [rule : STRING, thing : Things, day : Int]

AutomationInit ==
    /\ workerLease = None
    /\ job = [h \in Hosts |-> Resting]
    /\ ruleRuns = <<>> /\ notices = {}

GoOn(h, at) == job' = [job EXCEPT ![h].at = at]
NextRule(h) == job' = [job EXCEPT ![h].at = "next", ![h].rule = @ + 1]
Rest(h) == job' = [job EXCEPT ![h] = Resting]
RuleOf(h) == Rules[job[h].rule]

(* Mutant of AcquireLease: the INSERT takes over a lease that is not over. *)
AcquireAnyLease(h) ==
    /\ job[h] = Resting
    /\ workerLease' = Now(h) + Lease
    /\ job' = [job EXCEPT ![h] = [at |-> "next", began |-> Now(h), rule |-> 1,
                                  row |-> 0, left |-> {}, matched |-> 0]]
    /\ UNCHANGED <<ruleRuns, notices, time, mishaps>>

(* The timer calls, or somebody runs the script, while no earlier run of   *)
(* this process goes on; the statement takes the lease if it is over.      *)
(* A run that does not get it, or that hears of an error, ends.            *)
AcquireLease(h) ==
    /\ job[h] = Resting
    /\ workerLease # None => workerLease < Now(h)
    /\ workerLease' = Now(h) + Lease
    /\ \/ /\ job' = [job EXCEPT ![h] = [at |-> "next", began |-> Now(h), rule |-> 1,
                                        row |-> 0, left |-> {}, matched |-> 0]]
          /\ UNCHANGED mishaps
       \/ Mishap /\ UNCHANGED job
    /\ UNCHANGED <<ruleRuns, notices, time>>

(* The row of the run is inserted outside the try: an error ends the run,  *)
(* with the rules that are left.                                           *)
BeginRule(h) ==
    /\ job[h].at = "next" /\ job[h].rule <= Len(Rules)
    /\ Len(ruleRuns) < MaxRuleRuns
    /\ LET row == [rule |-> RuleOf(h), status |-> "RUNNING", matched |-> 0,
                   started |-> time, by |-> h]
       IN  \/ /\ ruleRuns' = Append(ruleRuns, row)
              /\ job' = [job EXCEPT ![h].at = "query", ![h].row = Len(ruleRuns) + 1]
              /\ UNCHANGED mishaps
           \/ Mishap /\ ruleRuns' \in {ruleRuns, Append(ruleRuns, row)} /\ Rest(h)
    /\ UNCHANGED <<workerLease, notices, time>>

Match(h) ==
    /\ job[h].at = "query"
    /\ \/ /\ \E found \in SUBSET Things :
                /\ Cardinality(found) <= Limit
                /\ job' = [job EXCEPT ![h].at = "notify", ![h].left = found,
                                      ![h].matched = Cardinality(found)]
          /\ UNCHANGED mishaps
       \/ Mishap /\ GoOn(h, "failing")
    /\ UNCHANGED <<workerLease, ruleRuns, notices, time>>

(* A notice that is there already is left alone.                           *)
Notify(h, thing) ==
    LET notice == [rule |-> RuleOf(h), thing |-> thing, day |-> DayOf(Now(h))] IN
    /\ job[h].at = "notify" /\ thing \in job[h].left
    /\ \/ /\ notices' = notices \cup {notice}
          /\ job' = [job EXCEPT ![h].left = @ \ {thing}]
          /\ UNCHANGED mishaps
       \/ Mishap /\ notices' \in {notices, notices \cup {notice}} /\ GoOn(h, "failing")
    /\ UNCHANGED <<workerLease, ruleRuns, time>>

Ended(h, status) ==
    [ruleRuns EXCEPT ![job[h].row].status = status, ![job[h].row].matched = job[h].matched]

Succeed(h) ==
    /\ job[h].at = "notify" /\ job[h].left = {}
    /\ \/ ruleRuns' = Ended(h, "SUCCEEDED") /\ NextRule(h) /\ UNCHANGED mishaps
       \/ Mishap /\ ruleRuns' \in {ruleRuns, Ended(h, "SUCCEEDED")} /\ GoOn(h, "failing")
    /\ UNCHANGED <<workerLease, notices, time>>

(* In the catch; an error in it ends the run, with the rules that are left.*)
Fail(h) ==
    LET failed == [ruleRuns EXCEPT ![job[h].row].status = "FAILED"] IN
    /\ job[h].at = "failing"
    /\ \/ ruleRuns' = failed /\ NextRule(h) /\ UNCHANGED mishaps
       \/ Mishap /\ ruleRuns' \in {ruleRuns, failed} /\ Rest(h)
    /\ UNCHANGED <<workerLease, notices, time>>

EndRun(h) ==
    /\ job[h].at = "next" /\ job[h].rule > Len(Rules)
    /\ Rest(h)
    /\ UNCHANGED <<workerLease, ruleRuns, notices, time, mishaps>>

KillRun(h) ==
    /\ job[h] # Resting
    /\ Mishap
    /\ Rest(h)
    /\ UNCHANGED <<workerLease, ruleRuns, notices, time>>

AutomationNext ==
    \/ \E h \in Hosts :
        \/ AcquireLease(h) \/ BeginRule(h) \/ Match(h)
        \/ (\E thing \in Things : Notify(h, thing))
        \/ Succeed(h) \/ Fail(h) \/ EndRun(h) \/ KillRun(h)
    \/ TimePasses /\ UNCHANGED automationVars

----------------------------------------------------------------------------
(* Two hosts run the rules at once only if the first one has run longer    *)
(* than its lease, by their own clocks.                                    *)
OneHost ==
    \A g, h \in Hosts : g # h /\ job[g] # Resting /\ job[h] # Resting =>
        \/ job[g].began + Lease < job[h].began
        \/ job[h].began + Lease < job[g].began

(* The day on which a run began, on the calendar of the host that ran it:  *)
(* around midnight that may be the day before the database's.              *)
BeganOn(run) == DayOf(run.started + Ahead[run.by])

(* A run that SUCCEEDED has written a notice, on that day or later, of as  *)
(* many things as it says it found; one that does not say so is going on   *)
(* or something went wrong.                                                *)
RunsTellTheTruth ==
    \A i \in DOMAIN ruleRuns :
        LET run == ruleRuns[i]
            noticed == {n.thing : n \in {m \in notices : m.rule = run.rule
                                                         /\ m.day >= BeganOn(run)}}
        IN  CASE run.status = "SUCCEEDED" -> Cardinality(noticed) >= run.matched
              [] run.status = "RUNNING" ->
                    \/ \E h \in Hosts : job[h].at \in {"query", "notify", "failing"}
                                        /\ job[h].row = i
                    \/ mishaps > 0
              [] run.status = "FAILED" -> mishaps > 0

(* The rules are run as the lease and the rows of their runs say.          *)
RunsAsRecorded == OneHost /\ RunsTellTheTruth
================================================================================
