------------------------------ MODULE Activation ------------------------------
(***************************************************************************)
(* The operations activation: a heartbeat starts a command again and       *)
(* again, and each command runs the next step of the plan, and only that.  *)
(* What commands share is files: the claim of the receipt root by an       *)
(* approval, the lease, the receipts, the documents of the steps and the   *)
(* files of the repository that close P7.                                  *)
(*                                                                         *)
(* A command runs its step as a child process and waits for it.  The child *)
(* is killed when its time is over; a command that is killed leaves its    *)
(* lease, and its child may go on without it.  An operator may remove a    *)
(* lease by hand, rightly or not.                                          *)
(*                                                                         *)
(* The gate, the claim and the lease are one step here: a claim is never   *)
(* undone, and what the gate looks at the child looks at again.  Reading   *)
(* the lease and unlinking it are one step too.                            *)
(***************************************************************************)
EXTENDS ActivationSteps, Integers, Sequences, FiniteSets

CONSTANTS
    Commands,       \* commands that can run at the same time
    Approvals,
    None,
    Dead,           \* the owner of a lease whose command was killed
    Plan,           \* the children, in the order of the steps
    Slow,           \* steps that take longer than the standard time
    SampleDays,     \* days of samples in the export, 30 in the code
    Beats,          \* commands of one day, as long as days must pass
    MaxAttempts,    \* 9999 in the code
    MaxIncidents    \* bound: crashes, failures, late or missed heartbeats

Steps == 1..Len(Plan)
Written(s) == {Plan[s].writes[i] : i \in DOMAIN Plan[s].writes}
Documents == UNION {Written(s) : s \in Steps}

(* The files that close P7, in the order they are written. *)
Closing == <<"roadmap", "queue", "current", "roadmap doc">>
Files == {Closing[i] : i \in DOMAIN Closing}

ASSUME ActivationAssumption ==
    /\ None \notin Commands \cup Approvals \cup {Dead} /\ Dead \notin Commands
    /\ Plan \in Seq({Children[i] : i \in DOMAIN Children})
    /\ \A s, t \in Steps : Plan[s] = Plan[t] => s = t
    /\ Slow \subseteq Steps
    /\ SampleDays \in Nat \ {0} /\ Beats \in Nat \ {0}
    /\ MaxAttempts \in Nat /\ MaxIncidents \in Nat

VARIABLES
    claim,      \* the approval the receipt root belongs to, or None
    expired,    \* the approvals that are no longer valid
    lock,       \* the command whose lease the lock file is, Dead or None
    receipts,   \* a set; the file name of a receipt is its step and attempt
    docs,       \* the documents of the steps that exist
    stale,      \* the documents that are too old to be accepted
    ledger,     \* the samples of the SLO, see Ledger
    beats,      \* the commands of this day
    closed,     \* the files that close P7 which have been written
    command,    \* command[c]: the phase and the approval of a command
    child,      \* child[c]: the child that command started, or None
    forced,     \* a lease was removed while its command or a child was alive
    incidents   \* how many incidents there have been

evidence == <<docs, stale, ledger, closed>>
control == <<claim, lock, receipts, command, beats>>
world == <<expired, forced>>
vars == <<claim, expired, lock, receipts, docs, stale, ledger, beats, closed,
          command, child, forced, incidents>>

Outcomes == {"PASS", "WAIT", "FAIL", "TIMEOUT"}
Failures == {"FAIL", "TIMEOUT"}
Profiles == {"standard", "extended"}

Receipt == [step: Steps, attempt: Nat \ {0}, outcome: Outcomes, profile: Profiles,
            approval: Approvals]

(* today: the samples of this day; double: two samples of one day; gap: a  *)
(* day without one; locked: the lock file of the ledger exists.            *)
Ledger == [days: Nat, today: Nat, double: BOOLEAN, gap: BOOLEAN, locked: BOOLEAN]

(* written: how many of its documents, or closing files, it has written.   *)
Child == [step: Steps, attempt: Nat \ {0}, profile: Profiles,
          phase: {"gate", "work", "append", "locked", "export", "publish", "close", "exit"},
          written: Nat, outcome: Outcomes]

ASSUME ChildAssumption == None \notin Child

TypeOK ==
    /\ claim \in Approvals \cup {None}
    /\ expired \subseteq Approvals
    /\ lock \in Commands \cup {None, Dead}
    /\ receipts \subseteq Receipt
    /\ docs \subseteq Documents /\ stale \subseteq docs
    /\ ledger \in Ledger
    /\ beats \in 0..Beats
    /\ closed \subseteq Files
    /\ command \in [Commands -> [phase: {"idle", "leased", "waiting", "releasing"},
                                 approval: Approvals \cup {None}]]
    /\ child \in [Commands -> Child \cup {None}]
    /\ forced \in BOOLEAN
    /\ incidents \in 0..MaxIncidents

Init ==
    /\ claim = None /\ expired = {} /\ lock = None
    /\ receipts = {} /\ docs = {} /\ stale = {}
    /\ ledger = [days |-> 0, today |-> 0, double |-> FALSE, gap |-> FALSE, locked |-> FALSE]
    /\ beats = 0
    /\ closed = {}
    /\ command = [c \in Commands |-> [phase |-> "idle", approval |-> None]]
    /\ child = [c \in Commands |-> None]
    /\ forced = FALSE
    /\ incidents = 0

Incident ==
    /\ incidents < MaxIncidents
    /\ incidents' = incidents + 1

(* The export of the SLO is not there yet. *)
Sampling == "slo export" \in Documents \ docs

----------------------------------------------------------------------------
(* Choosing the step. *)
Of(s) == {r \in receipts : r.step = s}
Passed(s) == \E r \in Of(s) : r.outcome = "PASS"
Failed(s) == {r \in Of(s) : r.outcome \in Failures}
Paused(s) == Cardinality(Failed(s)) >= 3 \/ Cardinality(Of(s)) >= MaxAttempts

IsNext(s) == ~Passed(s) /\ \A t \in Steps : t < s => Passed(t)

(* Mutant of ProfileOf: there is no extension. *)
ProfileOfNone(of) == "standard"

(* The child gets more time after exactly two failures that were both for  *)
(* want of time, and the last two attempts.                                *)
ProfileOf(of) ==
    IF /\ Cardinality({r \in of : r.outcome \in Failures}) = 2
       /\ \E r, q \in of :
            /\ r.attempt = Cardinality(of) /\ q.attempt = Cardinality(of) - 1
            /\ r.outcome = "TIMEOUT" /\ q.outcome = "TIMEOUT"
    THEN "extended" ELSE "standard"

(* A command of this day, as long as days count. *)
Beat == IF Sampling THEN beats < Beats /\ beats' = beats + 1 ELSE UNCHANGED beats

(* Mutant of Acquire: a lock file that exists is taken over. *)
AcquireHeld(c, a) ==
    /\ command[c].phase = "idle" /\ child[c] = None
    /\ "roadmap" \notin closed /\ a \notin expired /\ Beat
    /\ claim \in {None, a}
    /\ claim' = a
    /\ lock' = c
    /\ command' = [command EXCEPT ![c] = [phase |-> "leased", approval |-> a]]
    /\ UNCHANGED <<receipts, evidence, world, child, incidents>>

(* Mutant of Acquire: the lease of a command that is gone is taken over.   *)
AcquireStale(c, a) ==
    /\ command[c].phase = "idle" /\ child[c] = None
    /\ "roadmap" \notin closed /\ a \notin expired /\ Beat
    /\ claim \in {None, a} /\ claim' = a
    /\ lock \in {None, Dead} /\ lock' = c
    /\ command' = [command EXCEPT ![c] = [phase |-> "leased", approval |-> a]]
    /\ UNCHANGED <<receipts, evidence, world, child, incidents>>

(* The gate: P7 is in progress, the approval is valid.  Then the claim of  *)
(* the receipt root, or the one it has, and the lease.                     *)
Acquire(c, a) ==
    /\ command[c].phase = "idle" /\ child[c] = None
    /\ "roadmap" \notin closed /\ a \notin expired /\ Beat
    /\ claim \in {None, a} /\ claim' = a
    /\ lock = None /\ lock' = c
    /\ command' = [command EXCEPT ![c] = [phase |-> "leased", approval |-> a]]
    /\ UNCHANGED <<receipts, evidence, world, child, incidents>>

(* A command that finds a lease waits for the next one. *)
TurnedAway ==
    /\ Sampling /\ Beat
    /\ lock # None
    /\ UNCHANGED <<claim, lock, receipts, command, evidence, world, child, incidents>>

(* Mutant of Select: a step is next when the one before it was tried. *)
SelectTried(c) ==
    /\ command[c].phase = "leased"
    /\ \/ \E s \in Steps :
            /\ ~Passed(s) /\ ~Paused(s) /\ (s > 1 => Of(s - 1) # {})
            /\ child' = [child EXCEPT ![c] =
                 [step |-> s, attempt |-> Cardinality(Of(s)) + 1, profile |-> ProfileOf(Of(s)),
                  phase |-> "gate", written |-> 0, outcome |-> "FAIL"]]
            /\ command' = [command EXCEPT ![c].phase = "waiting"]
       \/ /\ \A s \in Steps : IsNext(s) => Paused(s)
          /\ command' = [command EXCEPT ![c].phase = "releasing"]
          /\ UNCHANGED child
    /\ UNCHANGED <<claim, lock, receipts, beats, evidence, world, incidents>>

(* The first step that has not passed, unless it is paused: its next       *)
(* attempt.                                                                *)
Select(c) ==
    /\ command[c].phase = "leased"
    /\ \/ \E s \in Steps :
            /\ IsNext(s) /\ ~Paused(s)
            /\ child' = [child EXCEPT ![c] =
                 [step |-> s, attempt |-> Cardinality(Of(s)) + 1, profile |-> ProfileOf(Of(s)),
                  phase |-> "gate", written |-> 0, outcome |-> "FAIL"]]
            /\ command' = [command EXCEPT ![c].phase = "waiting"]
       \/ /\ \A s \in Steps : IsNext(s) => Paused(s)
          /\ command' = [command EXCEPT ![c].phase = "releasing"]
          /\ UNCHANGED child
    /\ UNCHANGED <<claim, lock, receipts, beats, evidence, world, incidents>>

(* The receipt of the child that has ended, unless there is one.           *)
WriteReceipt(c) ==
    /\ command[c].phase = "waiting" /\ child[c].phase = "exit"
    /\ LET k == child[c] IN
       receipts' = IF \E r \in Of(k.step) : r.attempt = k.attempt
                   THEN receipts
                   ELSE receipts \cup
                          {[step |-> k.step, attempt |-> k.attempt, outcome |-> k.outcome,
                            profile |-> k.profile, approval |-> command[c].approval]}
    /\ child' = [child EXCEPT ![c] = None]
    /\ command' = [command EXCEPT ![c].phase = "releasing"]
    /\ UNCHANGED <<claim, lock, beats, evidence, world, incidents>>

(* Only its own lease: another is left. *)
Release(c) ==
    /\ command[c].phase = "releasing"
    /\ lock' = IF lock = c THEN None ELSE lock
    /\ command' = [command EXCEPT ![c] = [phase |-> "idle", approval |-> None]]
    /\ UNCHANGED <<claim, receipts, beats, evidence, world, child, incidents>>

----------------------------------------------------------------------------
(* The child of a command. *)
Live(c) == child[c] # None /\ child[c].phase # "exit"
Orphan(c) == child[c] # None /\ command[c].phase # "waiting"
Step(c) == Plan[child[c].step]

(* The documents of earlier steps of this plan which the child needs. *)
Needs(c) == Step(c).reads \cap Documents

Goes(c, phase) == child' = [child EXCEPT ![c].phase = phase]
Exits(c, outcome) ==
    child' = [child EXCEPT ![c] = [@ EXCEPT !.phase = "exit", !.outcome = outcome]]

At(c, phase) == child[c] # None /\ child[c].phase = phase

InTime(c) == child[c].step \notin Slow \/ child[c].profile = "extended" \/ Orphan(c)

(* What the child checks before it does anything.                          *)
Gate(c) ==
    LET needs == Needs(c)
        has   == Written(child[c].step) \cap docs # {}
    IN
    /\ At(c, "gate")
    /\ IF "roadmap" \in closed
       THEN Exits(c, IF Step(c) = PhaseComplete THEN "FAIL" ELSE "WAIT")
       ELSE IF has /\ Step(c).again = "pass" THEN Exits(c, "PASS")
       ELSE IF ~(needs \subseteq docs)
       THEN Exits(c, IF Step(c).missing = "wait" THEN "WAIT" ELSE "FAIL")
       ELSE IF has \/ needs \cap stale # {} THEN Exits(c, "FAIL")
       ELSE Goes(c, "work")
    /\ UNCHANGED <<control, evidence, world, incidents>>

(* What it is there for: measuring, sending, dumping, compiling.  P7 is    *)
(* closed in a clean worktree only.                                        *)
Work(c) ==
    /\ At(c, "work") /\ InTime(c) /\ Step(c) # SloCollect
    /\ IF Step(c) # PhaseComplete THEN Goes(c, "publish")
       ELSE IF closed = {} THEN Goes(c, "close") ELSE Exits(c, "FAIL")
    /\ UNCHANGED <<control, evidence, world, incidents>>

(* The collector of the SLO reads the ledger and takes a sample, unless    *)
(* there is one of this day.                                               *)
SloProbe(c) ==
    /\ At(c, "work") /\ InTime(c) /\ Step(c) = SloCollect
    /\ CASE ledger.double -> Exits(c, "FAIL")
         [] ~ledger.double /\ ledger.today = 0 -> Goes(c, "append")
         [] OTHER -> IF ledger.days >= SampleDays THEN Goes(c, "export") ELSE Exits(c, "WAIT")
    /\ UNCHANGED <<control, evidence, world, incidents>>

(* The lock file of the ledger.  A collector that does not get it deletes  *)
(* it all the same.  With it, the ledger is read again.                    *)
SloLock(c) ==
    /\ At(c, "append")
    /\ IF ledger.locked \/ ledger.double
       THEN /\ ledger' = [ledger EXCEPT !.locked = FALSE]
            /\ Exits(c, "FAIL")
       ELSE IF ledger.today > 0
       THEN /\ UNCHANGED ledger
            /\ IF ledger.days >= SampleDays THEN Goes(c, "export") ELSE Exits(c, "WAIT")
       ELSE /\ ledger' = [ledger EXCEPT !.locked = TRUE]
            /\ Goes(c, "locked")
    /\ UNCHANGED <<control, docs, stale, closed, world, incidents>>

SloAppend(c) ==
    /\ At(c, "locked")
    /\ LET first == ledger.today = 0
           days  == IF first THEN ledger.days + 1 ELSE ledger.days
       IN
       /\ ledger' = [ledger EXCEPT !.days = days, !.today = 1, !.locked = FALSE,
                                   !.double = @ \/ ~first]
       /\ IF days >= SampleDays THEN Goes(c, "export") ELSE Exits(c, "WAIT")
    /\ UNCHANGED <<control, docs, stale, closed, world, incidents>>

(* The export is built of a ledger without a gap and written once. *)
SloExport(c) ==
    /\ At(c, "export")
    /\ IF Written(child[c].step) \cap docs # {} THEN Exits(c, "WAIT")
       ELSE IF ledger.gap \/ ledger.double THEN Exits(c, "FAIL")
       ELSE Goes(c, "publish")
    /\ UNCHANGED <<control, evidence, world, incidents>>

(* The next document is linked to its name, if that is free; with the last *)
(* the child reports the step as done.                                     *)
Publish(c) ==
    LET k == child[c]
        w == Step(c).writes
    IN
    /\ At(c, "publish")
    /\ IF k.written = Len(w)
       THEN Exits(c, "PASS") /\ UNCHANGED docs
       ELSE IF w[k.written + 1] \in docs
       THEN Exits(c, "FAIL") /\ UNCHANGED docs
       ELSE /\ docs' = docs \cup {w[k.written + 1]}
            /\ child' = [child EXCEPT ![c].written = @ + 1]
    /\ UNCHANGED <<control, stale, ledger, closed, world, incidents>>

(* The files of the repository are overwritten, one after another. *)
Close(c) ==
    LET k == child[c] IN
    /\ At(c, "close")
    /\ IF k.written = Len(Closing)
       THEN Exits(c, "PASS") /\ UNCHANGED closed
       ELSE /\ closed' = closed \cup {Closing[k.written + 1]}
            /\ child' = [child EXCEPT ![c].written = @ + 1]
    /\ UNCHANGED <<control, docs, stale, ledger, world, incidents>>

----------------------------------------------------------------------------
(* What may go wrong. *)

(* A provider does not answer, a file cannot be written, a document is not *)
(* as it must be; or an operator has not provided an input yet.  The lock  *)
(* of the ledger is given back, the closing files are put back.            *)
ChildFails(c) ==
    /\ Live(c) /\ Incident
    /\ \E outcome \in IF child[c].phase = "gate" THEN {"FAIL", "WAIT"} ELSE {"FAIL"} :
         Exits(c, outcome)
    /\ ledger' = IF At(c, "locked") THEN [ledger EXCEPT !.locked = FALSE] ELSE ledger
    /\ closed' = IF At(c, "close") THEN {} ELSE closed
    /\ UNCHANGED <<control, docs, stale, world>>

(* The command kills the child whose time is over: what it was doing stays *)
(* as it is.                                                               *)
ChildTimeout(c) ==
    /\ command[c].phase = "waiting" /\ Live(c)
    /\ IF ~InTime(c) /\ At(c, "work") THEN UNCHANGED incidents ELSE Incident
    /\ Exits(c, "TIMEOUT")
    /\ UNCHANGED <<control, evidence, world>>

(* The command is killed, and perhaps its child with it. *)
Crash(c) ==
    /\ command[c].phase # "idle" /\ Incident
    /\ lock' = IF lock = c THEN Dead ELSE lock
    /\ command' = [command EXCEPT ![c] = [phase |-> "idle", approval |-> None]]
    /\ child' \in {child, [child EXCEPT ![c] = None]}
    /\ UNCHANGED <<claim, receipts, beats, evidence, world>>

(* A child without its command ends, and nobody notes how. *)
OrphanEnds(c) ==
    /\ At(c, "exit") /\ Orphan(c)
    /\ child' = [child EXCEPT ![c] = None]
    /\ UNCHANGED <<control, evidence, world, incidents>>

(* An operator deletes the lease. *)
RemoveLock ==
    /\ lock # None /\ Incident
    /\ lock' = None
    /\ forced' = (forced \/ lock # Dead \/ \E c \in Commands : child[c] # None)
    /\ UNCHANGED <<claim, receipts, command, beats, evidence, expired, child>>

Expire(a) ==
    /\ a \notin expired /\ Incident
    /\ expired' = expired \cup {a}
    /\ UNCHANGED <<control, evidence, forced, child>>

(* A document gets too old to be accepted. *)
Spoil(d) ==
    /\ d \in docs \ stale /\ Incident
    /\ \E s \in Steps : Plan[s].expires /\ d \in Written(s)
    /\ stale' = stale \cup {d}
    /\ UNCHANGED <<control, docs, ledger, closed, world, child>>

(* A day of UTC ends, and no command runs then.  It is an incident that    *)
(* fewer commands than usual were begun and none has taken a sample.       *)
DayPasses ==
    /\ Sampling
    /\ \A c \in Commands : command[c].phase = "idle" /\ child[c] = None
    /\ IF ledger.today > 0 \/ beats = Beats THEN UNCHANGED incidents ELSE Incident
    /\ ledger' = [ledger EXCEPT !.today = 0, !.gap = @ \/ (ledger.days > 0 /\ ledger.today = 0)]
    /\ beats' = 0
    /\ UNCHANGED <<claim, lock, receipts, docs, stale, closed, command, child, world>>

----------------------------------------------------------------------------
ChildSteps(c) ==
    \/ Gate(c) \/ Work(c) \/ SloProbe(c) \/ SloLock(c) \/ SloAppend(c) \/ SloExport(c)
    \/ Publish(c) \/ Close(c)

CommandSteps(c) ==
    \/ Select(c) \/ WriteReceipt(c) \/ Release(c) \/ OrphanEnds(c)

Incidents ==
    \/ \E c \in Commands : ChildFails(c) \/ Crash(c)
    \/ RemoveLock
    \/ \E a \in Approvals : Expire(a)
    \/ \E d \in Documents : Spoil(d)

Next ==
    \/ \E c \in Commands :
         \/ \E a \in Approvals : Acquire(c, a)
         \/ CommandSteps(c) \/ ChildSteps(c) \/ ChildTimeout(c)
    \/ TurnedAway
    \/ DayPasses
    \/ Incidents

Spec == Init /\ [][Next]_vars

(* Processes that run go on; a slow child is killed when its time is over; *)
(* days pass; and the heartbeat is started again and again with every      *)
(* approval that is valid.                                                 *)
Fairness ==
    /\ \A c \in Commands :
         /\ WF_vars(CommandSteps(c)) /\ WF_vars(ChildSteps(c))
         /\ WF_vars(ChildTimeout(c) /\ UNCHANGED incidents)
    /\ WF_vars(DayPasses /\ UNCHANGED incidents)
    /\ WF_vars(TurnedAway)
    /\ \A a \in Approvals : SF_vars(\E c \in Commands : Acquire(c, a))

FairSpec == Spec /\ Fairness

----------------------------------------------------------------------------
(* As long as no lease is taken from a command or a child that is alive,   *)
(* at most one command has the lease or a child, orphans included.         *)
Busy(c) == command[c].phase \in {"leased", "waiting", "releasing"} \/ child[c] # None

OneWriter == ~forced => \A c, d \in Commands : Busy(c) /\ Busy(d) => c = d

(* A step that has passed has left all its documents; and what a step      *)
(* leaves, P7 closed included, is there only if all earlier steps passed.  *)
EvidenceInOrder ==
    \A s \in Steps :
      /\ Passed(s) => Written(s) \subseteq docs
      /\ Written(s) \cap docs # {} \/ (Plan[s] = PhaseComplete /\ closed # {}) =>
           \A t \in Steps : t < s => Passed(t)

(* There are two samples of one day, which no later command can mend, only *)
(* if a lease was taken from a command or a child that was alive; and only *)
(* then can P7 be open again after its closing has passed.                 *)
LeaseGuardsWorld ==
    ~forced =>
      /\ ~ledger.double
      /\ \A s \in Steps : Plan[s] = PhaseComplete /\ Passed(s) => closed = Files

(* The activation ends with P7 closed, or after an incident in a state     *)
(* that no later command leaves: a lease nobody gives back, no approval    *)
(* that is valid and owns the receipts, a step that is paused, the roadmap *)
(* closed and the rest not, or no step left to run.                        *)
Stuck ==
    /\ incidents > 0
    /\ \/ lock = Dead
       \/ Approvals \subseteq expired \/ claim \in expired
       \/ \E s \in Steps : IsNext(s) /\ Paused(s)
       \/ "roadmap" \in closed \/ \A s \in Steps : Passed(s)

Settles == <>[](closed = Files \/ Stuck)
=============================================================================
