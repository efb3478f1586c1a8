------------------------------- MODULE Cutover -------------------------------
(***************************************************************************)
(* The production cutover: operators run production:cutover-execute, which *)
(* passes the gates of a fixed plan one after the other, pauses before the *)
(* sign-off gate, is resumed by a second command and ends with GO or with  *)
(* the public route disabled.  Several commands may run at the same time;  *)
(* what they share is the file system and the provider of the route.       *)
(*                                                                         *)
(* The plan is a sequence of entries: the steps of each gate and, after    *)
(* them, the summary that records the gate.  An entry is its position.     *)
(* Three more entries stand for the containment that follows a failure.    *)
(*                                                                         *)
(* Before the window opens every command is refused: the model begins with *)
(* the window.  A provider request of a child that was killed has taken    *)
(* effect by then or never does.                                           *)
(***************************************************************************)
EXTENDS Integers, Sequences, FiniteSets

CONSTANTS
    Runs,           \* run ids
    Operators,      \* command lines in use at the same time
    None,
    Entries,        \* the length of the plan, 26 in the code
    Summaries,      \* the entries that are summaries
    Publication,    \* the entry of step ingress-publication
    Public,         \* the entries of steps that use the public URL
    Signoff,        \* the only step of the last gate, uat_signoff
    MaxDocuments,   \* receipts that can be loaded, of all runs, 64 in the code
    MaxCommands,    \* bound: commands
    MaxIncidents    \* bound: crashes, write and provider errors, and the like

ASSUME CutoverAssumption ==
    /\ None \notin Runs
    /\ Entries \in Nat /\ Entries \in Summaries
    /\ Summaries \subseteq 1..Entries
    /\ Publication \in 2..Entries /\ Publication \notin Summaries
    /\ Publication - 1 \in Summaries
    /\ Public \subseteq 1..Entries
    /\ Signoff = Entries - 1 /\ Signoff \notin Summaries
    /\ Publication < Signoff /\ Signoff - 1 \in Summaries
    /\ MaxDocuments \in Nat /\ MaxCommands \in Nat /\ MaxIncidents \in Nat

VARIABLES
    clock,      \* where the approved change window stands
    route,      \* the run whose publication the DNS record is, or None
    tunnel,     \* the tunnel of the provider and its local files
    receipts,   \* receipts[r]: the receipts of run r, in the order written
    checkpoint, \* the runs that have a checkpoint file
    evidence,   \* the run named by the GO evidence file, or None
    job,        \* job[o]: where the command of operator o is
    commands,   \* how many commands there have been
    incidents   \* how many incidents there have been

world == <<route, tunnel>>
files == <<receipts, checkpoint, evidence>>
bounds == <<commands, incidents>>
vars == <<clock, route, tunnel, receipts, checkpoint, evidence, job, commands, incidents>>

(* Inside the window: in time; less than the reserve before the cutoff;    *)
(* after the cutoff.  And: the window is over.                             *)
InTime == 1
Reserve == 2
Late == 3
Over == 4

RouteDisable == Entries + 1
OrphanRecovery == Entries + 2
RouteDisabled == Entries + 3    \* the summary of the containment

Steps == (1..Entries \ Summaries) \cup {RouteDisable, OrphanRecovery}

GateStarts == {e \in 1..Entries : e = 1 \/ e - 1 \in Summaries}

Receipt == [entry: 1..RouteDisabled, pass: BOOLEAN, timely: BOOLEAN]

(* resumed: the command resumes the run, it did not begin it; ok: what     *)
(* became of the child; orphan: containment includes orphan recovery.      *)
Job == [phase: {"step", "ran", "final"}, run: Runs, at: 1..RouteDisabled,
        resumed: BOOLEAN, ok: BOOLEAN, orphan: BOOLEAN]

Done == [phase: {"done"}, run: Runs \cup {None},
         result: {"contained", "outside window", "other"}]

TypeOK ==
    /\ clock \in InTime..Over
    /\ route \in Runs \cup {None}
    /\ tunnel \in {"none", "orphan", "partial", "live"}
    /\ receipts \in [Runs -> Seq(Receipt)]
    /\ checkpoint \subseteq Runs
    /\ evidence \in Runs \cup {None}
    /\ job \in [Operators -> Job \cup Done]
    /\ commands \in 0..MaxCommands
    /\ incidents \in 0..MaxIncidents

Init ==
    /\ clock = InTime
    /\ route = None
    /\ tunnel = "none"
    /\ receipts = [r \in Runs |-> <<>>]
    /\ checkpoint = {}
    /\ evidence = None
    /\ job = [o \in Operators |-> [phase |-> "done", run |-> None, result |-> "other"]]
    /\ commands = 0
    /\ incidents = 0

Incident ==
    /\ incidents < MaxIncidents
    /\ incidents' = incidents + 1

Command(o) ==
    /\ job[o].phase = "done"
    /\ commands < MaxCommands
    /\ commands' = commands + 1

Active(o) == job[o].phase # "done"

(* The receipts of run r are those of the first n entries, all passed. *)
Passed(r, n) ==
    /\ Len(receipts[r]) = n
    /\ \A i \in 1..n : receipts[r][i].entry = i /\ receipts[r][i].pass

Documents == Cardinality(UNION {{r} \X DOMAIN receipts[r] : r \in Runs})

----------------------------------------------------------------------------
(* What follows in the code of one command. *)
At(o, phase, entry) ==
    [job EXCEPT ![o].phase = phase, ![o].at = entry, ![o].ok = FALSE]

Contain(o, orphan) ==
    [job EXCEPT ![o].phase = "step", ![o].at = RouteDisable, ![o].ok = FALSE,
                ![o].orphan = orphan]

End(o, result) ==
    [job EXCEPT ![o] = [phase |-> "done", run |-> job[o].run, result |-> result]]

(* Mutants of AfterFailure: the plan goes on; only a failed publication is *)
(* contained.                                                              *)
AfterFailureGoesOn(o) ==
    IF job[o].at <= Entries THEN At(o, "step", job[o].at + 1) ELSE End(o, "other")

AfterFailurePublication(o) ==
    IF job[o].at = Publication THEN Contain(o, TRUE) ELSE End(o, "other")

(* A gate that fails is contained, with orphan recovery if it failed in    *)
(* its step ingress-publication; a containment that fails is over.         *)
AfterFailure(o) ==
    IF job[o].at <= Entries
    THEN Contain(o, job[o].at = Publication)
    ELSE End(o, "other")

AfterSuccess(o) ==
    IF job[o].at = RouteDisable /\ ~job[o].orphan
    THEN At(o, "step", RouteDisabled)
    ELSE At(o, "step", job[o].at + 1)

AfterSummary(o) ==
    CASE job[o].at = RouteDisabled -> End(o, "contained")
      [] job[o].at = Entries ->
            IF job[o].resumed THEN At(o, "final", Entries) ELSE End(o, "other")
      [] OTHER -> At(o, "step", job[o].at + 1)

Written(r, entry, pass) ==
    [receipts EXCEPT ![r] =
        Append(@, [entry |-> entry, pass |-> pass, timely |-> clock < Late])]

----------------------------------------------------------------------------
(* executeProductionCutover: a new run id, outside the window no run.      *)
Execute(o, r) ==
    /\ Command(o)
    /\ clock # Over
    /\ receipts[r] = <<>>
    /\ \A other \in Operators : Active(other) => job[other].run # r
    /\ job' = [job EXCEPT ![o] = [phase |-> "step", run |-> r, at |-> 1,
                                  resumed |-> FALSE, ok |-> FALSE, orphan |-> FALSE]]
    /\ UNCHANGED <<clock, world, files, incidents>>

AtStep(o) == Active(o) /\ job[o].phase = "step" /\ job[o].at \in Steps

(* createSignoffPauseCheckpoint: the gates have passed, or the command     *)
(* would not be there; what it can refuse is the time.                     *)
MayPause == clock # Over

(* An execution with --pause-before-signoff has passed all gates but the   *)
(* last.                                                                   *)
Pause(o) ==
    /\ AtStep(o) /\ job[o].at = Signoff /\ ~job[o].resumed
    /\ IF MayPause
       THEN job' = End(o, "other") /\ checkpoint' = checkpoint \cup {job[o].run}
       ELSE job' = Contain(o, FALSE) /\ UNCHANGED checkpoint
    /\ UNCHANGED <<clock, world, receipts, evidence, bounds>>

(* The orchestrator looks at the clock before each gate of an execution.   *)
AfterCutoff(o) ==
    ~job[o].resumed /\ job[o].at \in GateStarts /\ clock >= Late

GateTooLate(o) ==
    /\ AtStep(o) /\ AfterCutoff(o)
    /\ job' = Contain(o, FALSE)
    /\ UNCHANGED <<clock, world, files, bounds>>

(* The runner starts no child that cannot end before the reserve, except   *)
(* for the containment.                                                    *)
StepTooLate(o) ==
    /\ AtStep(o) /\ ~AfterCutoff(o)
    /\ job[o].at <= Entries /\ clock >= Reserve
    /\ job' = [job EXCEPT ![o].phase = "ran", ![o].ok = FALSE]
    /\ UNCHANGED <<clock, world, files, bounds>>

(* Mutant of Publish: it does not look for a record that is there. *)
PublishOver(r, ok) ==
    /\ clock = InTime /\ tunnel # "orphan"
    /\ tunnel' = "live" /\ route' = r
    /\ ok \in BOOLEAN
    /\ UNCHANGED incidents

(* The scripts.  ingress-publication finds or creates the tunnel, then the *)
(* DNS record; it may fail, or be killed, at any point of that, but not    *)
(* after the reserve has begun.                                            *)
Publish(r, ok) ==
    /\ \/ ~ok /\ UNCHANGED world
       \/ /\ clock = InTime /\ tunnel # "orphan"
          /\ tunnel' = "live"
          /\ route' = IF route = None THEN r ELSE route
       \/ /\ clock = InTime /\ tunnel \in {"none", "partial"} /\ ~ok
          /\ tunnel' \in {"orphan", "partial", "live"}
          /\ tunnel = "partial" => tunnel' = "live"
          /\ UNCHANGED route
    /\ UNCHANGED incidents

(* route-disable needs the window and a tunnel; then it removes the record *)
(* and looks whether it is gone.                                           *)
Disable(ok) ==
    /\ IF clock = Over \/ tunnel = "none"
       THEN ~ok /\ UNCHANGED <<route, incidents>>
       ELSE \/ ok /\ route' = None /\ UNCHANGED incidents
            \/ ~ok /\ Incident /\ route' \in {route, None}
    /\ UNCHANGED tunnel

(* ingress-orphan-recovery deletes the tunnel of a publication that failed *)
(* before its credential was final; a publication that got further, but    *)
(* not to the end, is left to be reviewed.                                 *)
Recover(ok) ==
    /\ \/ tunnel \in {"none", "live"} /\ ok /\ UNCHANGED <<tunnel, incidents>>
       \/ tunnel = "partial" /\ ~ok /\ UNCHANGED <<tunnel, incidents>>
       \/ tunnel = "orphan" /\ clock # Over /\ ok /\ tunnel' = "none" /\ UNCHANGED incidents
       \/ tunnel = "orphan" /\ clock = Over /\ ~ok /\ UNCHANGED <<tunnel, incidents>>
       \/ /\ ~ok /\ Incident
          /\ tunnel' \in IF tunnel = "orphan" THEN {"none", "orphan"} ELSE {tunnel}
    /\ UNCHANGED route

(* Any other step changes nothing here; it passes only in time, and if it  *)
(* uses the public URL only while there is one.                            *)
Check(entry, ok) ==
    /\ ok => clock = InTime /\ (entry \in Public => route # None)
    /\ UNCHANGED <<world, incidents>>

Script(o, ok) ==
    CASE job[o].at = Publication -> Publish(job[o].run, ok)
      [] job[o].at = RouteDisable -> Disable(ok)
      [] job[o].at = OrphanRecovery -> Recover(ok)
      [] OTHER -> Check(job[o].at, ok)

Run(o) ==
    /\ AtStep(o)
    /\ job[o].at > Entries \/ clock = InTime
    /\ \E ok \in BOOLEAN :
          /\ Script(o, ok)
          /\ job' = [job EXCEPT ![o].phase = "ran", ![o].ok = ok]
    /\ UNCHANGED <<clock, files, commands>>

(* Mutant of Record: the outcome of route-disable is not looked at. *)
RecordContained(o) ==
    /\ job[o].phase = "ran"
    /\ receipts' = Written(job[o].run, job[o].at, job[o].ok)
    /\ job' = IF job[o].ok \/ job[o].at = RouteDisable THEN AfterSuccess(o) ELSE AfterFailure(o)
    /\ UNCHANGED <<clock, world, checkpoint, evidence, bounds>>

(* The step leaves a receipt, and the first that has not passed ends the   *)
(* gate and with it the gates.                                             *)
Record(o) ==
    /\ job[o].phase = "ran"
    /\ receipts' = Written(job[o].run, job[o].at, job[o].ok)
    /\ job' = IF job[o].ok THEN AfterSuccess(o) ELSE AfterFailure(o)
    /\ UNCHANGED <<clock, world, checkpoint, evidence, bounds>>

Summarise(o) ==
    /\ Active(o) /\ job[o].phase = "step" /\ job[o].at \notin Steps
    /\ receipts' = Written(job[o].run, job[o].at, TRUE)
    /\ job' = AfterSummary(o)
    /\ UNCHANGED <<clock, world, checkpoint, evidence, bounds>>

(* The code of a step has been changed, before or while it ran, or a       *)
(* receipt or the checkpoint cannot be written.  The summary of the gate   *)
(* of a resume is outside every try: the command just dies.                *)
Throw(o) ==
    /\ job[o].phase \in {"step", "ran"}
    /\ Incident
    /\ job' = IF job[o].resumed /\ job[o].at = Entries
              THEN End(o, "other")
              ELSE AfterFailure(o)
    /\ UNCHANGED <<clock, world, files, commands>>

(* The process dies.  A child that goes on is one that had ended before. *)
Crash(o) ==
    /\ Active(o)
    /\ Incident
    /\ job' = End(o, "other")
    /\ UNCHANGED <<clock, world, files, commands>>

----------------------------------------------------------------------------
(* validateSignoffResumeReceipts *)
ReceiptsIntact(r) == Passed(r, Signoff - 1) /\ Documents <= MaxDocuments

(* evaluateSignoffResume.  A checkpoint of another release or bundle, and  *)
(* references that are wrong, are contained; references that are missing,  *)
(* or not confirmed, are waited for.                                       *)
ResumeVerdicts ==
    IF clock >= Late THEN {"contain"} ELSE {"contain", "wait", "sign off"}

(* resumeProductionCutoverSignoff with --execute, down to its first await. *)
Resume(o, r) ==
    LET resumed(at) == [phase |-> "step", run |-> r, at |-> at, resumed |-> TRUE,
                        ok |-> FALSE, orphan |-> FALSE]
        over(result) == [phase |-> "done", run |-> r, result |-> result]
    IN
    /\ Command(o)
    /\ r \in checkpoint
    /\ job' \in {[job EXCEPT ![o] = next] : next \in
          IF clock = Over THEN {over("outside window")}
          ELSE IF ~ReceiptsIntact(r) THEN {resumed(RouteDisable)}
          ELSE {CASE verdict = "contain"  -> resumed(RouteDisable)
                  [] verdict = "wait"     -> over("other")
                  [] verdict = "sign off" -> resumed(Signoff) : verdict \in ResumeVerdicts}}
    /\ UNCHANGED <<clock, world, files, incidents>>

(* Mutant of Conclusive: receipts beside those of the plan do not matter. *)
ConclusiveThoughMore(r) ==
    /\ \A e \in 1..Entries : \E i \in DOMAIN receipts[r] :
          receipts[r][i].entry = e /\ receipts[r][i].pass /\ receipts[r][i].timely
    /\ Documents <= MaxDocuments
    /\ evidence = None

(* assembleActualCutoverEvidence, as far as the receipts go, and the file  *)
(* that is only created, never replaced.                                   *)
Conclusive(r) ==
    /\ Passed(r, Entries)
    /\ \A i \in 1..Entries : receipts[r][i].timely
    /\ Documents <= MaxDocuments
    /\ evidence = None

(* The end of the resume; the sign-off documents may be refused as well.   *)
Finalise(o) ==
    /\ job[o].phase = "final"
    /\ \/ /\ Conclusive(job[o].run)
          /\ evidence' = job[o].run
          /\ job' = End(o, "other")
       \/ job' = Contain(o, FALSE) /\ UNCHANGED evidence
    /\ UNCHANGED <<clock, world, receipts, checkpoint, bounds>>

(* production:cutover-evidence --assemble, for a run that was not paused   *)
(* or whose resume died.                                                   *)
Assemble(r) ==
    /\ Conclusive(r)
    /\ evidence' = r
    /\ UNCHANGED <<clock, world, receipts, checkpoint, job, bounds>>

(* production:route-disable --execute by hand, outside of any run. *)
DisableByHand ==
    /\ Incident
    /\ clock # Over /\ tunnel # "none"
    /\ route' = None
    /\ UNCHANGED <<clock, tunnel, files, job, commands>>

Tick ==
    /\ clock # Over
    /\ clock' = clock + 1
    /\ UNCHANGED <<world, files, job, bounds>>

----------------------------------------------------------------------------
Proceed(o) ==
    \/ Pause(o)
    \/ GateTooLate(o)
    \/ StepTooLate(o)
    \/ Run(o)
    \/ Record(o)
    \/ Summarise(o)
    \/ Finalise(o)

Next ==
    \/ \E o \in Operators :
          \/ \E r \in Runs : Execute(o, r) \/ Resume(o, r)
          \/ Proceed(o)
          \/ Throw(o)
          \/ Crash(o)
    \/ \E r \in Runs : Assemble(r)
    \/ DisableByHand
    \/ Tick

Spec == Init /\ [][Next]_vars

----------------------------------------------------------------------------
(* A gate is recorded only after every step and every gate before it has   *)
(* passed and been recorded, whoever else works on the run.                *)
GatesInOrder ==
    \A r \in Runs : \A i \in DOMAIN receipts[r] :
        receipts[r][i].entry \in Summaries =>
            \A e \in 1..(receipts[r][i].entry - 1) : \E j \in 1..(i - 1) :
                receipts[r][j].entry = e /\ receipts[r][j].pass

(* A run whose containment is recorded, or reported, does not have its     *)
(* publication in the DNS any more, and never will.                        *)
ContainmentIsReal ==
    \A r \in Runs :
        \/ \E i \in DOMAIN receipts[r] : receipts[r][i].entry = RouteDisabled
        \/ \E o \in Operators : ~Active(o) /\ job[o].run = r /\ job[o].result = "contained"
        => route # r

(* Neither a crash nor an intervention, and no containment of another run  *)
(* or under way.                                                           *)
Undisturbed(r) ==
    /\ incidents = 0
    /\ \A o \in Operators : Active(o) => job[o].at <= Entries
    /\ \A q \in Runs \ {r} : \A i \in DOMAIN receipts[q] :
          receipts[q][i].entry # RouteDisable

(* When GO is given to a run that nobody disturbed, the service is public. *)
(* The code does not look again: with a disturbance it need not be.        *)
GoMeansPublic ==
    [][\A r \in Runs : evidence # r /\ evidence' = r /\ Undisturbed(r) => route # None]_vars

(* Runs, their verdict and the route keep to the promise of CutoverGates.  *)
Stage(r) ==
    IF Len(receipts[r]) <= Entries /\ Passed(r, Len(receipts[r]))
    THEN Len(receipts[r])
    ELSE Entries + 1

Gates == INSTANCE CutoverGates WITH
    stage <- [r \in Runs |-> Stage(r)], public <- route

GatesKept == Gates!Spec

(* When a run has failed and nobody works on it any more, its publication  *)
(* is not in the DNS, unless the window was over before it could be        *)
(* removed or something else went wrong as well.                           *)
FailureClosesRoute ==
    \A r \in Runs :
        /\ \E i \in DOMAIN receipts[r] : ~receipts[r][i].pass
        /\ \A o \in Operators : Active(o) => job[o].run # r
        => route # r \/ clock = Over \/ incidents > 0

=============================================================================
