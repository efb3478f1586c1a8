--------------------------- MODULE Rollout_proofs ---------------------------
(***************************************************************************)
(* What the commands of operations keep: the activation and the publication *)
(* of the ingress.  The two share no state.                                *)
(***************************************************************************)
EXTENDS Activation, Ingress, FiniteSetTheorems, TLAPS

(***************************************************************************)
(* The activation for any number of commands and approvals, any plan of    *)
(* distinct children and any bounds.  As long as no lease is forced, the   *)
(* command that has the lease is the only one with a child, and a child    *)
(* alone knows what it has written: the documents of the steps before its  *)
(* own are there, and of its own as many as it has published.              *)
(***************************************************************************)

(* A command that waits has a child, no other phase of a command does, and *)
(* one that is not idle has an approval.                                   *)
Phases ==
    \A c \in Commands :
        /\ command[c].phase \in {"leased", "releasing"} => child[c] = None
        /\ command[c].phase = "waiting" => child[c] # None
        /\ command[c].phase # "idle" => command[c].approval \in Approvals

(* What a child has come to at its phase; the steps before its own have    *)
(* passed when it was chosen, and a step stays passed.                     *)
Progress(c) ==
    LET k == child[c] IN
    /\ \A t \in Steps : t < k.step => Passed(t)
    /\ k.phase \in {"append", "locked", "export"} => Step(c) = SloCollect
    /\ k.phase \in {"gate", "work", "append", "locked", "export"} => k.written = 0
    /\ k.phase = "publish" =>
          /\ Step(c) # PhaseComplete
          /\ k.written <= Len(Step(c).writes)
          /\ \A i \in 1..k.written : Step(c).writes[i] \in docs
    /\ k.phase = "close" => Step(c) = PhaseComplete /\ k.written <= Len(Closing)
    /\ k.phase = "exit" /\ k.outcome = "PASS" => Written(k.step) \subseteq docs

(* Who is busy has the lease, and an orphan has left it behind.            *)
Leases ==
    \A c \in Commands :
        /\ command[c].phase # "idle" => lock = c
        /\ command[c].phase = "idle" /\ child[c] # None => lock = Dead

(* What the one child there is knows of the ledger and the closing files.  *)
Alone(c) ==
    LET k == child[c] IN
    /\ ~Passed(k.step)
    /\ k.phase = "locked" => ledger.today = 0
    /\ k.phase = "close" => closed = {Closing[i] : i \in 1..k.written}
    /\ k.phase = "exit" /\ k.outcome = "PASS" /\ Step(c) = PhaseComplete => closed = Files

Inv ==
    /\ TypeOK /\ IsFiniteSet(receipts)
    /\ Phases
    /\ \A c \in Commands : child[c] # None => Progress(c)
    /\ EvidenceInOrder
    /\ ~forced => Leases
    /\ ~forced => \A c \in Commands : child[c] # None => Alone(c)
    /\ OneWriter /\ LeaseGuardsWorld

(* The only child that writes a document.                                  *)
Writer(d) ==
    CASE d = "slo export" -> SloCollect
      [] d = "slo evidence" -> SloCompile
      [] d = "alert receipts" -> AlertDeliver
      [] d = "alerting evidence" -> AlertCompile
      [] d = "drill export" -> BackupRestoreRun
      [] d \in {"backup evidence", "restore evidence"} -> BackupRestoreCompile
      [] d = "observation" -> CertificateObserve
      [] d = "certificate evidence" -> CertificateCompile
      [] d = "oncall receipts" -> OncallDrill
      [] d = "oncall evidence" -> OncallCompile
      [] d = "maintenance export" -> MaintenanceRun
      [] d = "maintenance evidence" -> MaintenanceCompile
      [] d = "queue export" -> ImprovementCollect
      [] d = "queue evidence" -> ImprovementCompile
      [] d = "signoff input" -> SignoffInputAssemble
      [] d = "signoff evidence" -> SignoffCompile
      [] d = "manifest" -> HandoverAssemble

(* A child is one of those the code knows.                                 *)
LEMMA OneOfTheChildren ==
  ASSUME NEW i \in DOMAIN Children
  PROVE  Children[i] \in
         {SloCollect, SloCompile, AlertDeliver, AlertCompile, BackupRestoreRun,
          BackupRestoreCompile, CertificateObserve, CertificateCompile,
          OncallDrill, OncallCompile, MaintenanceRun, MaintenanceCompile,
          ImprovementCollect, ImprovementCompile, SignoffInputAssemble,
          SignoffCompile, HandoverAssemble, HandoverFinalize, PhaseComplete}
BY DEF Children

(* What each child writes, one by one.                                     *)
LEMMA Writes ==
    /\ SloCollect.writes = <<"slo export">>
    /\ SloCompile.writes = <<"slo evidence">>
    /\ AlertDeliver.writes = <<"alert receipts">>
    /\ AlertCompile.writes = <<"alerting evidence">>
    /\ BackupRestoreRun.writes = <<"drill export">>
    /\ CertificateObserve.writes = <<"observation">>
    /\ CertificateCompile.writes = <<"certificate evidence">>
    /\ OncallDrill.writes = <<"oncall receipts">>
    /\ OncallCompile.writes = <<"oncall evidence">>
    /\ MaintenanceRun.writes = <<"maintenance export">>
    /\ MaintenanceCompile.writes = <<"maintenance evidence">>
    /\ ImprovementCollect.writes = <<"queue export">>
    /\ ImprovementCompile.writes = <<"queue evidence">>
    /\ SignoffInputAssemble.writes = <<"signoff input">>
    /\ SignoffCompile.writes = <<"signoff evidence">>
    /\ HandoverAssemble.writes = <<"manifest">>
BY DEF SloCollect, SloCompile, AlertDeliver, AlertCompile, BackupRestoreRun,
     CertificateObserve, CertificateCompile, OncallDrill, OncallCompile,
     MaintenanceRun, MaintenanceCompile, ImprovementCollect, ImprovementCompile,
     SignoffInputAssemble, SignoffCompile, HandoverAssemble

LEMMA WritesTwo == BackupRestoreCompile.writes = <<"backup evidence", "restore evidence">>
BY DEF BackupRestoreCompile

LEMMA WritesNone == HandoverFinalize.writes = <<>> /\ PhaseComplete.writes = <<>>
BY DEF HandoverFinalize, PhaseComplete

LEMMA Again == BackupRestoreCompile.again # "pass"
BY DEF BackupRestoreCompile

(* Each document has the child that writes it.                             *)
LEMMA Writers ==
    /\ Writer("slo export") = SloCollect
    /\ Writer("slo evidence") = SloCompile
    /\ Writer("alert receipts") = AlertDeliver
    /\ Writer("alerting evidence") = AlertCompile
    /\ Writer("drill export") = BackupRestoreRun
    /\ Writer("backup evidence") = BackupRestoreCompile
    /\ Writer("observation") = CertificateObserve
    /\ Writer("certificate evidence") = CertificateCompile
    /\ Writer("oncall receipts") = OncallDrill
    /\ Writer("oncall evidence") = OncallCompile
    /\ Writer("maintenance export") = MaintenanceRun
    /\ Writer("maintenance evidence") = MaintenanceCompile
    /\ Writer("queue export") = ImprovementCollect
    /\ Writer("queue evidence") = ImprovementCompile
    /\ Writer("signoff input") = SignoffInputAssemble
    /\ Writer("signoff evidence") = SignoffCompile
    /\ Writer("manifest") = HandoverAssemble
    /\ Writer("restore evidence") = BackupRestoreCompile
BY DEF Writer

(* The shape of a child that writes one document, and of one that writes   *)
(* two.                                                                    *)
LEMMA ShapeOfOne ==
  ASSUME NEW k, NEW d, k.writes = <<d>>, Writer(d) = k
  PROVE  /\ Len(k.writes) \in Nat /\ DOMAIN k.writes = 1..Len(k.writes)
         /\ k.again = "pass" => Len(k.writes) <= 1
         /\ \A j \in 1..Len(k.writes) : Writer(k.writes[j]) = k
<1>1. Len(k.writes) = 1 /\ k.writes[1] = d
  OBVIOUS
<1>2. DOMAIN k.writes = 1..1
  OBVIOUS
<1>3. \A j \in 1..1 : j = 1
  OBVIOUS
<1> QED  BY <1>1, <1>2, <1>3

LEMMA ShapeOfTwo ==
  ASSUME NEW k, NEW d, NEW e, k.writes = <<d, e>>, Writer(d) = k, Writer(e) = k
  PROVE  /\ Len(k.writes) \in Nat /\ DOMAIN k.writes = 1..Len(k.writes)
         /\ \A j \in 1..Len(k.writes) : Writer(k.writes[j]) = k
<1>1. Len(k.writes) = 2 /\ k.writes[1] = d /\ k.writes[2] = e
  OBVIOUS
<1>2. DOMAIN k.writes = 1..2
  OBVIOUS
<1>3. \A j \in 1..2 : j = 1 \/ j = 2
  OBVIOUS
<1> QED  BY <1>1, <1>2, <1>3

(* What the plan relies on: a child that takes its own document for a step *)
(* that is done writes one document, and no two children write the same.   *)
LEMMA Shape ==
  ASSUME NEW i \in DOMAIN Children, NEW k, k = Children[i]
  PROVE  /\ Len(k.writes) \in Nat /\ DOMAIN k.writes = 1..Len(k.writes)
         /\ k.again = "pass" => Len(k.writes) <= 1
         /\ \A j \in 1..Len(k.writes) : Writer(k.writes[j]) = k
<1>1. CASE k \in {SloCollect, SloCompile, AlertDeliver, AlertCompile, BackupRestoreRun,
                  CertificateObserve, CertificateCompile, OncallDrill, OncallCompile,
                    MaintenanceRun, MaintenanceCompile, ImprovementCollect,
                      ImprovementCompile, SignoffInputAssemble, SignoffCompile,
                        HandoverAssemble}
  <2>1. \E d : k.writes = <<d>> /\ Writer(d) = k
    BY <1>1, Writes, Writers
  <2> QED  BY <2>1, ShapeOfOne
<1>2. CASE k = BackupRestoreCompile
  BY <1>2, WritesTwo, Writers, Again, ShapeOfTwo
<1>3. CASE k = HandoverFinalize \/ k = PhaseComplete
  <2>1. Len(k.writes) = 0 /\ DOMAIN k.writes = 1..0
    BY <1>3, WritesNone
  <2> QED  BY <2>1
<1> QED  BY OneOfTheChildren, <1>1, <1>2, <1>3

(* Every step of a plan runs one of the children.                          *)
LEMMA PlanShape ==
  ASSUME NEW s \in Steps
  PROVE  \E i \in DOMAIN Children : Plan[s] = Children[i]
<1>1. Plan \in Seq({Children[i] : i \in DOMAIN Children})
  BY ActivationAssumption
<1>2. Plan[s] \in {Children[i] : i \in DOMAIN Children}
  BY <1>1 DEF Steps
<1> QED  BY <1>2

(* The documents of a step.                                                *)
LEMMA WritesShape ==
  ASSUME NEW s \in Steps
  PROVE  /\ Len(Plan[s].writes) \in Nat
         /\ Written(s) = {Plan[s].writes[i] : i \in 1..Len(Plan[s].writes)}
         /\ Plan[s].again = "pass" => Len(Plan[s].writes) <= 1
         /\ \A d \in Written(s) : Writer(d) = Plan[s]
<1>1. PICK i \in DOMAIN Children : Plan[s] = Children[i]
  BY PlanShape
<1>2. /\ Len(Plan[s].writes) \in Nat /\ DOMAIN Plan[s].writes = 1..Len(Plan[s].writes)
      /\ Plan[s].again = "pass" => Len(Plan[s].writes) <= 1
      /\ \A j \in 1..Len(Plan[s].writes) : Writer(Plan[s].writes[j]) = Plan[s]
  BY <1>1, Shape
<1> QED  BY <1>2 DEF Written

(* No document belongs to two steps.                                       *)
LEMMA WrittenOnce ==
  ASSUME NEW s \in Steps, NEW t \in Steps, NEW d \in Written(s), d \in Written(t)
  PROVE  s = t
BY WritesShape, ActivationAssumption

(* A step that takes its own document for done has no other.               *)
LEMMA WrittenAtOnce ==
  ASSUME NEW s \in Steps, Plan[s].again = "pass", NEW D, Written(s) \cap D # {}
  PROVE  Written(s) \subseteq D
<1>1. \A i, j \in 1..Len(Plan[s].writes) : i = j
  BY WritesShape
<1> QED  BY <1>1, WritesShape

(* The child that collects the samples is not the one that closes P7.      *)
LEMMA Distinct == /\ SloCollect # PhaseComplete
                  /\ PhaseComplete.again = "fail" /\ PhaseComplete.writes = <<>>
<1>1. SloCollect.id # PhaseComplete.id
  BY DEF SloCollect, PhaseComplete
<1> QED  BY <1>1, WritesNone DEF PhaseComplete

(* The closing writes four files.                                          *)
LEMMA ClosingShape == Len(Closing) = 4 /\ DOMAIN Closing = 1..4 /\ Files = {Closing[i] : i \in 1..4}
<1>1. Len(Closing) = 4 /\ DOMAIN Closing = 1..4
  BY DEF Closing
<1> QED  BY <1>1 DEF Files

(* Steps are numbers.                                                      *)
LEMMA StepsShape == Steps \subseteq Nat
<1>1. Len(Plan) \in Nat
  BY ActivationAssumption
<1> QED  BY <1>1 DEF Steps

ChildStep(c) == ChildSteps(c) \/ ChildTimeout(c) \/ ChildFails(c)

(* A step of a child concerns a child that is there; what going on,        *)
(* exiting and writing change of it.                                       *)
LEMMA ChildMoves ==
  ASSUME TypeOK, NEW c \in Commands, ChildStep(c)
  PROVE  /\ child[c] \in Child /\ child[c] # None
         /\ UNCHANGED <<claim, lock, receipts, command, beats, expired, forced, stale>>
         /\ docs \subseteq docs'
<1>1. child[c] # None
  BY DEF ChildStep, ChildSteps, ChildTimeout, ChildFails, Live, At, Gate, Work,
       SloProbe, SloLock, SloAppend, SloExport, Publish, Close
<1>2. UNCHANGED <<claim, lock, receipts, command, beats, expired, forced, stale>>
  BY DEF ChildStep, ChildSteps, ChildTimeout, ChildFails, control, evidence, world,
       Gate, Work, SloProbe, SloLock, SloAppend, SloExport, Publish, Close
<1>3. docs \subseteq docs'
  BY DEF ChildStep, ChildSteps, ChildTimeout, ChildFails, control, evidence, world,
       Gate, Work, SloProbe, SloLock, SloAppend, SloExport, Publish, Close
<1> QED  BY <1>1, <1>2, <1>3 DEF TypeOK

LEMMA GoesMoves ==
  ASSUME TypeOK, NEW c \in Commands, child[c] \in Child, NEW phase, Goes(c, phase),
         phase \in {"gate", "work", "append", "locked", "export", "publish", "close",
                    "exit"}
  PROVE  /\ child' \in [Commands -> Child \cup {None}]
         /\ child'[c] = [child[c] EXCEPT !.phase = phase] /\ child'[c] \in Child /\ child'[c].step = child[c].step
         /\ \A d \in Commands \ {c} : child'[d] = child[d]
BY DEF Goes, TypeOK, Child

LEMMA ExitsMoves ==
  ASSUME TypeOK, NEW c \in Commands, child[c] \in Child, NEW outcome \in Outcomes,
         Exits(c, outcome)
  PROVE  /\ child' \in [Commands -> Child \cup {None}]
         /\ child'[c] = [child[c] EXCEPT !.phase = "exit", !.outcome = outcome]
         /\ child'[c] \in Child /\ child'[c].step = child[c].step
         /\ \A d \in Commands \ {c} : child'[d] = child[d]
BY DEF Exits, TypeOK, Child

LEMMA WritesMoves ==
  ASSUME TypeOK, NEW c \in Commands, child[c] \in Child,
         child' = [child EXCEPT ![c].written = @ + 1]
  PROVE  /\ child' \in [Commands -> Child \cup {None}]
         /\ child'[c] = [child[c] EXCEPT !.written = @ + 1]
         /\ child'[c] \in Child /\ child'[c].step = child[c].step
         /\ \A d \in Commands \ {c} : child'[d] = child[d]
BY DEF TypeOK, Child

(* A step of a child goes on, exits or writes.                             *)
LEMMA ChildKinds ==
  ASSUME NEW c \in Commands, ChildStep(c)
  PROVE  \/ \E phase \in {"work", "append", "locked", "export", "publish",
                          "close"} : Goes(c, phase)
         \/ \E outcome \in Outcomes : Exits(c, outcome)
         \/ child' = [child EXCEPT ![c].written = @ + 1]
<1> USE DEF Outcomes
<1>1. CASE ChildSteps(c)
  BY <1>1 DEF ChildSteps, Gate, Work, SloProbe, SloLock, SloAppend, SloExport, Publish,
       Close
<1>2. CASE ChildTimeout(c)
  BY <1>2 DEF ChildTimeout
<1>3. CASE ChildFails(c)
  BY <1>3 DEF ChildFails
<1> QED  BY <1>1, <1>2, <1>3 DEF ChildStep

(* The types of a child are kept by its steps.                             *)
LEMMA ChildTypes ==
  ASSUME TypeOK, NEW c \in Commands, ChildStep(c)
  PROVE  /\ child' \in [Commands -> Child \cup {None}]
         /\ child'[c] \in Child /\ child'[c].step = child[c].step
         /\ \A d \in Commands \ {c} : child'[d] = child[d]
<1>1. child[c] \in Child
  BY ChildMoves
<1>2. CASE \E phase \in {"work", "append", "locked", "export", "publish",
                         "close"} : Goes(c, phase)
  <2>1. PICK phase \in {"work", "append", "locked", "export", "publish",
                        "close"} : Goes(c, phase)
    BY <1>2
  <2> QED  BY <1>1, <2>1, GoesMoves
<1>3. CASE \E outcome \in Outcomes : Exits(c, outcome)
  <2>1. PICK outcome \in Outcomes : Exits(c, outcome)
    BY <1>3
  <2> QED  BY <1>1, <2>1, ExitsMoves
<1>4. CASE child' = [child EXCEPT ![c].written = @ + 1]
  BY <1>1, <1>4, WritesMoves
<1> QED  BY <1>2, <1>3, <1>4, ChildKinds

(* Attempts are counted from one.                                          *)
LEMMA AttemptTypes ==
  ASSUME IsFiniteSet(receipts), NEW s \in Steps
  PROVE  Cardinality(Of(s)) + 1 \in Nat \ {0}
<1>1. IsFiniteSet(Of(s))
  BY FS_Subset DEF Of
<1> QED  BY <1>1, FS_CardinalityType

(* A child is chosen for the first step that has not passed.               *)
LEMMA SelectTypes ==
  ASSUME TypeOK, IsFiniteSet(receipts), NEW c \in Commands, Select(c)
  PROVE  /\ child' \in [Commands -> Child \cup {None}]
         /\ \A d \in Commands \ {c} : child'[d] = child[d]
         /\ \/ command' = [command EXCEPT ![c].phase = "releasing"] /\ child' = child
            \/ /\ command' = [command EXCEPT ![c].phase = "waiting"]
               /\ child'[c] \in Child /\ IsNext(child'[c].step)
               /\ child'[c].phase = "gate" /\ child'[c].written = 0
<1>1. CASE command' = [command EXCEPT ![c].phase = "releasing"] /\ child' = child
  BY <1>1 DEF TypeOK
<1>2. ASSUME NEW s \in Steps, IsNext(s),
             command' = [command EXCEPT ![c].phase = "waiting"],
             child' = [child EXCEPT ![c] =
                 [step |-> s, attempt |-> Cardinality(Of(s)) + 1,
                  profile |-> ProfileOf(Of(s)),
                  phase |-> "gate", written |-> 0, outcome |-> "FAIL"]]
      PROVE  /\ child' \in [Commands -> Child \cup {None}]
             /\ \A d \in Commands \ {c} : child'[d] = child[d]
             /\ child'[c] \in Child /\ IsNext(child'[c].step)
             /\ child'[c].phase = "gate" /\ child'[c].written = 0
  <2>1. ProfileOf(Of(s)) \in Profiles
    BY DEF ProfileOf, Profiles
  <2>2. Cardinality(Of(s)) + 1 \in Nat \ {0}
    BY AttemptTypes
  <2> DEFINE k == [step |-> s, attempt |-> Cardinality(Of(s)) + 1,
                   profile |-> ProfileOf(Of(s)),
                   phase |-> "gate", written |-> 0, outcome |-> "FAIL"]
  <2>3. k \in Child
    BY <2>1, <2>2 DEF Child, Outcomes
  <2>4. child' = [child EXCEPT ![c] = k] /\ k.step = s /\ k.phase = "gate" /\ k.written = 0
    BY <1>2
  <2> HIDE DEF k
  <2> QED  BY <2>3, <2>4, <1>2 DEF TypeOK
<1> QED  BY <1>1, <1>2 DEF Select

(* Whose step it is.                                                       *)
LEMMA Cases ==
  ASSUME [Next]_vars
  PROVE  \/ \E c \in Commands : \/ ChildStep(c) \/ \E a \in Approvals : Acquire(c, a)
                                \/ Select(c) \/ WriteReceipt(c) \/ Release(c)
                                \/ OrphanEnds(c) \/ Crash(c)
         \/ TurnedAway \/ DayPasses \/ RemoveLock \/ UNCHANGED vars
         \/ \E a \in Approvals : Expire(a)
         \/ \E d \in Documents : Spoil(d)
BY DEF Next, CommandSteps, Incidents, ChildStep

Growth == receipts \subseteq receipts' /\ docs \subseteq docs' /\ (forced => forced')

(* Receipts and documents are never taken back.                            *)
LEMMA Grows == ASSUME TypeOK, [Next]_vars PROVE Growth
<1> USE DEF Growth, control, evidence, world, TypeOK
<1>1. ASSUME NEW c \in Commands, ChildStep(c) PROVE Growth
  BY <1>1, ChildMoves
<1>2. ASSUME NEW c \in Commands, NEW a \in Approvals, Acquire(c, a) PROVE Growth
  BY <1>2 DEF Acquire
<1>3. ASSUME NEW c \in Commands,
             Select(c) \/ WriteReceipt(c) \/ Release(c) \/ OrphanEnds(c) \/ Crash(c)
      PROVE Growth
  BY <1>3 DEF Select, WriteReceipt, Release, OrphanEnds, Crash
<1>4. ASSUME TurnedAway \/ DayPasses \/ RemoveLock \/ UNCHANGED vars PROVE Growth
  BY <1>4 DEF TurnedAway, DayPasses, RemoveLock, vars
<1>5. ASSUME NEW a \in Approvals, Expire(a) PROVE Growth
  BY <1>5 DEF Expire
<1>6. ASSUME NEW d \in Documents, Spoil(d) PROVE Growth
  BY <1>6 DEF Spoil
<1> QED  BY Cases, <1>1, <1>2, <1>3, <1>4, <1>5, <1>6

LEMMA PassedStays ==
  ASSUME TypeOK, [Next]_vars, NEW s \in Steps, Passed(s)
  PROVE  Passed(s)'
BY Grows DEF Growth, Passed, Of

(* The phases of a command and its child stay together.                    *)
LEMMA PhasesKept ==
  ASSUME TypeOK, IsFiniteSet(receipts), Phases, [Next]_vars
  PROVE  Phases'
<1> USE DEF Phases, TypeOK, control, evidence, world
<1>1. ASSUME NEW c \in Commands, ChildStep(c) PROVE Phases'
  <2>1. command' = command
    BY <1>1, ChildMoves
  <2>2. \A d \in Commands : (child[d] = None) <=> (child'[d] = None)
    BY <1>1, ChildMoves, ChildTypes, ChildAssumption
  <2> QED  BY <2>1, <2>2
<1>2. ASSUME NEW c \in Commands, NEW a \in Approvals, Acquire(c, a) PROVE Phases'
  BY <1>2 DEF Acquire
<1>3. ASSUME NEW c \in Commands, Select(c) PROVE Phases'
  BY <1>3, ChildAssumption, SelectTypes DEF Select
<1>4. ASSUME NEW c \in Commands,
             WriteReceipt(c) \/ Release(c) \/ OrphanEnds(c) \/ Crash(c)
      PROVE Phases'
  BY <1>4 DEF WriteReceipt, Release, OrphanEnds, Crash, Orphan
<1>5. ASSUME TurnedAway \/ DayPasses \/ RemoveLock \/ UNCHANGED vars PROVE Phases'
  BY <1>5 DEF TurnedAway, DayPasses, RemoveLock, vars
<1>6. ASSUME NEW a \in Approvals, Expire(a) PROVE Phases'
  BY <1>6 DEF Expire
<1>7. ASSUME NEW d \in Documents, Spoil(d) PROVE Phases'
  BY <1>7 DEF Spoil
<1> QED  BY Cases, <1>1, <1>2, <1>3, <1>4, <1>5, <1>6, <1>7

(* What a child that does not move has come to stays true.                 *)
LEMMA ProgressStays ==
  ASSUME TypeOK, [Next]_vars, NEW c \in Commands, Progress(c), child[c] \in Child,
         child'[c] = child[c], child[c].step \in Steps
  PROVE  Progress(c)'
BY Grows, PassedStays DEF Progress, Growth, Step

(* What is left to show of a child that goes on, exits or writes.          *)
LEMMA GoesProgress ==
  ASSUME TypeOK, [Next]_vars, NEW c \in Commands, child[c] \in Child, Progress(c),
         NEW phase \in {"work", "append", "locked", "export", "publish", "close"},
           Goes(c, phase),
         child[c].written = 0,
         phase \in {"append", "locked", "export"} => Step(c) = SloCollect,
         phase = "publish" => Step(c) # PhaseComplete,
         phase = "close" => Step(c) = PhaseComplete
  PROVE  Progress(c)'
<1>1. child'[c] = [child[c] EXCEPT !.phase = phase]
  BY GoesMoves
<1>2. child'[c].step = child[c].step /\ child'[c].phase = phase /\ child'[c].written = 0
  BY <1>1 DEF Child
<1>3. \A t \in Steps : t < child[c].step => Passed(t)'
  BY PassedStays DEF Progress
<1>4. Step(c)' = Step(c) /\ child[c].step \in Steps
  BY <1>2 DEF Step, Child
<1>5. 0 <= Len(Step(c).writes) /\ 0 <= Len(Closing)
  BY <1>4, WritesShape, ClosingShape DEF Step
<1> QED  BY <1>2, <1>3, <1>4, <1>5 DEF Progress

LEMMA ExitsProgress ==
  ASSUME TypeOK, [Next]_vars, NEW c \in Commands, child[c] \in Child, Progress(c),
         NEW outcome \in Outcomes, Exits(c, outcome),
         outcome = "PASS" => Written(child[c].step) \subseteq docs'
  PROVE  Progress(c)'
<1>1. child'[c] = [child[c] EXCEPT !.phase = "exit", !.outcome = outcome]
  BY ExitsMoves
<1>2. child'[c].step = child[c].step /\ child'[c].phase = "exit" /\ child'[c].outcome = outcome
  BY <1>1 DEF Child
<1>3. \A t \in Steps : t < child[c].step => Passed(t)'
  BY PassedStays DEF Progress
<1> QED  BY <1>2, <1>3 DEF Progress, Written

(* A child that moves keeps account of what it has done,                   *)
LEMMA ProgressOfChild ==
  ASSUME Inv, [Next]_vars, NEW c \in Commands, ChildStep(c)
  PROVE  Progress(c)'
<1>1. TypeOK /\ child[c] \in Child /\ Progress(c) /\ child[c].step \in Steps
  BY ChildMoves DEF Inv, Child
<1> USE <1>1
<1>2. CASE Gate(c)
  <2>1. CASE Exits(c, "PASS")
    <3>1. Written(child[c].step) \cap docs # {} /\ Step(c).again = "pass"
      <4>1. child'[c].outcome = "PASS" /\ child'[c].phase = "exit"
        BY <2>1, ExitsMoves DEF Outcomes, Child
      <4>2. \A o \in {"FAIL", "WAIT"} : ~Exits(c, o)
        BY <4>1, ExitsMoves DEF Outcomes, Child
      <4>3. ~Goes(c, "work")
        <5>1. SUFFICES ASSUME Goes(c, "work") PROVE FALSE
          OBVIOUS
        <5>2. child'[c] = [child[c] EXCEPT !.phase = "work"]
          BY <5>1, GoesMoves
        <5> QED  BY <4>1, <5>2 DEF Child
      <4> QED  BY <1>2, <4>2, <4>3 DEF Gate
    <3>2. Written(child[c].step) \subseteq docs'
      BY <1>2, <3>1, WrittenAtOnce DEF Step, Gate, evidence
    <3> QED  BY <2>1, <3>2, ExitsProgress DEF Outcomes
  <2>2. CASE Exits(c, "FAIL") \/ Exits(c, "WAIT")
    BY <2>2, ExitsProgress DEF Outcomes
  <2>3. CASE Goes(c, "work")
    BY <1>2, <2>3, GoesProgress DEF Gate, At, Progress
  <2> QED  BY <1>2, <2>1, <2>2, <2>3 DEF Gate
<1>3. CASE Work(c)
  <2>1. child[c].written = 0
    BY <1>3 DEF Work, At, Progress
  <2>2. CASE Goes(c, "publish") /\ Step(c) # PhaseComplete
    BY <2>1, <2>2, GoesProgress
  <2>3. CASE Goes(c, "close") /\ Step(c) = PhaseComplete
    BY <2>1, <2>3, GoesProgress
  <2>4. CASE Exits(c, "FAIL")
    BY <2>4, ExitsProgress DEF Outcomes
  <2> QED  BY <1>3, <2>2, <2>3, <2>4 DEF Work
<1>4. CASE SloProbe(c) \/ SloLock(c) \/ SloAppend(c)
  <2>1. child[c].written = 0 /\ Step(c) = SloCollect
    BY <1>4 DEF SloProbe, SloLock, SloAppend, At, Progress
  <2>2. CASE Goes(c, "append") \/ Goes(c, "export") \/ Goes(c, "locked")
    BY <2>1, <2>2, GoesProgress
  <2>3. CASE Exits(c, "FAIL") \/ Exits(c, "WAIT")
    BY <2>3, ExitsProgress DEF Outcomes
  <2> QED  BY <1>4, <2>2, <2>3 DEF SloProbe, SloLock, SloAppend
<1>5. CASE SloExport(c)
  <2>1. child[c].written = 0 /\ Step(c) # PhaseComplete
    BY <1>5, Distinct DEF SloExport, At, Progress
  <2>2. CASE Goes(c, "publish")
    BY <2>1, <2>2, GoesProgress
  <2>3. CASE Exits(c, "FAIL") \/ Exits(c, "WAIT")
    BY <2>3, ExitsProgress DEF Outcomes
  <2> QED  BY <1>5, <2>2, <2>3 DEF SloExport
<1>6. CASE Publish(c)
  <2> DEFINE k == child[c]
             w == Step(c).writes
  <2>1. /\ k.phase = "publish" /\ k.written \in Nat /\ k.written <= Len(w)
        /\ \A i \in 1..k.written : w[i] \in docs
    BY <1>6 DEF Publish, At, Progress, Child
  <2>2. Len(w) \in Nat /\ Written(k.step) = {w[i] : i \in 1..Len(w)}
    BY WritesShape DEF Step
  <2>3. CASE k.written = Len(w)
    <3>1. Exits(c, "PASS") /\ docs' = docs
      BY <1>6, <2>3 DEF Publish
    <3>2. Written(k.step) \subseteq docs'
      BY <2>1, <2>2, <2>3, <3>1
    <3> QED  BY <3>1, <3>2, ExitsProgress DEF Outcomes
  <2>4. CASE k.written # Len(w) /\ w[k.written + 1] \in docs
    BY <1>6, <2>4, ExitsProgress DEF Publish, Outcomes
  <2>5. CASE k.written # Len(w) /\ w[k.written + 1] \notin docs
    <3>1. docs' = docs \cup {w[k.written + 1]} /\ child' = [child EXCEPT ![c].written = @ + 1]
      BY <1>6, <2>5 DEF Publish
    <3>2. /\ child'[c].step = k.step /\ child'[c].phase = "publish"
          /\ child'[c].written = k.written + 1
      BY <2>1, <3>1, WritesMoves DEF Child
    <3>3. \A t \in Steps : t < k.step => Passed(t)'
      BY PassedStays DEF Progress
    <3>4. k.written + 1 <= Len(w) /\ \A i \in 1..(k.written + 1) : w[i] \in docs'
      BY <2>1, <2>2, <2>5, <3>1
    <3>5. Step(c)' = Step(c) /\ Step(c) # PhaseComplete
      BY <2>1, <3>2 DEF Step, Progress
    <3> QED  BY <3>2, <3>3, <3>4, <3>5 DEF Progress
  <2> QED  BY <2>3, <2>4, <2>5
<1>7. CASE Close(c)
  <2>1. /\ child[c].phase = "close" /\ child[c].written \in Nat
        /\ child[c].written <= Len(Closing) /\ Step(c) = PhaseComplete
    BY <1>7 DEF Close, At, Progress, Child
  <2>2. CASE child[c].written = Len(Closing)
    <3>1. Written(child[c].step) = {}
      BY <2>1, Distinct DEF Written, Step
    <3> QED  BY <1>7, <2>2, <3>1, ExitsProgress DEF Close, Outcomes
  <2>3. CASE child[c].written # Len(Closing)
    <3>1. child' = [child EXCEPT ![c].written = @ + 1]
      BY <1>7, <2>3 DEF Close
    <3>2. /\ child'[c].step = child[c].step /\ child'[c].phase = "close"
          /\ child'[c].written = child[c].written + 1
      BY <2>1, <3>1, WritesMoves DEF Child
    <3>3. \A t \in Steps : t < child[c].step => Passed(t)'
      BY PassedStays DEF Progress
    <3>4. child[c].written + 1 <= Len(Closing)
      BY <2>1, <2>3, ClosingShape
    <3>5. Step(c)' = PhaseComplete
      BY <2>1, <3>2 DEF Step
    <3> QED  BY <3>2, <3>3, <3>4, <3>5 DEF Progress
  <2> QED  BY <2>2, <2>3
<1>8. CASE ChildTimeout(c)
  BY <1>8, ExitsProgress DEF ChildTimeout, Outcomes
<1>9. CASE ChildFails(c)
  <2>1. Exits(c, "FAIL") \/ Exits(c, "WAIT")
    BY <1>9 DEF ChildFails
  <2> QED  BY <2>1, ExitsProgress DEF Outcomes
<1> QED  BY <1>2, <1>3, <1>4, <1>5, <1>6, <1>7, <1>8, <1>9 DEF ChildStep, ChildSteps

(* and so does every child, as a new one begins with nothing done.         *)
LEMMA ProgressKept ==
  ASSUME Inv, [Next]_vars
  PROVE  (\A c \in Commands : child[c] # None => Progress(c))'
<1> USE DEF Inv, control, evidence, world
<1>0. \A c \in Commands : child[c] # None => child[c] \in Child /\ child[c].step \in Steps
  BY DEF TypeOK, Child
<1>1. ASSUME NEW c \in Commands, child'[c] # None, child'[c] = child[c] PROVE Progress(c)'
  BY <1>0, <1>1, ProgressStays
<1>2. ASSUME NEW c \in Commands, ChildStep(c) PROVE Progress(c)'
  BY <1>2, ProgressOfChild
<1>3. ASSUME NEW c \in Commands, Select(c), child'[c] # None, child'[c] # child[c]
      PROVE  Progress(c)'
  BY <1>3, SelectTypes, PassedStays DEF Progress, IsNext, Child
<1>4. ASSUME NEW d \in Commands, child'[d] # None PROVE Progress(d)'
  <2>1. CASE \E c \in Commands : ChildStep(c)
    BY <1>1, <1>2, <1>4, <2>1, ChildTypes
  <2>2. CASE \E c \in Commands : Select(c)
    BY <1>1, <1>3, <1>4, <2>2, SelectTypes
  <2>3. CASE \E c \in Commands : (\E a \in Approvals : Acquire(c, a)) \/ WriteReceipt(c)
                                 \/ Release(c) \/ OrphanEnds(c) \/ Crash(c)
    <3>1. child'[d] = child[d] \/ child'[d] = None
      BY <2>3 DEF Acquire, WriteReceipt, Release, OrphanEnds, Crash, TypeOK
    <3> QED  BY <1>1, <1>4, <3>1
  <2>4. CASE TurnedAway \/ DayPasses \/ RemoveLock \/ UNCHANGED vars
             \/ (\E a \in Approvals : Expire(a)) \/ (\E e \in Documents : Spoil(e))
    <3>1. child' = child
      BY <2>4 DEF TurnedAway, DayPasses, RemoveLock, vars, Expire, Spoil
    <3> QED  BY <1>1, <1>4, <3>1
  <2> QED  BY Cases, <2>1, <2>2, <2>3, <2>4
<1> QED  BY <1>4

(* Documents and closing files are written by children at their step.      *)
LEMMA EvidenceKept == ASSUME Inv, [Next]_vars PROVE EvidenceInOrder'
<1>1. ASSUME NEW s \in Steps, Passed(s)' PROVE (Written(s) \subseteq docs)'
  <2>1. CASE Passed(s)
    BY <2>1, Grows DEF Inv, EvidenceInOrder, Growth, Written
  <2>2. CASE ~Passed(s)
    <3>1. PICK c \in Commands : WriteReceipt(c)
      <4>1. receipts' # receipts
        BY <1>1, <2>2 DEF Passed, Of
      <4>2. ASSUME NEW c \in Commands, ChildStep(c) PROVE FALSE
        BY <4>1, <4>2, ChildMoves DEF Inv
      <4> QED
        BY <4>1, <4>2, Cases DEF Acquire, Select, Release, OrphanEnds, Crash,
             TurnedAway, DayPasses,
             RemoveLock, vars, Expire, Spoil, control
    <3>2. child[c] # None /\ child[c].phase = "exit" /\ child[c] \in Child
      BY <3>1 DEF WriteReceipt, Inv, Phases, TypeOK
    <3>3. child[c].step = s /\ child[c].outcome = "PASS"
      BY <1>1, <2>2, <3>1 DEF WriteReceipt, Passed, Of
    <3>4. docs' = docs
      BY <3>1 DEF WriteReceipt, evidence
    <3> QED  BY <3>2, <3>3, <3>4 DEF Inv, Progress, Written
  <2> QED  BY <2>1, <2>2
<1>2. ASSUME NEW s \in Steps, NEW t \in Steps, t < s,
             (Written(s) \cap docs # {} \/ (Plan[s] = PhaseComplete /\ closed # {}))'
      PROVE Passed(t)'
  <2>1. CASE Written(s) \cap docs # {} \/ (Plan[s] = PhaseComplete /\ closed # {})
    BY <1>2, <2>1, PassedStays DEF Inv, EvidenceInOrder
  <2>2. CASE ~(Written(s) \cap docs # {} \/ (Plan[s] = PhaseComplete /\ closed # {}))
    <3>1. PICK c \in Commands : Publish(c) \/ Close(c)
      <4>1. docs' # docs \/ (closed' # closed /\ closed' # {})
        <5>1. Written(s) \cap docs' # {} \/ (Plan[s] = PhaseComplete /\ closed' # {})
          BY <1>2 DEF Written, PhaseComplete
        <5>2. CASE Written(s) \cap docs' # {}
          BY <2>2, <5>2
        <5>3. CASE Plan[s] = PhaseComplete /\ closed' # {}
          BY <2>2, <5>3
        <5> QED  BY <5>1, <5>2, <5>3
      <4>2. ASSUME NEW c \in Commands, ChildStep(c) PROVE Publish(c) \/ Close(c)
        BY <4>1, <4>2 DEF ChildStep, ChildSteps, ChildTimeout, ChildFails, evidence,
             Gate, Work, SloProbe,
             SloLock, SloAppend, SloExport
      <4> QED
        BY <4>1, <4>2, Cases DEF Acquire, Select, WriteReceipt, Release, OrphanEnds,
             Crash, TurnedAway,
             DayPasses, RemoveLock, vars, Expire, Spoil, evidence
    <3>2. child[c] # None /\ child[c].step \in Steps /\ Progress(c)
      BY <3>1 DEF Publish, Close, At, Inv, TypeOK, Child
    <3>3. child[c].step = s
      <4>1. CASE Publish(c)
        <5>1. PICK d : d \in Written(s) /\ d \in docs' \ docs
          BY <1>2, <2>2, <4>1 DEF Publish, Written
        <5>2. d \in Written(child[c].step)
          <6>1. d = Step(c).writes[child[c].written + 1] /\ child[c].written # Len(Step(c).writes)
            BY <4>1, <5>1 DEF Publish
          <6>2. child[c].written \in Nat /\ child[c].written <= Len(Step(c).writes)
            BY <3>2, <4>1 DEF Publish, At, Progress, Inv, TypeOK, Child
          <6>3. child[c].written + 1 \in 1..Len(Step(c).writes)
            BY <3>2, <6>1, <6>2, WritesShape DEF Step
          <6> QED  BY <3>2, <6>1, <6>3, WritesShape DEF Step
        <5> QED  BY <3>2, <5>1, <5>2, WrittenOnce
      <4>2. CASE Close(c)
        <5>1. Plan[s] = PhaseComplete
          BY <1>2, <2>2, <4>2 DEF Close, Written
        <5>2. Plan[child[c].step] = PhaseComplete
          BY <3>2, <4>2 DEF Close, Progress, Step, At
        <5> QED  BY <3>2, <5>1, <5>2, ActivationAssumption
      <4> QED  BY <3>1, <4>1, <4>2
    <3> QED  BY <1>2, <3>2, <3>3, PassedStays DEF Progress, Inv
  <2> QED  BY <2>1, <2>2
<1> QED  BY <1>1, <1>2 DEF EvidenceInOrder

(* A lease is given back by its own command; a crash leaves it behind; and *)
(* an operator who takes it with nobody alive finds no command and no      *)
(* child.                                                                  *)
LEMMA LeasesKept == ASSUME Inv, [Next]_vars PROVE (~forced => Leases)' /\ OneWriter'
<1> SUFFICES ASSUME ~forced'
             PROVE  Leases' /\ (\A c, d \in Commands : Busy(c) /\ Busy(d) => c = d)'
  BY DEF OneWriter
<1>0. ~forced /\ Leases /\ (\A c, d \in Commands : Busy(c) /\ Busy(d) => c = d)
  BY Grows DEF Growth, Inv, OneWriter
<1> USE <1>0, ActivationAssumption DEF Leases, Busy, Inv, TypeOK, Phases, control,
     evidence, world
<1>1. ASSUME NEW c \in Commands, ChildStep(c)
      PROVE  Leases' /\ (\A e, d \in Commands : Busy(e) /\ Busy(d) => e = d)'
  <2>1. command' = command /\ lock' = lock
    BY <1>1, ChildMoves
  <2>2. \A d \in Commands : (child[d] = None) <=> (child'[d] = None)
    BY <1>1, ChildMoves, ChildTypes, ChildAssumption
  <2> QED  BY <2>1, <2>2
<1>2. ASSUME NEW c \in Commands, NEW a \in Approvals, Acquire(c, a)
      PROVE  Leases' /\ (\A e, d \in Commands : Busy(e) /\ Busy(d) => e = d)'
  <2>1. \A d \in Commands : ~Busy(d)
    BY <1>2 DEF Acquire
  <2> QED  BY <1>2, <2>1 DEF Acquire
<1>3. ASSUME NEW c \in Commands, Select(c)
      PROVE  Leases' /\ (\A e, d \in Commands : Busy(e) /\ Busy(d) => e = d)'
  <2>1. Busy(c) /\ lock' = lock /\ command[c].phase = "leased"
    BY <1>3 DEF Select
  <2>2. \A d \in Commands \ {c} : command'[d] = command[d] /\ child'[d] = child[d]
    BY <1>3, SelectTypes
  <2>3. command'[c].phase # "idle"
    BY <1>3, SelectTypes
  <2> QED  BY <2>1, <2>2, <2>3
<1>4. ASSUME NEW c \in Commands, WriteReceipt(c) \/ Release(c) \/ OrphanEnds(c)
      PROVE  Leases' /\ (\A e, d \in Commands : Busy(e) /\ Busy(d) => e = d)'
  BY <1>4 DEF WriteReceipt, Release, OrphanEnds, Orphan, At
<1>5. ASSUME NEW c \in Commands, Crash(c)
      PROVE  Leases' /\ (\A e, d \in Commands : Busy(e) /\ Busy(d) => e = d)'
  BY <1>5 DEF Crash
<1>6. CASE RemoveLock
  <2>1. lock = Dead /\ \A c \in Commands : child[c] = None
    BY <1>6 DEF RemoveLock
  <2> QED  BY <1>6, <2>1 DEF RemoveLock
<1>7. CASE TurnedAway \/ DayPasses \/ UNCHANGED vars
  BY <1>7 DEF TurnedAway, DayPasses, vars
<1>8. ASSUME NEW a \in Approvals, Expire(a)
      PROVE  Leases' /\ (\A e, d \in Commands : Busy(e) /\ Busy(d) => e = d)'
  BY <1>8 DEF Expire
<1>9. ASSUME NEW d \in Documents, Spoil(d)
      PROVE  Leases' /\ (\A e, f \in Commands : Busy(e) /\ Busy(f) => e = f)'
  BY <1>9 DEF Spoil
<1> QED  BY Cases, <1>1, <1>2, <1>3, <1>4, <1>5, <1>6, <1>7, <1>8, <1>9

(* The body of LeaseGuardsWorld. *)
Guarded ==
    /\ ~ledger.double
    /\ \A s \in Steps : Plan[s] = PhaseComplete /\ Passed(s) => closed = Files

(* What going on and exiting leave as it is.                               *)
LEMMA Fields ==
  ASSUME TypeOK, NEW c \in Commands, child[c] \in Child
  PROVE  /\ \A phase \in {"work", "append", "locked", "export", "publish",
                          "close"} : Goes(c, phase) =>
              child'[c].phase = phase /\ child'[c].written = child[c].written
         /\ \A outcome \in Outcomes : Exits(c, outcome) =>
              child'[c].phase = "exit" /\ child'[c].outcome = outcome
         /\ child' = [child EXCEPT ![c].written = @ + 1] =>
              child'[c].phase = child[c].phase /\ child'[c].written = child[c].written + 1
<1>1. ASSUME NEW phase \in {"work", "append", "locked", "export", "publish", "close"},
             Goes(c, phase)
      PROVE  child'[c].phase = phase /\ child'[c].written = child[c].written
  <2>1. child'[c] = [child[c] EXCEPT !.phase = phase]
    BY <1>1, GoesMoves
  <2> QED  BY <2>1 DEF Child
<1>2. ASSUME NEW outcome \in Outcomes, Exits(c, outcome)
      PROVE  child'[c].phase = "exit" /\ child'[c].outcome = outcome
  <2>1. child'[c] = [child[c] EXCEPT !.phase = "exit", !.outcome = outcome]
    BY <1>2, ExitsMoves
  <2> QED  BY <2>1 DEF Child
<1>3. ASSUME child' = [child EXCEPT ![c].written = @ + 1]
      PROVE  child'[c].phase = child[c].phase /\ child'[c].written = child[c].written + 1
  <2>1. child'[c] = [child[c] EXCEPT !.written = @ + 1]
    BY <1>3, WritesMoves
  <2> QED  BY <2>1 DEF Child
<1> QED  BY <1>1, <1>2, <1>3

(* The steps of a child that is alone keep what it is alone with.          *)
LEMMA AloneOfChild ==
  ASSUME Inv, [Next]_vars, NEW c \in Commands, ChildStep(c), Alone(c)
  PROVE  /\ (child[c].phase = "locked" => ledger.today = 0)'
         /\ (child[c].phase = "close" => closed = {Closing[i] : i \in 1..child[c].written})'
         /\ (child[c].phase = "exit" /\ child[c].outcome = "PASS" /\ Step(c) = PhaseComplete
               => closed = Files)'
<1>1. /\ TypeOK /\ child[c] \in Child /\ Progress(c) /\ Step(c)' = Step(c)
      /\ child[c].written \in Nat /\ ledger \in Ledger
  BY ChildMoves, ChildTypes DEF Inv, TypeOK, Child, Step
<1> USE <1>1, Fields
<1>2. CASE Gate(c)
  BY <1>2, Distinct DEF Gate, Outcomes, At
<1>3. CASE Work(c)
  <2>1. child[c].written = 0 /\ {Closing[i] : i \in 1..0} = {}
    BY <1>3 DEF Work, At, Progress
  <2>2. CASE closed = {} /\ Goes(c, "close")
    <3>1. closed' = {} /\ child'[c].phase = "close" /\ child'[c].written = 0
      BY <1>3, <2>1, <2>2 DEF Work, evidence
    <3> QED  BY <2>1, <3>1
  <2>3. CASE Goes(c, "publish") \/ Exits(c, "FAIL")
    BY <2>3 DEF Outcomes
  <2> QED  BY <1>3, <2>2, <2>3 DEF Work
<1>4. CASE SloProbe(c) \/ SloAppend(c) \/ SloExport(c)
  BY <1>4 DEF SloProbe, SloAppend, SloExport, Outcomes
<1>5. CASE SloLock(c)
  BY <1>5 DEF SloLock, Outcomes, Ledger
<1>6. CASE Publish(c)
  BY <1>6 DEF Publish, Outcomes, At, Progress
<1>7. CASE Close(c)
  <2>1. closed = {Closing[i] : i \in 1..child[c].written} /\ child[c].phase = "close"
    BY <1>7 DEF Close, At, Alone
  <2>2. CASE child[c].written = Len(Closing)
    <3>1. Exits(c, "PASS") /\ closed' = closed
      BY <1>7, <2>2 DEF Close
    <3> QED  BY <2>1, <2>2, <3>1, ClosingShape DEF Outcomes
  <2>3. CASE child[c].written # Len(Closing)
    <3>1. /\ closed' = closed \cup {Closing[child[c].written + 1]}
          /\ child'[c].phase = "close" /\ child'[c].written = child[c].written + 1
      BY <1>7, <2>1, <2>3 DEF Close
    <3>2. closed' = {Closing[i] : i \in 1..(child[c].written + 1)}
      BY <2>1, <3>1
    <3> QED  BY <3>1, <3>2
  <2> QED  BY <2>2, <2>3
<1>8. CASE ChildTimeout(c)
  BY <1>8 DEF ChildTimeout, Outcomes
<1>9. CASE ChildFails(c)
  <2>1. Exits(c, "FAIL") \/ Exits(c, "WAIT")
    BY <1>9 DEF ChildFails
  <2> QED  BY <2>1 DEF Outcomes
<1> QED  BY <1>2, <1>3, <1>4, <1>5, <1>6, <1>7, <1>8, <1>9 DEF ChildStep, ChildSteps

(* Only the one child there is changes what it is alone with.              *)
LEMMA AloneKept ==
  ASSUME Inv, [Next]_vars, ~forced'
  PROVE  (\A c \in Commands : child[c] # None => Alone(c))' /\ Guarded'
<1>0. /\ ~forced /\ Guarded
      /\ \A c, d \in Commands : child[c] # None /\ child[d] # None => c = d
      /\ \A c \in Commands : child[c] # None =>
            child[c] \in Child /\ child[c].step \in Steps /\ Alone(c) /\ Progress(c)
  <2>1. ~forced
    BY Grows DEF Growth, Inv
  <2> QED  BY <2>1 DEF Inv, OneWriter, Busy, LeaseGuardsWorld, Guarded, TypeOK, Child
<1>1. ASSUME NEW c \in Commands, ChildStep(c)
      PROVE  (\A d \in Commands : child[d] # None => Alone(d))' /\ Guarded'
  <2>1. /\ child[c] # None /\ child[c] \in Child /\ Alone(c) /\ Progress(c) /\ child[c].step \in Steps
        /\ receipts' = receipts
    BY <1>0, <1>1, ChildMoves DEF Inv
  <2>2. \A d \in Commands : child'[d] # None => d = c
    BY <1>0, <1>1, <2>1, ChildTypes DEF Inv
  <2>3. child'[c].step = child[c].step /\ ~Passed(child[c].step)'
    BY <1>1, <2>1, ChildTypes DEF Inv, Alone, Passed, Of
  <2>4. \A s \in Steps : Plan[s] = PhaseComplete /\ closed' # closed => s = child[c].step
    <3>1. Step(c) = PhaseComplete \/ closed' = closed
      BY <1>1, <2>1 DEF ChildStep, ChildSteps, ChildTimeout, ChildFails, Gate, Work,
           SloProbe, SloLock,
           SloAppend, SloExport, Publish, Close, evidence, At, Progress
    <3> QED  BY <2>1, <3>1, ActivationAssumption DEF Step
  <2>5. ~ledger'.double
    BY <1>0, <1>1, <2>1 DEF ChildStep, ChildSteps, ChildTimeout, ChildFails, Gate,
         Work, SloProbe, SloLock,
           SloAppend, SloExport, Publish, Close, evidence, At, Alone, Guarded, Inv,
             TypeOK, Ledger
  <2>6. Guarded'
    BY <1>0, <2>1, <2>3, <2>4, <2>5 DEF Guarded, Passed, Of
  <2> QED  BY <1>1, <2>1, <2>2, <2>3, <2>6, AloneOfChild DEF Alone, Passed, Of
<1>2. ASSUME NEW c \in Commands, WriteReceipt(c)
      PROVE  (\A d \in Commands : child[d] # None => Alone(d))' /\ Guarded'
  <2>1. child[c] # None /\ child[c].phase = "exit"
    BY <1>2 DEF WriteReceipt, Inv, Phases
  <2>2. child' = [child EXCEPT ![c] = None] /\ closed' = closed /\ ledger' = ledger
    BY <1>2 DEF WriteReceipt, evidence
  <2>3. \A d \in Commands : child'[d] = None
    BY <1>0, <2>1, <2>2 DEF Inv, TypeOK
  <2>4. ASSUME NEW s \in Steps, Plan[s] = PhaseComplete, Passed(s)', ~Passed(s)
        PROVE  closed = Files
    <3>1. child[c].step = s /\ child[c].outcome = "PASS"
      BY <1>2, <2>4 DEF WriteReceipt, Passed, Of
    <3> QED  BY <1>0, <2>1, <2>4, <3>1 DEF Alone, Step
  <2> QED  BY <1>0, <2>2, <2>3, <2>4 DEF Guarded
<1>3. ASSUME NEW c \in Commands, Select(c)
      PROVE  (\A d \in Commands : child[d] # None => Alone(d))' /\ Guarded'
  <2>1. receipts' = receipts /\ ledger' = ledger /\ closed' = closed
    BY <1>3 DEF Select, evidence
  <2>2. ASSUME NEW d \in Commands, child'[d] # None PROVE Alone(d)'
    <3>1. CASE child'[d] = child[d]
      BY <1>0, <2>1, <2>2, <3>1 DEF Alone, Passed, Of, Step
    <3>2. CASE child'[d] # child[d]
      BY <1>3, <2>1, <3>2, SelectTypes DEF Inv, Alone, IsNext, Passed, Of
    <3> QED  BY <3>1, <3>2
  <2> QED  BY <1>0, <2>1, <2>2 DEF Guarded, Passed, Of
<1>4. CASE \E c \in Commands : (\E a \in Approvals : Acquire(c, a)) \/ Release(c)
                               \/ OrphanEnds(c) \/ Crash(c)
  <2>1. receipts' = receipts /\ ledger' = ledger /\ closed' = closed
    BY <1>4 DEF Acquire, Release, OrphanEnds, Crash, evidence, control
  <2>2. \A d \in Commands : child'[d] = child[d] \/ child'[d] = None
    BY <1>4 DEF Acquire, Release, OrphanEnds, Crash, Inv, TypeOK
  <2> QED  BY <1>0, <2>1, <2>2 DEF Guarded, Alone, Passed, Of, Step
<1>5. CASE TurnedAway \/ RemoveLock \/ UNCHANGED vars
           \/ (\E a \in Approvals : Expire(a)) \/ (\E e \in Documents : Spoil(e))
  <2>1. receipts' = receipts /\ ledger' = ledger /\ closed' = closed /\ child' = child
    BY <1>5 DEF TurnedAway, RemoveLock, vars, Expire, Spoil, evidence, control
  <2> QED  BY <1>0, <2>1 DEF Guarded, Alone, Passed, Of, Step
<1>6. CASE DayPasses
  <2>1. /\ receipts' = receipts /\ closed' = closed /\ child' = child
        /\ \A c \in Commands : child[c] = None
        /\ ledger'.double = ledger.double
    BY <1>6 DEF DayPasses, Inv, TypeOK, Ledger
  <2> QED  BY <1>0, <2>1 DEF Guarded, Passed, Of
<1> QED  BY Cases, <1>1, <1>2, <1>3, <1>4, <1>5, <1>6

(* Incidents and beats stay in their bounds.                               *)
LEMMA IncidentTypes == ASSUME TypeOK, Incident PROVE incidents' \in 0..MaxIncidents
BY ActivationAssumption DEF Incident, TypeOK

LEMMA BeatTypes == ASSUME TypeOK, Beat PROVE beats' \in 0..Beats
BY ActivationAssumption DEF Beat, TypeOK

(* The types are kept: by a child ...                                      *)
LEMMA TypesOfChild ==
  ASSUME Inv, NEW c \in Commands, ChildStep(c)
  PROVE  TypeOK' /\ IsFiniteSet(receipts)'
<1>1. /\ TypeOK /\ child[c] \in Child /\ Progress(c) /\ child[c].step \in Steps
      /\ child[c].written \in Nat /\ ledger \in Ledger
  BY ChildMoves DEF Inv, TypeOK, Child
<1>2. UNCHANGED <<claim, lock, receipts, command, beats, expired, forced,
  stale>> /\ docs \subseteq docs'
  BY <1>1, ChildMoves
<1>3. child' \in [Commands -> Child \cup {None}]
  BY <1>1, ChildTypes
<1>4. docs' \subseteq Documents
  <2>1. CASE Publish(c)
    <3>1. CASE docs' = docs \cup {Step(c).writes[child[c].written + 1]} /\ child[c].written # Len(Step(c).writes)
      <4>1. child[c].written + 1 \in 1..Len(Step(c).writes)
        BY <1>1, <2>1, <3>1, WritesShape DEF Publish, At, Progress, Step
      <4> QED  BY <1>1, <3>1, <4>1, WritesShape DEF Documents, Step, TypeOK
    <3>2. CASE docs' = docs
      BY <1>1, <3>2 DEF TypeOK
    <3> QED  BY <2>1, <3>1, <3>2 DEF Publish
  <2>2. CASE ~Publish(c)
    BY <1>1, <2>2 DEF ChildStep, ChildSteps, ChildTimeout, ChildFails, Gate, Work,
         SloProbe, SloLock, SloAppend,
         SloExport, Close, evidence, control, TypeOK
  <2> QED  BY <2>1, <2>2
<1>5. closed' \subseteq Files
  <2>1. CASE Close(c)
    <3>1. CASE closed' = closed \cup {Closing[child[c].written + 1]} /\ child[c].written # Len(Closing)
      <4>1. child[c].written + 1 \in 1..4
        BY <1>1, <2>1, <3>1, ClosingShape DEF Close, At, Progress
      <4> QED  BY <1>1, <3>1, <4>1, ClosingShape DEF TypeOK
    <3>2. CASE closed' = closed
      BY <1>1, <3>2 DEF TypeOK
    <3> QED  BY <2>1, <3>1, <3>2 DEF Close
  <2>2. CASE ~Close(c)
    BY <1>1, <2>2 DEF ChildStep, ChildSteps, ChildTimeout, ChildFails, Gate, Work,
         SloProbe, SloLock, SloAppend,
         SloExport, Publish, evidence, control, TypeOK
  <2> QED  BY <2>1, <2>2
<1>6. ledger' \in Ledger
  <2>1. CASE SloLock(c)
    BY <1>1, <2>1 DEF SloLock, Ledger
  <2>2. CASE SloAppend(c)
    <3> DEFINE first == ledger.today = 0
               days == IF first THEN ledger.days + 1 ELSE ledger.days
               double == ledger.double \/ ~first
    <3>1. ledger' = [ledger EXCEPT !.days = days, !.today = 1, !.locked = FALSE,
                     !.double = double]
      BY <2>2 DEF SloAppend
    <3>2. days \in Nat
      BY <1>1 DEF Ledger
    <3>3. double \in BOOLEAN
      OBVIOUS
    <3> HIDE DEF days, double
    <3> QED  BY <1>1, <3>1, <3>2, <3>3 DEF Ledger
  <2>3. CASE ChildFails(c)
    BY <1>1, <2>3 DEF ChildFails, Ledger
  <2>4. CASE ~SloLock(c) /\ ~SloAppend(c) /\ ~ChildFails(c)
    BY <1>1, <2>4 DEF ChildStep, ChildSteps, ChildTimeout, Gate, Work, SloProbe,
         SloExport, Publish, Close, evidence, control
  <2> QED  BY <2>1, <2>2, <2>3, <2>4
<1>7. incidents' \in 0..MaxIncidents
  <2>1. Incident \/ incidents' = incidents
    BY DEF ChildStep, ChildSteps, ChildTimeout, ChildFails, Gate, Work, SloProbe,
         SloLock, SloAppend,
         SloExport, Publish, Close
  <2> QED  BY <1>1, <2>1, IncidentTypes DEF TypeOK
<1> QED  BY <1>1, <1>2, <1>3, <1>4, <1>5, <1>6, <1>7 DEF TypeOK, Inv

(* ... and by everything else.                                             *)
LEMMA TypesKept == ASSUME Inv, [Next]_vars PROVE TypeOK' /\ IsFiniteSet(receipts)'
<1>0. TypeOK /\ IsFiniteSet(receipts) /\ Phases
  BY DEF Inv
<1> USE <1>0 DEF TypeOK, evidence, control, world
<1>1. ASSUME NEW c \in Commands, ChildStep(c) PROVE TypeOK' /\ IsFiniteSet(receipts)'
  BY <1>1, TypesOfChild
<1>2. ASSUME NEW c \in Commands, NEW a \in Approvals, Acquire(c, a)
      PROVE  TypeOK' /\ IsFiniteSet(receipts)'
  BY <1>2, BeatTypes DEF Acquire
<1>3. ASSUME NEW c \in Commands, Select(c) PROVE TypeOK' /\ IsFiniteSet(receipts)'
  <2>1. UNCHANGED <<claim, lock, receipts, beats, evidence, world, incidents>>
    BY <1>3 DEF Select
  <2>2. command' \in [Commands -> [phase: {"idle", "leased", "waiting", "releasing"},
                                   approval: Approvals \cup {None}]]
    BY <1>3, SelectTypes
  <2>3. child' \in [Commands -> Child \cup {None}]
    BY <1>3, SelectTypes
  <2> QED  BY <2>1, <2>2, <2>3
<1>4. ASSUME NEW c \in Commands, WriteReceipt(c) PROVE TypeOK' /\ IsFiniteSet(receipts)'
  <2> DEFINE k == child[c]
             r == [step |-> k.step, attempt |-> k.attempt, outcome |-> k.outcome,
                   profile |-> k.profile, approval |-> command[c].approval]
  <2>1. k \in Child /\ command[c].approval \in Approvals
    BY <1>4 DEF WriteReceipt, Phases, Inv
  <2>2. r \in Receipt
    BY <2>1 DEF Child, Receipt
  <2>3. receipts' = receipts \/ receipts' = receipts \cup {r}
    BY <1>4 DEF WriteReceipt
  <2> HIDE DEF r
  <2>4. receipts' \subseteq Receipt /\ IsFiniteSet(receipts')
    <3>1. IsFiniteSet(receipts \cup {r})
      BY FS_AddElement
    <3> QED  BY <2>2, <2>3, <3>1
  <2> QED  BY <1>4, <2>4 DEF WriteReceipt
<1>5. ASSUME NEW c \in Commands, Release(c) \/ OrphanEnds(c) \/ Crash(c)
      PROVE  TypeOK' /\ IsFiniteSet(receipts)'
  BY <1>5, IncidentTypes DEF Release, OrphanEnds, Crash
<1>6. CASE TurnedAway \/ RemoveLock \/ UNCHANGED vars
  BY <1>6, BeatTypes, IncidentTypes DEF TurnedAway, RemoveLock, vars
<1>7. CASE DayPasses
  <2> DEFINE gap == ledger.gap \/ (ledger.days > 0 /\ ledger.today = 0)
  <2>1. ledger' = [ledger EXCEPT !.today = 0, !.gap = gap]
    BY <1>7 DEF DayPasses
  <2>2. gap \in BOOLEAN
    OBVIOUS
  <2> HIDE DEF gap
  <2>3. ledger' \in Ledger
    BY <2>1, <2>2 DEF Ledger
  <2>4. beats' \in 0..Beats /\ incidents' \in 0..MaxIncidents
    BY <1>7, IncidentTypes, ActivationAssumption DEF DayPasses
  <2> QED  BY <1>7, <2>3, <2>4 DEF DayPasses
<1>8. ASSUME NEW a \in Approvals, Expire(a) PROVE TypeOK' /\ IsFiniteSet(receipts)'
  BY <1>8, IncidentTypes DEF Expire
<1>9. ASSUME NEW d \in Documents, Spoil(d) PROVE TypeOK' /\ IsFiniteSet(receipts)'
  BY <1>9, IncidentTypes DEF Spoil
<1> QED  BY Cases, <1>1, <1>2, <1>3, <1>4, <1>5, <1>6, <1>7, <1>8, <1>9

(* At the beginning nothing is leased, run or written.                     *)
LEMMA InitInv == Init => Inv
<1> SUFFICES ASSUME Init PROVE Inv
  OBVIOUS
<1>1. TypeOK /\ IsFiniteSet(receipts)
  <2>1. ledger \in Ledger
    BY DEF Init, Ledger
  <2>2. beats \in 0..Beats /\ incidents \in 0..MaxIncidents
    BY ActivationAssumption DEF Init
  <2>3. child \in [Commands -> Child \cup {None}]
    BY DEF Init
  <2>4. command \in [Commands -> [phase: {"idle", "leased", "waiting", "releasing"},
                                  approval: Approvals \cup {None}]]
    BY DEF Init
  <2> QED  BY <2>1, <2>2, <2>3, <2>4, FS_EmptySet DEF Init, TypeOK
<1>2. Phases /\ EvidenceInOrder /\ Leases /\ OneWriter
  BY DEF Init, Phases, EvidenceInOrder, Passed, Of, Leases, OneWriter, Busy
<1>3. \A c \in Commands : child[c] = None
  BY DEF Init
<1>4. LeaseGuardsWorld
  BY DEF Init, LeaseGuardsWorld, Passed, Of
<1> QED  BY <1>1, <1>2, <1>3, <1>4 DEF Inv

(* Every reachable state satisfies the invariant, whatever the plan, the   *)
(* number of commands, and the incidents.                                  *)
THEOREM ActivationInvariant == Spec => []Inv
<1>1. ASSUME Inv, [Next]_vars PROVE Inv'
  <2>1. TypeOK' /\ IsFiniteSet(receipts)' /\ Phases' /\ EvidenceInOrder'
    BY <1>1, TypesKept, PhasesKept, EvidenceKept DEF Inv
  <2>2. (\A c \in Commands : child[c] # None => Progress(c))'
    BY <1>1, ProgressKept
  <2>3. (~forced => Leases)' /\ OneWriter'
    BY <1>1, LeasesKept
  <2>4. (~forced => \A c \in Commands : child[c] # None => Alone(c))' /\ LeaseGuardsWorld'
    BY <1>1, AloneKept DEF Guarded, LeaseGuardsWorld
  <2> QED  BY <2>1, <2>2, <2>3, <2>4 DEF Inv
<1> QED  BY <1>1, InitInv, PTL DEF Spec

(* As long as no lease is taken from a command or a child that is alive,   *)
(* one command at most has the lease of the activation or a child.         *)
THEOREM OneWriterAtMost == Spec => []OneWriter
<1>1. Inv => OneWriter
  BY DEF Inv
<1> QED  BY <1>1, ActivationInvariant, PTL

(* A passed step has left all its documents, and nothing a step leaves is  *)
(* there before all earlier steps have passed.                             *)
THEOREM EvidenceIsInOrder == Spec => []EvidenceInOrder
<1>1. Inv => EvidenceInOrder
  BY DEF Inv
<1> QED  BY <1>1, ActivationInvariant, PTL

(* The samples of a day are doubled, and P7 is open again after its        *)
(* closing has passed, only if a lease was forced from the living.         *)
THEOREM LeaseKeepsWorld == Spec => []LeaseGuardsWorld
<1>1. Inv => LeaseGuardsWorld
  BY DEF Inv
<1> QED  BY <1>1, ActivationInvariant, PTL

(***************************************************************************)
(* Why a single run works under the lease, and why no tunnel loses its     *)
(* key, although a lease recovery unlinks whatever lies under the path.    *)
(* Both follow from one inductive invariant: as long as no two recoveries  *)
(* overlap, the lease a recovery is about to remove is still the one it    *)
(* has seen, of a run that is over.                                        *)
(***************************************************************************)

(* Where a run calls the provider about its tunnel.                        *)
Serving == {"link", "unlink", "config", "start", "connect", "record", "post", "verify",
            "delete"}

(* A run that works with a tunnel has it from its gate or has created it   *)
(* itself; one whose creation was not acknowledged is over.                *)
Origins ==
    /\ \A r \in Runs : run[r].at = "unborn" => tunnel # r /\ run[r].tunnel = Nothing
    /\ \A r \in Runs : run[r].at \in {"lease", "orphan", "create"} => run[r].tunnel # r
    /\ \A r \in Runs : run[r].at = "create" => run[r].tunnel = Nothing
    /\ \A r \in Runs : run[r].at \in Serving => run[r].tunnel # Nothing
    /\ \A e \in late : e.op = "create" =>
          run[e.tunnel].at \in Over /\ run[e.tunnel].tunnel # e.tunnel

(* The only recovery about to remove a lease removes that of a dead run.   *)
Removals ==
    \A r \in Runs : run[r].at = "clear" =>
        /\ lease # Nothing /\ lease = run[r].key
        /\ \A q \in Runs : lease = q => run[q].at \in Over
        /\ \A q \in Runs : run[q].at = "clear" => q = r

(* The run that has created a tunnel has its key in its hands until the    *)
(* key is under the name of the tunnel.                                    *)
Credentials ==
    \A r \in Runs :
        /\ run[r].at = "link" => run[r].tunnel = r /\ temp = r
        /\ run[r].at = "unlink" => run[r].tunnel = r /\ temp = r /\ final[r] = r

IngressInv ==
    /\ IngressTypeOK
    /\ Origins
    /\ ~overlap => Removals /\ Credentials
    /\ OneHolder /\ KeyKept

(* The steps keep the types: first where the runs are, ...                 *)
LEMMA RunTypes ==
  ASSUME IngressTypeOK, [IngressNext]_ingressVars
  PROVE  run' \in [Runs -> Run]
<1>1. ASSUME NEW r \in Runs,
             AcquireLease(r) \/ Finish(r) \/ RecoverLease(r) \/ ClearLease(r)
      PROVE  run' \in [Runs -> Run]
  BY <1>1, SMTT(60) DEF AcquireLease, Finish, RecoverLease, ClearLease, Goto, End,
       IngressTypeOK, Run, Owner, Record, Holding, Unleased, Over
<1>2. ASSUME NEW r \in Runs, Publication(r) PROVE run' \in [Runs -> Run]
  BY <1>2, SMTT(60) DEF Publication, PublishIngress, Create, LinkCredential,
       UnlinkTemporary, EnsureConfig, StartProcess, AwaitConnection, ReadRecord,
       PostRecord, VerifyRecord, Goto, End, IngressTypeOK, Run, Owner, Record, Holding,
       Unleased, Over
<1>3. ASSUME NEW r \in Runs, OrphanRecovery(r) PROVE run' \in [Runs -> Run]
  BY <1>3, SMTT(60) DEF OrphanRecovery, RecoverOrphan, CheckOrphan, DeleteTunnel,
       RemoveTemporary, Goto, End, IngressTypeOK, Run, Owner, Record, Holding,
       Unleased, Over
<1>4. ASSUME NEW r \in Runs, RouteDisable(r) PROVE run' \in [Runs -> Run]
  BY <1>4, SMTT(60) DEF RouteDisable, DisableRoute, ReadRoute, DropRecord,
       ConfirmRoute, Goto, End, IngressTypeOK, Run, Owner, Record, Holding, Unleased,
       Over
<1>5. ASSUME NEW r \in Runs, Kill(r) \/ Break(r) PROVE run' \in [Runs -> Run]
  BY <1>5, SMTT(60) DEF Kill, Break, Goto, End, IngressTypeOK, Run, Owner, Record,
       Holding, Unleased, Over
<1>6. ASSUME NEW r \in Runs, Lost(r) PROVE run' \in [Runs -> Run]
  BY <1>6, SMTT(60) DEF Lost, CreateLost, DeleteLost, PostLost, DropLost, SpawnLost,
       Goto, End, IngressTypeOK, Run, Owner, Record, Holding, Unleased, Over
<1>7. ASSUME NEW e \in late, Land(e) PROVE run' \in [Runs -> Run]
  BY <1>7 DEF Land, IngressTypeOK
<1>8. ASSUME Propagate \/ LeaseAges \/ ProcessExits \/ UNCHANGED ingressVars
      PROVE  run' \in [Runs -> Run]
  BY <1>8 DEF Propagate, LeaseAges, ProcessExits, ingressVars, IngressTypeOK
<1> QED  BY <1>1, <1>2, <1>3, <1>4, <1>5, <1>6, <1>7, <1>8 DEF IngressNext

(* A run that ends or fails is a run.                                      *)
LEMMA EndTypes ==
  ASSUME IngressTypeOK, NEW r \in Runs, End(r) PROVE lease' \in Owner /\ old' \in BOOLEAN
BY DEF End, IngressTypeOK, Owner

LEMMA FaultTypes == ASSUME IngressTypeOK, Fault PROVE faults' \in 0..MaxFaults
BY IngressAssumption DEF Fault, IngressTypeOK

(* ... then everything else.                                               *)
LEMMA IngressTypesKept ==
  ASSUME IngressTypeOK, Origins, [IngressNext]_ingressVars
  PROVE  IngressTypeOK'
<1> USE IngressAssumption DEF provider, files, locks, IngressTypeOK, Owner
<1>1. ASSUME NEW r \in Runs,
             AcquireLease(r) \/ Finish(r) \/ RecoverLease(r) \/ ClearLease(r)
      PROVE  IngressTypeOK'
  <2>1. UNCHANGED <<provider, files, faults>> /\ lease' \in Owner
    BY <1>1, EndTypes DEF AcquireLease, Finish, RecoverLease, ClearLease
  <2>2. old' \in BOOLEAN
    <3>1. CASE Finish(r)
      BY <3>1, EndTypes DEF Finish
    <3>2. CASE ~Finish(r)
      BY <1>1, <3>2 DEF AcquireLease, RecoverLease, ClearLease
    <3> QED  BY <3>1, <3>2
  <2>3. overlap' \in BOOLEAN
    BY <1>1 DEF AcquireLease, Finish, RecoverLease, ClearLease
  <2> QED  BY <2>1, <2>2, <2>3, RunTypes DEF IngressNext
<1>2. ASSUME NEW r \in Runs, Publication(r) PROVE IngressTypeOK'
  <2>1. UNCHANGED <<dns, late, overlap, faults>> /\ tunnel' \in Owner
    BY <1>2 DEF Publication, PublishIngress, Create, LinkCredential, UnlinkTemporary,
         EnsureConfig, StartProcess, AwaitConnection, ReadRecord, PostRecord,
         VerifyRecord
  <2>2. record' \in Record \cup {Nothing}
    <3>1. CASE PostRecord(r)
      BY <3>1 DEF PostRecord, Origins, Serving, Record, Run
    <3>2. CASE ~PostRecord(r)
      BY <1>2, <3>2 DEF Publication, PublishIngress, Create, LinkCredential,
           UnlinkTemporary, EnsureConfig, StartProcess, AwaitConnection, ReadRecord,
           PostRecord, VerifyRecord
    <3> QED  BY <3>1, <3>2
  <2>3. \/ UNCHANGED <<config, process>>
        \/ config' \in Owner /\ process' \in Owner
    BY <1>2 DEF Publication, PublishIngress, Create, LinkCredential, UnlinkTemporary,
         EnsureConfig, StartProcess, AwaitConnection, ReadRecord, PostRecord,
         VerifyRecord, Run
  <2>4. temp' \in Owner /\ final' \in [Runs -> Owner]
    BY <1>2 DEF Publication, PublishIngress, Create, LinkCredential, UnlinkTemporary,
         EnsureConfig, StartProcess, AwaitConnection, ReadRecord, PostRecord,
         VerifyRecord, Run
  <2>5. lease' \in Owner /\ old' \in BOOLEAN
    BY <1>2, EndTypes DEF Publication, PublishIngress, Create, LinkCredential,
         UnlinkTemporary, EnsureConfig, StartProcess, AwaitConnection, ReadRecord,
         PostRecord, VerifyRecord
  <2> QED  BY <2>1, <2>2, <2>3, <2>4, <2>5, <1>2, RunTypes DEF IngressNext
<1>3. ASSUME NEW r \in Runs, OrphanRecovery(r) PROVE IngressTypeOK'
  <2>1. UNCHANGED <<record, dns, final, config, process, overlap, faults>>
        /\ tunnel' \in Owner /\ temp' \in Owner
    BY <1>3 DEF OrphanRecovery, RecoverOrphan, CheckOrphan, DeleteTunnel,
         RemoveTemporary
  <2>2. \A e \in late' : e \in Late
    <3>1. CASE DeleteTunnel(r)
      BY <3>1 DEF DeleteTunnel, Listed, Late, Run
    <3>2. CASE ~DeleteTunnel(r)
      BY <1>3, <3>2 DEF OrphanRecovery, RecoverOrphan, CheckOrphan, DeleteTunnel,
           RemoveTemporary
    <3> QED  BY <3>1, <3>2
  <2>3. lease' \in Owner /\ old' \in BOOLEAN
    BY <1>3, EndTypes DEF OrphanRecovery, RecoverOrphan, CheckOrphan, DeleteTunnel,
         RemoveTemporary
  <2> QED  BY <2>1, <2>2, <2>3, <1>3, RunTypes DEF IngressNext
<1>4. ASSUME NEW r \in Runs, RouteDisable(r) PROVE IngressTypeOK'
  <2>1. UNCHANGED <<tunnel, dns, late, files, locks, overlap, faults>>
        /\ record' \in Record \cup {Nothing}
    BY <1>4 DEF RouteDisable, DisableRoute, ReadRoute, DropRecord, ConfirmRoute
  <2> QED  BY <2>1, <1>4, RunTypes DEF IngressNext
<1>5. ASSUME NEW r \in Runs, Kill(r) \/ Break(r) PROVE IngressTypeOK'
  <2>1. UNCHANGED <<provider, files, overlap>> /\ faults' \in 0..MaxFaults
    BY <1>5, FaultTypes DEF Kill, Break
  <2>2. lease' \in Owner /\ old' \in BOOLEAN
    BY <1>5, EndTypes DEF Kill, Break
  <2> QED  BY <2>1, <2>2, <1>5, RunTypes DEF IngressNext
<1>6. ASSUME NEW r \in Runs, Lost(r) PROVE IngressTypeOK'
  <2>1. UNCHANGED <<record, dns, final, config, overlap>>
        /\ tunnel' \in Owner /\ temp' \in Owner /\ process' \in Owner
    BY <1>6 DEF Lost, CreateLost, DeleteLost, PostLost, DropLost, SpawnLost
  <2>2. \A e \in late' : e \in Late
    <3>1. CASE CreateLost(r)
      BY <3>1 DEF CreateLost, Late
    <3>2. CASE DeleteLost(r)
      BY <3>2 DEF DeleteLost, Late, Run, Origins, Serving
    <3>3. CASE PostLost(r)
      BY <3>3 DEF PostLost, Late, Run, Origins, Serving
    <3>4. CASE DropLost(r)
      BY <3>4 DEF DropLost, Late
    <3>5. CASE SpawnLost(r)
      BY <3>5 DEF SpawnLost
    <3> QED  BY <1>6, <3>1, <3>2, <3>3, <3>4, <3>5 DEF Lost
  <2>3. lease' \in Owner /\ old' \in BOOLEAN
    BY <1>6, EndTypes DEF Lost, CreateLost, DeleteLost, PostLost, DropLost, SpawnLost
  <2>4. faults' \in 0..MaxFaults
    BY <1>6, FaultTypes DEF Lost, CreateLost, DeleteLost, PostLost, DropLost, SpawnLost
  <2> QED  BY <2>1, <2>2, <2>3, <2>4, <1>6, RunTypes DEF IngressNext
<1>7. ASSUME NEW e \in late, Land(e) PROVE IngressTypeOK'
  <2>1. tunnel' \in Owner /\ record' \in Record \cup {Nothing} /\ late' \subseteq Late
    BY <1>7 DEF Land, Late, Record
  <2> QED  BY <2>1, <1>7, RunTypes DEF Land
<1>8. ASSUME Propagate \/ LeaseAges \/ ProcessExits \/ UNCHANGED ingressVars
      PROVE  IngressTypeOK'
  <2>1. CASE Propagate
    BY <2>1 DEF Propagate
  <2>2. CASE LeaseAges
    BY <2>2 DEF LeaseAges
  <2>3. CASE ProcessExits
    BY <2>3, FaultTypes DEF ProcessExits
  <2>4. CASE UNCHANGED ingressVars
    BY <2>4 DEF ingressVars
  <2> QED  BY <1>8, <2>1, <2>2, <2>3, <2>4
<1> QED  BY <1>1, <1>2, <1>3, <1>4, <1>5, <1>6, <1>7, <1>8 DEF IngressNext

(* Where a run has its tunnel from only a step of that run can change, and  *)
(* a late creation is that of a run that is over.                           *)
LEMMA OriginsKept == ASSUME IngressInv, [IngressNext]_ingressVars PROVE Origins'
<1>1. ASSUME NEW r \in Runs,
             AcquireLease(r) \/ Finish(r) \/ RecoverLease(r) \/ ClearLease(r)
      PROVE  Origins'
  BY <1>1, IngressAssumption, SMTT(60) DEF IngressInv, Origins, Serving, IngressTypeOK,
       Run, Late, AcquireLease, Finish, RecoverLease, ClearLease, Fault, Goto, End,
       Serves, provider, files, locks, Holding, Unleased, Over, Owner
<1>2. ASSUME NEW r \in Runs, Publication(r)
      PROVE  Origins'
  BY <1>2, IngressAssumption, SMTT(60) DEF IngressInv, Origins, Serving, IngressTypeOK,
       Run, Late, Publication, PublishIngress, Create, LinkCredential, UnlinkTemporary,
       EnsureConfig, StartProcess, AwaitConnection, ReadRecord, PostRecord,
       VerifyRecord, ExactOrphan, Listed, Connected, Fault, Goto, End, Serves,
       provider, files, locks, Holding, Unleased, Over, Owner
<1>3. ASSUME NEW r \in Runs, OrphanRecovery(r)
      PROVE  Origins'
  BY <1>3, IngressAssumption, SMTT(60) DEF IngressInv, Origins, Serving, IngressTypeOK,
       Run, Late, OrphanRecovery, RecoverOrphan, CheckOrphan, DeleteTunnel,
       RemoveTemporary, ExactOrphan, Listed, Connected, Fault, Goto, End, Serves,
       provider, files, locks, Holding, Unleased, Over, Owner
<1>4. ASSUME NEW r \in Runs, RouteDisable(r)
      PROVE  Origins'
  BY <1>4, IngressAssumption, SMTT(60) DEF IngressInv, Origins, Serving, IngressTypeOK,
       Run, Late, RouteDisable, DisableRoute, ReadRoute, DropRecord, ConfirmRoute,
       Fault, Goto, End, Serves, provider, files, locks, Holding, Unleased, Over, Owner
<1>5. ASSUME NEW r \in Runs, Kill(r) \/ Break(r)
      PROVE  Origins'
  BY <1>5, IngressAssumption, SMTT(60) DEF IngressInv, Origins, Serving, IngressTypeOK,
       Run, Late, Kill, Break, Fault, Goto, End, Serves, provider, files, locks,
       Holding, Unleased, Over, Owner
<1>6. ASSUME NEW r \in Runs, Lost(r)
      PROVE  Origins'
  BY <1>6, IngressAssumption, SMTT(60) DEF IngressInv, Origins, Serving, IngressTypeOK,
       Run, Late, Lost, CreateLost, DeleteLost, PostLost, DropLost, SpawnLost, Fault,
       Goto, End, Serves, provider, files, locks, Holding, Unleased, Over, Owner
<1>7. ASSUME NEW e \in late, Land(e) PROVE Origins'
  BY <1>7, IngressAssumption, SMTT(60) DEF IngressInv, Origins, Serving, IngressTypeOK,
       Run, Late, Land, Fault, Goto, End, Serves, provider, files, locks, Holding,
       Unleased, Over, Owner
<1>8. ASSUME Propagate \/ LeaseAges \/ ProcessExits \/ UNCHANGED ingressVars
      PROVE  Origins'
  BY <1>8, IngressAssumption, SMTT(60) DEF IngressInv, Origins, Serving, IngressTypeOK,
       Run, Late, Propagate, LeaseAges, ProcessExits, ingressVars, Fault, Goto, End,
       Serves, provider, files, locks, Holding, Unleased, Over, Owner
<1> QED  BY <1>1, <1>2, <1>3, <1>4, <1>5, <1>6, <1>7, <1>8 DEF IngressNext

(* A lease a recovery has seen stays what it was: its owner is over,        *)
(* nobody else can acquire, and nobody else recovers without an overlap.    *)
LEMMA RemovalsKept ==
  ASSUME IngressInv, [IngressNext]_ingressVars
  PROVE  (~overlap => Removals)'
<1>1. ASSUME NEW r \in Runs,
             AcquireLease(r) \/ Finish(r) \/ RecoverLease(r) \/ ClearLease(r)
      PROVE  (~overlap => Removals)'
  <2>1. CASE AcquireLease(r) \/ Finish(r)
    BY <2>1, IngressAssumption, SMTT(60) DEF IngressInv, OneHolder, Removals,
         IngressTypeOK, Run, AcquireLease, Finish, Goto, End, provider, files, locks,
         Holding, Unleased, Over, Owner
  <2>2. CASE RecoverLease(r)
    <3>1. SUFFICES ASSUME ~overlap' PROVE Removals'
      OBVIOUS
    <3>2. \A q \in Runs : run[q].at # "clear"
      BY <2>2, <3>1 DEF RecoverLease
    <3>3. run[r].at = "unborn" /\ lease # Nothing /\ run[lease].at \in Over /\ lease \in Runs
      BY <2>2 DEF RecoverLease, IngressInv, IngressTypeOK, Owner
    <3>4. lease' = lease /\ run' = [run EXCEPT ![r].at = "clear", ![r].key = lease]
      BY <2>2 DEF RecoverLease, locks
    <3> QED
      BY <3>2, <3>3, <3>4 DEF IngressInv, IngressTypeOK, Run, Removals, Over
  <2>3. CASE ClearLease(r)
    BY <2>3, IngressAssumption, SMTT(60) DEF IngressInv, OneHolder, Removals,
         IngressTypeOK, Run, ClearLease, Goto, Over
  <2> QED  BY <1>1, <2>1, <2>2, <2>3
<1>2. ASSUME NEW r \in Runs, Publication(r)
      PROVE  (~overlap => Removals)'
  BY <1>2, IngressAssumption, SMTT(60) DEF IngressInv, OneHolder, Removals,
       IngressTypeOK, Run, Publication, PublishIngress, Create, LinkCredential,
       UnlinkTemporary, EnsureConfig, StartProcess, AwaitConnection, ReadRecord,
       PostRecord, VerifyRecord, ExactOrphan, Listed, Connected, Fault, Goto, End,
       Serves, provider, files, locks, Holding, Unleased, Over, Owner
<1>3. ASSUME NEW r \in Runs, OrphanRecovery(r)
      PROVE  (~overlap => Removals)'
  BY <1>3, IngressAssumption, SMTT(60) DEF IngressInv, OneHolder, Removals,
       IngressTypeOK, Run, OrphanRecovery, RecoverOrphan, CheckOrphan, DeleteTunnel,
       RemoveTemporary, ExactOrphan, Listed, Connected, Fault, Goto, End, Serves,
       provider, files, locks, Holding, Unleased, Over, Owner
<1>4. ASSUME NEW r \in Runs, RouteDisable(r)
      PROVE  (~overlap => Removals)'
  BY <1>4, IngressAssumption, SMTT(60) DEF IngressInv, OneHolder, Removals,
       IngressTypeOK, Run, RouteDisable, DisableRoute, ReadRoute, DropRecord,
       ConfirmRoute, Fault, Goto, End, Serves, provider, files, locks, Holding,
       Unleased, Over, Owner
<1>5. ASSUME NEW r \in Runs, Kill(r) \/ Break(r)
      PROVE  (~overlap => Removals)'
  BY <1>5, IngressAssumption, SMTT(60) DEF IngressInv, OneHolder, Removals,
       IngressTypeOK, Run, Kill, Break, Fault, Goto, End, Serves, provider, files,
       locks, Holding, Unleased, Over, Owner
<1>6. ASSUME NEW r \in Runs, Lost(r)
      PROVE  (~overlap => Removals)'
  BY <1>6, IngressAssumption, SMTT(60) DEF IngressInv, OneHolder, Removals,
       IngressTypeOK, Run, Lost, CreateLost, DeleteLost, PostLost, DropLost, SpawnLost,
       Fault, Goto, End, Serves, provider, files, locks, Holding, Unleased, Over, Owner
<1>7. ASSUME NEW e \in late, Land(e) PROVE (~overlap => Removals)'
  BY <1>7, IngressAssumption, SMTT(60) DEF IngressInv, OneHolder, Removals,
       IngressTypeOK, Run, Late, Land, Fault, Goto, End, Serves, provider, files,
       locks, Holding, Unleased, Over, Owner
<1>8. ASSUME Propagate \/ LeaseAges \/ ProcessExits \/ UNCHANGED ingressVars
      PROVE  (~overlap => Removals)'
  BY <1>8, IngressAssumption, SMTT(60) DEF IngressInv, OneHolder, Removals,
       IngressTypeOK, Run, Propagate, LeaseAges, ProcessExits, ingressVars, Fault,
       Goto, End, Serves, provider, files, locks, Holding, Unleased, Over, Owner
<1> QED  BY <1>1, <1>2, <1>3, <1>4, <1>5, <1>6, <1>7, <1>8 DEF IngressNext

(* Only the holder of the lease touches the two credential files.           *)
LEMMA CredentialsKept ==
  ASSUME IngressInv, [IngressNext]_ingressVars
  PROVE  (~overlap => Credentials)'
<1>1. ASSUME NEW r \in Runs,
             AcquireLease(r) \/ Finish(r) \/ RecoverLease(r) \/ ClearLease(r)
      PROVE  (~overlap => Credentials)'
  BY <1>1, IngressAssumption, SMTT(60) DEF IngressInv, Origins, Serving, OneHolder,
       Credentials, IngressTypeOK, Run, AcquireLease, Finish, RecoverLease, ClearLease,
       Fault, Goto, End, Serves, provider, files, locks, Holding, Unleased, Over, Owner
<1>2. ASSUME NEW r \in Runs, Publication(r)
      PROVE  (~overlap => Credentials)'
  BY <1>2, IngressAssumption, SMTT(60) DEF IngressInv, Origins, Serving, OneHolder,
       Credentials, IngressTypeOK, Run, Publication, PublishIngress, Create,
       LinkCredential, UnlinkTemporary, EnsureConfig, StartProcess, AwaitConnection,
       ReadRecord, PostRecord, VerifyRecord, ExactOrphan, Listed, Connected, Fault,
       Goto, End, Serves, provider, files, locks, Holding, Unleased, Over, Owner
<1>3. ASSUME NEW r \in Runs, OrphanRecovery(r)
      PROVE  (~overlap => Credentials)'
  BY <1>3, IngressAssumption, SMTT(60) DEF IngressInv, Origins, Serving, OneHolder,
       Credentials, IngressTypeOK, Run, OrphanRecovery, RecoverOrphan, CheckOrphan,
       DeleteTunnel, RemoveTemporary, ExactOrphan, Listed, Connected, Fault, Goto, End,
       Serves, provider, files, locks, Holding, Unleased, Over, Owner
<1>4. ASSUME NEW r \in Runs, RouteDisable(r)
      PROVE  (~overlap => Credentials)'
  BY <1>4, IngressAssumption, SMTT(60) DEF IngressInv, Origins, Serving, OneHolder,
       Credentials, IngressTypeOK, Run, RouteDisable, DisableRoute, ReadRoute,
       DropRecord, ConfirmRoute, Fault, Goto, End, Serves, provider, files, locks,
       Holding, Unleased, Over, Owner
<1>5. ASSUME NEW r \in Runs, Kill(r) \/ Break(r)
      PROVE  (~overlap => Credentials)'
  BY <1>5, IngressAssumption, SMTT(60) DEF IngressInv, Origins, Serving, OneHolder,
       Credentials, IngressTypeOK, Run, Kill, Break, Fault, Goto, End, Serves,
       provider, files, locks, Holding, Unleased, Over, Owner
<1>6. ASSUME NEW r \in Runs, Lost(r)
      PROVE  (~overlap => Credentials)'
  BY <1>6, IngressAssumption, SMTT(60) DEF IngressInv, Origins, Serving, OneHolder,
       Credentials, IngressTypeOK, Run, Lost, CreateLost, DeleteLost, PostLost,
       DropLost, SpawnLost, Fault, Goto, End, Serves, provider, files, locks, Holding,
       Unleased, Over, Owner
<1>7. ASSUME NEW e \in late, Land(e) PROVE (~overlap => Credentials)'
  BY <1>7, IngressAssumption, SMTT(60) DEF IngressInv, Origins, Serving, OneHolder,
       Credentials, IngressTypeOK, Run, Late, Land, Fault, Goto, End, Serves, provider,
       files, locks, Holding, Unleased, Over, Owner
<1>8. ASSUME Propagate \/ LeaseAges \/ ProcessExits \/ UNCHANGED ingressVars
      PROVE  (~overlap => Credentials)'
  BY <1>8, IngressAssumption, SMTT(60) DEF IngressInv, Origins, Serving, OneHolder,
       Credentials, IngressTypeOK, Run, Propagate, LeaseAges, ProcessExits,
       ingressVars, Fault, Goto, End, Serves, provider, files, locks, Holding,
       Unleased, Over, Owner
<1> QED  BY <1>1, <1>2, <1>3, <1>4, <1>5, <1>6, <1>7, <1>8 DEF IngressNext

(* Nobody removes the lease of a run that lives.                            *)
LEMMA OneHolderKept == ASSUME IngressInv, [IngressNext]_ingressVars PROVE OneHolder'
<1>1. ASSUME NEW r \in Runs,
             AcquireLease(r) \/ Finish(r) \/ RecoverLease(r) \/ ClearLease(r)
      PROVE  OneHolder'
  BY <1>1, IngressAssumption, SMTT(60) DEF IngressInv, Removals, OneHolder,
       IngressTypeOK, Run, AcquireLease, Finish, RecoverLease, ClearLease, Fault, Goto,
       End, Serves, provider, files, locks, Holding, Unleased, Over, Owner
<1>2. ASSUME NEW r \in Runs, Publication(r)
      PROVE  OneHolder'
  BY <1>2, IngressAssumption, SMTT(60) DEF IngressInv, Removals, OneHolder,
       IngressTypeOK, Run, Publication, PublishIngress, Create, LinkCredential,
       UnlinkTemporary, EnsureConfig, StartProcess, AwaitConnection, ReadRecord,
       PostRecord, VerifyRecord, ExactOrphan, Listed, Connected, Fault, Goto, End,
       Serves, provider, files, locks, Holding, Unleased, Over, Owner
<1>3. ASSUME NEW r \in Runs, OrphanRecovery(r)
      PROVE  OneHolder'
  BY <1>3, IngressAssumption, SMTT(60) DEF IngressInv, Removals, OneHolder,
       IngressTypeOK, Run, OrphanRecovery, RecoverOrphan, CheckOrphan, DeleteTunnel,
       RemoveTemporary, ExactOrphan, Listed, Connected, Fault, Goto, End, Serves,
       provider, files, locks, Holding, Unleased, Over, Owner
<1>4. ASSUME NEW r \in Runs, RouteDisable(r)
      PROVE  OneHolder'
  BY <1>4, IngressAssumption, SMTT(60) DEF IngressInv, Removals, OneHolder,
       IngressTypeOK, Run, RouteDisable, DisableRoute, ReadRoute, DropRecord,
       ConfirmRoute, Fault, Goto, End, Serves, provider, files, locks, Holding,
       Unleased, Over, Owner
<1>5. ASSUME NEW r \in Runs, Kill(r) \/ Break(r)
      PROVE  OneHolder'
  BY <1>5, IngressAssumption, SMTT(60) DEF IngressInv, Removals, OneHolder,
       IngressTypeOK, Run, Kill, Break, Fault, Goto, End, Serves, provider, files,
       locks, Holding, Unleased, Over, Owner
<1>6. ASSUME NEW r \in Runs, Lost(r)
      PROVE  OneHolder'
  BY <1>6, IngressAssumption, SMTT(60) DEF IngressInv, Removals, OneHolder,
       IngressTypeOK, Run, Lost, CreateLost, DeleteLost, PostLost, DropLost, SpawnLost,
       Fault, Goto, End, Serves, provider, files, locks, Holding, Unleased, Over, Owner
<1>7. ASSUME NEW e \in late, Land(e) PROVE OneHolder'
  BY <1>7, IngressAssumption, SMTT(60) DEF IngressInv, Removals, OneHolder,
       IngressTypeOK, Run, Late, Land, Fault, Goto, End, Serves, provider, files,
       locks, Holding, Unleased, Over, Owner
<1>8. ASSUME Propagate \/ LeaseAges \/ ProcessExits \/ UNCHANGED ingressVars
      PROVE  OneHolder'
  BY <1>8, IngressAssumption, SMTT(60) DEF IngressInv, Removals, OneHolder,
       IngressTypeOK, Run, Propagate, LeaseAges, ProcessExits, ingressVars, Fault,
       Goto, End, Serves, provider, files, locks, Holding, Unleased, Over, Owner
<1> QED  BY <1>1, <1>2, <1>3, <1>4, <1>5, <1>6, <1>7, <1>8 DEF IngressNext

(* A key is moved, or deleted when its tunnel is gone.                      *)
LEMMA KeyKeptKept == ASSUME IngressInv, [IngressNext]_ingressVars PROVE KeyKept'
<1>1. ASSUME NEW r \in Runs,
             AcquireLease(r) \/ Finish(r) \/ RecoverLease(r) \/ ClearLease(r)
      PROVE  KeyKept'
  BY <1>1, IngressAssumption, SMTT(60) DEF IngressInv, Origins, Serving, Credentials,
       OneHolder, KeyKept, IngressTypeOK, Run, AcquireLease, Finish, RecoverLease,
       ClearLease, Fault, Goto, End, Serves, provider, files, locks, Holding, Unleased,
       Over, Owner
<1>2. ASSUME NEW r \in Runs, Publication(r)
      PROVE  KeyKept'
  BY <1>2, IngressAssumption, SMTT(60) DEF IngressInv, Origins, Serving, Credentials,
       OneHolder, KeyKept, IngressTypeOK, Run, Publication, PublishIngress, Create,
       LinkCredential, UnlinkTemporary, EnsureConfig, StartProcess, AwaitConnection,
       ReadRecord, PostRecord, VerifyRecord, ExactOrphan, Listed, Connected, Fault,
       Goto, End, Serves, provider, files, locks, Holding, Unleased, Over, Owner
<1>3. ASSUME NEW r \in Runs, OrphanRecovery(r)
      PROVE  KeyKept'
  BY <1>3, IngressAssumption, SMTT(60) DEF IngressInv, Origins, Serving, Credentials,
       OneHolder, KeyKept, IngressTypeOK, Run, OrphanRecovery, RecoverOrphan,
       CheckOrphan, DeleteTunnel, RemoveTemporary, ExactOrphan, Listed, Connected,
       Fault, Goto, End, Serves, provider, files, locks, Holding, Unleased, Over, Owner
<1>4. ASSUME NEW r \in Runs, RouteDisable(r)
      PROVE  KeyKept'
  BY <1>4, IngressAssumption, SMTT(60) DEF IngressInv, Origins, Serving, Credentials,
       OneHolder, KeyKept, IngressTypeOK, Run, RouteDisable, DisableRoute, ReadRoute,
       DropRecord, ConfirmRoute, Fault, Goto, End, Serves, provider, files, locks,
       Holding, Unleased, Over, Owner
<1>5. ASSUME NEW r \in Runs, Kill(r) \/ Break(r)
      PROVE  KeyKept'
  BY <1>5, IngressAssumption, SMTT(60) DEF IngressInv, Origins, Serving, Credentials,
       OneHolder, KeyKept, IngressTypeOK, Run, Kill, Break, Fault, Goto, End, Serves,
       provider, files, locks, Holding, Unleased, Over, Owner
<1>6. ASSUME NEW r \in Runs, Lost(r)
      PROVE  KeyKept'
  BY <1>6, IngressAssumption, SMTT(60) DEF IngressInv, Origins, Serving, Credentials,
       OneHolder, KeyKept, IngressTypeOK, Run, Lost, CreateLost, DeleteLost, PostLost,
       DropLost, SpawnLost, Fault, Goto, End, Serves, provider, files, locks, Holding,
       Unleased, Over, Owner
<1>7. ASSUME NEW e \in late, Land(e) PROVE KeyKept'
  BY <1>7, IngressAssumption, SMTT(60) DEF IngressInv, Origins, Serving, Credentials,
       OneHolder, KeyKept, IngressTypeOK, Run, Late, Land, Fault, Goto, End, Serves,
       provider, files, locks, Holding, Unleased, Over, Owner
<1>8. ASSUME Propagate \/ LeaseAges \/ ProcessExits \/ UNCHANGED ingressVars
      PROVE  KeyKept'
  BY <1>8, IngressAssumption, SMTT(60) DEF IngressInv, Origins, Serving, Credentials,
       OneHolder, KeyKept, IngressTypeOK, Run, Propagate, LeaseAges, ProcessExits,
       ingressVars, Fault, Goto, End, Serves, provider, files, locks, Holding,
       Unleased, Over, Owner
<1> QED  BY <1>1, <1>2, <1>3, <1>4, <1>5, <1>6, <1>7, <1>8 DEF IngressNext

(* At the beginning no run has begun.                                      *)
LEMMA IngressInitInv == IngressInit => IngressInv
<1> SUFFICES ASSUME IngressInit PROVE IngressInv
  OBVIOUS
<1>1. IngressTypeOK
  <2>1. run \in [Runs -> Run]
    BY DEF IngressInit, Run, Owner
  <2>2. final \in [Runs -> Owner]
    BY DEF IngressInit, Owner
  <2>3. overlap \in BOOLEAN /\ old \in BOOLEAN /\ dns \in BOOLEAN
    BY DEF IngressInit
  <2>4. faults \in 0..MaxFaults
    BY IngressAssumption DEF IngressInit
  <2> QED  BY <2>1, <2>2, <2>3, <2>4 DEF IngressInit, IngressTypeOK, Owner
<1>2. Origins /\ Removals /\ Credentials /\ OneHolder
  BY IngressAssumption DEF IngressInit, Origins, Serving, Removals, Credentials,
       OneHolder, Holding
<1>3. KeyKept
  BY IngressAssumption DEF IngressInit, KeyKept
<1> QED  BY <1>1, <1>2, <1>3 DEF IngressInv

(* Every reachable state of any number of runs satisfies the invariant.    *)
THEOREM IngressInvariant == IngressSpec => []IngressInv
<1>1. ASSUME IngressInv, [IngressNext]_ingressVars PROVE IngressInv'
  <2>1. IngressTypeOK' /\ Origins'
    BY <1>1, IngressTypesKept, OriginsKept DEF IngressInv
  <2>2. (~overlap => Removals /\ Credentials)'
    BY <1>1, RemovalsKept, CredentialsKept
  <2>3. OneHolder' /\ KeyKept'
    BY <1>1, OneHolderKept, KeyKeptKept
  <2> QED  BY <2>1, <2>2, <2>3 DEF IngressInv
<1> QED  BY <1>1, IngressInitInv, PTL DEF IngressSpec

(* Report 258, "single writer": whatever commands are run and killed, of   *)
(* the runs between acquiring and releasing one is alive at most, and the  *)
(* lease is its own, unless two recoveries have been about to remove.      *)
THEOREM OneHolderOfLease == IngressSpec => []OneHolder
<1>1. IngressInv => OneHolder
  BY DEF IngressInv
<1> QED  BY <1>1, IngressInvariant, PTL

(* Under the same condition a tunnel whose creation was acknowledged has   *)
(* its only key in the temporary or in the final file as long as it        *)
(* exists.                                                                 *)
THEOREM KeysAreKept == IngressSpec => []KeyKept
<1>1. IngressInv => KeyKept
  BY DEF IngressInv
<1> QED  BY <1>1, IngressInvariant, PTL
=============================================================================
