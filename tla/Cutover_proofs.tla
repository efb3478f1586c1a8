---------------------------- MODULE Cutover_proofs ----------------------------
(***************************************************************************)
(* For any plan, any number of runs, operators, commands and incidents:    *)
(* gates are recorded in order, the cutover implements CutoverGates, what  *)
(* is recorded as contained is, a failed run leaves no open route, and GO  *)
(* for an undisturbed run finds the service public.                        *)
(*                                                                         *)
(* An execution works alone on its run, so it stands where the receipts    *)
(* end.  A resume may have company, hence it may only be told what is      *)
(* among the receipts.  A run that has begun its containment cannot come   *)
(* back to the publication.                                                *)
(***************************************************************************)
EXTENDS Cutover, TLAPS

Executing(o) == Active(o) /\ ~job[o].resumed

(* Nobody else works on the run of an execution, nor can resume it. *)
Alone ==
    \A o \in Operators : Executing(o) =>
        /\ job[o].run \notin checkpoint
        /\ \A q \in Operators \ {o} : Active(q) => job[q].run # job[o].run

(* Every entry before e has a receipt and has passed. *)
Behind(r, e) ==
    \A d \in 1..(e - 1) : \E i \in DOMAIN receipts[r] :
        receipts[r][i].entry = d /\ receipts[r][i].pass

Advanced ==
    /\ \A o \in Operators : Executing(o) /\ job[o].at <= Entries =>
          Passed(job[o].run, job[o].at - 1)
    /\ \A o \in Operators : Active(o) /\ job[o].at <= Entries => Behind(job[o].run, job[o].at)
    /\ \A r \in checkpoint : receipts[r] # <<>> /\ Behind(r, Signoff)

(* Where in the plan a command can be. *)
Placed ==
    \A o \in Operators : Active(o) =>
        /\ job[o].phase = "ran" => job[o].at \in Steps
        /\ job[o].phase = "final" => job[o].resumed /\ job[o].at = Entries
        /\ job[o].resumed => job[o].at >= Signoff

OrderInv == TypeOK /\ Placed /\ Alone /\ Advanced /\ GatesInOrder

----------------------------------------------------------------------------
(* The constants, as the proofs use them. *)
LEMMA Plan ==
    /\ Entries \in Nat /\ Publication \in Nat /\ Signoff \in Nat
    /\ 1 < Publication /\ Publication < Signoff /\ Signoff + 1 = Entries
    /\ RouteDisable = Entries + 1 /\ OrphanRecovery = Entries + 2
    /\ RouteDisabled = Entries + 3
    /\ Summaries \subseteq 1..Entries /\ Entries \in Summaries
    /\ Publication \notin Summaries /\ Signoff \notin Summaries
    /\ Steps = (1..Entries \ Summaries) \cup {RouteDisable, OrphanRecovery}
    /\ None \notin Runs /\ MaxCommands \in Nat /\ MaxIncidents \in Nat
  BY CutoverAssumption DEF CutoverAssumption, RouteDisable, OrphanRecovery,
     RouteDisabled, Steps

(* A command that is active is somewhere, one that is done is nowhere. *)
LEMMA Jobs ==
  ASSUME TypeOK, NEW o \in Operators
  PROVE  /\ Active(o) => job[o] \in Job
         /\ ~Active(o) => job[o] \in Done
         /\ job \in [Operators -> Job \cup Done]
  BY DEF TypeOK, Active, Job, Done

(* How the commands stand in jobs n when operator o has moved on. *)
Stands(n, o, phase, e) ==
    /\ n \in [Operators -> Job \cup Done]
    /\ n[o] \in Job /\ n[o].phase = phase /\ n[o].at = e
    /\ n[o].run = job[o].run /\ n[o].resumed = job[o].resumed
    /\ \A q \in Operators \ {o} : n[q] = job[q]

Ended(n, o, result) ==
    /\ n \in [Operators -> Job \cup Done]
    /\ n[o] \in Done /\ n[o].phase = "done" /\ n[o].result = result
    /\ n[o].run = job[o].run
    /\ \A q \in Operators \ {o} : n[q] = job[q]

LEMMA AtStands ==
  ASSUME TypeOK, NEW o \in Operators, Active(o),
         NEW phase \in {"step", "ran", "final"}, NEW e \in 1..RouteDisabled
  PROVE  Stands(At(o, phase, e), o, phase, e) /\ At(o, phase, e)[o].ok = FALSE
  <1>1. job \in [Operators -> Job \cup Done] /\ job[o] \in Job  BY Jobs
  <1>2. At(o, phase, e) =
          [job EXCEPT ![o] = [job[o] EXCEPT !.phase = phase, !.at = e, !.ok = FALSE]]
    BY <1>1 DEF At, Job
  <1> DEFINE j == [job[o] EXCEPT !.phase = phase, !.at = e, !.ok = FALSE]
  <1>3. /\ j \in Job /\ j.phase = phase /\ j.at = e /\ j.ok = FALSE
        /\ j.run = job[o].run /\ j.resumed = job[o].resumed
    BY <1>1 DEF Job
  <1> HIDE DEF j
  <1> QED  BY <1>1, <1>2, <1>3 DEF Stands, j

LEMMA ContainStands ==
  ASSUME TypeOK, NEW o \in Operators, Active(o), NEW orphan \in BOOLEAN
  PROVE  Stands(Contain(o, orphan), o, "step", RouteDisable)
  <1>1. job \in [Operators -> Job \cup Done] /\ job[o] \in Job  BY Jobs
  <1>2. Contain(o, orphan) =
          [job EXCEPT ![o] = [job[o] EXCEPT !.phase = "step", !.at = RouteDisable,
                                            !.ok = FALSE, !.orphan = orphan]]
    BY <1>1 DEF Contain, Job
  <1> DEFINE j == [job[o] EXCEPT !.phase = "step", !.at = RouteDisable,
                                 !.ok = FALSE, !.orphan = orphan]
  <1>3. RouteDisable \in 1..RouteDisabled  BY Plan
  <1>4. /\ j \in Job /\ j.phase = "step" /\ j.at = RouteDisable
        /\ j.run = job[o].run /\ j.resumed = job[o].resumed
    BY <1>1, <1>3 DEF Job
  <1> HIDE DEF j
  <1> QED  BY <1>1, <1>2, <1>4 DEF Stands, j

LEMMA EndStands ==
  ASSUME TypeOK, NEW o \in Operators, Active(o),
         NEW result \in {"contained", "outside window", "other"}
  PROVE  Ended(End(o, result), o, result)
  <1>1. job \in [Operators -> Job \cup Done] /\ job[o] \in Job  BY Jobs
  <1> QED  BY <1>1 DEF End, Ended, Job, Done

(* Before a step, a command may be ended, contained or driven on. *)
LEMMA AfterFailureStands ==
  ASSUME TypeOK, NEW o \in Operators, Active(o)
  PROVE  /\ job[o].at <= Entries => Stands(AfterFailure(o), o, "step", RouteDisable)
         /\ job[o].at > Entries => Ended(AfterFailure(o), o, "other")
  <1>1. job[o].at \in Int /\ Entries \in Int  BY Jobs, Plan DEF Job
  <1>2. CASE job[o].at <= Entries
    <2>1. AfterFailure(o) = Contain(o, job[o].at = Publication)
      BY <1>2 DEF AfterFailure
    <2>2. Stands(Contain(o, job[o].at = Publication), o, "step", RouteDisable)
      BY ContainStands
    <2> QED  BY <1>1, <1>2, <2>1, <2>2
  <1>3. CASE ~(job[o].at <= Entries)
    <2>1. AfterFailure(o) = End(o, "other")
      BY <1>3 DEF AfterFailure
    <2>2. Ended(End(o, "other"), o, "other")
      BY EndStands
    <2> QED  BY <1>1, <1>3, <2>1, <2>2
  <1> QED  BY <1>2, <1>3

LEMMA AfterSuccessStands ==
  ASSUME TypeOK, NEW o \in Operators, Active(o), job[o].at \in Steps
  PROVE  \E e \in 1..RouteDisabled :
            /\ Stands(AfterSuccess(o), o, "step", e)
            /\ job[o].at <= Entries => e = job[o].at + 1 /\ e <= Entries
            /\ job[o].at > Entries => e > RouteDisable
  <1>1. job[o].at \in 1..OrphanRecovery /\ job[o].at # Entries  BY Plan
  <1>2. CASE job[o].at = RouteDisable /\ ~job[o].orphan
    <2>1. AfterSuccess(o) = At(o, "step", RouteDisabled)  BY <1>2 DEF AfterSuccess
    <2>2. RouteDisabled \in 1..RouteDisabled  BY Plan
    <2>3. Stands(At(o, "step", RouteDisabled), o, "step", RouteDisabled)
      BY <2>2, AtStands
    <2> QED  BY <1>2, <2>1, <2>2, <2>3, Plan
  <1>3. CASE ~(job[o].at = RouteDisable /\ ~job[o].orphan)
    <2>1. job[o].at + 1 \in 1..RouteDisabled  BY <1>1, Plan
    <2>2. AfterSuccess(o) = At(o, "step", job[o].at + 1)  BY <1>3 DEF AfterSuccess
    <2>3. Stands(At(o, "step", job[o].at + 1), o, "step", job[o].at + 1)
      BY <2>1, AtStands
    <2>4. /\ job[o].at <= Entries => job[o].at + 1 <= Entries
          /\ job[o].at > Entries => job[o].at + 1 > RouteDisable
      BY <1>1, Plan
    <2> QED  BY <2>1, <2>2, <2>3, <2>4
  <1> QED  BY <1>2, <1>3

LEMMA AfterSummaryStands ==
  ASSUME TypeOK, NEW o \in Operators, Active(o), job[o].at \notin Steps
  PROVE  \/ job[o].at = RouteDisabled /\ Ended(AfterSummary(o), o, "contained")
         \/ job[o].at = Entries /\ job[o].resumed
            /\ Stands(AfterSummary(o), o, "final", Entries)
         \/ job[o].at = Entries /\ Ended(AfterSummary(o), o, "other")
         \/ job[o].at < Entries /\ Stands(AfterSummary(o), o, "step", job[o].at + 1)
  <1>1. job[o].at \in 1..RouteDisabled  BY Jobs DEF Job
  <1>2. CASE job[o].at = RouteDisabled
    <2>1. AfterSummary(o) = End(o, "contained")  BY <1>2, Plan DEF AfterSummary
    <2> QED  BY <1>2, <2>1, EndStands
  <1>3. CASE job[o].at = Entries
    <2>1. Entries \in 1..RouteDisabled /\ Entries # RouteDisabled  BY Plan
    <2>2. CASE job[o].resumed
      BY <1>3, <2>1, <2>2, AtStands DEF AfterSummary
    <2>3. CASE ~job[o].resumed
      BY <1>3, <2>1, <2>3, EndStands DEF AfterSummary
    <2> QED  BY <2>2, <2>3
  <1>4. CASE job[o].at # RouteDisabled /\ job[o].at # Entries
    <2>1. job[o].at < Entries  BY <1>1, <1>4, Plan
    <2>2. job[o].at + 1 \in 1..RouteDisabled  BY <1>1, <2>1, Plan
    <2>3. Stands(AfterSummary(o), o, "step", job[o].at + 1)
      BY <1>4, <2>2, AtStands DEF AfterSummary
    <2> QED  BY <2>1, <2>3
  <1> QED  BY <1>2, <1>3, <1>4

(* Table w is the receipts with one more of run r. *)
Appended(w, r, e, pass) ==
    /\ w \in [Runs -> Seq(Receipt)]
    /\ \A q \in Runs \ {r} : w[q] = receipts[q]
    /\ Len(w[r]) = Len(receipts[r]) + 1
    /\ \A i \in 1..Len(receipts[r]) : w[r][i] = receipts[r][i]
    /\ w[r][Len(receipts[r]) + 1].entry = e
    /\ w[r][Len(receipts[r]) + 1].pass = pass

LEMMA WrittenAppends ==
  ASSUME TypeOK, NEW r \in Runs, NEW e \in 1..RouteDisabled, NEW pass \in BOOLEAN
  PROVE  Appended(Written(r, e, pass), r, e, pass)
  <1> DEFINE row == [entry |-> e, pass |-> pass, timely |-> clock < Late]
  <1>1. row \in Receipt /\ row.entry = e /\ row.pass = pass
    BY DEF Receipt
  <1> HIDE DEF row
  <1>2. receipts \in [Runs -> Seq(Receipt)] /\ receipts[r] \in Seq(Receipt)
    BY DEF TypeOK
  <1>3. Written(r, e, pass) = [receipts EXCEPT ![r] = Append(receipts[r], row)]
    BY <1>2 DEF Written, row
  <1>4. /\ Append(receipts[r], row) \in Seq(Receipt)
        /\ Len(Append(receipts[r], row)) = Len(receipts[r]) + 1
        /\ \A i \in 1..Len(receipts[r]) : Append(receipts[r], row)[i] = receipts[r][i]
        /\ Append(receipts[r], row)[Len(receipts[r]) + 1] = row
    BY <1>1, <1>2
  <1> QED  BY <1>1, <1>2, <1>3, <1>4 DEF Appended

----------------------------------------------------------------------------
(* More receipts leave behind what was behind. *)
LEMMA BehindStays ==
  ASSUME TypeOK, NEW r \in Runs, NEW e \in Int, Behind(r, e),
         NEW q \in Runs, NEW d, NEW pass, Appended(receipts', q, d, pass)
  PROVE  Behind(r, e)'
  <1>1. receipts[r] \in Seq(Receipt) /\ receipts'[r] \in Seq(Receipt)
    BY DEF TypeOK, Appended
  <1>2. \A i \in DOMAIN receipts[r] : i \in DOMAIN receipts'[r] /\ receipts'[r][i] = receipts[r][i]
    BY <1>1 DEF Appended
  <1> QED  BY <1>2 DEF Behind

(* A command that ends, runs its step or turns to the containment disturbs *)
(* no order.                                                               *)
LEMMA OrderWhenMoved ==
  ASSUME OrderInv, NEW o \in Operators, Active(o),
         receipts' = receipts, checkpoint' = checkpoint,
         \/ \E result : Ended(job', o, result)
         \/ Stands(job', o, "step", RouteDisable)
         \/ job[o].at \in Steps /\ Stands(job', o, "ran", job[o].at)
  PROVE  Placed' /\ Alone' /\ Advanced' /\ GatesInOrder'
  <1> USE DEF OrderInv
  <1>1. \A q \in Operators \ {o} : job'[q] = job[q]
    BY DEF Stands, Ended
  <1>2. Active(o)' => /\ job'[o].run = job[o].run /\ job'[o].resumed = job[o].resumed
                      /\ \/ job'[o].phase = "step" /\ job'[o].at = RouteDisable
                         \/ /\ job'[o].phase = "ran" /\ job'[o].at = job[o].at
                            /\ job[o].at \in Steps
    BY DEF Stands, Ended, Active
  <1>3. \A q \in Operators \ {o} : Active(q)' <=> Active(q)
    BY <1>1 DEF Active
  <1>4. \A q \in Operators : Active(q)' => Active(q) /\ job'[q].run = job[q].run
                                        /\ job'[q].resumed = job[q].resumed
    BY <1>1, <1>2, <1>3
  <1>5. Placed'
    BY <1>1, <1>2, <1>3, Plan DEF Placed
  <1>6. Alone'
    BY <1>4 DEF Alone, Executing
  <1>7. \A q \in Operators : Active(q)' /\ job'[q].at <= Entries => job'[q].at = job[q].at
    BY <1>1, <1>2, Plan
  <1>8. Advanced'
    BY <1>4, <1>7 DEF Advanced, Executing, Behind, Passed
  <1>9. GatesInOrder'
    BY DEF GatesInOrder
  <1> QED  BY <1>5, <1>6, <1>8, <1>9

(* Neither does the receipt of a step or a gate, and where it leads to. *)
LEMMA OrderWhenRecorded ==
  ASSUME OrderInv, NEW o \in Operators, Active(o), NEW pass \in BOOLEAN,
         Appended(receipts', job[o].run, job[o].at, pass), checkpoint' = checkpoint,
         \/ \E result : Ended(job', o, result)
         \/ Stands(job', o, "step", RouteDisable)
         \/ job[o].at = Entries /\ job[o].resumed /\ Stands(job', o, "final", Entries)
         \/ \E e \in 1..RouteDisabled :
               /\ Stands(job', o, "step", e)
               /\ \/ e > RouteDisable
                  \/ pass /\ e = job[o].at + 1 /\ e <= Entries
  PROVE  Placed' /\ Alone' /\ Advanced' /\ GatesInOrder'
  <1>1. /\ TypeOK /\ Placed /\ Alone /\ Advanced /\ GatesInOrder
        /\ job[o] \in Job /\ job[o].run \in Runs /\ job[o].at \in 1..RouteDisabled
    BY Jobs DEF OrderInv, Job
  <1>a. receipts \in [Runs -> Seq(Receipt)] /\ Len(receipts[job[o].run]) \in Nat
    BY <1>1 DEF TypeOK
  <1>b. PICK r \in Runs, n \in Nat : r = job[o].run /\ n = Len(receipts[job[o].run])
    BY <1>1, <1>a
  <1>2. /\ receipts[r] \in Seq(Receipt) /\ receipts'[r] \in Seq(Receipt)
        /\ Len(receipts[r]) = n /\ Len(receipts'[r]) = n + 1
        /\ DOMAIN receipts[r] = 1..n /\ DOMAIN receipts'[r] = 1..(n + 1)
        /\ \A i \in 1..n : receipts'[r][i] = receipts[r][i]
        /\ receipts'[r][n + 1].entry = job[o].at /\ receipts'[r][n + 1].pass = pass
        /\ \A q \in Runs \ {r} : receipts'[q] = receipts[q]
    BY <1>a, <1>b DEF Appended
  <1>3. \A q \in Operators \ {o} : job'[q] = job[q] /\ (Active(q)' <=> Active(q))
    BY DEF Stands, Ended, Active
  <1>4. Active(o)' => /\ job'[o].run = r /\ job'[o].resumed = job[o].resumed
                      /\ \/ job'[o].phase = "step" /\ job'[o].at \in 1..RouteDisabled
                            /\ job'[o].at > Entries
                         \/ /\ job'[o].phase = "step" /\ pass
                            /\ job'[o].at = job[o].at + 1 /\ job'[o].at <= Entries
                         \/ /\ job'[o].phase = "final" /\ job'[o].at = Entries
                            /\ job[o].at = Entries /\ job[o].resumed
    BY <1>b, Plan DEF Stands, Ended, Active
  <1>5. \A q \in Operators : Active(q)' => Active(q) /\ job'[q].run = job[q].run
                                        /\ job'[q].resumed = job[q].resumed
    BY <1>b, <1>3, <1>4
  <1>6. \A s \in Runs, e \in Int : Behind(s, e) => Behind(s, e)'
    <2>1. SUFFICES ASSUME NEW s \in Runs, NEW e \in Int, Behind(s, e)
                   PROVE  Behind(s, e)'
      OBVIOUS
    <2> QED  BY <1>1, <1>b, <2>1, BehindStays
  <1>7. Placed'
    BY <1>1, <1>3, <1>4, Plan DEF Placed
  <1>8. Alone'
    BY <1>1, <1>5 DEF Alone, Executing
  <1>9. ASSUME NEW q \in Operators, Executing(q)', job'[q].at <= Entries
        PROVE  Passed(job[q].run, job[q].at - 1)'
    <2>1. Executing(q) /\ job'[q].run = job[q].run  BY <1>5, <1>9 DEF Executing
    <2>2. CASE q = o
      <3>1. pass /\ job'[o].at = job[o].at + 1 /\ job[o].at <= Entries
        BY <1>1, <1>4, <1>9, <2>1, <2>2, Plan DEF Executing
      <3>2. Passed(r, job[o].at - 1)
        BY <1>1, <1>b, <2>1, <2>2, <3>1 DEF Advanced
      <3>3. n = job[o].at - 1 /\ \A i \in 1..n : receipts[r][i].entry = i /\ receipts[r][i].pass
        BY <1>b, <3>2 DEF Passed
      <3>4. job[o].at = n + 1 /\ job'[o].at - 1 = n + 1 /\ Len(receipts'[r]) = n + 1
        BY <1>1, <1>2, <3>1, <3>3
      <3>5. \A i \in 1..n : receipts'[r][i].entry = i /\ receipts'[r][i].pass
        BY <1>2, <3>3
      <3>6. receipts'[r][n + 1].entry = n + 1 /\ receipts'[r][n + 1].pass
        BY <1>2, <3>1, <3>4
      <3>7. \A i \in 1..(n + 1) : i \in 1..n \/ i = n + 1
        OBVIOUS
      <3>8. \A i \in 1..(n + 1) : receipts'[r][i].entry = i /\ receipts'[r][i].pass
        BY <3>5, <3>6, <3>7
      <3> QED  BY <1>4, <1>9, <2>2, <3>4, <3>8 DEF Passed, Executing
    <2>3. CASE q # o
      <3>1. job[q].run \in Runs /\ job[q].run # r /\ job'[q] = job[q]
        BY <1>1, <1>b, <1>3, <2>1, <2>3, Jobs DEF Alone, Executing, Job
      <3>2. Passed(job[q].run, job[q].at - 1)
        BY <1>1, <1>9, <2>1, <3>1 DEF Advanced
      <3> QED  BY <1>2, <3>1, <3>2 DEF Passed
    <2> QED  BY <2>2, <2>3
  <1>10. ASSUME NEW q \in Operators, Active(q)', job'[q].at <= Entries
         PROVE  Behind(job[q].run, job[q].at)'
    <2>1. /\ Active(q) /\ job'[q].run = job[q].run /\ job[q].run \in Runs
          /\ job[q].at \in Int
      BY <1>1, <1>5, <1>10, Jobs DEF Job
    <2>2. CASE job'[q].at = job[q].at
      <3>1. PICK s \in Runs, e \in Int : s = job[q].run /\ e = job[q].at
        BY <2>1
      <3>2. Behind(s, e)'
        BY <1>1, <1>6, <1>10, <2>1, <2>2, <3>1 DEF Advanced
      <3> QED  BY <2>1, <2>2, <3>1, <3>2 DEF Behind
    <2>3. CASE job'[q].at # job[q].at
      <3>1. q = o /\ pass /\ job'[o].at = job[o].at + 1 /\ job[o].at <= Entries
        BY <1>1, <1>3, <1>4, <1>10, <2>3, Plan
      <3>2. Behind(r, job[o].at)
        BY <1>1, <1>b, <2>1, <3>1 DEF Advanced
      <3>3. \A d \in 1..(job[o].at - 1) : \E i \in DOMAIN receipts'[r] :
               receipts'[r][i].entry = d /\ receipts'[r][i].pass
        BY <1>2, <3>2 DEF Behind
      <3>4. n + 1 \in DOMAIN receipts'[r] /\ receipts'[r][n + 1].pass
        BY <1>2, <3>1
      <3>5. \A d \in 1..(job'[o].at - 1) : d \in 1..(job[o].at - 1) \/ d = job[o].at
        BY <1>1, <3>1
      <3>6. \A d \in 1..(job'[o].at - 1) : \E i \in DOMAIN receipts'[r] :
               receipts'[r][i].entry = d /\ receipts'[r][i].pass
        BY <1>2, <3>3, <3>4, <3>5
      <3> QED  BY <1>b, <2>1, <3>1, <3>6 DEF Behind
    <2> QED  BY <2>2, <2>3
  <1>11. \A s \in checkpoint' : receipts'[s] # <<>> /\ Behind(s, Signoff)'
    <2>1. \A s \in checkpoint : s \in Runs /\ receipts[s] # <<>> /\ Behind(s, Signoff)
      BY <1>1 DEF Advanced, TypeOK
    <2>2. receipts'[r] # <<>>  BY <1>2
    <2> QED  BY <1>2, <1>6, <2>1, <2>2, Plan
  <1>12. Advanced'
    <2>1. \A q \in Operators : (Executing(q) /\ job[q].at <= Entries =>
             Passed(job[q].run, job[q].at - 1))'
      BY <1>9
    <2>2. \A q \in Operators : (Active(q) /\ job[q].at <= Entries =>
             Behind(job[q].run, job[q].at))'
      BY <1>10
    <2> QED  BY <1>11, <2>1, <2>2 DEF Advanced
  <1>13. GatesInOrder'
    <2>1. ASSUME NEW s \in Runs, NEW i \in DOMAIN receipts[s], receipts[s][i].entry \in Summaries,
                 NEW e \in 1..(receipts[s][i].entry - 1)
          PROVE  \E j \in 1..(i - 1) : receipts[s][j].entry = e /\ receipts[s][j].pass
      BY <1>1, <2>1 DEF GatesInOrder
    <2>2. ASSUME NEW i \in 1..n, receipts'[r][i].entry \in Summaries,
                 NEW e \in 1..(receipts'[r][i].entry - 1)
          PROVE  \E j \in 1..(i - 1) : receipts'[r][j].entry = e /\ receipts'[r][j].pass
      <3>1. PICK j \in 1..(i - 1) : receipts[r][j].entry = e /\ receipts[r][j].pass
        BY <1>2, <2>1, <2>2
      <3>2. j \in 1..n  BY <3>1
      <3> QED  BY <1>2, <3>1, <3>2
    <2>3. ASSUME receipts'[r][n + 1].entry \in Summaries,
                 NEW e \in 1..(receipts'[r][n + 1].entry - 1)
          PROVE  \E j \in 1..n : receipts'[r][j].entry = e /\ receipts'[r][j].pass
      <3>1. job[o].at \in Summaries /\ job[o].at <= Entries
        BY <1>1, <1>2, <2>3, Plan
      <3>2. Behind(r, job[o].at)
        BY <1>1, <1>b, <3>1 DEF Advanced
      <3>3. PICK j \in 1..n : receipts[r][j].entry = e /\ receipts[r][j].pass
        BY <1>2, <2>3, <3>2 DEF Behind
      <3> QED  BY <1>2, <3>3
    <2>4. ASSUME NEW s \in Runs, NEW i \in DOMAIN receipts'[s], receipts'[s][i].entry \in Summaries,
                 NEW e \in 1..(receipts'[s][i].entry - 1)
          PROVE  \E j \in 1..(i - 1) : receipts'[s][j].entry = e /\ receipts'[s][j].pass
      <3>1. CASE s # r
        BY <1>2, <2>1, <2>4, <3>1
      <3>2. CASE s = r /\ i \in 1..n
        BY <2>2, <2>4, <3>2
      <3>3. CASE s = r /\ i = n + 1
        <4>1. n = i - 1  BY <3>3
        <4> QED  BY <2>3, <2>4, <3>3, <4>1
      <3> QED  BY <1>2, <2>4, <3>1, <3>2, <3>3
    <2> QED  BY <2>4 DEF GatesInOrder
  <1> QED  BY <1>7, <1>8, <1>12, <1>13

----------------------------------------------------------------------------
(* What the steps of a command do to it and to the receipts. *)
LEMMA GateTooLateMoves ==
  ASSUME TypeOK, NEW o \in Operators, GateTooLate(o)
  PROVE  Active(o) /\ Stands(job', o, "step", RouteDisable)
  <1>1. Active(o) /\ job' = Contain(o, FALSE)  BY DEF GateTooLate, AtStep
  <1> QED  BY <1>1, ContainStands

LEMMA StepTooLateMoves ==
  ASSUME TypeOK, NEW o \in Operators, StepTooLate(o)
  PROVE  /\ Active(o) /\ job[o].at \in Steps /\ job[o].at <= Entries
         /\ Stands(job', o, "ran", job[o].at)
  <1>1. /\ Active(o) /\ job[o].at \in Steps /\ job[o].at <= Entries
        /\ job' = [job EXCEPT ![o].phase = "ran", ![o].ok = FALSE]
    BY DEF StepTooLate, AtStep
  <1>2. job \in [Operators -> Job \cup Done] /\ job[o] \in Job  BY <1>1, Jobs
  <1> QED  BY <1>1, <1>2 DEF Stands, Job

LEMMA RunMoves ==
  ASSUME TypeOK, NEW o \in Operators, NEW ok \in BOOLEAN, Active(o), job[o].at \in Steps,
         job' = [job EXCEPT ![o].phase = "ran", ![o].ok = ok]
  PROVE  Stands(job', o, "ran", job[o].at) /\ job'[o].ok = ok
  <1>1. job \in [Operators -> Job \cup Done] /\ job[o] \in Job  BY Jobs
  <1> QED  BY <1>1 DEF Stands, Job

LEMMA RecordMoves ==
  ASSUME TypeOK, Placed, NEW o \in Operators, Record(o)
  PROVE  /\ Active(o) /\ job[o].phase = "ran" /\ job[o].at \in Steps
         /\ Appended(receipts', job[o].run, job[o].at, job[o].ok)
         /\ job[o].ok => \E e \in 1..RouteDisabled :
               /\ Stands(job', o, "step", e)
               /\ job[o].at <= Entries => e = job[o].at + 1 /\ e <= Entries
               /\ job[o].at > Entries => e > RouteDisable
         /\ ~job[o].ok /\ job[o].at <= Entries => Stands(job', o, "step", RouteDisable)
         /\ ~job[o].ok /\ job[o].at > Entries => Ended(job', o, "other")
  <1>1. Active(o) /\ job[o].phase = "ran" /\ job[o].at \in Steps
    BY DEF Record, Active, Placed
  <1>2. job[o].run \in Runs /\ job[o].at \in 1..RouteDisabled /\ job[o].ok \in BOOLEAN
    BY <1>1, Jobs DEF Job
  <1>3. Appended(receipts', job[o].run, job[o].at, job[o].ok)
    <2>1. receipts' = Written(job[o].run, job[o].at, job[o].ok)  BY DEF Record
    <2> QED  BY <1>2, <2>1, WrittenAppends
  <1>4. CASE job[o].ok
    <2>1. job' = AfterSuccess(o)  BY <1>4 DEF Record
    <2> QED  BY <1>1, <1>3, <1>4, <2>1, AfterSuccessStands
  <1>5. CASE ~job[o].ok
    <2>1. job' = AfterFailure(o)  BY <1>5 DEF Record
    <2> QED  BY <1>1, <1>3, <1>5, <2>1, AfterFailureStands
  <1> QED  BY <1>4, <1>5

LEMMA SummariseMoves ==
  ASSUME TypeOK, NEW o \in Operators, Summarise(o)
  PROVE  /\ Active(o) /\ job[o].phase = "step" /\ job[o].at \notin Steps
         /\ Appended(receipts', job[o].run, job[o].at, TRUE)
         /\ \/ job[o].at = RouteDisabled /\ Ended(job', o, "contained")
            \/ job[o].at = Entries /\ job[o].resumed /\ Stands(job', o, "final", Entries)
            \/ job[o].at = Entries /\ Ended(job', o, "other")
            \/ job[o].at < Entries /\ Stands(job', o, "step", job[o].at + 1)
  <1>1. /\ Active(o) /\ job[o].phase = "step" /\ job[o].at \notin Steps
        /\ receipts' = Written(job[o].run, job[o].at, TRUE) /\ job' = AfterSummary(o)
    BY DEF Summarise
  <1>2. job[o].run \in Runs /\ job[o].at \in 1..RouteDisabled
    BY <1>1, Jobs DEF Job
  <1>3. Appended(receipts', job[o].run, job[o].at, TRUE)
    BY <1>1, <1>2, WrittenAppends
  <1> QED  BY <1>1, <1>3, AfterSummaryStands

LEMMA ThrowMoves ==
  ASSUME TypeOK, NEW o \in Operators, Throw(o)
  PROVE  /\ Active(o)
         /\ Ended(job', o, "other") \/ Stands(job', o, "step", RouteDisable)
  <1>1. Active(o)  BY DEF Throw, Active
  <1>2. job' = End(o, "other") \/ job' = AfterFailure(o)  BY DEF Throw
  <1>3. job[o].at \in Int /\ Entries \in Int  BY <1>1, Jobs, Plan DEF Job
  <1>4. CASE job' = End(o, "other")
    <2>1. Ended(End(o, "other"), o, "other")  BY <1>1, EndStands
    <2> QED  BY <1>1, <1>4, <2>1
  <1>5. CASE job' = AfterFailure(o)
    <2>1. CASE job[o].at <= Entries
      <3>1. Stands(AfterFailure(o), o, "step", RouteDisable)
        BY <1>1, <2>1, AfterFailureStands
      <3> QED  BY <1>1, <1>5, <3>1
    <2>2. CASE job[o].at > Entries
      <3>1. Ended(AfterFailure(o), o, "other")  BY <1>1, <2>2, AfterFailureStands
      <3> QED  BY <1>1, <1>5, <3>1
    <2> QED  BY <1>3, <2>1, <2>2
  <1> QED  BY <1>2, <1>4, <1>5

LEMMA CrashMoves ==
  ASSUME TypeOK, NEW o \in Operators, Crash(o)
  PROVE  Active(o) /\ Ended(job', o, "other")
  <1>1. Active(o) /\ job' = End(o, "other")  BY DEF Crash
  <1> QED  BY <1>1, EndStands

LEMMA PauseMoves ==
  ASSUME TypeOK, NEW o \in Operators, Pause(o)
  PROVE  /\ Active(o) /\ job[o].at = Signoff /\ ~job[o].resumed
         /\ \/ Stands(job', o, "step", RouteDisable) /\ checkpoint' = checkpoint
            \/ Ended(job', o, "other") /\ checkpoint' = checkpoint \cup {job[o].run}
  <1>1. Active(o) /\ job[o].at = Signoff /\ ~job[o].resumed  BY DEF Pause, AtStep
  <1>2. \/ job' = Contain(o, FALSE) /\ checkpoint' = checkpoint
        \/ job' = End(o, "other") /\ checkpoint' = checkpoint \cup {job[o].run}
    BY DEF Pause, MayPause
  <1> QED  BY <1>1, <1>2, ContainStands, EndStands

LEMMA FinaliseMoves ==
  ASSUME TypeOK, NEW o \in Operators, Finalise(o)
  PROVE  /\ Active(o)
         /\ \/ Conclusive(job[o].run) /\ evidence' = job[o].run /\ Ended(job', o, "other")
            \/ Stands(job', o, "step", RouteDisable) /\ evidence' = evidence
  <1>1. Active(o)  BY DEF Finalise, Active
  <1>2. \/ Conclusive(job[o].run) /\ evidence' = job[o].run /\ job' = End(o, "other")
        \/ job' = Contain(o, FALSE) /\ evidence' = evidence
    BY DEF Finalise
  <1> QED  BY <1>1, <1>2, ContainStands, EndStands

LEMMA ExecuteBegins ==
  ASSUME TypeOK, NEW o \in Operators, NEW r \in Runs, Execute(o, r)
  PROVE  /\ ~Active(o) /\ receipts[r] = <<>>
         /\ \A q \in Operators : Active(q) => job[q].run # r
         /\ job' \in [Operators -> Job \cup Done] /\ job'[o] \in Job
         /\ job'[o].phase = "step" /\ job'[o].at = 1 /\ job'[o].run = r
         /\ ~job'[o].resumed
         /\ \A q \in Operators \ {o} : job'[q] = job[q]
  <1> DEFINE j == [phase |-> "step", run |-> r, at |-> 1, resumed |-> FALSE,
                   ok |-> FALSE, orphan |-> FALSE]
  <1>1. 1 \in 1..RouteDisabled  BY Plan
  <1>2. j \in Job /\ j.phase = "step" /\ j.at = 1 /\ j.run = r /\ j.resumed = FALSE
    BY <1>1 DEF Job
  <1>3. job' = [job EXCEPT ![o] = j] /\ job \in [Operators -> Job \cup Done]
    BY Jobs DEF Execute
  <1> HIDE DEF j
  <1>4. /\ ~Active(o) /\ receipts[r] = <<>>
        /\ \A q \in Operators : Active(q) => job[q].run # r
    BY DEF Execute, Command, Active
  <1> QED  BY <1>2, <1>3, <1>4

LEMMA ResumeBegins ==
  ASSUME TypeOK, NEW o \in Operators, NEW r \in Runs, Resume(o, r)
  PROVE  /\ ~Active(o) /\ r \in checkpoint
         /\ job' \in [Operators -> Job \cup Done] /\ job'[o].run = r
         /\ \/ /\ job'[o] \in Job /\ job'[o].phase = "step" /\ job'[o].resumed
               /\ job'[o].at = Signoff \/ job'[o].at = RouteDisable
            \/ /\ job'[o] \in Done /\ job'[o].phase = "done"
               /\ job'[o].result # "contained"
         /\ \A q \in Operators \ {o} : job'[q] = job[q]
  <1> DEFINE j(at) == [phase |-> "step", run |-> r, at |-> at, resumed |-> TRUE,
                       ok |-> FALSE, orphan |-> FALSE]
             d(result) == [phase |-> "done", run |-> r, result |-> result]
  <1>1. Signoff \in 1..RouteDisabled /\ RouteDisable \in 1..RouteDisabled  BY Plan
  <1>2. \A at \in {Signoff, RouteDisable} :
           j(at) \in Job /\ j(at).phase = "step" /\ j(at).at = at /\ j(at).run = r
           /\ j(at).resumed = TRUE
    BY <1>1 DEF Job
  <1>3. \A result \in {"outside window", "other"} :
           d(result) \in Done /\ d(result).phase = "done" /\ d(result).run = r
           /\ d(result).result = result
    BY DEF Done
  <1>4. ~Active(o) /\ r \in checkpoint  BY DEF Resume, Command, Active
  <1>5. \/ \E at \in {Signoff, RouteDisable} : job' = [job EXCEPT ![o] = j(at)]
        \/ \E result \in {"outside window", "other"} : job' = [job EXCEPT ![o] = d(result)]
    BY DEF Resume, ResumeVerdicts
  <1>6. job \in [Operators -> Job \cup Done]  BY Jobs
  <1> HIDE DEF j, d
  <1> QED  BY <1>2, <1>3, <1>4, <1>5, <1>6

LEMMA AssembleMoves ==
  ASSUME TypeOK, NEW r \in Runs, Assemble(r)
  PROVE  Conclusive(r) /\ evidence' = r
  BY DEF Assemble

----------------------------------------------------------------------------
(* What a script does to the world. *)
LEMMA ScriptTypes ==
  ASSUME TypeOK, NEW o \in Operators, Active(o), NEW ok \in BOOLEAN, Script(o, ok)
  PROVE  /\ route' \in Runs \cup {None}
         /\ tunnel' \in {"none", "orphan", "partial", "live"}
         /\ incidents' \in 0..MaxIncidents
  <1>1. /\ route \in Runs \cup {None} /\ incidents \in 0..MaxIncidents
        /\ tunnel \in {"none", "orphan", "partial", "live"}
        /\ job[o].run \in Runs
    BY Jobs DEF TypeOK, Job
  <1>2. Incident => incidents' \in 0..MaxIncidents
    BY <1>1, Plan DEF Incident
  <1>3. CASE Publish(job[o].run, ok)
    BY <1>1, <1>3 DEF Publish, world
  <1>4. CASE Disable(ok)
    BY <1>1, <1>2, <1>4 DEF Disable
  <1>5. CASE Recover(ok)
    BY <1>1, <1>2, <1>5 DEF Recover
  <1>6. CASE Check(job[o].at, ok)
    BY <1>1, <1>6 DEF Check, world
  <1> QED  BY <1>3, <1>4, <1>5, <1>6 DEF Script

LEMMA TypesStay ==
  ASSUME TypeOK, Placed, [Next]_vars
  PROVE  TypeOK'
  <1>1. /\ clock \in InTime..Over /\ route \in Runs \cup {None}
        /\ tunnel \in {"none", "orphan", "partial", "live"}
        /\ receipts \in [Runs -> Seq(Receipt)] /\ checkpoint \subseteq Runs
        /\ evidence \in Runs \cup {None} /\ job \in [Operators -> Job \cup Done]
        /\ commands \in 0..MaxCommands /\ incidents \in 0..MaxIncidents
    BY DEF TypeOK
  <1>2. Incident => incidents' \in 0..MaxIncidents
    BY <1>1, Plan DEF Incident
  <1>3. \A o \in Operators : Command(o) => commands' \in 0..MaxCommands
    BY <1>1, Plan DEF Command
  <1>4. ASSUME NEW o \in Operators, NEW r \in Runs, Execute(o, r)
        PROVE  TypeOK'
    <2>1. job' \in [Operators -> Job \cup Done]  BY <1>4, ExecuteBegins
    <2> QED  BY <1>1, <1>3, <1>4, <2>1 DEF Execute, world, files, TypeOK
  <1>5. ASSUME NEW o \in Operators, NEW r \in Runs, Resume(o, r)
        PROVE  TypeOK'
    <2>1. job' \in [Operators -> Job \cup Done]  BY <1>5, ResumeBegins
    <2> QED  BY <1>1, <1>3, <1>5, <2>1 DEF Resume, world, files, TypeOK
  <1>6. ASSUME NEW o \in Operators, Pause(o)
        PROVE  TypeOK'
    <2>1. job' \in [Operators -> Job \cup Done]  BY <1>6, PauseMoves DEF Stands, Ended
    <2>2. job[o].run \in Runs  BY <1>6, PauseMoves, Jobs DEF Job
    <2>3. checkpoint' \subseteq Runs  BY <1>1, <1>6, <2>2, PauseMoves
    <2> QED  BY <1>1, <1>6, <2>1, <2>3 DEF Pause, world, bounds, TypeOK
  <1>7. ASSUME NEW o \in Operators, GateTooLate(o)
        PROVE  TypeOK'
    <2>1. job' \in [Operators -> Job \cup Done]  BY <1>7, GateTooLateMoves DEF Stands
    <2> QED  BY <1>1, <1>7, <2>1 DEF GateTooLate, world, files, bounds, TypeOK
  <1>8. ASSUME NEW o \in Operators, StepTooLate(o)
        PROVE  TypeOK'
    <2>1. job' \in [Operators -> Job \cup Done]  BY <1>8, StepTooLateMoves DEF Stands
    <2> QED  BY <1>1, <1>8, <2>1 DEF StepTooLate, world, files, bounds, TypeOK
  <1>9. ASSUME NEW o \in Operators, Run(o)
        PROVE  TypeOK'
    <2>1. Active(o) /\ job[o].at \in Steps  BY <1>9 DEF Run, AtStep
    <2>2. PICK ok \in BOOLEAN : Script(o, ok)
                 /\ job' = [job EXCEPT ![o].phase = "ran", ![o].ok = ok]
      BY <1>9 DEF Run
    <2>3. job' \in [Operators -> Job \cup Done]
      BY <2>1, <2>2, RunMoves DEF Stands
    <2>4. /\ route' \in Runs \cup {None}
          /\ tunnel' \in {"none", "orphan", "partial", "live"}
          /\ incidents' \in 0..MaxIncidents
      BY <2>1, <2>2, ScriptTypes
    <2> QED  BY <1>1, <1>9, <2>3, <2>4 DEF Run, files, TypeOK
  <1>10. ASSUME NEW o \in Operators, Record(o)
         PROVE  TypeOK'
    <2>1. job' \in [Operators -> Job \cup Done]
      <3>1. Active(o) /\ job[o] \in Job  BY <1>10, RecordMoves, Jobs
      <3>2. job[o].at \in Int /\ Entries \in Int /\ job[o].ok \in BOOLEAN
        BY <3>1, Plan DEF Job
      <3> QED  BY <1>10, <3>2, RecordMoves DEF Stands, Ended
    <2>2. receipts' \in [Runs -> Seq(Receipt)]  BY <1>10, RecordMoves DEF Appended
    <2> QED  BY <1>1, <1>10, <2>1, <2>2 DEF Record, world, bounds, TypeOK
  <1>11. ASSUME NEW o \in Operators, Summarise(o)
         PROVE  TypeOK'
    <2>1. job' \in [Operators -> Job \cup Done]
      BY <1>11, SummariseMoves DEF Stands, Ended
    <2>2. receipts' \in [Runs -> Seq(Receipt)]  BY <1>11, SummariseMoves DEF Appended
    <2> QED  BY <1>1, <1>11, <2>1, <2>2 DEF Summarise, world, bounds, TypeOK
  <1>12. ASSUME NEW o \in Operators, Finalise(o)
         PROVE  TypeOK'
    <2>1. job' \in [Operators -> Job \cup Done]  BY <1>12, FinaliseMoves DEF Stands, Ended
    <2>2. job[o].run \in Runs  BY <1>12, FinaliseMoves, Jobs DEF Job
    <2>3. evidence' \in Runs \cup {None}  BY <1>1, <1>12, <2>2, FinaliseMoves
    <2> QED  BY <1>1, <1>12, <2>1, <2>3 DEF Finalise, world, bounds, TypeOK
  <1>13. ASSUME NEW o \in Operators, Throw(o)
         PROVE  TypeOK'
    <2>1. job' \in [Operators -> Job \cup Done]  BY <1>13, ThrowMoves DEF Stands, Ended
    <2> QED  BY <1>1, <1>2, <1>13, <2>1 DEF Throw, world, files, TypeOK
  <1>14. ASSUME NEW o \in Operators, Crash(o)
         PROVE  TypeOK'
    <2>1. job' \in [Operators -> Job \cup Done]  BY <1>14, CrashMoves DEF Ended
    <2> QED  BY <1>1, <1>2, <1>14, <2>1 DEF Crash, world, files, TypeOK
  <1>15. ASSUME NEW r \in Runs, Assemble(r)
         PROVE  TypeOK'
    BY <1>1, <1>15 DEF Assemble, world, bounds, TypeOK
  <1>16. CASE DisableByHand
    BY <1>1, <1>2, <1>16 DEF DisableByHand, files, TypeOK
  <1>17. CASE Tick
    BY <1>1, <1>17 DEF Tick, world, files, bounds, TypeOK, InTime, Over
  <1>18. CASE UNCHANGED vars
    BY <1>1, <1>18 DEF vars, TypeOK
  <1> QED  BY <1>4, <1>5, <1>6, <1>7, <1>8, <1>9, <1>10, <1>11, <1>12, <1>13,
              <1>14, <1>15, <1>16, <1>17, <1>18 DEF Next, Proceed

----------------------------------------------------------------------------
(* Commands begin, and executions pause, in order. *)
LEMMA ExecuteKeepsOrder ==
  ASSUME OrderInv, NEW o \in Operators, NEW r \in Runs, Execute(o, r)
  PROVE  Placed' /\ Alone' /\ Advanced' /\ GatesInOrder'
  <1>1. TypeOK /\ Placed /\ Alone /\ Advanced /\ GatesInOrder
    BY DEF OrderInv
  <1>2. /\ ~Active(o) /\ receipts[r] = <<>>
        /\ \A q \in Operators : Active(q) => job[q].run # r
        /\ job'[o].phase = "step" /\ job'[o].at = 1 /\ job'[o].run = r
        /\ ~job'[o].resumed
        /\ \A q \in Operators \ {o} : job'[q] = job[q] /\ (Active(q)' <=> Active(q))
    BY <1>1, ExecuteBegins DEF Active
  <1>3. receipts' = receipts /\ checkpoint' = checkpoint
    BY DEF Execute, files
  <1>4. r \notin checkpoint
    BY <1>1, <1>2 DEF Advanced
  <1>5. Placed'
    BY <1>1, <1>2 DEF Placed
  <1>6. Alone'
    BY <1>1, <1>2, <1>3, <1>4 DEF Alone, Executing
  <1>7. Passed(r, 0) /\ Behind(r, 1)
    BY <1>2 DEF Passed, Behind
  <1>8. /\ \A q \in Operators : Executing(q)' /\ job'[q].at <= Entries =>
              Passed(job'[q].run, job'[q].at - 1)
        /\ \A q \in Operators : Active(q)' /\ job'[q].at <= Entries =>
              Behind(job'[q].run, job'[q].at)
    <2>1. ASSUME NEW q \in Operators \ {o}
          PROVE  /\ Executing(q)' /\ job'[q].at <= Entries => Passed(job'[q].run, job'[q].at - 1)
                 /\ Active(q)' /\ job'[q].at <= Entries => Behind(job'[q].run, job'[q].at)
      BY <1>1, <1>2, <2>1 DEF Advanced, Executing
    <2> QED  BY <1>2, <1>7, <2>1
  <1>9. Advanced'
    BY <1>1, <1>3, <1>8 DEF Advanced, Behind, Passed
  <1> QED  BY <1>1, <1>3, <1>5, <1>6, <1>9 DEF GatesInOrder

LEMMA ResumeKeepsOrder ==
  ASSUME OrderInv, NEW o \in Operators, NEW r \in Runs, Resume(o, r)
  PROVE  Placed' /\ Alone' /\ Advanced' /\ GatesInOrder'
  <1>1. TypeOK /\ Placed /\ Alone /\ Advanced /\ GatesInOrder
    BY DEF OrderInv
  <1>2. /\ ~Active(o) /\ r \in checkpoint /\ job'[o].run = r
        /\ Active(o)' => /\ job'[o].phase = "step" /\ job'[o].resumed
                         /\ job'[o].at = Signoff \/ job'[o].at = RouteDisable
        /\ \A q \in Operators \ {o} : job'[q] = job[q] /\ (Active(q)' <=> Active(q))
    BY <1>1, ResumeBegins DEF Active
  <1>3. receipts' = receipts /\ checkpoint' = checkpoint
    BY DEF Resume, files
  <1>4. Placed'
    BY <1>1, <1>2, Plan DEF Placed
  <1>5. Alone'
    BY <1>1, <1>2, <1>3 DEF Alone, Executing
  <1>6. Active(o)' /\ job'[o].at <= Entries => Behind(job'[o].run, job'[o].at)
    BY <1>1, <1>2, Plan DEF Advanced
  <1>7. /\ \A q \in Operators : Executing(q)' /\ job'[q].at <= Entries =>
              Passed(job'[q].run, job'[q].at - 1)
        /\ \A q \in Operators : Active(q)' /\ job'[q].at <= Entries =>
              Behind(job'[q].run, job'[q].at)
    <2>1. ASSUME NEW q \in Operators \ {o}
          PROVE  /\ Executing(q)' /\ job'[q].at <= Entries => Passed(job'[q].run, job'[q].at - 1)
                 /\ Active(q)' /\ job'[q].at <= Entries => Behind(job'[q].run, job'[q].at)
      BY <1>1, <1>2, <2>1 DEF Advanced, Executing
    <2>2. ~Executing(o)'  BY <1>2 DEF Executing
    <2> QED  BY <1>6, <2>1, <2>2
  <1>8. Advanced'
    BY <1>1, <1>3, <1>7 DEF Advanced, Behind, Passed
  <1> QED  BY <1>1, <1>3, <1>4, <1>5, <1>8 DEF GatesInOrder

LEMMA PauseKeepsOrder ==
  ASSUME OrderInv, NEW o \in Operators, Pause(o)
  PROVE  Placed' /\ Alone' /\ Advanced' /\ GatesInOrder'
  <1>1. TypeOK /\ Placed /\ Alone /\ Advanced /\ GatesInOrder
    BY DEF OrderInv
  <1>2. Active(o) /\ job[o].at = Signoff /\ ~job[o].resumed /\ receipts' = receipts
    BY <1>1, PauseMoves DEF Pause
  <1>3. CASE Stands(job', o, "step", RouteDisable) /\ checkpoint' = checkpoint
    BY <1>2, <1>3, OrderWhenMoved
  <1>4. CASE Ended(job', o, "other") /\ checkpoint' = checkpoint \cup {job[o].run}
    <2>1. /\ ~Active(o)'
          /\ \A q \in Operators \ {o} : job'[q] = job[q] /\ (Active(q)' <=> Active(q))
      BY <1>4 DEF Ended, Active
    <2>2. job[o].run \in Runs /\ receipts[job[o].run] \in Seq(Receipt)
      BY <1>1, <1>2, Jobs DEF Job, TypeOK
    <2>3. /\ Passed(job[o].run, Signoff - 1) /\ Behind(job[o].run, Signoff)
      BY <1>1, <1>2, Plan DEF Advanced, Executing
    <2>4. receipts[job[o].run] # <<>>
      BY <2>2, <2>3, Plan DEF Passed
    <2>5. Placed'
      BY <1>1, <2>1 DEF Placed
    <2>6. Alone'
      BY <1>1, <1>2, <1>4, <2>1 DEF Alone, Executing
    <2>7. /\ \A q \in Operators : Executing(q)' /\ job'[q].at <= Entries =>
                Passed(job'[q].run, job'[q].at - 1)
          /\ \A q \in Operators : Active(q)' /\ job'[q].at <= Entries =>
                Behind(job'[q].run, job'[q].at)
      BY <1>1, <2>1 DEF Advanced, Executing
    <2>8. \A s \in checkpoint' : receipts[s] # <<>> /\ Behind(s, Signoff)
      BY <1>1, <1>4, <2>3, <2>4 DEF Advanced
    <2>9. Advanced'
      BY <1>2, <2>7, <2>8 DEF Advanced, Behind, Passed
    <2> QED  BY <1>1, <1>2, <2>5, <2>6, <2>9 DEF GatesInOrder
  <1> QED  BY <1>1, <1>3, <1>4, PauseMoves

(* The order is kept. *)
LEMMA OrderKept ==
  ASSUME OrderInv, [Next]_vars
  PROVE  OrderInv'
  <1>1. TypeOK /\ Placed  BY DEF OrderInv
  <1> DEFINE Goal == Placed' /\ Alone' /\ Advanced' /\ GatesInOrder'
  <1>2. ASSUME NEW o \in Operators, NEW r \in Runs, Execute(o, r)
        PROVE  Goal
    BY <1>2, ExecuteKeepsOrder
  <1>3. ASSUME NEW o \in Operators, NEW r \in Runs, Resume(o, r)
        PROVE  Goal
    BY <1>3, ResumeKeepsOrder
  <1>4. ASSUME NEW o \in Operators, Pause(o)
        PROVE  Goal
    BY <1>4, PauseKeepsOrder
  <1>5. ASSUME NEW o \in Operators, GateTooLate(o)
        PROVE  Goal
    <2>1. receipts' = receipts /\ checkpoint' = checkpoint
      BY <1>5 DEF GateTooLate, files
    <2> QED  BY <1>1, <1>5, <2>1, GateTooLateMoves, OrderWhenMoved
  <1>6. ASSUME NEW o \in Operators, StepTooLate(o)
        PROVE  Goal
    <2>1. receipts' = receipts /\ checkpoint' = checkpoint
      BY <1>6 DEF StepTooLate, files
    <2> QED  BY <1>1, <1>6, <2>1, StepTooLateMoves, OrderWhenMoved
  <1>7. ASSUME NEW o \in Operators, Run(o)
        PROVE  Goal
    <2>1. /\ receipts' = receipts /\ checkpoint' = checkpoint
          /\ Active(o) /\ job[o].at \in Steps
      BY <1>7 DEF Run, AtStep, files
    <2>2. PICK ok \in BOOLEAN : job' = [job EXCEPT ![o].phase = "ran", ![o].ok = ok]
      BY <1>7 DEF Run
    <2>3. Stands(job', o, "ran", job[o].at)  BY <1>1, <2>1, <2>2, RunMoves
    <2> QED  BY <2>1, <2>3, OrderWhenMoved
  <1>8. ASSUME NEW o \in Operators, Record(o)
        PROVE  Goal
    <2>1. checkpoint' = checkpoint  BY <1>8 DEF Record
    <2>2. /\ Active(o) /\ Appended(receipts', job[o].run, job[o].at, job[o].ok)
          /\ job[o] \in Job
      BY <1>1, <1>8, RecordMoves, Jobs
    <2>3. job[o].ok \in BOOLEAN /\ job[o].at \in Int /\ Entries \in Int
      BY <2>2, Plan DEF Job
    <2>4. CASE job[o].ok
      <3>1. PICK e \in 1..RouteDisabled :
               /\ Stands(job', o, "step", e)
               /\ job[o].at <= Entries => e = job[o].at + 1 /\ e <= Entries
               /\ job[o].at > Entries => e > RouteDisable
        BY <1>1, <1>8, <2>4, RecordMoves
      <3>2. e > RouteDisable \/ (e = job[o].at + 1 /\ e <= Entries)
        BY <2>3, <3>1
      <3> QED  BY <2>1, <2>2, <2>3, <2>4, <3>1, <3>2, OrderWhenRecorded
    <2>5. CASE ~job[o].ok
      <3>1. Stands(job', o, "step", RouteDisable) \/ Ended(job', o, "other")
        BY <1>1, <1>8, <2>3, <2>5, RecordMoves
      <3> QED  BY <2>1, <2>2, <2>3, <3>1, OrderWhenRecorded
    <2> QED  BY <2>4, <2>5
  <1>9. ASSUME NEW o \in Operators, Summarise(o)
        PROVE  Goal
    <2>1. checkpoint' = checkpoint  BY <1>9 DEF Summarise
    <2>2. /\ Active(o) /\ Appended(receipts', job[o].run, job[o].at, TRUE)
          /\ \/ \E result : Ended(job', o, result)
             \/ job[o].at = Entries /\ job[o].resumed /\ Stands(job', o, "final", Entries)
             \/ job[o].at < Entries /\ Stands(job', o, "step", job[o].at + 1)
      BY <1>1, <1>9, SummariseMoves
    <2>3. job[o].at < Entries => job[o].at + 1 \in 1..RouteDisabled /\ job[o].at + 1 <= Entries
      BY <1>1, <2>2, Jobs, Plan DEF Job
    <2> QED  BY <2>1, <2>2, <2>3, OrderWhenRecorded
  <1>10. ASSUME NEW o \in Operators, Finalise(o)
         PROVE  Goal
    <2>1. receipts' = receipts /\ checkpoint' = checkpoint
      BY <1>10 DEF Finalise
    <2> QED  BY <1>1, <1>10, <2>1, FinaliseMoves, OrderWhenMoved
  <1>11. ASSUME NEW o \in Operators, Throw(o)
         PROVE  Goal
    <2>1. receipts' = receipts /\ checkpoint' = checkpoint
      BY <1>11 DEF Throw, files
    <2> QED  BY <1>1, <1>11, <2>1, ThrowMoves, OrderWhenMoved
  <1>12. ASSUME NEW o \in Operators, Crash(o)
         PROVE  Goal
    <2>1. receipts' = receipts /\ checkpoint' = checkpoint
      BY <1>12 DEF Crash, files
    <2> QED  BY <1>1, <1>12, <2>1, CrashMoves, OrderWhenMoved
  <1>13. ASSUME UNCHANGED <<job, receipts, checkpoint>>
         PROVE  Goal
    BY <1>13 DEF OrderInv, Placed, Alone, Advanced, GatesInOrder, Active, Executing,
       Passed, Behind
  <1>14. ASSUME NEW r \in Runs, Assemble(r)
         PROVE  UNCHANGED <<job, receipts, checkpoint>>
    BY <1>14 DEF Assemble
  <1>15. DisableByHand \/ Tick \/ UNCHANGED vars => UNCHANGED <<job, receipts, checkpoint>>
    BY DEF DisableByHand, Tick, files, vars
  <1>16. Goal
    <2> HIDE DEF Goal
    <2> QED  BY <1>2, <1>3, <1>4, <1>5, <1>6, <1>7, <1>8, <1>9, <1>10, <1>11, <1>12,
                <1>13, <1>14, <1>15 DEF Next, Proceed
  <1>17. TypeOK'  BY <1>1, TypesStay
  <1> QED  BY <1>16, <1>17 DEF OrderInv

(* At the beginning nobody works on any run. *)
LEMMA OrderAtFirst ==
  ASSUME Init
  PROVE  OrderInv
  <1>1. TypeOK
    <2>1. [phase |-> "done", run |-> None, result |-> "other"] \in Done  BY DEF Done
    <2>2. <<>> \in Seq(Receipt)  OBVIOUS
    <2> QED  BY <2>1, <2>2, Plan DEF Init, TypeOK, InTime, Over
  <1>2. \A o \in Operators : ~Active(o)  BY DEF Init, Active
  <1>3. checkpoint = {} /\ \A r \in Runs : receipts[r] = <<>>  BY DEF Init
  <1>4. Placed /\ Alone /\ Advanced  BY <1>2, <1>3 DEF Placed, Alone, Advanced, Executing
  <1>5. GatesInOrder  BY <1>3 DEF GatesInOrder
  <1> QED  BY <1>1, <1>4, <1>5 DEF OrderInv

LEMMA OrderAlways == Spec => []OrderInv
  <1>1. Init => OrderInv  BY OrderAtFirst
  <1>2. OrderInv /\ [Next]_vars => OrderInv'  BY OrderKept
  <1> QED  BY <1>1, <1>2, PTL DEF Spec

(* Every variable keeps its type: jobs stay in the plan, whatever fails.   *)
THEOREM TypesCorrect == Spec => []TypeOK
  <1>1. OrderInv => TypeOK  BY DEF OrderInv
  <1> QED  BY <1>1, OrderAlways, PTL

(* However many commands work on a run, crash or fail, a gate is recorded  *)
(* only after every step and every gate before it has passed.              *)
THEOREM GatesOrdered == Spec => []GatesInOrder
  <1>1. OrderInv => GatesInOrder  BY DEF OrderInv
  <1> QED  BY <1>1, OrderAlways, PTL

----------------------------------------------------------------------------
(* A receipt takes its run one stage further, or fails it. *)
LEMMA StageMoves ==
  ASSUME TypeOK, TypeOK', NEW r \in Runs, NEW e, NEW pass, Appended(receipts', r, e, pass)
  PROVE  /\ \A q \in Runs \ {r} : Stage(q)' = Stage(q)
         /\ \/ Stage(r)' = Entries + 1
            \/ Stage(r) < Entries /\ Stage(r)' = Stage(r) + 1
  <1>1. PICK n \in Nat : n = Len(receipts[r])
    BY DEF TypeOK
  <1>2. /\ Len(receipts'[r]) = n + 1
        /\ \A i \in 1..n : receipts'[r][i] = receipts[r][i]
        /\ \A q \in Runs \ {r} : receipts'[q] = receipts[q]
    BY <1>1 DEF Appended
  <1>3. \A q \in Runs \ {r} : Stage(q)' = Stage(q)
    BY <1>2 DEF Stage, Passed
  <1>4. CASE n + 1 <= Entries /\ Passed(r, n + 1)'
    <2>1. Stage(r)' = n + 1
      BY <1>2, <1>4 DEF Stage, Passed
    <2>2. Passed(r, n)
      BY <1>1, <1>2, <1>4 DEF Passed
    <2>3. n < Entries  BY <1>4, Plan
    <2>4. Stage(r) = n
      BY <1>1, <2>2, <2>3, Plan DEF Stage
    <2> QED  BY <1>3, <2>1, <2>3, <2>4
  <1>5. CASE ~(n + 1 <= Entries /\ Passed(r, n + 1)')
    <2>1. Stage(r)' = Entries + 1
      BY <1>2, <1>5 DEF Stage, Passed
    <2> QED  BY <1>3, <2>1
  <1> QED  BY <1>4, <1>5

(* A run that has passed the first n entries is at stage n. *)
LEMMA StageOfPassed ==
  ASSUME NEW r \in Runs, NEW n \in 0..Entries, Passed(r, n)
  PROVE  Stage(r) = n
  BY Plan DEF Stage, Passed

(* What a receipt means for the promise. *)
LEMMA ReceiptPassesOrFails ==
  ASSUME TypeOK, TypeOK', NEW r \in Runs, NEW e, NEW pass, Appended(receipts', r, e, pass),
         route' = route, evidence' = evidence
  PROVE  Gates!Pass(r) \/ Gates!Fail(r)
  <1>1. /\ \A q \in Runs \ {r} : Stage(q)' = Stage(q)
        /\ \/ Stage(r)' = Entries + 1
           \/ Stage(r) < Entries /\ Stage(r)' = Stage(r) + 1
    BY StageMoves
  <1>2. CASE Stage(r)' = Entries + 1
    <2>1. [q \in Runs |-> Stage(q)]' =
            [[q \in Runs |-> Stage(q)] EXCEPT ![r] = Entries + 1]
      BY <1>1, <1>2
    <2> QED  BY <2>1 DEF Gates!Fail, Gates!Failed
  <1>3. CASE Stage(r) < Entries /\ Stage(r)' = Stage(r) + 1
    <2>1. [q \in Runs |-> Stage(q)]' =
            [[q \in Runs |-> Stage(q)] EXCEPT ![r] = [q \in Runs |-> Stage(q)][r] + 1]
      BY <1>1, <1>3
    <2> QED  BY <1>3, <2>1 DEF Gates!Pass
  <1> QED  BY <1>1, <1>2, <1>3

(* What a script means for it: only a run at the publication opens.        *)
LEMMA ScriptOpensOrCloses ==
  ASSUME OrderInv, NEW o \in Operators, Active(o), NEW ok \in BOOLEAN, Script(o, ok),
         receipts' = receipts, evidence' = evidence
  PROVE  Gates!Open(job[o].run) \/ Gates!Close \/ UNCHANGED Gates!vars
  <1>1. TypeOK /\ Placed /\ Advanced /\ job[o] \in Job /\ job[o].run \in Runs
    BY Jobs DEF OrderInv, Job
  <1>2. [r \in Runs |-> Stage(r)]' = [r \in Runs |-> Stage(r)]
    BY DEF Stage, Passed
  <1>3. CASE route' = route
    BY <1>2, <1>3 DEF Gates!vars
  <1>4. CASE route' = None
    BY <1>2, <1>4 DEF Gates!Close
  <1>5. CASE job[o].at = Publication /\ Publish(job[o].run, ok)
    <2>1. route' = route \/ (route = None /\ route' = job[o].run)
      BY <1>5 DEF Publish, world
    <2>2. ~job[o].resumed
      BY <1>1, <1>5, Plan DEF Placed
    <2>3. Passed(job[o].run, Publication - 1)
      BY <1>1, <1>5, <2>2, Plan DEF Advanced, Executing
    <2>4. Publication - 1 \in 0..Entries  BY Plan
    <2>5. Stage(job[o].run) = Publication - 1
      BY <1>1, <2>3, <2>4, StageOfPassed
    <2> QED  BY <1>1, <1>2, <1>3, <2>1, <2>5 DEF Gates!Open
  <1>6. CASE Disable(ok)
    BY <1>3, <1>4, <1>6 DEF Disable
  <1>7. CASE Recover(ok)
    BY <1>3, <1>7 DEF Recover
  <1>8. CASE Check(job[o].at, ok)
    BY <1>3, <1>8 DEF Check, world
  <1> QED  BY <1>5, <1>6, <1>7, <1>8 DEF Script

LEMMA ConclusiveGoes ==
  ASSUME NEW r \in Runs, Conclusive(r), evidence' = r, route' = route, receipts' = receipts
  PROVE  Gates!Go(r)
  <1>1. [q \in Runs |-> Stage(q)]' = [q \in Runs |-> Stage(q)]
    BY DEF Stage, Passed
  <1>2. Passed(r, Entries) /\ evidence = None  BY DEF Conclusive
  <1>3. Stage(r) = Entries  BY <1>2, StageOfPassed, Plan
  <1> QED  BY <1>1, <1>2, <1>3 DEF Gates!Go

(* Each step of the cutover is a step of its promise, or none. *)
LEMMA StepsKeepGates ==
  ASSUME OrderInv, OrderInv', [Next]_vars
  PROVE  [Gates!Next]_(Gates!vars)
  <1>1. TypeOK /\ TypeOK' /\ Placed  BY DEF OrderInv
  <1>2. ASSUME UNCHANGED <<receipts, route, evidence>>
        PROVE  UNCHANGED Gates!vars
    BY <1>2 DEF Gates!vars, Stage, Passed
  <1>3. ASSUME NEW o \in Operators, NEW r \in Runs, Execute(o, r) \/ Resume(o, r)
        PROVE  UNCHANGED <<receipts, route, evidence>>
    BY <1>3 DEF Execute, Resume, world, files
  <1>4. ASSUME NEW o \in Operators,
               Pause(o) \/ GateTooLate(o) \/ StepTooLate(o) \/ Throw(o) \/ Crash(o)
        PROVE  UNCHANGED <<receipts, route, evidence>>
    BY <1>4 DEF Pause, GateTooLate, StepTooLate, Throw, Crash, world, files
  <1>5. Tick \/ UNCHANGED vars => UNCHANGED <<receipts, route, evidence>>
    BY DEF Tick, vars, world, files
  <1>6. ASSUME NEW o \in Operators, Run(o)
        PROVE  Gates!Next \/ UNCHANGED Gates!vars
    <2>1. Active(o) /\ receipts' = receipts /\ evidence' = evidence
      BY <1>6 DEF Run, AtStep, files
    <2>2. PICK ok \in BOOLEAN : Script(o, ok)
      BY <1>6 DEF Run
    <2>3. job[o].run \in Runs  BY <1>1, <2>1, Jobs DEF Job
    <2> QED  BY <2>1, <2>2, <2>3, ScriptOpensOrCloses DEF Gates!Next
  <1>7. ASSUME NEW o \in Operators, Record(o) \/ Summarise(o)
        PROVE  Gates!Next
    <2>1. route' = route /\ evidence' = evidence
      BY <1>7 DEF Record, Summarise, world
    <2>2. /\ Active(o)
          /\ \E pass : Appended(receipts', job[o].run, job[o].at, pass)
      BY <1>1, <1>7, RecordMoves, SummariseMoves
    <2>3. job[o].run \in Runs  BY <1>1, <2>2, Jobs DEF Job
    <2> QED  BY <1>1, <2>1, <2>2, <2>3, ReceiptPassesOrFails DEF Gates!Next
  <1>8. ASSUME NEW o \in Operators, Finalise(o)
        PROVE  Gates!Next \/ UNCHANGED Gates!vars
    <2>1. route' = route /\ receipts' = receipts
      BY <1>8 DEF Finalise, world
    <2>2. Active(o) /\ job[o].run \in Runs
      BY <1>1, <1>8, FinaliseMoves, Jobs DEF Job
    <2>3. CASE Conclusive(job[o].run) /\ evidence' = job[o].run
      BY <2>1, <2>2, <2>3, ConclusiveGoes DEF Gates!Next
    <2>4. CASE evidence' = evidence
      BY <1>2, <2>1, <2>4
    <2> QED  BY <1>1, <1>8, <2>3, <2>4, FinaliseMoves
  <1>9. ASSUME NEW r \in Runs, Assemble(r)
        PROVE  Gates!Next
    <2>1. Conclusive(r) /\ evidence' = r /\ route' = route /\ receipts' = receipts
      BY <1>9 DEF Assemble, world
    <2> QED  BY <2>1, ConclusiveGoes DEF Gates!Next
  <1>10. DisableByHand => Gates!Next
    <2>1. SUFFICES ASSUME DisableByHand PROVE Gates!Close
      BY DEF Gates!Next
    <2>2. route' = None /\ receipts' = receipts /\ evidence' = evidence
      BY <2>1 DEF DisableByHand, files
    <2>3. [q \in Runs |-> Stage(q)]' = [q \in Runs |-> Stage(q)]
      BY <2>2 DEF Stage, Passed
    <2> QED  BY <2>2, <2>3 DEF Gates!Close
  <1> QED  BY <1>2, <1>3, <1>4, <1>5, <1>6, <1>7, <1>8, <1>9, <1>10 DEF Next, Proceed

(* The cutover implements its promise: the service is made public only by  *)
(* a run that has passed everything before, and GO is given once, only to  *)
(* a run that has passed everything.                                       *)
THEOREM ImplementsGates == Spec => GatesKept
  <1>1. Init => Gates!Init
    <2>1. SUFFICES ASSUME Init PROVE Gates!Init
      OBVIOUS
    <2>2. \A r \in Runs : Passed(r, 0)  BY <2>1 DEF Init, Passed
    <2>3. \A r \in Runs : Stage(r) = 0  BY <2>2, StageOfPassed, Plan
    <2> QED  BY <2>1, <2>3 DEF Init, Gates!Init
  <1>2. OrderInv /\ OrderInv' /\ [Next]_vars => [Gates!Next]_(Gates!vars)
    BY StepsKeepGates
  <1> QED  BY <1>1, <1>2, OrderAlways, PTL DEF Spec, GatesKept, Gates!Spec

----------------------------------------------------------------------------
(* The route of the run has been disabled by this command. *)
Cleared(o) ==
    /\ Active(o)
    /\ \/ job[o].at > RouteDisable
       \/ job[o].at = RouteDisable /\ job[o].phase = "ran" /\ job[o].ok

HasContained(r) == \E i \in DOMAIN receipts[r] : receipts[r][i].entry = RouteDisabled

Contained ==
    /\ \A o \in Operators : Cleared(o) => route # job[o].run
    /\ \A r \in Runs : HasContained(r) => route # r
    /\ \A o \in Operators : ~Active(o) /\ job[o].result = "contained" =>
          job[o].run \in Runs /\ HasContained(job[o].run)

(* A command at the publication is alone on its run, of which nothing has  *)
(* failed and nothing has been contained.                                  *)
LEMMA Opening ==
  ASSUME OrderInv, NEW o \in Operators, Active(o), job[o].at = Publication
  PROVE  /\ job[o].run \in Runs
         /\ \A q \in Operators \ {o} : Active(q) => job[q].run # job[o].run
         /\ \A i \in DOMAIN receipts[job[o].run] : receipts[job[o].run][i].pass
         /\ ~HasContained(job[o].run)
  <1>1. TypeOK /\ Placed /\ Alone /\ Advanced /\ job[o].run \in Runs
    BY Jobs DEF OrderInv, Job
  <1>2. Executing(o)
    BY <1>1, Plan DEF Placed, Executing
  <1>3. Passed(job[o].run, Publication - 1)
    BY <1>1, <1>2, Plan DEF Advanced
  <1>4. DOMAIN receipts[job[o].run] = 1..(Publication - 1)
    BY <1>1, <1>3 DEF Passed, TypeOK
  <1>5. \A i \in DOMAIN receipts[job[o].run] :
           receipts[job[o].run][i].entry = i /\ receipts[job[o].run][i].pass
    BY <1>3, <1>4 DEF Passed
  <1>6. \A i \in 1..(Publication - 1) : i # RouteDisabled
    BY Plan
  <1> QED  BY <1>1, <1>2, <1>4, <1>5, <1>6 DEF Alone, HasContained

(* The route is closed, left as it is, or opened by a run that has a       *)
(* command at the publication.                                             *)
LEMMA RouteMoves ==
  ASSUME TypeOK, [Next]_vars
  PROVE  \/ route' = route
         \/ route' = None
         \/ \E o \in Operators : /\ Active(o) /\ job[o].at = Publication
                                 /\ route' = job[o].run
  <1>1. ASSUME NEW o \in Operators, NEW r \in Runs, Execute(o, r) \/ Resume(o, r)
        PROVE  route' = route
    BY <1>1 DEF Execute, Resume, world
  <1>2. ASSUME NEW o \in Operators,
               \/ Pause(o) \/ GateTooLate(o) \/ StepTooLate(o) \/ Throw(o) \/ Crash(o)
               \/ Record(o) \/ Summarise(o) \/ Finalise(o)
        PROVE  route' = route
    BY <1>2 DEF Pause, GateTooLate, StepTooLate, Throw, Crash, Record, Summarise,
       Finalise, world
  <1>3. ASSUME NEW r \in Runs, Assemble(r)
        PROVE  route' = route
    BY <1>3 DEF Assemble, world
  <1>4. Tick \/ UNCHANGED vars => route' = route
    BY DEF Tick, vars, world
  <1>5. DisableByHand => route' = None
    BY DEF DisableByHand
  <1>6. ASSUME NEW o \in Operators, Run(o)
        PROVE  \/ route' = route
               \/ route' = None
               \/ Active(o) /\ job[o].at = Publication /\ route' = job[o].run
    <2>1. Active(o)  BY <1>6 DEF Run, AtStep
    <2>2. PICK ok \in BOOLEAN : Script(o, ok)  BY <1>6 DEF Run
    <2>3. CASE job[o].at = Publication /\ Publish(job[o].run, ok)
      BY <2>1, <2>3 DEF Publish, world
    <2>4. CASE Disable(ok)
      BY <2>4 DEF Disable
    <2>5. CASE Recover(ok) \/ Check(job[o].at, ok)
      BY <2>5 DEF Recover, Check, world
    <2> QED  BY <2>2, <2>3, <2>4, <2>5 DEF Script
  <1> QED  BY <1>1, <1>2, <1>3, <1>4, <1>5, <1>6 DEF Next, Proceed

(* A run that is being or has been contained, or has failed, is not        *)
(* published again.                                                        *)
LEMMA RouteStaysClosed ==
  ASSUME OrderInv, [Next]_vars, NEW r \in Runs, route # r,
         \/ HasContained(r)
         \/ \E i \in DOMAIN receipts[r] : ~receipts[r][i].pass
         \/ \E q \in Operators : Active(q) /\ job[q].run = r /\ job[q].at > Entries
  PROVE  route' # r
  <1>1. TypeOK  BY DEF OrderInv
  <1>2. ASSUME NEW o \in Operators, Active(o), job[o].at = Publication, route' = job[o].run
        PROVE  route' # r
    BY <1>2, Opening, Plan
  <1> QED  BY <1>1, <1>2, RouteMoves, Plan

(* What a step has to show to keep the containment real: its command o     *)
(* claims it only when the route is closed.                                *)
LEMMA ContainedWhenMoved ==
  ASSUME OrderInv, TypeOK', Contained, [Next]_vars, NEW o \in Operators,
         \A q \in Operators \ {o} : job'[q] = job[q],
         receipts' = receipts,
         Cleared(o)' => route' # job'[o].run,
         ~Active(o)' => job'[o].result # "contained"
  PROVE  Contained'
  <1>1. TypeOK  BY DEF OrderInv
  <1>2. ASSUME NEW q \in Operators, Cleared(q)'
        PROVE  route' # job'[q].run
    <2>1. CASE q = o
      BY <1>2, <2>1
    <2>2. CASE q # o
      <3>1. job'[q] = job[q]  BY <2>2
      <3>2. Cleared(q) /\ Active(q)  BY <1>2, <3>1 DEF Cleared, Active
      <3>3. job[q].run \in Runs /\ job[q].at > Entries
        BY <1>1, <3>2, Jobs, Plan DEF Cleared, Job
      <3> QED  BY <3>1, <3>2, <3>3, RouteStaysClosed DEF Contained
    <2> QED  BY <2>1, <2>2
  <1>3. ASSUME NEW r \in Runs, HasContained(r)'
        PROVE  route' # r
    <2>1. HasContained(r)  BY <1>3 DEF HasContained
    <2> QED  BY <2>1, RouteStaysClosed DEF Contained
  <1>4. ASSUME NEW q \in Operators, ~Active(q)', job'[q].result = "contained"
        PROVE  job'[q].run \in Runs /\ HasContained(job[q].run)'
    <2>1. job'[q] = job[q]  BY <1>4
    <2> QED  BY <1>4, <2>1 DEF Contained, Active, HasContained
  <1> QED  BY <1>2, <1>3, <1>4 DEF Contained

LEMMA ContainedWhenRecorded ==
  ASSUME OrderInv, TypeOK', Contained, [Next]_vars, NEW o \in Operators, Active(o),
         NEW pass, Appended(receipts', job[o].run, job[o].at, pass), route' = route,
         \A q \in Operators \ {o} : job'[q] = job[q],
         job'[o].run = job[o].run,
         Cleared(o)' => Cleared(o),
         ~Active(o)' /\ job'[o].result = "contained" => job[o].at = RouteDisabled
  PROVE  Contained'
  <1>1. TypeOK  BY DEF OrderInv
  <1>2. job[o].run \in Runs /\ receipts \in [Runs -> Seq(Receipt)]
    BY <1>1, Jobs DEF Job, TypeOK
  <1>3. PICK r \in Runs, n \in Nat : r = job[o].run /\ n = Len(receipts[r])
    BY <1>2
  <1>4. /\ DOMAIN receipts[r] = 1..n /\ DOMAIN receipts'[r] = 1..(n + 1)
        /\ \A i \in 1..n : receipts'[r][i] = receipts[r][i]
        /\ receipts'[r][n + 1].entry = job[o].at
        /\ \A q \in Runs \ {r} : receipts'[q] = receipts[q]
    <2>1. /\ receipts[r] \in Seq(Receipt) /\ receipts'[r] \in Seq(Receipt)
          /\ Len(receipts[r]) = n /\ Len(receipts'[r]) = n + 1
      BY <1>2, <1>3 DEF Appended
    <2> QED  BY <1>3, <2>1 DEF Appended
  <1>5. job[o].at = RouteDisabled => Cleared(o)
    BY Plan DEF Cleared
  <1>6. ASSUME NEW q \in Operators, Cleared(q)'
        PROVE  route' # job'[q].run
    BY <1>6 DEF Contained, Cleared, Active
  <1>7. ASSUME NEW s \in Runs, HasContained(s)'
        PROVE  route' # s
    <2>1. CASE HasContained(s)
      BY <2>1 DEF Contained
    <2>2. CASE ~HasContained(s)
      <3>1. s = r /\ job[o].at = RouteDisabled
        BY <1>4, <1>7, <2>2 DEF HasContained
      <3> QED  BY <1>3, <1>5, <3>1 DEF Contained
    <2> QED  BY <2>1, <2>2
  <1>8. \A s \in Runs : HasContained(s) => HasContained(s)'
    BY <1>4 DEF HasContained
  <1>9. job[o].at = RouteDisabled => HasContained(r)'
    BY <1>4 DEF HasContained
  <1>10. ASSUME NEW q \in Operators, ~Active(q)', job'[q].result = "contained"
         PROVE  job'[q].run \in Runs /\ HasContained(job[q].run)'
    <2>1. CASE q = o
      BY <1>3, <1>9, <1>10, <2>1 DEF HasContained
    <2>2. CASE q # o
      <3>1. job'[q] = job[q]  BY <2>2
      <3>2. PICK s \in Runs : s = job[q].run /\ HasContained(s)
        BY <1>10, <3>1 DEF Contained, Active
      <3>3. HasContained(s)'  BY <1>8, <3>2
      <3> QED  BY <3>1, <3>2, <3>3 DEF HasContained
    <2> QED  BY <2>1, <2>2
  <1> QED  BY <1>6, <1>7, <1>10 DEF Contained

LEMMA ContainedKept ==
  ASSUME OrderInv, OrderInv', Contained, [Next]_vars
  PROVE  Contained'
  <1>1. TypeOK /\ TypeOK' /\ Placed  BY DEF OrderInv
  <1>2. ASSUME NEW o \in Operators, NEW r \in Runs, Execute(o, r)
        PROVE  Contained'
    <2>1. /\ \A q \in Operators \ {o} : job'[q] = job[q]
          /\ Active(o)' /\ job'[o].at = 1
      BY <1>1, <1>2, ExecuteBegins DEF Active
    <2>2. receipts' = receipts /\ ~Cleared(o)'
      BY <1>2, <2>1, Plan DEF Execute, files, Cleared
    <2> QED  BY <1>1, <2>1, <2>2, ContainedWhenMoved
  <1>3. ASSUME NEW o \in Operators, NEW r \in Runs, Resume(o, r)
        PROVE  Contained'
    <2>1. /\ \A q \in Operators \ {o} : job'[q] = job[q]
          /\ \/ /\ job'[o].phase = "step"
                /\ job'[o].at = Signoff \/ job'[o].at = RouteDisable
             \/ job'[o].phase = "done" /\ job'[o].result # "contained"
      BY <1>1, <1>3, ResumeBegins
    <2>2. receipts' = receipts  BY <1>3 DEF Resume, files
    <2>3. ~Cleared(o)' /\ (~Active(o)' => job'[o].result # "contained")
      BY <2>1, Plan DEF Cleared, Active
    <2> QED  BY <1>1, <2>1, <2>2, <2>3, ContainedWhenMoved
  <1>4. ASSUME NEW o \in Operators, receipts' = receipts,
               \/ Ended(job', o, "other")
               \/ Stands(job', o, "step", RouteDisable)
               \/ job[o].at <= Entries /\ Stands(job', o, "ran", job[o].at)
        PROVE  Contained'
    <2>1. /\ \A q \in Operators \ {o} : job'[q] = job[q]
          /\ \/ job'[o].phase = "step" /\ job'[o].at = RouteDisable
             \/ job[o].at <= Entries /\ job'[o].phase = "ran" /\ job'[o].at = job[o].at
             \/ job'[o].phase = "done" /\ job'[o].result # "contained"
      BY <1>4 DEF Ended, Stands
    <2>2. ~Cleared(o)' /\ (~Active(o)' => job'[o].result # "contained")
      <3>1. CASE job[o].at <= Entries /\ job'[o].phase = "ran" /\ job'[o].at = job[o].at
        <4>1. job'[o].at \in Int
          BY <1>1, <1>4, <3>1 DEF Stands, Ended, Job
        <4> QED  BY <3>1, <4>1, Plan DEF Cleared, Active
      <3>2. CASE job'[o].phase = "step" /\ job'[o].at = RouteDisable
        BY <3>2, Plan DEF Cleared, Active
      <3>3. CASE job'[o].phase = "done" /\ job'[o].result # "contained"
        BY <3>3 DEF Cleared, Active
      <3> QED  BY <2>1, <3>1, <3>2, <3>3
    <2> QED  BY <1>1, <1>4, <2>1, <2>2, ContainedWhenMoved
  <1>5. ASSUME NEW o \in Operators,
               \/ Pause(o) \/ GateTooLate(o) \/ StepTooLate(o) \/ Throw(o) \/ Crash(o)
               \/ Finalise(o)
        PROVE  Contained'
    <2>1. receipts' = receipts
      BY <1>5 DEF Pause, GateTooLate, StepTooLate, Throw, Crash, Finalise, files
    <2>2. \/ Ended(job', o, "other")
          \/ Stands(job', o, "step", RouteDisable)
          \/ job[o].at <= Entries /\ Stands(job', o, "ran", job[o].at)
      BY <1>1, <1>5, PauseMoves, GateTooLateMoves, StepTooLateMoves, ThrowMoves,
         CrashMoves, FinaliseMoves
    <2> QED  BY <1>4, <2>1, <2>2
  <1>6. ASSUME NEW o \in Operators, Run(o)
        PROVE  Contained'
    <2>1. /\ Active(o) /\ job[o].phase = "step" /\ job[o].at \in Steps
          /\ receipts' = receipts
      BY <1>6 DEF Run, AtStep, files
    <2>2. PICK ok \in BOOLEAN : Script(o, ok)
                 /\ job' = [job EXCEPT ![o].phase = "ran", ![o].ok = ok]
      BY <1>6 DEF Run
    <2>3. Stands(job', o, "ran", job[o].at) /\ job'[o].ok = ok
      BY <1>1, <2>1, <2>2, RunMoves
    <2>4. job[o].run \in Runs /\ job[o].at \in Int  BY <1>1, <2>1, Jobs DEF Job
    <2>5. CASE job[o].at <= Entries
      BY <1>4, <2>1, <2>3, <2>5
    <2>6. CASE job[o].at > Entries
      <3>1. Cleared(o)' => route' # job[o].run
        <4>1. CASE job[o].at = RouteDisable
          <5>1. Disable(ok)  BY <2>2, <4>1, Plan DEF Script
          <5>2. ok => route' = None  BY <5>1 DEF Disable
          <5>3. Cleared(o)' => ok  BY <2>3, <4>1, Plan DEF Cleared, Stands
          <5> QED  BY <2>4, <5>2, <5>3, Plan
        <4>2. CASE job[o].at # RouteDisable
          <5>1. Cleared(o)  BY <2>1, <2>4, <2>6, <4>2, Plan DEF Cleared
          <5>2. route # job[o].run  BY <5>1 DEF Contained
          <5> QED  BY <2>1, <2>4, <2>6, <5>2, RouteStaysClosed
        <4> QED  BY <4>1, <4>2
      <3>2. /\ \A q \in Operators \ {o} : job'[q] = job[q]
            /\ job'[o].run = job[o].run /\ Active(o)'
        BY <2>3 DEF Stands, Active
      <3> QED  BY <1>1, <2>1, <3>1, <3>2, ContainedWhenMoved
    <2> QED  BY <2>4, <2>5, <2>6, Plan
  <1>7. ASSUME NEW o \in Operators, Record(o)
        PROVE  Contained'
    <2>1. route' = route  BY <1>7 DEF Record, world
    <2>2. /\ Active(o) /\ job[o].phase = "ran" /\ job[o].at \in Steps
          /\ Appended(receipts', job[o].run, job[o].at, job[o].ok)
          /\ job[o] \in Job
      BY <1>1, <1>7, RecordMoves, Jobs
    <2>3. job[o].ok \in BOOLEAN /\ job[o].at \in Int  BY <2>2 DEF Job
    <2>4. CASE job[o].ok
      <3>1. PICK e \in 1..RouteDisabled :
               /\ Stands(job', o, "step", e)
               /\ job[o].at <= Entries => e = job[o].at + 1 /\ e <= Entries
               /\ job[o].at > Entries => e > RouteDisable
        BY <1>1, <1>7, <2>4, RecordMoves
      <3>2. job[o].at > Entries => Cleared(o)
        BY <2>2, <2>3, <2>4, Plan DEF Cleared
      <3>3. Cleared(o)' => Cleared(o)
        BY <2>3, <3>1, <3>2, Plan DEF Cleared, Stands
      <3>4. /\ \A q \in Operators \ {o} : job'[q] = job[q]
            /\ job'[o].run = job[o].run /\ Active(o)'
        BY <3>1 DEF Stands, Active
      <3> QED  BY <1>1, <2>1, <2>2, <3>3, <3>4, ContainedWhenRecorded
    <2>5. CASE ~job[o].ok
      <3>1. Stands(job', o, "step", RouteDisable) \/ Ended(job', o, "other")
        BY <1>1, <1>7, <2>3, <2>5, Plan, RecordMoves
      <3>2. /\ \A q \in Operators \ {o} : job'[q] = job[q]
            /\ job'[o].run = job[o].run
            /\ ~Cleared(o)' /\ (~Active(o)' => job'[o].result # "contained")
        BY <3>1, Plan DEF Stands, Ended, Active, Cleared
      <3> QED  BY <1>1, <2>1, <2>2, <3>2, ContainedWhenRecorded
    <2> QED  BY <2>4, <2>5
  <1>8. ASSUME NEW o \in Operators, Summarise(o)
        PROVE  Contained'
    <2>1. route' = route  BY <1>8 DEF Summarise, world
    <2>2. /\ Active(o) /\ Appended(receipts', job[o].run, job[o].at, TRUE)
          /\ \/ job[o].at = RouteDisabled /\ Ended(job', o, "contained")
             \/ Stands(job', o, "final", Entries)
             \/ Ended(job', o, "other")
             \/ job[o].at < Entries /\ Stands(job', o, "step", job[o].at + 1)
          /\ job[o] \in Job
      BY <1>1, <1>8, SummariseMoves, Jobs
    <2>3. job[o].at \in Int  BY <2>2 DEF Job
    <2>4. /\ \A q \in Operators \ {o} : job'[q] = job[q]
          /\ job'[o].run = job[o].run
      BY <2>2 DEF Stands, Ended
    <2>5. ~Cleared(o)'
      BY <2>2, <2>3, Plan DEF Stands, Ended, Active, Cleared
    <2>6. ~Active(o)' /\ job'[o].result = "contained" => job[o].at = RouteDisabled
      BY <2>2 DEF Stands, Ended, Active
    <2> QED  BY <1>1, <2>1, <2>2, <2>4, <2>5, <2>6, ContainedWhenRecorded
  <1>9. ASSUME UNCHANGED <<job, receipts>>
        PROVE  Contained'
    <2>1. \A r \in Runs : HasContained(r)' <=> HasContained(r)
      BY <1>9 DEF HasContained
    <2>2. ASSUME NEW o \in Operators, Cleared(o)'
          PROVE  route' # job'[o].run
      <3>1. Cleared(o) /\ Active(o) /\ job'[o] = job[o]
        BY <1>9, <2>2 DEF Cleared, Active
      <3>2. job[o].run \in Runs /\ job[o].at > Entries
        BY <1>1, <3>1, Jobs, Plan DEF Cleared, Job
      <3> QED  BY <3>1, <3>2, RouteStaysClosed DEF Contained
    <2>3. ASSUME NEW r \in Runs, HasContained(r)'
          PROVE  route' # r
      BY <2>1, <2>3, RouteStaysClosed DEF Contained
    <2>4. \A o \in Operators : ~Active(o)' /\ job'[o].result = "contained" =>
             job'[o].run \in Runs /\ HasContained(job[o].run)'
      BY <1>9 DEF Contained, Active, HasContained
    <2> QED  BY <2>2, <2>3, <2>4 DEF Contained
  <1>10. ASSUME NEW r \in Runs, Assemble(r)
         PROVE  UNCHANGED <<job, receipts>>
    BY <1>10 DEF Assemble
  <1>11. DisableByHand \/ Tick \/ UNCHANGED vars => UNCHANGED <<job, receipts>>
    BY DEF DisableByHand, Tick, files, vars
  <1> QED  BY <1>2, <1>3, <1>5, <1>6, <1>7, <1>8, <1>9, <1>10, <1>11 DEF Next, Proceed

LEMMA ContainedAlways == Spec => []Contained
  <1>1. Init => Contained
    <2>1. SUFFICES ASSUME Init PROVE Contained
      OBVIOUS
    <2>2. /\ \A o \in Operators : ~Active(o) /\ job[o].result # "contained"
          /\ \A r \in Runs : receipts[r] = <<>>
      BY <2>1 DEF Init, Active
    <2>3. \A r \in Runs : ~HasContained(r)  BY <2>2 DEF HasContained
    <2> QED  BY <2>2, <2>3 DEF Contained, Cleared
  <1>2. OrderInv /\ OrderInv' /\ Contained /\ [Next]_vars => Contained'
    BY ContainedKept
  <1> QED  BY <1>1, <1>2, OrderAlways, PTL DEF Spec

(* A run whose containment is recorded, or was reported, is not in the DNS *)
(* any more and never will be, whatever other commands work on it or on    *)
(* other runs and whatever goes wrong afterwards.                          *)
THEOREM ContainmentStaysReal == Spec => []ContainmentIsReal
  <1>1. Contained => ContainmentIsReal
    <2>1. SUFFICES ASSUME Contained, NEW r \in Runs,
                          \/ \E i \in DOMAIN receipts[r] : receipts[r][i].entry = RouteDisabled
                          \/ \E o \in Operators : ~Active(o) /\ job[o].run = r
                                                  /\ job[o].result = "contained"
                   PROVE  route # r
      BY DEF ContainmentIsReal
    <2>2. HasContained(r)  BY <2>1 DEF Contained, HasContained
    <2> QED  BY <2>1, <2>2 DEF Contained
  <1> QED  BY <1>1, ContainedAlways, PTL

----------------------------------------------------------------------------
(* A failed run is excused when its route is closed, or cannot be.         *)
Excused(r) == route # r \/ clock = Over \/ incidents > 0

HasFailed(r) == \E i \in DOMAIN receipts[r] : ~receipts[r][i].pass

Disabling(o) == Active(o) /\ job[o].at = RouteDisable

(* Without a tunnel, which route-disable needs, there is no route.  Until  *)
(* a failed run is excused some command is about to disable its route; and *)
(* it fails in that only with an excuse.                                   *)
LiveTunnel == route # None => tunnel = "live"

Closing ==
    \A r \in Runs : HasFailed(r) =>
        Excused(r) \/ \E o \in Operators : Disabling(o) /\ job[o].run = r

NotDisabled ==
    \A o \in Operators : Disabling(o) /\ job[o].phase = "ran" /\ ~job[o].ok =>
        Excused(job[o].run)

CloseInv == OrderInv /\ Contained /\ LiveTunnel /\ Closing /\ NotDisabled

(* Time does not go back, incidents are not undone. *)
LEMMA ExcusesStand ==
  ASSUME TypeOK, [Next]_vars
  PROVE  /\ clock = Over => clock' = Over
         /\ incidents > 0 => incidents' > 0
  <1>1. incidents \in Nat  BY Plan DEF TypeOK
  <1>2. Incident => incidents' > 0  BY <1>1 DEF Incident
  <1>3. ASSUME NEW o \in Operators, NEW r \in Runs, Execute(o, r) \/ Resume(o, r)
        PROVE  clock' = clock /\ incidents' = incidents
    BY <1>3 DEF Execute, Resume
  <1>4. ASSUME NEW o \in Operators,
               \/ Pause(o) \/ GateTooLate(o) \/ StepTooLate(o)
               \/ Record(o) \/ Summarise(o) \/ Finalise(o)
        PROVE  clock' = clock /\ incidents' = incidents
    BY <1>4 DEF Pause, GateTooLate, StepTooLate, Record, Summarise, Finalise, bounds
  <1>5. ASSUME NEW o \in Operators, Throw(o) \/ Crash(o)
        PROVE  clock' = clock /\ Incident
    BY <1>5 DEF Throw, Crash
  <1>6. ASSUME NEW o \in Operators, Run(o)
        PROVE  clock' = clock /\ (incidents' = incidents \/ Incident)
    BY <1>6 DEF Run, Script, Publish, Disable, Recover, Check
  <1>7. ASSUME NEW r \in Runs, Assemble(r)
        PROVE  clock' = clock /\ incidents' = incidents
    BY <1>7 DEF Assemble, bounds
  <1>8. DisableByHand => clock' = clock /\ Incident
    BY DEF DisableByHand
  <1>9. Tick => clock # Over /\ incidents' = incidents
    BY DEF Tick, bounds
  <1>10. UNCHANGED vars => clock' = clock /\ incidents' = incidents
    BY DEF vars
  <1> QED  BY <1>2, <1>3, <1>4, <1>5, <1>6, <1>7, <1>8, <1>9, <1>10 DEF Next, Proceed

LEMMA ExcusedStays ==
  ASSUME OrderInv, [Next]_vars, NEW r \in Runs, Excused(r),
         HasFailed(r) \/ \E o \in Operators : Disabling(o) /\ job[o].run = r
  PROVE  Excused(r)'
  <1>1. TypeOK  BY DEF OrderInv
  <1>2. clock = Over \/ incidents > 0 => Excused(r)'
    BY <1>1, ExcusesStand DEF Excused
  <1>3. CASE route # r
    <2>1. route' # r
      BY <1>3, RouteStaysClosed, Plan DEF HasFailed, Disabling
    <2> QED  BY <2>1 DEF Excused
  <1> QED  BY <1>2, <1>3 DEF Excused

LEMMA LiveTunnelKept ==
  ASSUME TypeOK, LiveTunnel, [Next]_vars
  PROVE  LiveTunnel'
  <1>1. ASSUME NEW o \in Operators, NEW r \in Runs, Execute(o, r) \/ Resume(o, r)
        PROVE  UNCHANGED world
    BY <1>1 DEF Execute, Resume
  <1>2. ASSUME NEW o \in Operators,
               \/ Pause(o) \/ GateTooLate(o) \/ StepTooLate(o) \/ Throw(o) \/ Crash(o)
               \/ Record(o) \/ Summarise(o) \/ Finalise(o)
        PROVE  UNCHANGED world
    BY <1>2 DEF Pause, GateTooLate, StepTooLate, Throw, Crash, Record, Summarise, Finalise
  <1>3. ASSUME NEW r \in Runs, Assemble(r)
        PROVE  UNCHANGED world
    BY <1>3 DEF Assemble
  <1>4. Tick \/ UNCHANGED vars => UNCHANGED world
    BY DEF Tick, vars, world
  <1>5. UNCHANGED world => LiveTunnel'
    BY DEF world, LiveTunnel
  <1>6. DisableByHand => LiveTunnel'
    BY DEF DisableByHand, LiveTunnel
  <1>7. ASSUME NEW o \in Operators, Run(o)
        PROVE  LiveTunnel'
    <2>1. PICK ok \in BOOLEAN : Script(o, ok)  BY <1>7 DEF Run
    <2>2. CASE Publish(job[o].run, ok)
      BY <2>2 DEF Publish, world, LiveTunnel
    <2>3. CASE Disable(ok)
      BY <2>3 DEF Disable, LiveTunnel
    <2>4. CASE Recover(ok)
      BY <2>4 DEF Recover, LiveTunnel
    <2>5. CASE Check(job[o].at, ok)
      BY <1>5, <2>5 DEF Check
    <2> QED  BY <2>1, <2>2, <2>3, <2>4, <2>5 DEF Script
  <1> QED  BY <1>1, <1>2, <1>3, <1>4, <1>5, <1>6, <1>7 DEF Next, Proceed

(* What a step has to show: its command does not leave the disabling of a  *)
(* failed run, does not fail in it without an excuse, and fails nothing    *)
(* without going to disable the route.                                     *)
LEMMA ClosingWhenMoved ==
  ASSUME CloseInv, [Next]_vars, NEW o \in Operators,
         \A q \in Operators \ {o} : job'[q] = job[q],
         Disabling(o) => job'[o].run = job[o].run /\ (Excused(job[o].run)' \/ Disabling(o)'),
         Disabling(o)' /\ job'[o].phase = "ran" /\ ~job'[o].ok => Excused(job[o].run)',
         \A r \in Runs : HasFailed(r)' =>
            HasFailed(r) \/ Excused(r)' \/ (Disabling(o)' /\ job'[o].run = r)
  PROVE  Closing' /\ NotDisabled'
  <1>1. OrderInv /\ TypeOK /\ Closing /\ NotDisabled  BY DEF CloseInv, OrderInv
  <1>2. \A q \in Operators \ {o} : Disabling(q) <=> Disabling(q)'
    BY DEF Disabling, Active
  <1>3. ASSUME NEW r \in Runs, HasFailed(r)'
        PROVE  Excused(r)' \/ \E q \in Operators : Disabling(q)' /\ job'[q].run = r
    <2>1. CASE ~HasFailed(r)
      BY <1>3, <2>1
    <2>2. CASE HasFailed(r) /\ Excused(r)
      BY <1>1, <2>2, ExcusedStays
    <2>3. CASE HasFailed(r) /\ ~Excused(r)
      <3>1. PICK q \in Operators : Disabling(q) /\ job[q].run = r
        BY <1>1, <2>3 DEF Closing
      <3>2. CASE q # o
        BY <1>2, <3>1, <3>2
      <3>3. CASE q = o
        <4>1. job'[o].run = r /\ (Excused(job[o].run)' \/ Disabling(o)')
          BY <3>1, <3>3
        <4>2. CASE Disabling(o)'
          BY <4>1, <4>2
        <4>3. CASE Excused(job[o].run)'
          BY <4>1, <4>3 DEF Excused
        <4> QED  BY <4>1, <4>2, <4>3
      <3> QED  BY <3>2, <3>3
    <2> QED  BY <2>1, <2>2, <2>3
  <1>4. ASSUME NEW q \in Operators, Disabling(q)', job'[q].phase = "ran", ~job'[q].ok
        PROVE  Excused(job[q].run)'
    <2>1. CASE q = o
      BY <1>4, <2>1
    <2>2. CASE q # o
      <3>1. job'[q] = job[q] /\ Disabling(q) /\ Active(q)
        BY <1>2, <1>4, <2>2 DEF Disabling
      <3>2. PICK r \in Runs : r = job[q].run
        BY <1>1, <3>1, Jobs DEF Job
      <3>3. Excused(r)  BY <1>1, <1>4, <3>1, <3>2 DEF NotDisabled
      <3>4. Excused(r)'  BY <1>1, <3>1, <3>2, <3>3, ExcusedStays
      <3> QED  BY <3>1, <3>2, <3>4 DEF Excused
    <2> QED  BY <2>1, <2>2
  <1>5. Closing'
    BY <1>3 DEF Closing
  <1>6. NotDisabled'
    BY <1>4 DEF NotDisabled
  <1> QED  BY <1>5, <1>6

LEMMA ClosingKept ==
  ASSUME CloseInv, OrderInv', [Next]_vars
  PROVE  Closing' /\ NotDisabled'
  <1>1. /\ OrderInv /\ TypeOK /\ Placed /\ Contained /\ LiveTunnel /\ Closing /\ NotDisabled
    BY DEF CloseInv, OrderInv
  <1> DEFINE Goal == Closing' /\ NotDisabled'
  <1>2. Incident => \A r \in Runs \cup {None} : Excused(r)'
    <2>1. incidents \in Nat  BY <1>1, Plan DEF TypeOK
    <2> QED  BY <2>1 DEF Incident, Excused
  <1>3. receipts' = receipts => \A r \in Runs : HasFailed(r)' => HasFailed(r)
    BY DEF HasFailed
  <1>4. ASSUME NEW o \in Operators, ~Active(o), receipts' = receipts,
               \A q \in Operators \ {o} : job'[q] = job[q],
               Active(o)' => job'[o].phase = "step"
        PROVE  Goal
    BY <1>1, <1>3, <1>4, ClosingWhenMoved DEF Disabling
  <1>5. ASSUME NEW o \in Operators, NEW r \in Runs, Execute(o, r)
        PROVE  Goal
    <2>1. receipts' = receipts  BY <1>5 DEF Execute, files
    <2> HIDE DEF Goal
    <2> QED  BY <1>1, <1>4, <1>5, <2>1, ExecuteBegins
  <1>6. ASSUME NEW o \in Operators, NEW r \in Runs, Resume(o, r)
        PROVE  Goal
    <2>1. receipts' = receipts  BY <1>6 DEF Resume, files
    <2>2. /\ ~Active(o) /\ \A q \in Operators \ {o} : job'[q] = job[q]
          /\ Active(o)' => job'[o].phase = "step"
      BY <1>1, <1>6, ResumeBegins DEF Active
    <2> HIDE DEF Goal
    <2> QED  BY <1>4, <2>1, <2>2
  <1>7. ASSUME NEW o \in Operators, ~Disabling(o), receipts' = receipts,
               \/ Ended(job', o, "other")
               \/ Stands(job', o, "step", RouteDisable)
               \/ job[o].at <= Entries /\ Stands(job', o, "ran", job[o].at)
        PROVE  Goal
    <2>1. \A q \in Operators \ {o} : job'[q] = job[q]
      BY <1>7 DEF Ended, Stands
    <2>2. ~(Disabling(o)' /\ job'[o].phase = "ran")
      <3>1. CASE job[o].at <= Entries /\ Stands(job', o, "ran", job[o].at)
        <4>1. job'[o].at \in Int /\ job'[o].at <= Entries
          BY <3>1 DEF Stands, Job
        <4> QED  BY <4>1, Plan DEF Disabling
      <3> QED  BY <1>7, <3>1 DEF Disabling, Active, Ended, Stands
    <2> QED  BY <1>1, <1>3, <1>7, <2>1, <2>2, ClosingWhenMoved
  <1>8. ASSUME NEW o \in Operators,
               Pause(o) \/ GateTooLate(o) \/ StepTooLate(o) \/ Finalise(o)
        PROVE  Goal
    <2>1. receipts' = receipts
      BY <1>8 DEF Pause, GateTooLate, StepTooLate, Finalise, files
    <2>2. /\ Active(o)
          /\ \/ Ended(job', o, "other")
             \/ Stands(job', o, "step", RouteDisable)
             \/ job[o].at <= Entries /\ Stands(job', o, "ran", job[o].at)
      BY <1>1, <1>8, PauseMoves, GateTooLateMoves, StepTooLateMoves, FinaliseMoves
    <2>3. job[o].at <= Entries /\ job[o].at \in Int
      <3>1. job[o].at \in Int  BY <1>1, <2>2, Jobs DEF Job
      <3>2. CASE Pause(o)  BY <1>1, <3>1, <3>2, PauseMoves, Plan
      <3>3. CASE GateTooLate(o)
        BY <3>1, <3>3, Plan DEF GateTooLate, AfterCutoff, GateStarts
      <3>4. CASE StepTooLate(o)  BY <3>1, <3>4 DEF StepTooLate
      <3>5. CASE Finalise(o)
        BY <1>1, <2>2, <3>1, <3>5, Plan DEF Finalise, Placed
      <3> QED  BY <1>8, <3>1, <3>2, <3>3, <3>4, <3>5
    <2>4. ~Disabling(o)  BY <2>3, Plan DEF Disabling
    <2> HIDE DEF Goal
    <2> QED  BY <1>7, <2>1, <2>2, <2>4
  <1>9. ASSUME NEW o \in Operators, Throw(o) \/ Crash(o)
        PROVE  Goal
    <2>1. receipts' = receipts /\ Incident
      BY <1>9 DEF Throw, Crash, files
    <2>2. /\ Active(o)
          /\ Ended(job', o, "other") \/ Stands(job', o, "step", RouteDisable)
      BY <1>1, <1>9, ThrowMoves, CrashMoves
    <2>3. /\ \A q \in Operators \ {o} : job'[q] = job[q]
          /\ job'[o].run = job[o].run /\ job[o].run \in Runs
      BY <1>1, <2>2, Jobs DEF Ended, Stands, Job
    <2>4. Excused(job[o].run)'
      BY <1>2, <2>1, <2>3 DEF Excused
    <2> QED  BY <1>1, <1>3, <2>1, <2>3, <2>4, ClosingWhenMoved
  <1>10. ASSUME NEW o \in Operators, Run(o)
         PROVE  Goal
    <2>1. /\ Active(o) /\ job[o].at \in Steps /\ receipts' = receipts
      BY <1>10 DEF Run, AtStep, files
    <2>2. PICK ok \in BOOLEAN : Script(o, ok)
                 /\ job' = [job EXCEPT ![o].phase = "ran", ![o].ok = ok]
      BY <1>10 DEF Run
    <2>3. Stands(job', o, "ran", job[o].at) /\ job'[o].ok = ok
      BY <1>1, <2>1, <2>2, RunMoves
    <2>4. /\ job[o].run \in Runs /\ job'[o].run = job[o].run
          /\ \A q \in Operators \ {o} : job'[q] = job[q]
          /\ Disabling(o)' <=> Disabling(o)
      BY <1>1, <2>1, <2>3, Jobs DEF Job, Stands, Disabling, Active
    <2>5. Disabling(o) /\ ~ok => Excused(job[o].run)'
      <3>1. SUFFICES ASSUME Disabling(o), ~ok PROVE Excused(job[o].run)'
        OBVIOUS
      <3>2. Disable(ok)  BY <2>2, <3>1, Plan DEF Script, Disabling
      <3>3. CASE Incident
        BY <1>2, <2>4, <3>3 DEF Excused
      <3>4. CASE clock = Over
        <4>1. clock' = clock  BY <1>10 DEF Run
        <4> QED  BY <3>4, <4>1 DEF Excused
      <3>5. CASE tunnel = "none" /\ route' = route
        <4>1. route' = None  BY <1>1, <3>5 DEF LiveTunnel
        <4> QED  BY <2>4, <4>1, Plan DEF Excused
      <3> QED  BY <3>1, <3>2, <3>3, <3>4, <3>5 DEF Disable
    <2> QED  BY <1>1, <1>3, <2>1, <2>3, <2>4, <2>5, ClosingWhenMoved
  <1>11. ASSUME NEW o \in Operators, NEW pass, Active(o),
                Appended(receipts', job[o].run, job[o].at, pass)
         PROVE  \A r \in Runs : HasFailed(r)' =>
                   HasFailed(r) \/ (r = job[o].run /\ ~pass)
    <2>1. job[o].run \in Runs /\ receipts \in [Runs -> Seq(Receipt)]
      BY <1>1, <1>11, Jobs DEF Job, TypeOK
    <2>2. PICK s \in Runs, n \in Nat : s = job[o].run /\ n = Len(receipts[s])
      BY <2>1
    <2>3. /\ receipts[s] \in Seq(Receipt) /\ receipts'[s] \in Seq(Receipt)
          /\ Len(receipts[s]) = n /\ Len(receipts'[s]) = n + 1
      BY <1>11, <2>1, <2>2 DEF Appended
    <2>4. /\ DOMAIN receipts[s] = 1..n /\ DOMAIN receipts'[s] = 1..(n + 1)
          /\ \A i \in 1..n : receipts'[s][i] = receipts[s][i]
          /\ receipts'[s][n + 1].pass = pass
          /\ \A q \in Runs \ {s} : receipts'[q] = receipts[q]
      BY <1>11, <2>2, <2>3 DEF Appended
    <2>5. \A i \in 1..(n + 1) : i \in 1..n \/ i = n + 1
      OBVIOUS
    <2> QED  BY <2>2, <2>4, <2>5 DEF HasFailed
  <1>12. ASSUME NEW o \in Operators, Record(o)
         PROVE  Goal
    <2>1. UNCHANGED <<route, clock, incidents>>
      BY <1>12 DEF Record, world, bounds
    <2>2. /\ Active(o) /\ job[o].phase = "ran" /\ job[o].at \in Steps
          /\ Appended(receipts', job[o].run, job[o].at, job[o].ok)
          /\ job[o] \in Job /\ job[o].run \in Runs
          /\ job[o].at \in Int /\ job[o].ok \in BOOLEAN
      BY <1>1, <1>12, RecordMoves, Jobs DEF Job
    <2>3. /\ \A q \in Operators \ {o} : job'[q] = job[q]
          /\ job'[o].run = job[o].run
          /\ ~(Disabling(o)' /\ job'[o].phase = "ran")
      <3>1. \/ \E e : Stands(job', o, "step", e)
            \/ Ended(job', o, "other")
        BY <1>1, <1>12, <2>2, Plan, RecordMoves
      <3> QED  BY <3>1 DEF Stands, Ended
    <2>4. job[o].at > Entries => Excused(job[o].run)'
      <3>1. SUFFICES ASSUME job[o].at > Entries PROVE Excused(job[o].run)'
        OBVIOUS
      <3>2. CASE Cleared(o)
        BY <1>1, <2>1, <2>3, <3>2 DEF Contained, Excused
      <3>3. CASE ~Cleared(o)
        <4>1. Disabling(o) /\ ~job[o].ok
          BY <2>2, <3>1, <3>3, Plan DEF Cleared, Disabling
        <4> QED  BY <1>1, <2>1, <2>2, <2>3, <4>1 DEF NotDisabled, Excused
      <3> QED  BY <3>2, <3>3
    <2>5. job[o].at <= Entries /\ ~job[o].ok => Disabling(o)'
      <3>1. job[o].at <= Entries /\ ~job[o].ok => Stands(job', o, "step", RouteDisable)
        BY <1>1, <1>12, RecordMoves
      <3> QED  BY <3>1 DEF Stands, Disabling, Active
    <2>6. Disabling(o) => Excused(job[o].run)'
      <3>1. Disabling(o) => job[o].at > Entries  BY Plan DEF Disabling
      <3> QED  BY <2>4, <3>1
    <2>7. ASSUME NEW r \in Runs, HasFailed(r)', ~HasFailed(r)
          PROVE  Excused(r)' \/ (Disabling(o)' /\ job'[o].run = r)
      <3>1. r = job[o].run /\ ~job[o].ok
        BY <1>11, <2>2, <2>7
      <3>2. CASE job[o].at <= Entries
        BY <2>3, <2>5, <3>1, <3>2
      <3>3. CASE job[o].at > Entries
        BY <2>3, <2>4, <3>1, <3>3 DEF Excused
      <3> QED  BY <2>2, <3>2, <3>3, Plan
    <2> QED  BY <2>3, <2>6, <2>7, ClosingWhenMoved
  <1>13. ASSUME NEW o \in Operators, Summarise(o)
         PROVE  Goal
    <2>1. /\ Active(o) /\ job[o].at \notin Steps
          /\ Appended(receipts', job[o].run, job[o].at, TRUE)
          /\ \/ \E result : Ended(job', o, result)
             \/ Stands(job', o, "final", Entries)
             \/ \E e : Stands(job', o, "step", e)
      BY <1>1, <1>13, SummariseMoves
    <2>2. ~Disabling(o)  BY <2>1, Plan DEF Disabling
    <2>3. /\ \A q \in Operators \ {o} : job'[q] = job[q]
          /\ ~(Disabling(o)' /\ job'[o].phase = "ran")
      BY <2>1 DEF Ended, Stands
    <2>4. \A r \in Runs : HasFailed(r)' => HasFailed(r)
      BY <1>11, <2>1
    <2> QED  BY <2>2, <2>3, <2>4, ClosingWhenMoved
  <1>14. ASSUME UNCHANGED <<job, receipts>>
         PROVE  Goal
    <2>1. ASSUME NEW r \in Runs, HasFailed(r)'
          PROVE  Excused(r)' \/ \E o \in Operators : Disabling(o)' /\ job'[o].run = r
      <3>1. HasFailed(r) /\ \A o \in Operators : Disabling(o) => Disabling(o)'
        BY <1>14, <2>1 DEF HasFailed, Disabling, Active
      <3> QED  BY <1>1, <1>14, <3>1, ExcusedStays DEF Closing
    <2>2. ASSUME NEW o \in Operators, Disabling(o)', job'[o].phase = "ran", ~job'[o].ok
          PROVE  Excused(job[o].run)'
      <3>1. job' = job /\ Disabling(o) /\ Active(o)
        BY <1>14, <2>2 DEF Disabling, Active
      <3>2. PICK r \in Runs : r = job[o].run
        BY <1>1, <3>1, Jobs DEF Job
      <3>3. Excused(r)  BY <1>1, <2>2, <3>1, <3>2 DEF NotDisabled
      <3>4. Excused(r)'  BY <1>1, <3>1, <3>2, <3>3, ExcusedStays
      <3> QED  BY <3>1, <3>2, <3>4 DEF Excused
    <2>3. Closing'  BY <2>1 DEF Closing
    <2>4. NotDisabled'  BY <2>2 DEF NotDisabled
    <2> QED  BY <2>3, <2>4
  <1>15. ASSUME NEW r \in Runs, Assemble(r)
         PROVE  UNCHANGED <<job, receipts>>
    BY <1>15 DEF Assemble
  <1>16. DisableByHand \/ Tick \/ UNCHANGED vars => UNCHANGED <<job, receipts>>
    BY DEF DisableByHand, Tick, files, vars
  <1> HIDE DEF Goal
  <1>17. Goal
    BY <1>5, <1>6, <1>8, <1>9, <1>10, <1>12, <1>13, <1>14, <1>15, <1>16 DEF Next, Proceed
  <1> QED  BY <1>17 DEF Goal

LEMMA CloseAlways == Spec => [](LiveTunnel /\ Closing /\ NotDisabled)
  <1> DEFINE Rest == LiveTunnel /\ Closing /\ NotDisabled
  <1>1. Init => Rest
    <2>1. SUFFICES ASSUME Init PROVE Rest
      OBVIOUS
    <2>2. /\ route = None /\ \A o \in Operators : ~Active(o)
          /\ \A r \in Runs : receipts[r] = <<>>
      BY <2>1 DEF Init, Active
    <2>3. \A r \in Runs : ~HasFailed(r)  BY <2>2 DEF HasFailed
    <2> QED  BY <2>2, <2>3 DEF LiveTunnel, Closing, NotDisabled, Disabling
  <1>2. OrderInv /\ OrderInv' /\ Contained /\ Rest /\ [Next]_vars => Rest'
    <2>1. SUFFICES ASSUME OrderInv, OrderInv', Contained, Rest, [Next]_vars PROVE Rest'
      OBVIOUS
    <2>2. CloseInv /\ TypeOK  BY <2>1 DEF CloseInv, OrderInv
    <2> QED  BY <2>1, <2>2, ClosingKept, LiveTunnelKept
  <1> HIDE DEF Rest
  <1>3. Spec => []Rest
    BY <1>1, <1>2, OrderAlways, ContainedAlways, PTL DEF Spec
  <1> QED  BY <1>3 DEF Rest

(* A run that has failed, and that nobody works on any more, is not left   *)
(* public, unless the window had closed or something else went wrong: the  *)
(* failure of any gate leads to the disabling of the route.                *)
THEOREM FailuresClose == Spec => []FailureClosesRoute
  <1>1. LiveTunnel /\ Closing /\ NotDisabled => FailureClosesRoute
    <2>1. SUFFICES ASSUME Closing, NEW r \in Runs, HasFailed(r),
                          \A o \in Operators : Active(o) => job[o].run # r
                   PROVE  route # r \/ clock = Over \/ incidents > 0
      BY DEF FailureClosesRoute, HasFailed
    <2> QED  BY <2>1 DEF Closing, Disabling, Excused
  <1> QED  BY <1>1, CloseAlways, PTL

----------------------------------------------------------------------------
(* A child has succeeded at entry e, or that has been recorded. *)
Succeeded(o, e) == Active(o) /\ job[o].phase = "ran" /\ job[o].ok /\ job[o].at = e

Recorded(e) ==
    \E r \in Runs : \E i \in DOMAIN receipts[r] :
        receipts[r][i].entry = e /\ receipts[r][i].pass

Reached(e) == Recorded(e) \/ \E o \in Operators : Succeeded(o, e)

(* Without an incident, once a publication has succeeded the route is      *)
(* public until a route-disable has succeeded.                             *)
StaysPublic ==
    incidents = 0 /\ Reached(Publication) => route # None \/ Reached(RouteDisable)

LEMMA BeginningsOnlyBegin ==
  ASSUME NEW o \in Operators, NEW r \in Runs, Execute(o, r) \/ Resume(o, r)
  PROVE  UNCHANGED <<clock, route, tunnel, receipts, checkpoint, evidence, incidents>>
  <1>1. CASE Execute(o, r)
    BY <1>1 DEF Execute, world, files
  <1>2. CASE Resume(o, r)
    <2>1. UNCHANGED <<clock, world, files, incidents>>
      BY <1>2, Zenon DEF Resume
    <2> QED  BY <2>1 DEF world, files
  <1> QED  BY <1>1, <1>2

(* The child has been recorded: the command goes on, turns to the          *)
(* containment or ends.                                                    *)
LEMMA RecordLeaves ==
  ASSUME TypeOK, Placed, NEW o \in Operators, Record(o)
  PROVE  /\ \A q \in Operators \ {o} : job'[q] = job[q]
         /\ job'[o].phase # "ran"
  <1>1. job[o].at \in Int /\ Entries \in Int
    BY RecordMoves, Jobs, Plan DEF Job
  <1>2. CASE job[o].ok
    <2>1. PICK e \in 1..RouteDisabled : Stands(job', o, "step", e)
      BY <1>2, RecordMoves
    <2> QED  BY <2>1 DEF Stands
  <1>3. CASE ~job[o].ok /\ job[o].at <= Entries
    <2>1. Stands(job', o, "step", RouteDisable)
      BY <1>3, RecordMoves
    <2> QED  BY <2>1 DEF Stands
  <1>4. CASE ~job[o].ok /\ job[o].at > Entries
    <2>1. Ended(job', o, "other")
      BY <1>4, RecordMoves
    <2> QED  BY <2>1 DEF Ended
  <1> QED  BY <1>1, <1>2, <1>3, <1>4

(* What a command does while its child has not succeeded yet, or without   *)
(* an incident after that.                                                 *)
LEMMA SuccessIsRecorded ==
  ASSUME TypeOK, Placed, [Next]_vars, incidents' = 0,
         NEW o \in Operators, NEW e, Succeeded(o, e)
  PROVE  Succeeded(o, e)' \/ Record(o)
  <1>1. incidents \in Nat  BY Plan DEF TypeOK
  <1>2. ~Incident  BY <1>1 DEF Incident
  <1>3. ASSUME NEW q \in Operators, NEW r \in Runs, Execute(q, r) \/ Resume(q, r)
        PROVE  job'[o] = job[o]
    <2>1. ~Active(q)  BY <1>3, ExecuteBegins, ResumeBegins
    <2>2. o # q  BY <2>1 DEF Succeeded
    <2> QED  BY <1>3, <2>2, ExecuteBegins, ResumeBegins
  <1>4. ASSUME NEW q \in Operators, Pause(q) \/ GateTooLate(q) \/ StepTooLate(q)
        PROVE  job'[o] = job[o]
    <2>1. job[q].phase = "step"  BY <1>4 DEF Pause, GateTooLate, StepTooLate, AtStep
    <2>2. o # q  BY <2>1 DEF Succeeded
    <2> QED
      BY <1>4, <2>2, PauseMoves, GateTooLateMoves, StepTooLateMoves DEF Stands, Ended
  <1>5. ASSUME NEW q \in Operators, Run(q)
        PROVE  job'[o] = job[o]
    <2>1. /\ Active(q) /\ job[q].phase = "step" /\ job[q].at \in Steps
          /\ \E ok \in BOOLEAN : job' = [job EXCEPT ![q].phase = "ran", ![q].ok = ok]
      BY <1>5 DEF Run, AtStep
    <2>2. o # q  BY <2>1 DEF Succeeded
    <2> QED  BY <2>1, <2>2, RunMoves DEF Stands
  <1>6. ASSUME NEW q \in Operators, Summarise(q) \/ Finalise(q)
        PROVE  job'[o] = job[o]
    <2>1. job[q].phase \in {"step", "final"}  BY <1>6 DEF Summarise, Finalise
    <2>2. o # q  BY <2>1 DEF Succeeded
    <2> QED  BY <1>6, <2>2, SummariseMoves, FinaliseMoves DEF Stands, Ended
  <1>7. ASSUME NEW q \in Operators, q # o, Record(q)
        PROVE  job'[o] = job[o]
    BY <1>7, RecordLeaves
  <1>8. ASSUME NEW q \in Operators, Throw(q) \/ Crash(q)
        PROVE  FALSE
    BY <1>2, <1>8 DEF Throw, Crash
  <1>9. (\E r \in Runs : Assemble(r)) \/ DisableByHand \/ Tick \/ UNCHANGED vars
            => job'[o] = job[o]
    BY DEF Assemble, DisableByHand, Tick, vars
  <1>10. job'[o] = job[o] => Succeeded(o, e)'  BY DEF Succeeded, Active
  <1> QED
    BY <1>3, <1>4, <1>5, <1>6, <1>7, <1>8, <1>9, <1>10 DEF Next, Proceed

(* A step leaves the receipts as they are, or adds one. *)
LEMMA ReceiptsMove ==
  ASSUME TypeOK, Placed, [Next]_vars
  PROVE  \/ receipts' = receipts
         \/ \E o \in Operators :
               /\ Active(o) /\ job[o].run \in Runs
               /\ \/ /\ Record(o) /\ job[o].phase = "ran"
                     /\ Appended(receipts', job[o].run, job[o].at, job[o].ok)
                  \/ /\ job[o].at \notin Steps
                     /\ Appended(receipts', job[o].run, job[o].at, TRUE)
  <1>1. ASSUME NEW o \in Operators, NEW r \in Runs, Execute(o, r) \/ Resume(o, r)
        PROVE  receipts' = receipts
    BY <1>1, BeginningsOnlyBegin
  <1>2. ASSUME NEW o \in Operators,
               \/ Pause(o) \/ GateTooLate(o) \/ StepTooLate(o) \/ Run(o)
               \/ Finalise(o) \/ Throw(o) \/ Crash(o)
        PROVE  receipts' = receipts
    BY <1>2 DEF Pause, GateTooLate, StepTooLate, Run, Finalise, Throw, Crash, files
  <1>3. (\E r \in Runs : Assemble(r)) \/ DisableByHand \/ Tick \/ UNCHANGED vars
            => receipts' = receipts
    BY DEF Assemble, DisableByHand, Tick, files, vars
  <1>4. ASSUME NEW o \in Operators, Record(o)
        PROVE  /\ Active(o) /\ job[o].run \in Runs /\ job[o].phase = "ran"
               /\ Appended(receipts', job[o].run, job[o].at, job[o].ok)
    BY <1>4, RecordMoves, Jobs DEF Job
  <1>5. ASSUME NEW o \in Operators, Summarise(o)
        PROVE  /\ Active(o) /\ job[o].run \in Runs /\ job[o].at \notin Steps
               /\ Appended(receipts', job[o].run, job[o].at, TRUE)
    BY <1>5, SummariseMoves, Jobs DEF Job
  <1> QED  BY <1>1, <1>2, <1>3, <1>4, <1>5 DEF Next, Proceed

(* What Appended says of the receipts, old and new. *)
LEMMA OneMoreReceipt ==
  ASSUME TypeOK, NEW r \in Runs, NEW e, NEW pass, Appended(receipts', r, e, pass)
  PROVE  /\ \A d : Recorded(d) => Recorded(d)'
         /\ \A d : Recorded(d)' => Recorded(d) \/ (d = e /\ pass)
         /\ pass => Recorded(e)'
  <1>1. /\ \A q \in Runs : receipts[q] \in Seq(Receipt) /\ receipts'[q] \in Seq(Receipt)
        /\ \A q \in Runs \ {r} : receipts'[q] = receipts[q]
    BY DEF TypeOK, Appended
  <1> DEFINE n == Len(receipts[r])
  <1>2. /\ n \in Nat /\ DOMAIN receipts[r] = 1..n /\ DOMAIN receipts'[r] = 1..(n + 1)
        /\ \A i \in 1..n : receipts'[r][i] = receipts[r][i]
        /\ receipts'[r][n + 1].entry = e /\ receipts'[r][n + 1].pass = pass
    BY <1>1 DEF Appended
  <1> HIDE DEF n
  <1>3. \A i \in 1..(n + 1) : i \in 1..n \/ i = n + 1
    BY <1>2
  <1>4. 1..n \subseteq 1..(n + 1) /\ n + 1 \in 1..(n + 1)
    BY <1>2
  <1>5. ASSUME NEW d, Recorded(d)
        PROVE  Recorded(d)'
    BY <1>1, <1>2, <1>4, <1>5 DEF Recorded
  <1>6. ASSUME NEW d, Recorded(d)'
        PROVE  Recorded(d) \/ (d = e /\ pass)
    <2>0. PICK q \in Runs : \E i \in DOMAIN receipts'[q] :
             receipts'[q][i].entry = d /\ receipts'[q][i].pass
      BY <1>6 DEF Recorded
    <2>1. PICK i \in DOMAIN receipts'[q] :
             receipts'[q][i].entry = d /\ receipts'[q][i].pass
      BY <2>0
    <2>2. CASE q # r
      BY <1>1, <2>1, <2>2 DEF Recorded
    <2>3. CASE q = r /\ i \in 1..n
      BY <1>2, <2>1, <2>3 DEF Recorded
    <2>4. CASE q = r /\ i = n + 1
      BY <1>2, <2>1, <2>4
    <2> QED  BY <1>2, <1>3, <2>1, <2>2, <2>3, <2>4
  <1>7. pass => Recorded(e)'
    BY <1>2, <1>4 DEF Recorded
  <1> QED  BY <1>5, <1>6, <1>7

LEMMA ReachedStays ==
  ASSUME TypeOK, Placed, [Next]_vars, incidents' = 0, NEW e, Reached(e)
  PROVE  Reached(e)'
  <1>1. CASE Recorded(e)
    <2>1. CASE receipts' = receipts
      BY <1>1, <2>1 DEF Recorded, Reached
    <2>2. CASE receipts' # receipts
      BY <1>1, <2>2, ReceiptsMove, OneMoreReceipt DEF Reached
    <2> QED  BY <2>1, <2>2
  <1>2. ASSUME NEW o \in Operators, Succeeded(o, e)
        PROVE  Reached(e)'
    <2>1. CASE Succeeded(o, e)'
      BY <2>1 DEF Reached
    <2>2. CASE Record(o)
      <3>1. Appended(receipts', job[o].run, e, TRUE) /\ job[o].run \in Runs
        BY <1>2, <2>2, RecordMoves, Jobs DEF Succeeded, Job
      <3> QED  BY <3>1, OneMoreReceipt DEF Reached
    <2> QED  BY <1>2, <2>1, <2>2, SuccessIsRecorded
  <1> QED  BY <1>1, <1>2 DEF Reached

(* A publication that succeeds leaves a route, its own or another's. *)
LEMMA PublicationOpens ==
  ASSUME TypeOK, Placed, [Next]_vars, Reached(Publication)'
  PROVE  Reached(Publication) \/ route' # None
  <1>1. ASSUME Recorded(Publication)', ~Recorded(Publication)
        PROVE  Reached(Publication)
    <2>1. receipts' # receipts  BY <1>1 DEF Recorded
    <2>2. PICK o \in Operators :
             /\ Active(o) /\ job[o].run \in Runs
             /\ \/ /\ Record(o) /\ job[o].phase = "ran"
                   /\ Appended(receipts', job[o].run, job[o].at, job[o].ok)
                \/ /\ job[o].at \notin Steps
                   /\ Appended(receipts', job[o].run, job[o].at, TRUE)
      BY <2>1, ReceiptsMove
    <2>3. Publication \in Steps  BY Plan
    <2>4. CASE /\ Record(o) /\ job[o].phase = "ran"
               /\ Appended(receipts', job[o].run, job[o].at, job[o].ok)
      <3>1. Publication = job[o].at /\ job[o].ok
        BY <1>1, <2>2, <2>4, OneMoreReceipt
      <3> QED  BY <2>2, <2>4, <3>1 DEF Succeeded, Reached
    <2>5. CASE /\ job[o].at \notin Steps
               /\ Appended(receipts', job[o].run, job[o].at, TRUE)
      <3>1. Publication = job[o].at
        BY <1>1, <2>2, <2>5, OneMoreReceipt
      <3> QED  BY <2>3, <2>5, <3>1
    <2> QED  BY <2>2, <2>4, <2>5
  <1>2. ASSUME NEW o \in Operators, Succeeded(o, Publication)', ~Succeeded(o, Publication)
        PROVE  route' # None
    <2>1. job'[o] # job[o]  BY <1>2 DEF Succeeded, Active
    <2>2. job'[o].phase = "ran" /\ job'[o].ok /\ job'[o].at = Publication
      BY <1>2 DEF Succeeded
    <2>3. ASSUME NEW q \in Operators, NEW r \in Runs, Execute(q, r) \/ Resume(q, r)
          PROVE  FALSE
      BY <2>1, <2>2, <2>3, ExecuteBegins, ResumeBegins
    <2>4. ASSUME NEW q \in Operators,
                 \/ Pause(q) \/ GateTooLate(q) \/ Record(q) \/ Summarise(q)
                 \/ Finalise(q) \/ Throw(q) \/ Crash(q)
          PROVE  FALSE
      <3>1. /\ \A other \in Operators \ {q} : job'[other] = job[other]
            /\ job'[q].phase # "ran"
        <4>1. CASE Record(q)
          BY <4>1, RecordLeaves
        <4>2. CASE Pause(q) \/ GateTooLate(q) \/ Summarise(q)
          BY <4>2, PauseMoves, GateTooLateMoves, SummariseMoves DEF Stands, Ended
        <4>3. CASE Finalise(q) \/ Throw(q) \/ Crash(q)
          BY <4>3, FinaliseMoves, ThrowMoves, CrashMoves DEF Stands, Ended
        <4> QED  BY <2>4, <4>1, <4>2, <4>3
      <3> QED  BY <2>1, <2>2, <3>1
    <2>5. ASSUME NEW q \in Operators, StepTooLate(q)
          PROVE  FALSE
      <3>1. /\ Active(q) /\ job[q].at \in Steps
            /\ job' = [job EXCEPT ![q].phase = "ran", ![q].ok = FALSE]
        BY <2>5 DEF StepTooLate, AtStep
      <3> QED  BY <2>1, <2>2, <3>1, RunMoves DEF Stands
    <2>6. ASSUME NEW q \in Operators, Run(q)
          PROVE  route' # None
      <3>1. PICK ok \in BOOLEAN :
               /\ Active(q) /\ job[q].at \in Steps /\ Script(q, ok)
               /\ job' = [job EXCEPT ![q].phase = "ran", ![q].ok = ok]
        BY <2>6 DEF Run, AtStep
      <3>2. Stands(job', q, "ran", job[q].at) /\ job'[q].ok = ok
        BY <3>1, RunMoves
      <3>3. o = q /\ ok /\ job[q].at = Publication
        BY <2>1, <2>2, <3>2 DEF Stands
      <3>4. job[q].run # None
        BY <3>1, Jobs, Plan DEF Job
      <3>5. Publish(job[q].run, ok)
        <4>1. Script(q, ok) /\ job[q].at = Publication  BY <3>1, <3>3
        <4>2. Publication # RouteDisable /\ Publication # OrphanRecovery  BY Plan
        <4> QED  BY ONLY <4>1, <4>2 DEF Script
      <3> QED  BY <3>3, <3>4, <3>5 DEF Publish
    <2>7. ~((\E r \in Runs : Assemble(r)) \/ DisableByHand \/ Tick \/ UNCHANGED vars)
      BY <2>1 DEF Assemble, DisableByHand, Tick, vars
    <2> QED  BY <2>3, <2>4, <2>5, <2>6, <2>7 DEF Next, Proceed
  <1> QED  BY <1>1, <1>2 DEF Reached

(* Without an incident only a route-disable that succeeds closes a route. *)
LEMMA DisableCloses ==
  ASSUME TypeOK, [Next]_vars, incidents' = 0, route # None, route' = None
  PROVE  Reached(RouteDisable)'
  <1>1. incidents \in Nat  BY Plan DEF TypeOK
  <1>2. ~Incident  BY <1>1 DEF Incident
  <1>3. ASSUME NEW o \in Operators, NEW r \in Runs, Execute(o, r) \/ Resume(o, r)
        PROVE  FALSE
    BY <1>3, BeginningsOnlyBegin
  <1>4. ASSUME NEW o \in Operators,
               \/ Pause(o) \/ GateTooLate(o) \/ StepTooLate(o) \/ Throw(o) \/ Crash(o)
               \/ Record(o) \/ Summarise(o) \/ Finalise(o)
        PROVE  FALSE
    BY <1>4 DEF Pause, GateTooLate, StepTooLate, Throw, Crash, Record, Summarise,
       Finalise, world
  <1>5. ~((\E r \in Runs : Assemble(r)) \/ DisableByHand \/ Tick \/ UNCHANGED vars)
    BY <1>2 DEF Assemble, DisableByHand, Tick, vars, world
  <1>6. ASSUME NEW o \in Operators, Run(o)
        PROVE  Reached(RouteDisable)'
    <2>1. PICK ok \in BOOLEAN :
             /\ Active(o) /\ job[o].at \in Steps /\ Script(o, ok)
             /\ job' = [job EXCEPT ![o].phase = "ran", ![o].ok = ok]
      BY <1>6 DEF Run, AtStep
    <2>2. ~Publish(job[o].run, ok) /\ ~Recover(ok) /\ ~Check(job[o].at, ok)
      <3>1. job[o].run # None  BY <2>1, Jobs, Plan DEF Job
      <3> QED  BY <3>1 DEF Publish, Recover, Check, world
    <2>3. job[o].at = RouteDisable /\ Disable(ok)
      BY <2>1, <2>2 DEF Script
    <2>4. ok
      BY <1>2, <2>3 DEF Disable
    <2>5. Stands(job', o, "ran", job[o].at) /\ job'[o].ok = ok
      BY <2>1, RunMoves
    <2>6. Succeeded(o, RouteDisable)'
      BY <2>3, <2>4, <2>5 DEF Succeeded, Active, Stands
    <2> QED  BY <2>6 DEF Reached
  <1> QED  BY <1>3, <1>4, <1>5, <1>6 DEF Next, Proceed

LEMMA StaysPublicAlways == Spec => []StaysPublic
  <1>1. Init => StaysPublic
    <2>1. SUFFICES ASSUME Init PROVE ~Reached(Publication)
      BY DEF StaysPublic
    <2>2. /\ \A o \in Operators : ~Active(o)
          /\ \A r \in Runs : DOMAIN receipts[r] = {}
      BY <2>1 DEF Init, Active
    <2> QED  BY <2>2 DEF Reached, Recorded, Succeeded
  <1>2. OrderInv /\ StaysPublic /\ [Next]_vars => StaysPublic'
    <2>1. SUFFICES ASSUME TypeOK, Placed, StaysPublic, [Next]_vars,
                          incidents' = 0, Reached(Publication)', route' = None
                   PROVE  Reached(RouteDisable)'
      BY DEF StaysPublic, OrderInv
    <2>2. incidents = 0
      BY <2>1, ExcusesStand, Plan DEF TypeOK
    <2>3. Reached(Publication)
      BY <2>1, PublicationOpens
    <2>4. CASE route # None
      BY <2>1, <2>4, DisableCloses
    <2>5. CASE Reached(RouteDisable)
      BY <2>1, <2>5, ReachedStays
    <2> QED  BY <2>1, <2>2, <2>3, <2>4, <2>5 DEF StaysPublic
  <1> QED  BY <1>1, <1>2, OrderAlways, PTL DEF Spec

(* The evidence is only written for a run whose receipts are conclusive. *)
LEMMA WhoGivesGo ==
  ASSUME TypeOK, [Next]_vars, evidence' # evidence
  PROVE  Conclusive(evidence')
  <1>1. ASSUME NEW o \in Operators, NEW r \in Runs, Execute(o, r) \/ Resume(o, r)
        PROVE  FALSE
    BY <1>1, BeginningsOnlyBegin
  <1>2. ASSUME NEW o \in Operators,
               \/ Pause(o) \/ GateTooLate(o) \/ StepTooLate(o) \/ Run(o) \/ Throw(o)
               \/ Crash(o) \/ Record(o) \/ Summarise(o)
        PROVE  FALSE
    BY <1>2 DEF Pause, GateTooLate, StepTooLate, Run, Throw, Crash, Record, Summarise, files
  <1>3. ASSUME NEW o \in Operators, Finalise(o)
        PROVE  Conclusive(evidence')
    BY <1>3, FinaliseMoves
  <1>4. ASSUME NEW r \in Runs, Assemble(r)
        PROVE  Conclusive(evidence')
    BY <1>4, AssembleMoves
  <1>5. ~(DisableByHand \/ Tick \/ UNCHANGED vars)
    BY DEF DisableByHand, Tick, files, vars
  <1> QED  BY <1>1, <1>2, <1>3, <1>4, <1>5 DEF Next, Proceed

(* When GO is given to a run that no incident and no containment has       *)
(* disturbed, the service is public at that moment: the publication has    *)
(* succeeded, as everything has, and nobody has disabled the route since.  *)
THEOREM GoIsPublic == Spec => GoMeansPublic
  <1> DEFINE Go == \A r \in Runs :
                      evidence # r /\ evidence' = r /\ Undisturbed(r) => route # None
  <1>1. OrderInv /\ StaysPublic /\ [Next]_vars => [Go]_vars
    <2>1. SUFFICES ASSUME OrderInv, TypeOK, StaysPublic, [Next]_vars, NEW r \in Runs,
                          evidence # r, evidence' = r, Undisturbed(r)
                   PROVE  route # None
      BY DEF OrderInv
    <2>2. Conclusive(r)
      BY <2>1, WhoGivesGo
    <2>3. Passed(r, Entries) /\ receipts[r] \in Seq(Receipt)
      BY <2>1, <2>2 DEF Conclusive, TypeOK
    <2>4. DOMAIN receipts[r] = 1..Entries
          /\ \A i \in 1..Entries : receipts[r][i].entry = i /\ receipts[r][i].pass
      BY <2>3 DEF Passed
    <2>5. Recorded(Publication)
      <3>1. Publication \in 1..Entries  BY Plan
      <3> QED  BY <2>4, <3>1 DEF Recorded
    <2>6. ~Recorded(RouteDisable)
      <3>1. RouteDisable \notin 1..Entries  BY Plan
      <3>2. \A i \in DOMAIN receipts[r] : receipts[r][i].entry # RouteDisable
        BY <2>4, <3>1
      <3>3. \A q \in Runs \ {r} : \A i \in DOMAIN receipts[q] :
               receipts[q][i].entry # RouteDisable
        BY <2>1 DEF Undisturbed
      <3> QED  BY <3>2, <3>3 DEF Recorded
    <2>7. \A o \in Operators : ~Succeeded(o, RouteDisable)
      BY <2>1, Plan DEF Succeeded, Undisturbed
    <2> QED  BY <2>1, <2>5, <2>6, <2>7 DEF StaysPublic, Reached, Undisturbed
  <1>2. Spec => [][Go]_vars
    BY <1>1, OrderAlways, StaysPublicAlways, PTL DEF Spec
  <1> QED  BY <1>2 DEF GoMeansPublic
=============================================================================
