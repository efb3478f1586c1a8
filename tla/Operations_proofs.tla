--------------------------- MODULE Operations_proofs ---------------------------
(***************************************************************************)
(* What the commands around the program keep, for any releases, hosts,     *)
(* files, actors, lists and bounds.  The nine parts share nothing but the  *)
(* clock and the count of mishaps: each has an inductive invariant of its  *)
(* own, and a step of one part leaves the others as they are.              *)
(***************************************************************************)
EXTENDS Operations, SequenceTheorems, FiniteSetTheorems, TLAPS

(* A sequence with one of its elements removed has the others. *)
LEMMA RemoveAtProperties ==
    ASSUME NEW S, NEW s \in Seq(S), NEW i \in DOMAIN s
    PROVE  RemoveAt(s, i) \in Seq(S) /\ ToSet(RemoveAt(s, i)) \subseteq ToSet(s)
           /\ \A x \in ToSet(s) : x = s[i] \/ x \in ToSet(RemoveAt(s, i))
<1>1. Len(s) \in Nat /\ DOMAIN s = 1..Len(s) /\ \A j \in DOMAIN s : s[j] \in S
  BY LenProperties, ElementOfSeq
<1> DEFINE a == SubSeq(s, 1, i - 1)
           b == SubSeq(s, i + 1, Len(s))
<1>2. /\ a \in Seq(S) /\ Len(a) = i - 1 /\ DOMAIN a = 1..(i - 1)
      /\ \A j \in 1..(i - 1) : a[j] = s[j]
  <2>1. \A j \in 1..(i - 1) : s[j] \in S
    BY <1>1
  <2> QED BY <1>1, <2>1, SubSeqProperties, LenProperties
<1>3. /\ b \in Seq(S) /\ Len(b) = Len(s) - i /\ DOMAIN b = 1..(Len(s) - i)
      /\ \A j \in 1..(Len(s) - i) : b[j] = s[j + i]
  <2>1. \A j \in (i + 1)..Len(s) : s[j] \in S
    BY <1>1
  <2> QED BY <1>1, <2>1, SubSeqProperties, LenProperties
<1>4. RemoveAt(s, i) = a \o b
  BY DEF RemoveAt
<1> HIDE DEF a, b
<1>5. /\ a \o b \in Seq(S) /\ Len(a \o b) = Len(a) + Len(b)
      /\ \A j \in 1..(Len(a) + Len(b)) :
            (a \o b)[j] = IF j <= Len(a) THEN a[j] ELSE b[j - Len(a)]
  BY <1>2, <1>3, ConcatProperties
<1> DEFINE c == a \o b
<1>0. Len(a) + Len(b) = Len(s) - 1
  BY <1>1, <1>2, <1>3
<1>6. c \in Seq(S) /\ DOMAIN c = 1..(Len(s) - 1)
  BY <1>0, <1>5, LenProperties
<1>7. ASSUME NEW j \in DOMAIN c
      PROVE  \E k \in DOMAIN s : c[j] = s[k]
  <2>1. j \in 1..(Len(s) - 1) /\ j \in 1..(Len(a) + Len(b))
    BY <1>0, <1>6
  <2>2. CASE j <= Len(a)
    <3>1. j \in 1..(i - 1) /\ j \in DOMAIN s /\ c[j] = a[j]
      BY <1>1, <1>2, <1>5, <2>1, <2>2
    <3> QED BY <1>2, <3>1
  <2>3. CASE ~(j <= Len(a))
    <3>1. /\ j - (i - 1) \in 1..(Len(s) - i) /\ j + 1 \in DOMAIN s
          /\ c[j] = b[j - (i - 1)] /\ (j - (i - 1)) + i = j + 1
      BY <1>1, <1>2, <1>5, <2>1, <2>3
    <3>2. b[j - (i - 1)] = s[(j - (i - 1)) + i]
      BY <1>3, <3>1
    <3> QED BY <3>1, <3>2
  <2> QED BY <2>2, <2>3
<1>8. RemoveAt(s, i) = c
  BY <1>4
<1>9. ASSUME NEW k \in DOMAIN s, k # i
      PROVE  \E j \in DOMAIN c : c[j] = s[k]
  <2>1. CASE k < i
    <3>1. k \in 1..(i - 1) /\ k \in DOMAIN c /\ c[k] = a[k]
      <4>1. /\ k \in 1..(i - 1) /\ k <= Len(a) /\ k \in 1..(Len(a) + Len(b))
            /\ k \in 1..(Len(s) - 1)
        BY <1>0, <1>1, <1>2, <2>1
      <4> QED BY <1>5, <1>6, <4>1
    <3> QED BY <1>2, <3>1
  <2>2. CASE ~(k < i)
    <3>1. /\ k - 1 \in DOMAIN c /\ k - i \in 1..(Len(s) - i) /\ (k - i) + i = k
          /\ c[k - 1] = b[k - i]
      <4>1. /\ k - 1 \in DOMAIN c /\ k - i \in 1..(Len(s) - i) /\ (k - i) + i = k
            /\ ~(k - 1 <= Len(a)) /\ (k - 1) - Len(a) = k - i
            /\ k - 1 \in 1..(Len(a) + Len(b))
        <5>1. k \in 1..Len(s) /\ i \in 1..Len(s) /\ Len(s) \in Nat /\ k > i /\ Len(a) = i - 1
          BY <1>1, <1>2, <1>9, <2>2
        <5>2. k - 1 \in 1..(Len(s) - 1) /\ k - i \in 1..(Len(s) - i) /\ (k - i) + i = k
          BY <5>1
        <5>3. ~(k - 1 <= Len(a)) /\ (k - 1) - Len(a) = k - i
          BY <5>1
        <5> QED BY <1>0, <1>6, <5>2, <5>3
      <4> QED BY <1>5, <4>1
    <3>2. b[k - i] = s[(k - i) + i]
      BY <1>3, <3>1
    <3> QED BY <3>1, <3>2
  <2> QED BY <2>1, <2>2
<1> HIDE DEF c
<1>10. ToSet(c) \subseteq ToSet(s)
  BY <1>7 DEF ToSet
<1>11. \A x \in ToSet(s) : x = s[i] \/ x \in ToSet(c)
  BY <1>9 DEF ToSet
<1> QED BY <1>6, <1>8, <1>10, <1>11

(***************************************************************************)
(* The start of a server: the schema and the history, and what a server    *)
(* has found or applied before the migration it comes to.                  *)
(***************************************************************************)

(* The history has the migrations of the schema, no version twice. *)
HistoryIsTrue ==
    /\ schema \in Seq(history)
    /\ \A row \in history : \E i \in DOMAIN schema : schema[i] = row
    /\ AppliedOnce

(* A server that migrates has the migrations up to the one it comes to, a  *)
(* server that serves has them all.                                        *)
Caught(s) ==
    LET mine == Releases[server[s].release] IN
    /\ server[s].at = "asking" => server[s].next = 1
    /\ server[s].at \in {"reading", "applying"} =>
        \A i \in DOMAIN mine :
            i < server[s].next => Row(server[s].release, mine[i]) \in history
    /\ server[s].at = "serving" =>
        \A i \in DOMAIN mine : Row(server[s].release, mine[i]) \in history

ServerState ==
    [release : DOMAIN Releases, migrates : BOOLEAN,
     at : {"down", "asking", "reading", "applying", "verifying", "serving"}, next : Nat]

StartupInv ==
    /\ server \in [Servers -> ServerState]
    /\ HistoryIsTrue
    /\ \A s \in Servers : Caught(s)

(* A migration that is not in the history is added to both. *)
LEMMA Recording ==
    ASSUME HistoryIsTrue, NEW row, \A r \in history : r.version # row.version,
           schema' = Append(schema, row), history' = history \cup {row}
    PROVE  HistoryIsTrue'
<1>1. schema \in Seq(history') /\ row \in history'
  BY SeqMonotonic DEF HistoryIsTrue
<1>2. /\ schema' \in Seq(history')
      /\ Len(schema) \in Nat /\ Len(schema') = Len(schema) + 1
      /\ DOMAIN schema = 1..Len(schema) /\ DOMAIN schema' = 1..Len(schema')
      /\ \A i \in DOMAIN schema : schema'[i] = schema[i] /\ schema[i] \in history
      /\ schema'[Len(schema) + 1] = row
  BY <1>1, AppendProperties, LenProperties, ElementOfSeq DEF HistoryIsTrue
<1>3. \A r \in history' : \E i \in DOMAIN schema' : schema'[i] = r
  <2>1. \A i \in DOMAIN schema : i \in DOMAIN schema'
    BY <1>2
  <2>2. Len(schema) + 1 \in DOMAIN schema'
    BY <1>2
  <2> QED BY <1>2, <2>1, <2>2 DEF HistoryIsTrue
<1>4. AppliedOnce'
  BY <1>2 DEF HistoryIsTrue, AppliedOnce
<1> QED BY <1>2, <1>3, <1>4 DEF HistoryIsTrue

LEMMA ServersKept ==
    ASSUME StartupInv, StartupNext
    PROVE  server' \in [Servers -> ServerState]
<1> PICK s \in Servers :
        \/ StartServer(s) \/ TakeLock(s) \/ LockTimesOut(s)
        \/ ReadHistory(s) \/ Apply(s) \/ Unlock(s)
        \/ Verify(s) \/ KillServer(s) \/ StopServer(s)
  BY DEF StartupNext
<1>1. server \in [Servers -> ServerState] /\ server[s] \in ServerState
  BY DEF StartupInv
<1>2. CASE StartServer(s)
  BY <1>1, <1>2 DEF StartServer, ServerState
<1>3. CASE NextFile(s)
  <2>1. /\ server'[s] = [release |-> server[s].release, migrates |-> server[s].migrates,
                         at |-> "reading", next |-> server[s].next + 1]
        /\ server' = [server EXCEPT ![s] = server'[s]]
    BY <1>1, <1>3 DEF NextFile, ServerState
  <2>2. [release |-> server[s].release, migrates |-> server[s].migrates,
         at |-> "reading", next |-> server[s].next + 1] \in ServerState
    BY <1>1 DEF ServerState
  <2> QED BY <1>1, <2>1, <2>2
<1>4. CASE \E at \in {"down", "reading", "applying", "serving"} : Place(s, at)
  BY <1>1, <1>4 DEF Place, ServerState
<1> QED
  BY <1>2, <1>3, <1>4 DEF TakeLock, LockTimesOut, ReadHistory, Apply, Unlock, Verify,
                          KillServer, StopServer, GiveUp

LEMMA HistoryKept ==
    ASSUME StartupInv, StartupNext
    PROVE  HistoryIsTrue' /\ history \subseteq history'
<1> PICK s \in Servers :
        \/ StartServer(s) \/ TakeLock(s) \/ LockTimesOut(s)
        \/ ReadHistory(s) \/ Apply(s) \/ Unlock(s)
        \/ Verify(s) \/ KillServer(s) \/ StopServer(s)
  BY DEF StartupNext
<1>1. CASE UNCHANGED <<schema, history>>
  BY <1>1 DEF StartupInv, HistoryIsTrue, AppliedOnce
<1>2. CASE /\ Recorded(s) = {}
           /\ schema' = Append(schema, Due(s)) /\ history' = history \cup {Due(s)}
  BY <1>2, Recording DEF StartupInv, Recorded
<1> QED
  BY <1>1, <1>2 DEF StartServer, TakeLock, LockTimesOut, ReadHistory, Apply, Unlock,
                    Verify, KillServer, StopServer, recorded

LEMMA CaughtKept ==
    ASSUME StartupInv, StartupNext, NEW t \in Servers
    PROVE  Caught(t)'
<1> PICK s \in Servers :
        \/ StartServer(s) \/ TakeLock(s) \/ LockTimesOut(s)
        \/ ReadHistory(s) \/ Apply(s) \/ Unlock(s)
        \/ Verify(s) \/ KillServer(s) \/ StopServer(s)
  BY DEF StartupNext
<1>1. /\ server \in [Servers -> ServerState]
      /\ server[s] \in ServerState /\ server[t] \in ServerState
      /\ Caught(s) /\ Caught(t) /\ history \subseteq history'
  BY HistoryKept DEF StartupInv
<1>2. CASE server'[t] = server[t]
  BY <1>1, <1>2 DEF Caught
<1>4. CASE /\ server[s].at \in {"reading", "applying"} /\ Due(s) \in history'
           /\ NextFile(s) /\ s = t
  <2>1. /\ server'[t].release = server[t].release /\ server'[t].at = "reading"
        /\ server'[t].next = server[t].next + 1
    BY <1>1, <1>4 DEF NextFile, ServerState
  <2>2. ASSUME NEW i \in DOMAIN Mine(t), i < server[t].next + 1
        PROVE  Row(server[t].release, Mine(t)[i]) \in history'
    <3>1. i \in Nat
      BY <1>1, StartupAssumption, LenProperties DEF Mine, ServerState
    <3>2. i = server[t].next \/ i < server[t].next
      BY <1>1, <2>2, <3>1 DEF ServerState
    <3> QED BY <1>1, <1>4, <3>2 DEF Caught, Due, Mine
  <2> QED BY <2>1, <2>2 DEF Caught, Mine
<1>5. CASE /\ server[s].at = "reading" /\ Place(s, "applying") /\ s = t
  <2>1. /\ server'[t].release = server[t].release /\ server'[t].at = "applying"
        /\ server'[t].next = server[t].next
    BY <1>1, <1>5 DEF Place, ServerState
  <2> QED BY <1>1, <1>5, <2>1 DEF Caught
<1>6. CASE /\ TakeLock(s) \/ StartServer(s)
           /\ s = t
  <2>1. CASE StartServer(s)
    BY <1>1, <1>6, <2>1 DEF StartServer, ServerState, Caught
  <2>2. CASE TakeLock(s)
    <3>1. /\ server'[t].release = server[t].release /\ server'[t].at = "reading"
          /\ server'[t].next = 1
      BY <1>1, <1>6, <2>2 DEF TakeLock, Place, ServerState, Caught
    <3>2. \A i \in DOMAIN Mine(t) : ~(i < 1)
      BY <1>1, StartupAssumption, LenProperties DEF Mine, ServerState
    <3> QED BY <3>1, <3>2 DEF Caught, Mine
  <2> QED BY <1>6, <2>1, <2>2
<1>7. CASE Unlock(s) /\ s = t
  <2>1. /\ server'[t].release = server[t].release /\ server'[t].at = "serving"
    BY <1>1, <1>7 DEF Unlock, Place, ServerState
  <2>2. \A i \in DOMAIN Mine(t) : i < server[t].next
    BY <1>1, <1>7, StartupAssumption, LenProperties DEF Unlock, Mine, ServerState
  <2> QED BY <1>1, <1>7, <2>1, <2>2 DEF Unlock, Caught, Mine
<1>8. CASE Verify(s) /\ s = t
  <2>1. /\ server'[t].release = server[t].release /\ history' = history
        /\ \/ server'[t].at = "down"
           \/ /\ server'[t].at = "serving"
              /\ \A file \in Migrations(server[t].release) :
                    Row(server[t].release, file) \in history
    BY <1>1, <1>8 DEF Verify, Place, ServerState, recorded
  <2>2. \A i \in DOMAIN Mine(t) : Mine(t)[i] \in Migrations(server[t].release)
    BY DEF Mine, Migrations
  <2> QED BY <2>1, <2>2 DEF Caught, Mine
<1>9. CASE Place(s, "down") /\ s = t
  BY <1>1, <1>9 DEF Place, Caught, ServerState
<1>10. s # t => server'[t] = server[t]
  BY <1>1 DEF StartServer, TakeLock, LockTimesOut, ReadHistory, Apply, Unlock, Verify,
              KillServer, StopServer, GiveUp, Place, NextFile
<1> QED
  BY <1>2, <1>4, <1>5, <1>6, <1>7, <1>8, <1>9, <1>10
     DEF LockTimesOut, ReadHistory, Arrived, Apply, KillServer, StopServer, GiveUp, Due

LEMMA StartupStep ==
    ASSUME StartupInv, StartupNext \/ UNCHANGED startupVars
    PROVE  StartupInv'
<1>1. CASE StartupNext
  BY <1>1, ServersKept, HistoryKept, CaughtKept DEF StartupInv
<1>2. CASE UNCHANGED startupVars
  BY <1>2 DEF startupVars, StartupInv, HistoryIsTrue, AppliedOnce, Caught
<1> QED BY <1>1, <1>2

LEMMA StartupStart == StartupInit => StartupInv
<1> SUFFICES ASSUME StartupInit
             PROVE  StartupInv
  OBVIOUS
<1>1. (CHOOSE rel \in DOMAIN Releases : TRUE) \in DOMAIN Releases
  BY StartupAssumption
<1>2. server \in [Servers -> ServerState] /\ \A s \in Servers : server[s].at = "down"
  BY <1>1 DEF StartupInit, ServerState
<1>3. HistoryIsTrue
  BY DEF StartupInit, HistoryIsTrue, AppliedOnce
<1> QED BY <1>2, <1>3 DEF StartupInv, Caught

LEMMA StartupSafe == StartupInv => AppliedOnce /\ ServesItsSchema
<1> SUFFICES ASSUME StartupInv
             PROVE  AppliedOnce /\ ServesItsSchema
  OBVIOUS
<1>1. ASSUME NEW s \in Servers, server[s].at = "serving",
             NEW file \in Migrations(server[s].release)
      PROVE  \E i \in DOMAIN schema : schema[i] = Row(server[s].release, file)
  <2>1. PICK j \in DOMAIN Releases[server[s].release] :
            file = Releases[server[s].release][j]
    BY DEF Migrations
  <2> QED BY <1>1, <2>1 DEF StartupInv, HistoryIsTrue, Caught
<1> QED BY <1>1 DEF StartupInv, HistoryIsTrue, ServesItsSchema

(***************************************************************************)
(* The rules of the inventory: the lease of the hosts that run them, and   *)
(* what a row of a run says.                                               *)
(***************************************************************************)

Works(h) == job[h] # Resting

(* The lease is of the last run that began, and is as long as the lease of *)
(* any run that goes on.                                                   *)
Leased ==
    /\ workerLease \in Int \/ workerLease = None
    /\ \A h \in Hosts : Works(h) =>
        workerLease \in Int /\ job[h].began + Lease <= workerLease

(* The things a run has written notices of. *)
NoticedBy(written, run) ==
    {n.thing : n \in {m \in written : m.rule = run.rule /\ m.day >= BeganOn(run)}}

(* A rule that is being worked on has its row, which is of it and of this  *)
(* host; of what it matched, what is left has still to be written.         *)
InHand(h) ==
    job[h].at \in {"query", "notify", "failing"} =>
        /\ job[h].row \in DOMAIN ruleRuns
        /\ ruleRuns[job[h].row].started <= time
        /\ ruleRuns[job[h].row].rule = RuleOf(h) /\ ruleRuns[job[h].row].by = h
        /\ job[h].at = "failing" => mishaps > 0
        /\ job[h].at = "notify" =>
            Cardinality(job[h].left \cup NoticedBy(notices, ruleRuns[job[h].row]))
                >= job[h].matched

AutomationInv ==
    /\ AutomationTypeOK /\ Leased /\ OneHost
    /\ \A h \in Hosts : InHand(h)
    /\ RunsTellTheTruth
----------------------------------------------------------------------------
LEMMA LaterDay ==
    ASSUME NEW s \in Int, NEW t \in Int, s <= t
    PROVE  DayOf(s) <= DayOf(t) /\ DayOf(s) \in Int
<1>1. Midnight \in Nat \ {0}
  BY AutomationAssumption
<1> QED BY <1>1 DEF DayOf

LEMMA NoticedGrow ==
    ASSUME AutomationTypeOK, NEW more, notices \subseteq more, NEW run,
           more \subseteq [rule : STRING, thing : Things, day : Int]
    PROVE  /\ NoticedBy(notices, run) \subseteq NoticedBy(more, run)
           /\ NoticedBy(more, run) \subseteq Things /\ IsFiniteSet(NoticedBy(more, run))
           /\ Cardinality(NoticedBy(notices, run)) <= Cardinality(NoticedBy(more, run))
           /\ Cardinality(NoticedBy(notices, run)) \in Nat
           /\ Cardinality(NoticedBy(more, run)) \in Nat
<1>1. /\ NoticedBy(notices, run) \subseteq NoticedBy(more, run)
      /\ NoticedBy(more, run) \subseteq Things
  BY DEF NoticedBy
<1> QED BY <1>1, FS_Subset, FS_CardinalityType, AutomationAssumption

(* The record of a host that works is that of a run. *)
LEMMA WorkingJob ==
    ASSUME AutomationTypeOK, NEW h \in Hosts
    PROVE  /\ Works(h) => job[h] \in Jobs
           /\ Works(h) <=> job[h].at # "rest"
           /\ job[h].at \in {"rest", "next", "query", "notify", "failing"}
           /\ Works(h) => /\ job[h].began \in Int /\ job[h].rule \in Nat \ {0}
                          /\ job[h].row \in Nat /\ job[h].matched \in Nat
                          /\ job[h].left \subseteq Things
<1>1. job[h] \in Jobs \/ job[h] = Resting
  BY DEF AutomationTypeOK
<1> QED BY <1>1 DEF Works, Resting, Jobs

(* What a step of host h does to the jobs. *)
HostStep(h) ==
    \/ AcquireLease(h) \/ BeginRule(h) \/ Match(h)
    \/ (\E thing \in Things : Notify(h, thing))
    \/ Succeed(h) \/ Fail(h) \/ EndRun(h) \/ KillRun(h)

LEMMA OthersKeepTheirJobs ==
    ASSUME AutomationTypeOK, NEW h \in Hosts, HostStep(h), NEW g \in Hosts, g # h
    PROVE  job'[g] = job[g]
<1>1. job \in [Hosts -> Jobs \cup {Resting}]
  BY DEF AutomationTypeOK
<1>2. CASE AcquireLease(h) \/ BeginRule(h) \/ EndRun(h) \/ KillRun(h)
  BY <1>1, <1>2 DEF AcquireLease, BeginRule, EndRun, KillRun, Rest
<1>3. CASE Match(h)
  BY <1>1, <1>3 DEF Match, GoOn
<1>4. CASE (\E thing \in Things : Notify(h, thing)) \/ Succeed(h) \/ Fail(h)
  BY <1>1, <1>4 DEF Notify, Succeed, Fail, GoOn, NextRule, Rest
<1> QED BY <1>2, <1>3, <1>4 DEF HostStep

LEMMA WorldOfRules ==
    ASSUME NEW h \in Hosts, HostStep(h)
    PROVE  time' = time /\ (mishaps' = mishaps \/ mishaps' = mishaps + 1)
<1>1. CASE AcquireLease(h) \/ BeginRule(h) \/ Match(h) \/ EndRun(h) \/ KillRun(h)
  BY <1>1 DEF AcquireLease, BeginRule, Match, EndRun, KillRun, Mishap
<1>2. CASE (\E thing \in Things : Notify(h, thing)) \/ Succeed(h) \/ Fail(h)
  BY <1>2 DEF Notify, Succeed, Fail, Mishap
<1> QED BY <1>1, <1>2 DEF HostStep

----------------------------------------------------------------------------
(* The job of the host that acts. *)
LEMMA JobKept ==
    ASSUME AutomationTypeOK, time \in Nat, NEW h \in Hosts, HostStep(h)
    PROVE  job' \in [Hosts -> Jobs \cup {Resting}]
<1>1. SUFFICES job' = [job EXCEPT ![h] = job'[h]] /\ job'[h] \in Jobs \cup {Resting}
  BY DEF AutomationTypeOK
<1>2. job \in [Hosts -> Jobs \cup {Resting}]
  BY DEF AutomationTypeOK
<1>3. job' = [job EXCEPT ![h] = job'[h]]
  BY <1>2 DEF HostStep, AcquireLease, BeginRule, Match, Notify, Succeed, Fail, EndRun,
              KillRun, GoOn, NextRule, Rest
<1>4. CASE AcquireLease(h)
  <2>1. Now(h) \in Int
    BY AutomationAssumption DEF Now
  <2>2. [at |-> "next", began |-> Now(h), rule |-> 1, row |-> 0, left |-> {},
         matched |-> 0]
            \in Jobs
    BY <2>1 DEF Jobs
  <2> QED BY <1>2, <1>3, <1>4, <2>2 DEF AcquireLease
<1>5. CASE BeginRule(h)
  <2>1. job[h] \in Jobs /\ Len(ruleRuns) \in Nat
    BY <1>5, WorkingJob, LenProperties DEF BeginRule, AutomationTypeOK
  <2>2. CASE Rest(h)
    BY <1>2, <2>2 DEF Rest
  <2>3. CASE job' = [job EXCEPT ![h].at = "query", ![h].row = Len(ruleRuns) + 1]
    <3> DEFINE n == Len(ruleRuns) + 1
    <3>1. n \in Nat
      BY <2>1
    <3>2. job' = [job EXCEPT ![h].at = "query", ![h].row = n]
      BY <2>3
    <3> HIDE DEF n
    <3>3. job'[h] = [at |-> "query", began |-> job[h].began, rule |-> job[h].rule,
                     row |-> n, left |-> job[h].left, matched |-> job[h].matched]
      BY <1>2, <2>1, <3>2 DEF Jobs
    <3>4. job'[h] \in Jobs
      BY ONLY <2>1, <3>1, <3>3 DEF Jobs
    <3> QED BY <1>3, <3>4
  <2> QED BY <1>5, <2>2, <2>3 DEF BeginRule
<1>6. CASE Match(h)
  <2>1. job[h] \in Jobs
    BY <1>6, WorkingJob DEF Match
  <2>2. ASSUME NEW found \in SUBSET Things
        PROVE  Cardinality(found) \in Nat
    BY FS_Subset, FS_CardinalityType, AutomationAssumption
  <2>3. CASE GoOn(h, "failing")
    BY <1>2, <2>1, <2>3 DEF GoOn, Jobs
  <2>4. CASE \E found \in SUBSET Things :
                job' = [job EXCEPT ![h].at = "notify", ![h].left = found,
                                   ![h].matched = Cardinality(found)]
    <3> PICK found \in SUBSET Things :
                job' = [job EXCEPT ![h].at = "notify", ![h].left = found,
                                   ![h].matched = Cardinality(found)]
      BY <2>4
    <3> DEFINE n == Cardinality(found)
    <3>1. n \in Nat
      BY <2>2
    <3>2. job' = [job EXCEPT ![h].at = "notify", ![h].left = found, ![h].matched = n]
      OBVIOUS
    <3> HIDE DEF n
    <3>3. job'[h] = [at |-> "notify", began |-> job[h].began, rule |-> job[h].rule,
                     row |-> job[h].row, left |-> found, matched |-> n]
      BY <1>2, <2>1, <3>2 DEF Jobs
    <3>4. [at |-> "notify", began |-> job[h].began, rule |-> job[h].rule,
           row |-> job[h].row, left |-> found, matched |-> n] \in Jobs
      BY ONLY found \in SUBSET Things, <2>1, <3>1 DEF Jobs
    <3>5. job'[h] \in Jobs
      BY ONLY <3>3, <3>4
    <3> QED BY <1>3, <3>5
  <2> QED BY <1>6, <2>3, <2>4 DEF Match
<1>7. CASE \E thing \in Things : Notify(h, thing)
  <2>1. job[h] \in Jobs
    BY <1>7, WorkingJob DEF Notify
  <2> QED BY <1>2, <1>7, <2>1 DEF Notify, GoOn, Jobs
<1>8. CASE Succeed(h) \/ Fail(h)
  <2>1. job[h] \in Jobs
    BY <1>8, WorkingJob DEF Succeed, Fail
  <2> QED BY <1>2, <1>8, <2>1 DEF Succeed, Fail, GoOn, NextRule, Rest, Jobs
<1>9. CASE EndRun(h) \/ KillRun(h)
  BY <1>2, <1>3, <1>9 DEF EndRun, KillRun, Rest
<1> QED BY <1>3, <1>4, <1>5, <1>6, <1>7, <1>8, <1>9 DEF HostStep

(* A run that goes on is the one it was, unless it has taken the lease.    *)
LEMMA SameRun ==
    ASSUME AutomationTypeOK, NEW h \in Hosts, HostStep(h), ~AcquireLease(h),
           NEW g \in Hosts, Works(g)'
    PROVE  Works(g) /\ job'[g].began = job[g].began
<1>1. CASE g # h
  BY <1>1, OthersKeepTheirJobs DEF Works
<1>2. CASE g = h
  <2>1. job \in [Hosts -> Jobs \cup {Resting}]
    BY DEF AutomationTypeOK
  <2>2. job[h] # Resting
    BY WorkingJob DEF HostStep, BeginRule, Match, Notify, Succeed, Fail, EndRun,
         KillRun,
                      Works, Resting
  <2>3. job[h] \in Jobs
    BY <2>1, <2>2
  <2>4. job'[h] # Resting
    BY <1>2 DEF Works
  <2> SUFFICES job'[h].began = job[h].began
    BY <1>2, <2>2 DEF Works
  <2>5. CASE BeginRule(h) \/ EndRun(h) \/ KillRun(h)
    BY <2>1, <2>3, <2>4, <2>5 DEF BeginRule, EndRun, KillRun, Rest, Jobs
  <2>6. CASE Match(h)
    <3>1. CASE GoOn(h, "failing")
      BY <2>1, <2>3, <3>1 DEF GoOn, Jobs
    <3>2. ASSUME NEW found,
                 job' = [job EXCEPT ![h].at = "notify", ![h].left = found,
                                    ![h].matched = Cardinality(found)]
          PROVE  job'[h].began = job[h].began
      BY <2>1, <2>3, <3>2 DEF Jobs
    <3> QED BY <2>6, <3>1, <3>2 DEF Match
  <2>7. CASE (\E thing \in Things : Notify(h, thing)) \/ Succeed(h) \/ Fail(h)
    BY <2>1, <2>3, <2>4, <2>7 DEF Notify, Succeed, Fail, GoOn, NextRule, Rest, Jobs
  <2> QED BY <2>5, <2>6, <2>7 DEF HostStep
<1> QED BY <1>1, <1>2

LEMMA LeaseKept ==
    ASSUME AutomationInv, time \in Nat, NEW h \in Hosts, HostStep(h)
    PROVE  Leased' /\ OneHost'
<1>1. AutomationTypeOK
  BY DEF AutomationInv
<1>2. CASE AcquireLease(h)
  <2>1. Now(h) \in Int /\ Lease \in Nat /\ workerLease' = Now(h) + Lease
    BY <1>2, AutomationAssumption DEF AcquireLease, Now
  <2>2. ASSUME NEW g \in Hosts, g # h, Works(g)'
        PROVE  /\ Works(g) /\ job'[g].began = job[g].began /\ job[g].began \in Int
               /\ job[g].began + Lease < Now(h)
    <3>1. Works(g) /\ job'[g] = job[g] /\ job[g].began \in Int
      BY <1>1, <2>2, OthersKeepTheirJobs, WorkingJob DEF Works
    <3>2. workerLease \in Int /\ job[g].began + Lease <= workerLease
      BY <3>1 DEF AutomationInv, Leased
    <3>3. workerLease < Now(h)
      BY <1>2, <3>2, DrillWorldAssumption DEF AcquireLease
    <3> QED BY <2>1, <3>1, <3>2, <3>3
  <2>3. Works(h)' => job'[h].began = Now(h)
    BY <1>1, <1>2 DEF AcquireLease, Works, AutomationTypeOK
  <2>4. Leased'
    <3> SUFFICES ASSUME NEW g \in Hosts, Works(g)'
                 PROVE  workerLease' \in Int /\ job'[g].began + Lease <= workerLease'
      BY <2>1 DEF Leased
    <3>1. CASE g = h
      BY <2>1, <2>3, <3>1
    <3>2. CASE g # h
      BY <2>1, <2>2, <3>2
    <3> QED BY <3>1, <3>2
  <2>5. OneHost'
    <3> SUFFICES ASSUME NEW f \in Hosts, NEW g \in Hosts, f # g, Works(f)', Works(g)'
                 PROVE  \/ job'[f].began + Lease < job'[g].began
                        \/ job'[g].began + Lease < job'[f].began
      BY DEF OneHost, Works
    <3>1. CASE f = h
      BY <2>2, <2>3, <3>1
    <3>2. CASE g = h
      BY <2>2, <2>3, <3>2
    <3>3. CASE f # h /\ g # h
      BY <2>2, <3>3 DEF AutomationInv, OneHost, Works
    <3> QED BY <3>1, <3>2, <3>3
  <2> QED BY <2>4, <2>5
<1>3. CASE ~AcquireLease(h)
  <2>1. workerLease' = workerLease
    BY <1>3 DEF HostStep, BeginRule, Match, Notify, Succeed, Fail, EndRun, KillRun
  <2>2. Leased'
    BY <1>1, <1>3, <2>1, SameRun DEF AutomationInv, Leased
  <2>3. OneHost'
    BY <1>1, <1>3, SameRun DEF AutomationInv, OneHost, Works
  <2> QED BY <2>2, <2>3
<1> QED BY <1>2, <1>3

----------------------------------------------------------------------------
(* The rows of the runs. *)

(* A step changes the row of the rule it is at, and no other. *)
LEMMA RowsKept ==
    ASSUME AutomationInv, time \in Nat, mishaps \in Nat, NEW h \in Hosts, HostStep(h)
    PROVE  /\ ruleRuns' \in Seq(RuleRun)
           /\ DOMAIN ruleRuns \subseteq DOMAIN ruleRuns'
           /\ \A i \in DOMAIN ruleRuns : /\ ruleRuns'[i].rule = ruleRuns[i].rule
                                         /\ ruleRuns'[i].started = ruleRuns[i].started
                                         /\ ruleRuns'[i].by = ruleRuns[i].by
<1>1. /\ ruleRuns \in Seq(RuleRun) /\ Len(ruleRuns) \in Nat
      /\ DOMAIN ruleRuns = 1..Len(ruleRuns)
      /\ \A i \in DOMAIN ruleRuns : ruleRuns[i] \in RuleRun
  BY LenProperties, ElementOfSeq DEF AutomationInv, AutomationTypeOK
<1>2. CASE ruleRuns' = ruleRuns
  BY <1>1, <1>2
<1>3. CASE BeginRule(h) /\ ruleRuns' # ruleRuns
  <2> DEFINE row == [rule |-> RuleOf(h), status |-> "RUNNING", matched |-> 0,
                     started |-> time, by |-> h]
  <2>1. row \in RuleRun /\ ruleRuns' = Append(ruleRuns, row)
    <3>1. job[h].rule \in 1..Len(Rules)
      BY <1>3, WorkingJob, AutomationAssumption, LenProperties
         DEF BeginRule, AutomationInv
    <3>2. RuleOf(h) \in STRING
      BY <3>1, AutomationAssumption, ElementOfSeq DEF RuleOf
    <3> QED BY <1>3, <3>2 DEF BeginRule, RuleRun
  <2> HIDE DEF row
  <2> QED BY <1>1, <2>1, AppendProperties
<1>4. CASE /\ job[h].at \in {"notify", "failing"}
           /\ \/ ruleRuns' = Ended(h, "SUCCEEDED")
              \/ ruleRuns' = [ruleRuns EXCEPT ![job[h].row].status = "FAILED"]
  <2>1. job[h].row \in DOMAIN ruleRuns /\ job[h].matched \in Nat
    BY <1>4, WorkingJob DEF AutomationInv, InHand
  <2>2. \E run \in RuleRun :
            /\ ruleRuns' = [ruleRuns EXCEPT ![job[h].row] = run]
            /\ run.rule = ruleRuns[job[h].row].rule
            /\ run.started = ruleRuns[job[h].row].started
            /\ run.by = ruleRuns[job[h].row].by
    <3>1. ruleRuns[job[h].row] \in RuleRun
      BY <1>1, <2>1
    <3> DEFINE r == job[h].row
    <3>2. ruleRuns' = [ruleRuns EXCEPT ![r] = ruleRuns'[r]]
      BY <1>1, <1>4, <2>1 DEF Ended
    <3>3. \/ ruleRuns'[r] = [ruleRuns[r] EXCEPT !.status = "FAILED"]
          \/ ruleRuns'[r] = [rule |-> ruleRuns[r].rule, status |-> "SUCCEEDED",
                             matched |-> job[h].matched, started |-> ruleRuns[r].started,
                             by |-> ruleRuns[r].by]
      BY <1>1, <1>4, <2>1, <3>1 DEF Ended, RuleRun
    <3>4. /\ ruleRuns'[r] \in RuleRun
          /\ ruleRuns'[r].rule = ruleRuns[r].rule
          /\ ruleRuns'[r].started = ruleRuns[r].started
          /\ ruleRuns'[r].by = ruleRuns[r].by
      BY <2>1, <3>1, <3>3 DEF RuleRun
    <3> QED BY <3>2, <3>4
  <2>3. PICK run \in RuleRun :
            /\ ruleRuns' = [ruleRuns EXCEPT ![job[h].row] = run]
            /\ run.rule = ruleRuns[job[h].row].rule
            /\ run.started = ruleRuns[job[h].row].started
            /\ run.by = ruleRuns[job[h].row].by
    BY <2>2
  <2>4. ruleRuns' \in Seq(RuleRun)
    BY <1>1, <2>1, <2>3, ExceptSeq
  <2> QED BY <1>1, <2>1, <2>3, <2>4
<1>5. \/ ruleRuns' = ruleRuns \/ BeginRule(h)
      \/ /\ job[h].at \in {"notify", "failing"}
         /\ \/ ruleRuns' = Ended(h, "SUCCEEDED")
            \/ ruleRuns' = [ruleRuns EXCEPT ![job[h].row].status = "FAILED"]
  BY DEF HostStep, AcquireLease, BeginRule, Match, Notify, Succeed, Fail, EndRun,
       KillRun
<1> QED BY <1>2, <1>3, <1>4, <1>5

LEMMA NoticesKept ==
    ASSUME AutomationInv, time \in Nat, NEW h \in Hosts, HostStep(h)
    PROVE  /\ notices \subseteq notices'
           /\ notices' \subseteq [rule : STRING, thing : Things, day : Int]
<1>1. notices \subseteq [rule : STRING, thing : Things, day : Int]
  BY DEF AutomationInv, AutomationTypeOK
<1>2. CASE \E thing \in Things : Notify(h, thing)
  <2> PICK thing \in Things : Notify(h, thing)
    BY <1>2
  <2>1. job[h].at = "notify"
    BY DEF Notify
  <2>2. RuleOf(h) \in STRING
    <3>1. ruleRuns[job[h].row] \in RuleRun /\ ruleRuns[job[h].row].rule = RuleOf(h)
      BY <2>1, ElementOfSeq, LenProperties DEF AutomationInv, AutomationTypeOK, InHand
    <3> QED BY <3>1 DEF RuleRun
  <2>3. DayOf(Now(h)) \in Int
    <3>1. Now(h) \in Int
      BY AutomationAssumption DEF Now
    <3> QED BY <3>1, LaterDay
  <2> QED BY <1>1, <2>2, <2>3 DEF Notify
<1>3. notices' = notices \/ \E thing \in Things : Notify(h, thing)
  BY DEF HostStep, AcquireLease, BeginRule, Match, Succeed, Fail, EndRun, KillRun
<1> QED BY <1>1, <1>2, <1>3

----------------------------------------------------------------------------
(* What a host has in hand. *)

LEMMA SameNoticed ==
    ASSUME NEW written, NEW r, NEW s, r.rule = s.rule, r.started = s.started, r.by = s.by
    PROVE  NoticedBy(written, r) = NoticedBy(written, s)
<1>1. BeganOn(r) = BeganOn(s)
  BY DEF BeganOn
<1> QED BY <1>1 DEF NoticedBy

LEMMA MoreThings ==
    ASSUME NEW A, NEW B, A \subseteq B, B \subseteq Things
    PROVE  /\ Cardinality(A) \in Nat /\ Cardinality(B) \in Nat
           /\ Cardinality(A) <= Cardinality(B)
  BY FS_Subset, FS_CardinalityType, AutomationAssumption

(* Of a host that does not act. *)
LEMMA HandKeptElsewhere ==
    ASSUME AutomationInv, time \in Nat, mishaps \in Nat, NEW h \in Hosts, HostStep(h),
           NEW g \in Hosts, job'[g] = job[g]
    PROVE  InHand(g)'
<1> SUFFICES ASSUME job[g].at \in {"query", "notify", "failing"}
             PROVE  InHand(g)'
  BY DEF InHand
<1> DEFINE r == job[g].row
<1>1. /\ r \in DOMAIN ruleRuns /\ ruleRuns[r].started <= time
      /\ ruleRuns[r].rule = RuleOf(g) /\ ruleRuns[r].by = g
      /\ job[g].at = "failing" => mishaps > 0
      /\ job[g].at = "notify" =>
            Cardinality(job[g].left \cup NoticedBy(notices,
                                                   ruleRuns[r])) >= job[g].matched
  BY DEF AutomationInv, InHand
<1>2. /\ r \in DOMAIN ruleRuns' /\ ruleRuns'[r].rule = ruleRuns[r].rule
      /\ ruleRuns'[r].started = ruleRuns[r].started /\ ruleRuns'[r].by = ruleRuns[r].by
  BY <1>1, RowsKept
<1>3. /\ time' = time /\ RuleOf(g)' = RuleOf(g) /\ (job[g].at = "failing" => mishaps' > 0)
  BY <1>1, WorldOfRules DEF RuleOf
<1>4. ASSUME job[g].at = "notify"
      PROVE  Cardinality(job[g].left \cup NoticedBy(notices',
                                                    ruleRuns'[r])) >= job[g].matched
  <2> DEFINE A == job[g].left \cup NoticedBy(notices, ruleRuns[r])
             B == job[g].left \cup NoticedBy(notices', ruleRuns[r])
  <2>1. job[g].left \subseteq Things /\ job[g].matched \in Nat
    BY <1>4, WorkingJob DEF AutomationInv
  <2>2. A \subseteq B /\ B \subseteq Things
    BY <2>1, NoticesKept, NoticedGrow DEF AutomationInv
  <2>3. Cardinality(A) \in Nat /\ Cardinality(B) \in Nat /\ Cardinality(A) <= Cardinality(B)
    BY <2>2, MoreThings
  <2>4. NoticedBy(notices', ruleRuns'[r]) = NoticedBy(notices', ruleRuns[r])
    BY <1>2, SameNoticed
  <2> QED BY <1>1, <1>4, <2>1, <2>3, <2>4
<1> QED BY <1>1, <1>2, <1>3, <1>4 DEF InHand

LEMMA NotifyInHand ==
    ASSUME AutomationInv, time \in Nat, mishaps \in Nat, NEW h \in Hosts,
           NEW thing \in Things, Notify(h, thing), HostStep(h)
    PROVE  InHand(h)'
<1> DEFINE r == job[h].row
           notice == [rule |-> RuleOf(h), thing |-> thing, day |-> DayOf(Now(h))]
<1>1. /\ job[h].at = "notify" /\ thing \in job[h].left /\ job[h] \in Jobs
      /\ job \in [Hosts -> Jobs \cup {Resting}]
      /\ job[h].left \subseteq Things /\ job[h].matched \in Nat
      /\ ruleRuns' = ruleRuns
  BY WorkingJob DEF Notify, AutomationInv, AutomationTypeOK
<1>2. /\ r \in DOMAIN ruleRuns /\ ruleRuns[r].started <= time
      /\ ruleRuns[r].rule = RuleOf(h) /\ ruleRuns[r].started \in Nat
      /\ ruleRuns[r].by = h
      /\ Cardinality(job[h].left \cup NoticedBy(notices, ruleRuns[r])) >= job[h].matched
  <2>1. /\ r \in DOMAIN ruleRuns /\ ruleRuns[r].started <= time
        /\ ruleRuns[r].rule = RuleOf(h) /\ ruleRuns[r].by = h
        /\ Cardinality(job[h].left \cup NoticedBy(notices, ruleRuns[r])) >= job[h].matched
    BY <1>1 DEF AutomationInv, InHand
  <2>2. ruleRuns[r] \in RuleRun
    BY <2>1, ElementOfSeq, LenProperties DEF AutomationInv, AutomationTypeOK
  <2> QED BY <2>1, <2>2 DEF RuleRun
<1>3. time' = time /\ (mishaps' = mishaps \/ mishaps' = mishaps + 1)
  BY WorldOfRules
<1>4. CASE /\ notices' = notices \cup {notice}
           /\ job' = [job EXCEPT ![h].left = @ \ {thing}]
  <2>1. job'[h] = [at |-> "notify", began |-> job[h].began, rule |-> job[h].rule,
                   row |-> r, left |-> job[h].left \ {thing}, matched |-> job[h].matched]
    BY <1>1, <1>4 DEF Jobs
  <2>2. /\ job'[h].at = "notify" /\ job'[h].row = r /\ job'[h].rule = job[h].rule
        /\ job'[h].left = job[h].left \ {thing} /\ job'[h].matched = job[h].matched
    BY <2>1
  <2>3. thing \in NoticedBy(notices', ruleRuns[r])
    <3> DEFINE began == ruleRuns[r].started + Ahead[h]
    <3>1. Now(h) \in Int /\ began \in Int /\ began <= Now(h)
      BY <1>2, AutomationAssumption DEF Now
    <3>2. DayOf(Now(h)) \in Int /\ DayOf(began) \in Int /\ DayOf(began) <= DayOf(Now(h))
      BY <3>1, LaterDay
    <3>4. BeganOn(ruleRuns[r]) = DayOf(began)
      BY <1>2 DEF BeganOn
    <3>5. notice.day = DayOf(Now(h))
      OBVIOUS
    <3> HIDE DEF began
    <3>6. notice.day >= BeganOn(ruleRuns[r])
      BY ONLY <3>2, <3>4, <3>5
    <3>3. notice \in notices' /\ notice.rule = ruleRuns[r].rule /\ notice.thing = thing
      BY <1>2, <1>4
    <3> HIDE DEF notice
    <3> QED BY <3>3, <3>6 DEF NoticedBy
  <2>4. NoticedBy(notices, ruleRuns[r]) \subseteq NoticedBy(notices', ruleRuns[r])
        /\ NoticedBy(notices', ruleRuns[r]) \subseteq Things
    BY NoticesKept, NoticedGrow DEF AutomationInv
  <2> DEFINE A == job[h].left \cup NoticedBy(notices, ruleRuns[r])
             B == (job[h].left \ {thing}) \cup NoticedBy(notices', ruleRuns[r])
  <2>5. A \subseteq B /\ B \subseteq Things
    BY <1>1, <2>3, <2>4
  <2>6. Cardinality(A) \in Nat /\ Cardinality(B) \in Nat /\ Cardinality(A) <= Cardinality(B)
    BY <2>5, MoreThings
  <2>7. Cardinality(B) >= job[h].matched
    BY <1>1, <1>2, <2>6
  <2>8. RuleOf(h)' = RuleOf(h)
    BY <2>2 DEF RuleOf
  <2> HIDE DEF A
  <2> QED BY <1>1, <1>2, <1>3, <2>2, <2>7, <2>8 DEF InHand
<1>5. CASE Mishap /\ GoOn(h, "failing")
  <2>1. /\ job'[h].at = "failing" /\ job'[h].row = r /\ job'[h].rule = job[h].rule
    BY <1>1, <1>5 DEF GoOn, Jobs
  <2>2. RuleOf(h)' = RuleOf(h) /\ mishaps' > 0
    BY <1>5, <2>1 DEF RuleOf, Mishap
  <2> QED BY <1>1, <1>2, <1>3, <2>1, <2>2 DEF InHand
<1> QED BY <1>4, <1>5 DEF Notify

LEMMA MatchInHand ==
    ASSUME AutomationInv, time \in Nat, mishaps \in Nat, NEW h \in Hosts, Match(h)
    PROVE  InHand(h)'
<1> DEFINE r == job[h].row
<1>1. /\ job[h].at = "query" /\ job[h] \in Jobs
      /\ job \in [Hosts -> Jobs \cup {Resting}]
      /\ ruleRuns' = ruleRuns /\ notices' = notices /\ time' = time
  BY WorkingJob DEF Match, AutomationInv, AutomationTypeOK
<1>2. /\ r \in DOMAIN ruleRuns /\ ruleRuns[r].started <= time
      /\ ruleRuns[r].rule = RuleOf(h) /\ ruleRuns[r].by = h
  BY <1>1 DEF AutomationInv, InHand
<1>3. CASE Mishap /\ GoOn(h, "failing")
  <2>1. /\ job'[h].at = "failing" /\ job'[h].row = r /\ job'[h].rule = job[h].rule
    BY <1>1, <1>3 DEF GoOn, Jobs
  <2>2. RuleOf(h)' = RuleOf(h) /\ mishaps' > 0
    BY <1>3, <2>1 DEF RuleOf, Mishap
  <2> QED BY <1>1, <1>2, <2>1, <2>2 DEF InHand
<1>4. ASSUME NEW found \in SUBSET Things,
             job' = [job EXCEPT ![h].at = "notify", ![h].left = found,
                                ![h].matched = Cardinality(found)]
      PROVE  InHand(h)'
  <2>1. /\ job'[h].at = "notify" /\ job'[h].row = r /\ job'[h].rule = job[h].rule
        /\ job'[h].left = found /\ job'[h].matched = Cardinality(found)
    BY <1>1, <1>4 DEF Jobs
  <2> DEFINE B == found \cup NoticedBy(notices, ruleRuns[r])
  <2>2. found \subseteq B /\ B \subseteq Things
    BY NoticedGrow DEF AutomationInv, AutomationTypeOK
  <2>3. Cardinality(found) <= Cardinality(B) /\ Cardinality(B) \in Nat
        /\ Cardinality(found) \in Nat
    BY <2>2, MoreThings
  <2>4. RuleOf(h)' = RuleOf(h)
    BY <2>1 DEF RuleOf
  <2>5. Cardinality(B) >= Cardinality(found)
    BY <2>3
  <2> QED BY <1>1, <1>2, <2>1, <2>4, <2>5 DEF InHand
<1> QED BY <1>3, <1>4 DEF Match

LEMMA HandKept ==
    ASSUME AutomationInv, time \in Nat, mishaps \in Nat, NEW h \in Hosts, HostStep(h)
    PROVE  InHand(h)'
<1> DEFINE r == job[h].row
<1>1. /\ job \in [Hosts -> Jobs \cup {Resting}]
      /\ ruleRuns \in Seq(RuleRun) /\ Len(ruleRuns) \in Nat
      /\ DOMAIN ruleRuns = 1..Len(ruleRuns)
  BY LenProperties DEF AutomationInv, AutomationTypeOK
<1>2. CASE job'[h].at \in {"rest", "next"}
  BY <1>2 DEF InHand
<1>3. CASE AcquireLease(h) \/ EndRun(h) \/ KillRun(h)
  <2>1. job'[h].at \in {"rest", "next"}
    BY <1>1, <1>3 DEF AcquireLease, EndRun, KillRun, Rest, Resting
  <2> QED BY <1>2, <2>1
<1>4. CASE BeginRule(h)
  <2>1. job[h] \in Jobs /\ time' = time
    BY <1>4, WorkingJob DEF BeginRule, AutomationInv
  <2>2. CASE Rest(h)
    BY <1>1, <1>2, <2>2 DEF Rest, Resting
  <2>3. CASE ~Rest(h)
    <3> DEFINE row == [rule |-> RuleOf(h), status |-> "RUNNING", matched |-> 0,
                       started |-> time, by |-> h]
    <3>1. /\ ruleRuns' = Append(ruleRuns, row)
          /\ job' = [job EXCEPT ![h].at = "query", ![h].row = Len(ruleRuns) + 1]
      BY <1>4, <2>3 DEF BeginRule
    <3>2. /\ job'[h].at = "query" /\ job'[h].row = Len(ruleRuns) + 1
          /\ job'[h].rule = job[h].rule
      BY <1>1, <2>1, <3>1 DEF Jobs
    <3>3. row.rule = RuleOf(h) /\ row.started = time /\ row.by = h
      OBVIOUS
    <3> HIDE DEF row
    <3>4. /\ Len(ruleRuns) + 1 \in DOMAIN ruleRuns'
          /\ ruleRuns'[Len(ruleRuns) + 1] = row
      BY <1>1, <3>1
    <3>5. RuleOf(h)' = RuleOf(h)
      BY <3>2 DEF RuleOf
    <3> QED BY <2>1, <3>2, <3>3, <3>4, <3>5 DEF InHand
  <2> QED BY <2>2, <2>3
<1>5. CASE Match(h)
  BY <1>5, MatchInHand
<1>6. CASE \E thing \in Things : Notify(h, thing)
  BY <1>6, NotifyInHand
<1>7. CASE Succeed(h) \/ Fail(h)
  <2>1. job[h] \in Jobs /\ job[h].at \in {"notify", "failing"}
    BY <1>7, WorkingJob DEF Succeed, Fail, AutomationInv
  <2>2. CASE NextRule(h) \/ Rest(h)
    <3>1. job'[h].at \in {"rest", "next"}
      BY <1>1, <2>1, <2>2 DEF NextRule, Rest, Resting, Jobs
    <3> QED BY <1>2, <3>1
  <2>3. CASE Mishap /\ GoOn(h, "failing")
    <3>1. /\ job'[h].at = "failing" /\ job'[h].row = r /\ job'[h].rule = job[h].rule
      BY <1>1, <2>1, <2>3 DEF GoOn, Jobs
    <3>2. RuleOf(h)' = RuleOf(h) /\ mishaps' > 0 /\ time' = time
      BY <2>3, <3>1, WorldOfRules DEF RuleOf, Mishap
    <3>3. /\ r \in DOMAIN ruleRuns /\ ruleRuns[r].started <= time
          /\ ruleRuns[r].rule = RuleOf(h) /\ ruleRuns[r].by = h
      BY <2>1 DEF AutomationInv, InHand
    <3>4. /\ r \in DOMAIN ruleRuns' /\ ruleRuns'[r].rule = ruleRuns[r].rule
          /\ ruleRuns'[r].started = ruleRuns[r].started
          /\ ruleRuns'[r].by = ruleRuns[r].by
      BY <3>3, RowsKept
    <3> QED BY <3>1, <3>2, <3>3, <3>4 DEF InHand
  <2> QED BY <1>7, <2>2, <2>3 DEF Succeed, Fail
<1> QED BY <1>3, <1>4, <1>5, <1>6, <1>7 DEF HostStep

----------------------------------------------------------------------------
(* What the rows say. *)

(* RunsTellTheTruth, row by row and status by status. *)
Succeeded(i) ==
    ruleRuns[i].status = "SUCCEEDED" =>
        Cardinality(NoticedBy(notices, ruleRuns[i])) >= ruleRuns[i].matched

Running(i) ==
    ruleRuns[i].status = "RUNNING" =>
        \/ \E h \in Hosts : job[h].at \in {"query", "notify", "failing"} /\ job[h].row = i
        \/ mishaps > 0

FailedRun(i) == ruleRuns[i].status = "FAILED" => mishaps > 0

LEMMA TruthByRow ==
    ASSUME ruleRuns \in Seq(RuleRun)
    PROVE  RunsTellTheTruth <=>
            \A i \in DOMAIN ruleRuns : Succeeded(i) /\ Running(i) /\ FailedRun(i)
<1>1. ASSUME NEW i \in DOMAIN ruleRuns
      PROVE  ruleRuns[i].status \in {"RUNNING", "SUCCEEDED", "FAILED"}
  <2>1. ruleRuns[i] \in RuleRun
    BY ElementOfSeq, LenProperties
  <2> QED BY <2>1 DEF RuleRun
<1>2. ASSUME NEW i \in DOMAIN ruleRuns
      PROVE  (CASE ruleRuns[i].status = "SUCCEEDED" ->
                     Cardinality(NoticedBy(notices, ruleRuns[i])) >= ruleRuns[i].matched
                [] ruleRuns[i].status = "RUNNING" ->
                     \/ \E h \in Hosts : job[h].at \in {"query", "notify", "failing"}
                                         /\ job[h].row = i
                     \/ mishaps > 0
                [] ruleRuns[i].status = "FAILED" -> mishaps > 0)
             <=> Succeeded(i) /\ Running(i) /\ FailedRun(i)
  BY <1>1 DEF Succeeded, Running, FailedRun
<1> QED BY <1>2 DEF RunsTellTheTruth, NoticedBy

(* What a step makes of the status of a row. *)
LEMMA StatusKept ==
    ASSUME AutomationInv, time \in Nat, mishaps \in Nat, NEW h \in Hosts, HostStep(h),
           NEW i \in DOMAIN ruleRuns'
    PROVE  \/ i \in DOMAIN ruleRuns /\ ruleRuns'[i] = ruleRuns[i]
           \/ /\ i \notin DOMAIN ruleRuns /\ ruleRuns'[i].status = "RUNNING"
              /\ BeginRule(h)
              /\ \/ mishaps' > 0
                 \/ job'[h].at = "query" /\ job'[h].row = i
           \/ /\ Succeed(h) /\ i = job[h].row /\ i \in DOMAIN ruleRuns
              /\ ruleRuns'[i].status = "SUCCEEDED"
              /\ ruleRuns'[i].matched = job[h].matched
           \/ /\ Fail(h) /\ i = job[h].row /\ i \in DOMAIN ruleRuns
              /\ ruleRuns'[i].status = "FAILED" /\ mishaps' > 0
<1>1. /\ ruleRuns \in Seq(RuleRun) /\ Len(ruleRuns) \in Nat
      /\ DOMAIN ruleRuns = 1..Len(ruleRuns)
      /\ \A k \in DOMAIN ruleRuns : ruleRuns[k] \in RuleRun
      /\ job \in [Hosts -> Jobs \cup {Resting}]
  BY LenProperties, ElementOfSeq DEF AutomationInv, AutomationTypeOK
<1>2. CASE ruleRuns' = ruleRuns
  BY <1>2
<1>3. CASE BeginRule(h) /\ ruleRuns' # ruleRuns
  <2> DEFINE row == [rule |-> RuleOf(h), status |-> "RUNNING", matched |-> 0,
                     started |-> time, by |-> h]
  <2>1. ruleRuns' = Append(ruleRuns, row) /\ row.status = "RUNNING"
    BY <1>3 DEF BeginRule
  <2> HIDE DEF row
  <2>2. /\ \A k \in DOMAIN ruleRuns : ruleRuns'[k] = ruleRuns[k]
        /\ DOMAIN ruleRuns' = 1..(Len(ruleRuns) + 1)
        /\ ruleRuns'[Len(ruleRuns) + 1].status = "RUNNING"
    BY <1>1, <2>1
  <2>3. i \in DOMAIN ruleRuns \/ (i = Len(ruleRuns) + 1 /\ i \notin DOMAIN ruleRuns)
    BY <1>1, <2>2
  <2>4. \/ mishaps' > 0
        \/ job'[h].at = "query" /\ job'[h].row = Len(ruleRuns) + 1
    <3>1. job[h] \in Jobs
      BY <1>3, WorkingJob DEF BeginRule, AutomationInv
    <3> QED BY <1>1, <1>3, <3>1 DEF BeginRule, Mishap, Jobs
  <2> QED BY <1>3, <2>2, <2>3, <2>4
<1>4. CASE Succeed(h) /\ ruleRuns' = Ended(h, "SUCCEEDED")
  <2> DEFINE r == job[h].row
  <2>1. r \in DOMAIN ruleRuns
    BY <1>4 DEF AutomationInv, InHand, Succeed
  <2>2. /\ DOMAIN ruleRuns' = DOMAIN ruleRuns
        /\ \A k \in DOMAIN ruleRuns : k # r => ruleRuns'[k] = ruleRuns[k]
    BY <1>1, <1>4, <2>1 DEF Ended
  <2>3. ruleRuns'[r].status = "SUCCEEDED" /\ ruleRuns'[r].matched = job[h].matched
    BY <1>1, <1>4, <2>1 DEF Ended, RuleRun
  <2> QED BY <1>4, <2>1, <2>2, <2>3
<1>5. CASE Fail(h) /\ ruleRuns' = [ruleRuns EXCEPT ![job[h].row].status = "FAILED"]
  <2> DEFINE r == job[h].row
  <2>1. r \in DOMAIN ruleRuns /\ mishaps > 0
    BY <1>5 DEF AutomationInv, InHand, Fail
  <2>2. /\ DOMAIN ruleRuns' = DOMAIN ruleRuns
        /\ \A k \in DOMAIN ruleRuns : k # r => ruleRuns'[k] = ruleRuns[k]
    BY <1>1, <1>5, <2>1
  <2>3. ruleRuns'[r].status = "FAILED"
    BY <1>1, <1>5, <2>1 DEF RuleRun
  <2>4. mishaps' > 0
    BY <2>1, WorldOfRules
  <2> QED BY <1>5, <2>1, <2>2, <2>3, <2>4
<1> QED
  BY <1>2, <1>3, <1>4, <1>5
     DEF HostStep, AcquireLease, BeginRule, Match, Notify, Succeed, Fail, EndRun, KillRun

LEMMA TruthKept ==
    ASSUME AutomationInv, time \in Nat, mishaps \in Nat, NEW h \in Hosts, HostStep(h),
           NEW i \in DOMAIN ruleRuns'
    PROVE  Succeeded(i)' /\ Running(i)' /\ FailedRun(i)'
<1>1. \A k \in DOMAIN ruleRuns : Succeeded(k) /\ Running(k) /\ FailedRun(k)
  BY TruthByRow DEF AutomationInv, AutomationTypeOK
<1>2. mishaps' \in Nat /\ mishaps <= mishaps'
  BY WorldOfRules
<1>3. /\ notices \subseteq notices'
      /\ \A run : /\ Cardinality(NoticedBy(notices, run)) \in Nat
                  /\ Cardinality(NoticedBy(notices', run)) \in Nat
                  /\ Cardinality(NoticedBy(notices, run))
                        <= Cardinality(NoticedBy(notices', run))
  BY NoticesKept, NoticedGrow DEF AutomationInv
<1>4. \A k \in DOMAIN ruleRuns : ruleRuns[k].matched \in Nat
  <2> TAKE k \in DOMAIN ruleRuns
  <2>1. ruleRuns[k] \in RuleRun
    BY LenProperties, ElementOfSeq DEF AutomationInv, AutomationTypeOK
  <2> QED BY <2>1 DEF RuleRun
<1>5. FailedRun(i)'
  BY <1>1, <1>2, StatusKept DEF FailedRun
<1>6. Succeeded(i)'
  <2>1. CASE i \in DOMAIN ruleRuns /\ ruleRuns'[i] = ruleRuns[i]
    BY <1>1, <1>3, <1>4, <2>1 DEF Succeeded
  <2>2. CASE /\ Succeed(h) /\ i = job[h].row /\ i \in DOMAIN ruleRuns
             /\ ruleRuns'[i].matched = job[h].matched
    <3>1. /\ job[h].left = {} /\ job[h].matched \in Nat
          /\ Cardinality(job[h].left \cup NoticedBy(notices,
                                                    ruleRuns[i])) >= job[h].matched
      BY <2>2, WorkingJob DEF Succeed, AutomationInv, InHand
    <3>2. Cardinality(NoticedBy(notices, ruleRuns[i])) >= job[h].matched
      BY <3>1
    <3>3. NoticedBy(notices', ruleRuns'[i]) = NoticedBy(notices', ruleRuns[i])
      BY <2>2, RowsKept, SameNoticed
    <3>4. Cardinality(NoticedBy(notices', ruleRuns[i])) >= job[h].matched
      BY <1>3, <3>1, <3>2
    <3> QED BY <2>2, <3>3, <3>4 DEF Succeeded
  <2>3. CASE ruleRuns'[i].status # "SUCCEEDED"
    BY <2>3 DEF Succeeded
  <2> QED BY <2>1, <2>2, <2>3, StatusKept
<1>7. Running(i)'
  <2> SUFFICES ASSUME ruleRuns'[i].status = "RUNNING", mishaps' = 0
               PROVE  \E g \in Hosts : /\ job'[g].at \in {"query", "notify", "failing"}
                                       /\ job'[g].row = i
    BY <1>2 DEF Running
  <2>1. CASE BeginRule(h) /\ job'[h].at = "query" /\ job'[h].row = i
    BY <2>1
  <2>2. CASE i \in DOMAIN ruleRuns /\ ruleRuns'[i] = ruleRuns[i]
    <3>1. PICK g \in Hosts : job[g].at \in {"query", "notify",
                                            "failing"} /\ job[g].row = i
      BY <1>1, <1>2, <2>2 DEF Running
    <3>2. CASE job'[g] = job[g]
      BY <3>1, <3>2
    <3>3. CASE job'[g] # job[g]
      <4>1. g = h /\ job[h] \in Jobs /\ job \in [Hosts -> Jobs \cup {Resting}]
        BY <3>1, <3>3, OthersKeepTheirJobs, WorkingJob
           DEF AutomationInv, AutomationTypeOK, HostStep
      <4>2. ~Mishap
        BY <1>2 DEF Mishap
      <4>3. CASE Match(h)
        <5>1. PICK found \in SUBSET Things :
                job' = [job EXCEPT ![h].at = "notify", ![h].left = found,
                                   ![h].matched = Cardinality(found)]
          BY <4>2, <4>3 DEF Match
        <5>2. job'[h].at = "notify" /\ job'[h].row = job[h].row
          BY <4>1, <5>1 DEF Jobs
        <5> QED BY <3>1, <4>1, <5>2
      <4>4. CASE \E thing \in Things : Notify(h, thing)
        <5>1. job'[h].at = job[h].at /\ job'[h].row = job[h].row
          BY <4>1, <4>2, <4>4 DEF Notify, Jobs
        <5> QED BY <3>1, <4>1, <5>1
      <4>5. CASE Succeed(h)
        <5>1. ruleRuns' = Ended(h, "SUCCEEDED")
          BY <4>2, <4>5 DEF Succeed
        <5>2. ruleRuns[i] \in RuleRun
          BY <2>2, LenProperties, ElementOfSeq DEF AutomationInv, AutomationTypeOK
        <5>3. ruleRuns'[i].status = "SUCCEEDED"
          BY <2>2, <3>1, <4>1, <5>1, <5>2, LenProperties
             DEF Ended, AutomationInv, AutomationTypeOK, RuleRun
        <5> QED BY <5>3
      <4>6. CASE Fail(h)
        <5>1. mishaps > 0
          BY <4>6 DEF Fail, AutomationInv, InHand
        <5> QED BY <1>2, <5>1
      <4>7. CASE AcquireLease(h) \/ BeginRule(h) \/ EndRun(h) \/ KillRun(h)
        BY <3>1, <4>1, <4>2, <4>7 DEF AcquireLease, BeginRule, EndRun, KillRun, Resting
      <4> QED BY <4>3, <4>4, <4>5, <4>6, <4>7 DEF HostStep
    <3> QED BY <3>2, <3>3
  <2> QED BY <1>2, <2>1, <2>2, StatusKept
<1> QED BY <1>5, <1>6, <1>7

LEMMA LeaseIsATime ==
    ASSUME AutomationTypeOK, time \in Nat, NEW h \in Hosts, HostStep(h)
    PROVE  workerLease' = None \/ workerLease' \in Int
<1>1. CASE AcquireLease(h)
  <2>1. Now(h) + Lease \in Int
    BY AutomationAssumption DEF Now
  <2> QED BY <1>1, <2>1 DEF AcquireLease
<1>2. CASE workerLease' = workerLease
  BY <1>2 DEF AutomationTypeOK
<1> QED
  BY <1>1, <1>2
     DEF HostStep, BeginRule, Match, Notify, Succeed, Fail, EndRun, KillRun

LEMMA TruthAfter ==
    ASSUME ruleRuns' \in Seq(RuleRun),
           \A i \in DOMAIN ruleRuns' : Succeeded(i)' /\ Running(i)' /\ FailedRun(i)'
    PROVE  RunsTellTheTruth'
<1>1. ASSUME NEW i \in DOMAIN ruleRuns'
      PROVE  ruleRuns'[i].status \in {"RUNNING", "SUCCEEDED", "FAILED"}
  <2>1. ruleRuns'[i] \in RuleRun
    BY ElementOfSeq, LenProperties
  <2> QED BY <2>1 DEF RuleRun
<1>2. ASSUME NEW i \in DOMAIN ruleRuns'
      PROVE  CASE ruleRuns'[i].status = "SUCCEEDED" ->
                     Cardinality(NoticedBy(notices',
                                           ruleRuns'[i])) >= ruleRuns'[i].matched
               [] ruleRuns'[i].status = "RUNNING" ->
                     \/ \E h \in Hosts : job'[h].at \in {"query", "notify", "failing"}
                                         /\ job'[h].row = i
                     \/ mishaps' > 0
               [] ruleRuns'[i].status = "FAILED" -> mishaps' > 0
  BY <1>1, <1>2 DEF Succeeded, Running, FailedRun
<1> QED BY <1>2 DEF RunsTellTheTruth, NoticedBy

(* The rest of the world goes on: time passes, mishaps happen elsewhere. *)
LEMMA AutomationRests ==
    ASSUME AutomationInv, UNCHANGED automationVars,
           time \in Nat, time' \in Nat, time <= time',
           mishaps \in Nat, mishaps' \in Nat, mishaps <= mishaps'
    PROVE  AutomationInv'
<1>1. /\ workerLease' = workerLease /\ job' = job /\ ruleRuns' = ruleRuns
      /\ notices' = notices
  BY DEF automationVars
<1>2. AutomationTypeOK' /\ Leased' /\ OneHost'
  BY <1>1 DEF AutomationInv, AutomationTypeOK, Leased, Works, OneHost
<1>3. ASSUME NEW h \in Hosts
      PROVE  InHand(h)'
  <2>1. SUFFICES ASSUME job[h].at \in {"query", "notify", "failing"}
                 PROVE  InHand(h)'
    BY <1>1 DEF InHand
  <2>2. InHand(h) /\ job[h].row \in DOMAIN ruleRuns
    BY <2>1 DEF AutomationInv, InHand
  <2>3. ruleRuns[job[h].row] \in RuleRun
    BY <2>2, ElementOfSeq, LenProperties DEF AutomationInv, AutomationTypeOK
  <2>4. ruleRuns[job[h].row].started \in Nat
    BY <2>3 DEF RuleRun
  <2>5. RuleOf(h)' = RuleOf(h)
    BY <1>1 DEF RuleOf
  <2>6. ruleRuns[job[h].row].started <= time'
    BY <2>1, <2>2, <2>4 DEF InHand
  <2>7. job[h].at = "failing" => mishaps' > 0
    BY <2>1, <2>2 DEF InHand
  <2> QED BY <1>1, <2>1, <2>2, <2>5, <2>6, <2>7 DEF InHand, NoticedBy
<1>4. RunsTellTheTruth'
  <2>1. ASSUME NEW i \in DOMAIN ruleRuns'
        PROVE  Succeeded(i)' /\ Running(i)' /\ FailedRun(i)'
    <3>1. Succeeded(i) /\ Running(i) /\ FailedRun(i)
      BY <1>1, <2>1, TruthByRow DEF AutomationInv, AutomationTypeOK
    <3> QED BY <1>1, <3>1 DEF Succeeded, Running, FailedRun, NoticedBy
  <2> QED BY <1>1, <2>1, TruthAfter DEF AutomationInv, AutomationTypeOK
<1> QED BY <1>2, <1>3, <1>4 DEF AutomationInv

LEMMA AutomationStep ==
    ASSUME AutomationInv, time \in Nat, mishaps \in Nat,
           time' \in Nat, time <= time', mishaps' \in Nat, mishaps <= mishaps',
           AutomationNext \/ UNCHANGED automationVars
    PROVE  AutomationInv'
<1>1. ASSUME NEW h \in Hosts, HostStep(h)
      PROVE  AutomationInv'
  <2>1. Leased' /\ OneHost'
    BY <1>1, LeaseKept
  <2>2. job' \in [Hosts -> Jobs \cup {Resting}]
    BY <1>1, JobKept DEF AutomationInv
  <2>3. workerLease' = None \/ workerLease' \in Int
    BY <1>1, LeaseIsATime DEF AutomationInv
  <2>4. AutomationTypeOK'
    BY <1>1, <2>2, <2>3, RowsKept, NoticesKept DEF AutomationTypeOK
  <2>5. \A g \in Hosts : InHand(g)'
    BY <1>1, HandKept, HandKeptElsewhere, OthersKeepTheirJobs DEF AutomationInv
  <2>6. RunsTellTheTruth'
    BY <1>1, <2>4, TruthKept, TruthAfter DEF AutomationTypeOK
  <2> QED BY <2>1, <2>4, <2>5, <2>6 DEF AutomationInv
<1>2. CASE UNCHANGED automationVars
  BY <1>2, AutomationRests
<1> QED BY <1>1, <1>2 DEF AutomationNext, HostStep

LEMMA AutomationStart ==
    ASSUME AutomationInit
    PROVE  AutomationInv
<1>1. AutomationTypeOK
  BY DEF AutomationInit, AutomationTypeOK
<1>2. /\ \A h \in Hosts : job[h] = Resting
      /\ ruleRuns = <<>>
  BY DEF AutomationInit
<1>3. \A h \in Hosts : ~Works(h) /\ job[h].at = "rest"
  BY <1>2 DEF Works, Resting
<1>4. Leased /\ OneHost
  BY <1>3 DEF Leased, OneHost, Works, AutomationInit
<1>5. \A h \in Hosts : InHand(h)
  BY <1>3 DEF InHand
<1>6. RunsTellTheTruth
  BY <1>2 DEF RunsTellTheTruth
<1> QED BY <1>1, <1>4, <1>5, <1>6 DEF AutomationInv

LEMMA AutomationSafe == AutomationInv => RunsAsRecorded
  BY DEF AutomationInv, RunsAsRecorded

(***************************************************************************)
(* The inspection of the code of a command: a child that has loaded what   *)
(* the digest does not lead to was told to by a way that no digest follows *)
(* or by a file of the digest that was not what it had been; that file was *)
(* changed from what it had been, so the inspection after it finds it      *)
(* different, unless it was changed back.                                  *)
(***************************************************************************)

Work == [kind : DOMAIN EntryPoints,
         at : {"record", "before", "child", "after", "PASS", "FAIL"},
         pending : Seq(SourceFiles), seen : Digests]

DependenciesOf(digest) ==
    UNION {ToSet(Dependencies(f, digest[f])) : f \in DOMAIN digest}
Scripts(stage) == ToSet(EntryPoints[stage])

(* Every version is that of the file, or one that it was changed from. *)
FromTheTree(digest) ==
    \A f \in DOMAIN digest : digest[f] = tree[f] \/ digest[f] \in former[f]

(* A file is changed to a former version by being changed back. *)
NewOrBack == \A f \in SourceFiles : tree[f] \in former[f] => f \in back

(* An inspection has read, or has still to read, the scripts of the        *)
(* command and what the files it has read import.                          *)
ReadsAll ==
    Inspecting =>
        /\ Scripts(work.kind) \cup DependenciesOf(work.seen)
                \subseteq DOMAIN work.seen \cup ToSet(work.pending)
        /\ FromTheTree(work.seen)

(* So a digest that was recorded has it all. *)
ApprovedIsWhole ==
    work.at \notin {"record", "FAIL"} =>
        /\ approved \in Digests /\ FromTheTree(approved)
        /\ Scripts(work.kind) \cup DependenciesOf(approved) \subseteq DOMAIN approved

(* Nothing is loaded before the child starts. *)
NothingLoaded == work.at \in {"record", "before"} => loaded = NoFiles

(* The child has loaded a file of the digest at another version. *)
Astray(f) == f \in DOMAIN approved \cap DOMAIN loaded /\ loaded[f] # approved[f]

(* What the child may come to load. *)
Reached(f) ==
    \/ f \in DOMAIN approved
    \/ f \in beyond
    \/ \E g \in DOMAIN loaded : Astray(g)

(* It has loaded, and goes on with, what it may; and a file that it found  *)
(* at another version was changed, which the inspection after it finds, or *)
(* was changed back.                                                       *)
InStepOrFound ==
    work.at \in {"child", "after"} =>
        /\ \A f \in DOMAIN loaded : Reached(f)
        /\ work.at = "child" => \A f \in ToSet(work.pending) : Reached(f)
        /\ \A f \in DOMAIN loaded : Astray(f) =>
            /\ approved[f] \in former[f]
            /\ \/ work.at = "child"
               \/ f \notin DOMAIN work.seen
               \/ work.seen[f] # approved[f]
               \/ f \in back

(* While nobody edits, what was read, and what is loaded, is what is there.*)
AsRead ==
    ~edited =>
        /\ work.at = "before" => \A f \in DOMAIN work.seen : work.seen[f] = tree[f]
        /\ work.at = "child" =>
            /\ \A f \in DOMAIN approved : approved[f] = tree[f]
            /\ \A f \in DOMAIN loaded : ~Astray(f)

BundleInv ==
    /\ tree \in [SourceFiles -> 1..Removed] /\ loaded \in Digests /\ work \in Work
    /\ beyond \subseteq SourceFiles /\ edited \in BOOLEAN
    /\ former \in [SourceFiles -> SUBSET (1..Removed)] /\ NewOrBack
    /\ work.at = "after" => work.kind = "cutover"
    /\ ReadsAll /\ ApprovedIsWhole /\ NothingLoaded /\ InStepOrFound /\ AsRead
    /\ RanWhatWasApproved
----------------------------------------------------------------------------
LEMMA DigestShape ==
    /\ \A d \in Digests : /\ DOMAIN d \subseteq SourceFiles
                          /\ d \in [DOMAIN d -> 1..MaxVersion]
                          /\ \A f \in DOMAIN d : d[f] \in 1..MaxVersion
    /\ \A fs \in SUBSET SourceFiles : [fs -> 1..MaxVersion] \subseteq Digests
  BY DEF Digests

LEMMA NoFilesIsADigest ==
    NoFiles \in Digests /\ DOMAIN NoFiles = {} /\ DependenciesOf(NoFiles) = {}
<1>1. NoFiles \in [{} -> 1..MaxVersion] /\ DOMAIN NoFiles = {}
  BY DEF NoFiles
<1> QED BY <1>1, DigestShape DEF DependenciesOf

LEMMA StillThere ==
    ASSUME tree \in [SourceFiles -> 1..Removed], NEW f \in SourceFiles, tree[f] # Removed
    PROVE  tree[f] \in 1..MaxVersion
  BY BundleAssumption DEF Removed

LEMMA PlusProperties ==
    ASSUME NEW d \in Digests, NEW f \in SourceFiles, tree \in [SourceFiles -> 1..Removed],
           tree[f] # Removed
    PROVE  /\ Plus(d, f) \in Digests /\ DOMAIN Plus(d, f) = DOMAIN d \cup {f}
           /\ Plus(d, f)[f] = tree[f]
           /\ \A g \in DOMAIN d : g # f => Plus(d, f)[g] = d[g]
<1>1. tree[f] \in 1..MaxVersion
  BY BundleAssumption DEF Removed
<1>2. Plus(d, f) \in [DOMAIN d \cup {f} -> 1..MaxVersion]
  BY <1>1, DigestShape DEF Plus
<1>3. DOMAIN d \cup {f} \subseteq SourceFiles
  BY DigestShape
<1> QED BY <1>2, <1>3, DigestShape DEF Plus

LEMMA DependenciesAreFiles ==
    ASSUME NEW f \in SourceFiles, NEW v \in 1..MaxVersion
    PROVE  Dependencies(f, v) \in Seq(SourceFiles)
  BY BundleAssumption DEF Dependencies

LEMMA FrontProperties ==
    ASSUME NEW S, NEW s \in Seq(S), s # <<>>
    PROVE  /\ Front(s) \in Seq(S) /\ Last(s) \in S /\ Last(s) \in ToSet(s)
           /\ ToSet(s) = ToSet(Front(s)) \cup {Last(s)}
<1>1. Len(s) \in Nat \ {0} /\ DOMAIN s = 1..Len(s) /\ \A i \in DOMAIN s : s[i] \in S
  BY LenProperties, ElementOfSeq
<1>2. /\ Front(s) \in Seq(S) /\ DOMAIN Front(s) = 1..(Len(s) - 1)
      /\ \A i \in 1..(Len(s) - 1) : Front(s)[i] = s[i]
  BY <1>1, LenProperties DEF Front
<1>3. Last(s) = s[Len(s)]
  BY DEF Last
<1> QED BY <1>1, <1>2, <1>3 DEF ToSet

LEMMA ToSetOfConcat ==
    ASSUME NEW S, NEW s \in Seq(S), NEW t \in Seq(S)
    PROVE  s \o t \in Seq(S) /\ ToSet(s \o t) = ToSet(s) \cup ToSet(t)
<1>1. Range(s) = ToSet(s) /\ Range(t) = ToSet(t) /\ Range(s \o t) = ToSet(s \o t)
  BY DEF Range, ToSet
<1> QED BY <1>1, ConcatProperties, RangeConcatenation

LEMMA DependenciesOfPlus ==
    ASSUME NEW d \in Digests, NEW f \in SourceFiles, tree \in [SourceFiles -> 1..Removed],
           tree[f] # Removed, f \notin DOMAIN d
    PROVE  DependenciesOf(Plus(d, f)) =
                DependenciesOf(d) \cup ToSet(Dependencies(f, tree[f]))
<1>1. /\ DOMAIN Plus(d, f) = DOMAIN d \cup {f} /\ Plus(d, f)[f] = tree[f]
      /\ \A g \in DOMAIN d : g # f => Plus(d, f)[g] = d[g]
  BY PlusProperties
<1>2. \A g \in DOMAIN d : Dependencies(g, Plus(d, f)[g]) = Dependencies(g, d[g])
  BY <1>1
<1> QED BY <1>1, <1>2 DEF DependenciesOf

----------------------------------------------------------------------------
(* A record that goes elsewhere. *)
LEMMA MovedOn ==
    ASSUME work \in Work,
           NEW at \in {"record", "before", "child", "after", "PASS", "FAIL"},
           work' = [work EXCEPT !.at = at]
    PROVE  /\ work' \in Work /\ work'.kind = work.kind /\ work'.at = at
           /\ work'.pending = work.pending /\ work'.seen = work.seen
  BY DEF Work

LEMMA Passed ==
    ASSUME work \in Work, NEW pending \in Seq(SourceFiles),
           work' = [work EXCEPT !.pending = pending]
    PROVE  /\ work' \in Work /\ work'.kind = work.kind /\ work'.at = work.at
           /\ work'.pending = pending /\ work'.seen = work.seen
  BY DEF Work

LEMMA WentToLoad ==
    ASSUME work \in Work, NEW pending \in Seq(SourceFiles),
           work' = [work EXCEPT !.at = "child", !.pending = pending]
    PROVE  /\ work' \in Work /\ work'.kind = work.kind /\ work'.at = "child"
           /\ work'.pending = pending /\ work'.seen = work.seen
  BY DEF Work

LEMMA HasRead ==
    ASSUME work \in Work, NEW pending \in Seq(SourceFiles), NEW seen \in Digests,
           work' = [work EXCEPT !.seen = seen, !.pending = pending]
    PROVE  /\ work' \in Work /\ work'.kind = work.kind /\ work'.at = work.at
           /\ work'.pending = pending /\ work'.seen = seen
  BY DEF Work

LEMMA BeganToRead ==
    ASSUME work \in Work, NEW at \in {"before", "after"},
           NEW pending \in Seq(SourceFiles), NEW seen \in Digests,
           work' = [work EXCEPT !.at = at, !.pending = pending, !.seen = seen]
    PROVE  /\ work' \in Work /\ work'.kind = work.kind /\ work'.at = at
           /\ work'.pending = pending /\ work'.seen = seen
  BY DEF Work

LEMMA EntryPointsAreFiles ==
    ASSUME work \in Work
    PROVE  /\ EntryPoints[work.kind] \in Seq(SourceFiles)
           /\ \A i \in DOMAIN EntryPoints[work.kind] :
                <<EntryPoints[work.kind][i]>> \in Seq(SourceFiles)
<1>1. EntryPoints[work.kind] \in Seq(SourceFiles)
  BY BundleAssumption DEF Work
<1>2. \A i \in DOMAIN EntryPoints[work.kind] : EntryPoints[work.kind][i] \in SourceFiles
  BY <1>1, ElementOfSeq, LenProperties
<1> QED BY <1>1, <1>2

(* An inspection begins. *)
LEMMA InspectFields ==
    ASSUME work \in Work, NEW at \in {"before", "after"}, Inspect(at)
    PROVE  /\ work' \in Work /\ work'.kind = work.kind /\ work'.at = at
           /\ work'.pending = EntryPoints[work.kind] /\ work'.seen = NoFiles
           /\ edited' = FALSE /\ UNCHANGED <<tree, former, back>> /\ ReadsAll'
<1>1. EntryPoints[work.kind] \in Seq(SourceFiles) /\ NoFiles \in Digests
  BY EntryPointsAreFiles, NoFilesIsADigest
<1>2. /\ work' \in Work /\ work'.kind = work.kind /\ work'.at = at
      /\ work'.pending = EntryPoints[work.kind] /\ work'.seen = NoFiles
      /\ edited' = FALSE /\ UNCHANGED <<tree, former, back>>
  <2> DEFINE entries == EntryPoints[work.kind]
  <2>1. /\ work' = [work EXCEPT !.at = at, !.pending = entries, !.seen = NoFiles]
        /\ edited' = FALSE /\ UNCHANGED <<tree, former, back>>
    BY DEF Inspect
  <2>2. entries \in Seq(SourceFiles)
    BY <1>1
  <2> HIDE DEF entries
  <2>3. /\ work' \in Work /\ work'.kind = work.kind /\ work'.at = at
        /\ work'.pending = entries /\ work'.seen = NoFiles
    BY <1>1, <2>1, <2>2, BeganToRead
  <2> QED BY <2>1, <2>3 DEF entries
<1>3. FromTheTree(work.seen)'
  BY <1>2, NoFilesIsADigest DEF FromTheTree
<1>4. DependenciesOf(work'.seen) = {} /\ Scripts(work'.kind) = ToSet(work'.pending)
  BY <1>2, NoFilesIsADigest DEF Scripts
<1> QED BY <1>2, <1>3, <1>4 DEF ReadsAll

(* The command or the child ends. *)
LEMMA GoToFields ==
    ASSUME work \in Work, NEW at \in {"record", "before", "child", "after", "PASS",
                                      "FAIL"},
           GoTo(at)
    PROVE  /\ work' \in Work /\ work'.kind = work.kind /\ work'.at = at
           /\ work'.pending = work.pending /\ work'.seen = work.seen
  BY MovedOn DEF GoTo

(* To fail is always safe. *)
LEMMA Failing ==
    ASSUME BundleInv, GoTo("FAIL"), UNCHANGED <<approved, loaded, beyond>>,
           tree' \in [SourceFiles -> 1..Removed], edited' \in BOOLEAN,
           former' \in [SourceFiles -> SUBSET (1..Removed)], NewOrBack'
    PROVE  BundleInv'
<1>1. /\ work' \in Work /\ work'.kind = work.kind /\ work'.at = "FAIL"
  BY GoToFields DEF BundleInv
<1>2. ReadsAll' /\ NothingLoaded' /\ InStepOrFound' /\ AsRead' /\ RanWhatWasApproved'
  BY <1>1 DEF ReadsAll, Inspecting, NothingLoaded, InStepOrFound, AsRead,
       RanWhatWasApproved
<1>3. ApprovedIsWhole'
  BY <1>1 DEF ApprovedIsWhole
<1> QED BY <1>1, <1>2, <1>3 DEF BundleInv

(* Nothing is edited. *)
LEMMA Unedited ==
    ASSUME BundleInv, UNCHANGED <<tree, former, back>>
    PROVE  /\ tree' \in [SourceFiles -> 1..Removed] /\ NewOrBack'
           /\ former' \in [SourceFiles -> SUBSET (1..Removed)]
  BY DEF BundleInv, NewOrBack

LEMMA FailingUnedited ==
    ASSUME BundleInv, GoTo("FAIL"), UNCHANGED <<approved, loaded, beyond, edits>>
    PROVE  BundleInv'
<1>1. edited' \in BOOLEAN /\ UNCHANGED <<tree, former, back>>
  BY DEF BundleInv, edits
<1> QED BY <1>1, Unedited, Failing

(* Somebody edits a file. *)
LEMMA EditFields ==
    ASSUME BundleInv, NEW f \in SourceFiles, Edit(f)
    PROVE  /\ tree' \in [SourceFiles -> 1..Removed] /\ edited' = TRUE
           /\ former' \in [SourceFiles -> SUBSET (1..Removed)] /\ NewOrBack'
           /\ back \subseteq back'
           /\ \A g \in SourceFiles :
                /\ former[g] \subseteq former'[g]
                /\ tree'[g] = tree[g] \/ tree[g] \in former'[g]
<1>1. /\ tree \in [SourceFiles -> 1..Removed] /\ NewOrBack
      /\ former \in [SourceFiles -> SUBSET (1..Removed)]
  BY DEF BundleInv
<1>2. PICK version \in (1..Removed) \ {tree[f]} :
        /\ tree' = [tree EXCEPT ![f] = version]
        /\ back' = IF version \in former[f] THEN back \cup {f} ELSE back
  BY DEF Edit
<1>3. former' = [former EXCEPT ![f] = former[f] \cup {tree[f]}] /\ edited' = TRUE
  BY DEF Edit
<1>4. /\ tree' \in [SourceFiles -> 1..Removed]
      /\ tree'[f] = version /\ \A g \in SourceFiles : g # f => tree'[g] = tree[g]
  BY <1>1, <1>2
<1>5. /\ former' \in [SourceFiles -> SUBSET (1..Removed)]
      /\ former'[f] = former[f] \cup {tree[f]}
      /\ \A g \in SourceFiles : g # f => former'[g] = former[g]
  <2>1. tree[f] \in 1..Removed /\ former[f] \in SUBSET (1..Removed)
    BY <1>1
  <2> DEFINE Versions == 1..Removed
  <2>2. former[f] \cup {tree[f]} \in SUBSET Versions
    BY <2>1
  <2>3. former \in [SourceFiles -> SUBSET Versions]
    BY <1>1
  <2> HIDE DEF Versions
  <2>4. former' \in [SourceFiles -> SUBSET Versions]
    BY <1>3, <2>2, <2>3
  <2> QED BY <1>3, <2>3, <2>4 DEF Versions
<1>6. back \subseteq back'
  BY <1>2
<1>7. NewOrBack'
  <2> SUFFICES ASSUME NEW g \in SourceFiles, tree'[g] \in former'[g]
               PROVE  g \in back'
    BY DEF NewOrBack
  <2>1. CASE g = f
    BY <1>2, <1>4, <1>5, <2>1
  <2>2. CASE g # f
    BY <1>1, <1>4, <1>5, <1>6, <2>2 DEF NewOrBack
  <2> QED BY <2>1, <2>2
<1> QED BY <1>3, <1>4, <1>5, <1>6, <1>7

(* What a file was read as stays so. *)
LEMMA StillFromTheTree ==
    ASSUME BundleInv, NEW f \in SourceFiles, Edit(f), NEW d \in Digests, FromTheTree(d)
    PROVE  \A g \in DOMAIN d : d[g] = tree'[g] \/ d[g] \in former'[g]
<1>1. \A g \in DOMAIN d : g \in SourceFiles
  BY DigestShape
<1> QED BY <1>1, EditFields DEF FromTheTree

(* The inspection goes on: what it reads is what is there. *)
LEMMA SkipKeeps ==
    ASSUME BundleInv, Skip
    PROVE  BundleInv'
<1> DEFINE front == Front(work.pending)
<1>1. /\ work \in Work /\ work.pending \in Seq(SourceFiles) /\ work.pending # <<>>
      /\ Inspecting /\ Last(work.pending) \in DOMAIN work.seen
      /\ work' = [work EXCEPT !.pending = front]
      /\ UNCHANGED <<approved, loaded, beyond, edited>> /\ UNCHANGED <<tree, former, back>>
  BY DEF Skip, BundleInv, Work, edits
<1>2. front \in Seq(SourceFiles) /\ ToSet(work.pending) = ToSet(front) \cup {Last(work.pending)}
  BY <1>1, FrontProperties
<1> HIDE DEF front
<1>3. work.at \in {"record", "before", "after"} /\ work.seen \in Digests
  BY <1>1 DEF Inspecting, Work
<1>4. /\ work' \in Work /\ work'.kind = work.kind /\ work'.at = work.at
      /\ work'.pending = front /\ work'.seen = work.seen
  BY <1>1, <1>2, Passed
<1>5. ReadsAll'
  BY <1>1, <1>2, <1>4 DEF BundleInv, ReadsAll, FromTheTree, Inspecting
<1>6. ApprovedIsWhole' /\ NothingLoaded' /\ AsRead'
  BY <1>1, <1>3, <1>4 DEF BundleInv, ApprovedIsWhole, FromTheTree, NothingLoaded, AsRead
<1>7. InStepOrFound' /\ RanWhatWasApproved'
  BY <1>1, <1>3, <1>4 DEF BundleInv, InStepOrFound, Reached, Astray, RanWhatWasApproved
<1>8. beyond' \subseteq SourceFiles /\ edited' \in BOOLEAN /\ loaded' \in Digests
  BY <1>1 DEF BundleInv
<1> QED BY <1>1, <1>4, <1>5, <1>6, <1>7, <1>8, Unedited DEF BundleInv

LEMMA ReadKeeps ==
    ASSUME BundleInv, ReadSource
    PROVE  BundleInv'
<1> DEFINE f == Last(work.pending)
           front == Front(work.pending)
           next == Dependencies(f, tree[f])
           digest == Plus(work.seen, f)
<1>1. /\ work \in Work /\ work.pending \in Seq(SourceFiles) /\ work.pending # <<>>
      /\ Inspecting /\ f \notin DOMAIN work.seen /\ work.seen \in Digests
      /\ tree \in [SourceFiles -> 1..Removed]
      /\ UNCHANGED <<approved, loaded, beyond, edited>> /\ UNCHANGED <<tree, former, back>>
      /\ UNCHANGED <<approved, loaded, beyond, edits>>
  BY DEF ReadSource, Unread, BundleInv, Work, edits
<1>2. CASE GoTo("FAIL")
  BY <1>1, <1>2, FailingUnedited
<1>3. CASE ~GoTo("FAIL")
  <2>1. /\ tree[f] # Removed
        /\ work' = [work EXCEPT !.seen = digest, !.pending = front \o next]
    BY <1>3 DEF ReadSource
  <2>2. /\ front \in Seq(SourceFiles) /\ f \in SourceFiles
        /\ ToSet(work.pending) = ToSet(front) \cup {f}
    BY <1>1, FrontProperties
  <2>3. tree[f] \in 1..MaxVersion
    BY <1>1, <2>1, <2>2, BundleAssumption DEF Removed
  <2>4. next \in Seq(SourceFiles)
    BY <2>2, <2>3, DependenciesAreFiles
  <2>5. front \o next \in Seq(SourceFiles) /\ ToSet(front \o next) = ToSet(front) \cup ToSet(next)
    BY <2>2, <2>4, ToSetOfConcat
  <2>6. /\ digest \in Digests /\ DOMAIN digest = DOMAIN work.seen \cup {f}
        /\ digest[f] = tree[f] /\ \A g \in DOMAIN work.seen : digest[g] = work.seen[g]
    BY <1>1, <2>1, <2>2, PlusProperties
  <2>7. DependenciesOf(digest) = DependenciesOf(work.seen) \cup ToSet(next)
    BY <1>1, <2>1, <2>2, DependenciesOfPlus
  <2> DEFINE pending == front \o next
  <2>9. /\ work' \in Work /\ work'.kind = work.kind /\ work'.at = work.at
        /\ work'.pending = pending /\ work'.seen = digest
        /\ work.at \in {"record", "before", "after"}
    <3>1. work' = [work EXCEPT !.seen = digest,
                   !.pending = pending] /\ pending \in Seq(SourceFiles)
      BY <2>1, <2>5
    <3> HIDE DEF f, front, next, digest, pending
    <3> QED BY <1>1, <2>6, <3>1, HasRead DEF Inspecting
  <2>10. ToSet(pending) = ToSet(front) \cup ToSet(next)
    BY <2>5
  <2> HIDE DEF f, front, next, digest, pending
  <2>11. FromTheTree(work.seen)'
    BY <1>1, <2>6, <2>9 DEF BundleInv, ReadsAll, FromTheTree
  <2>12. Scripts(work'.kind) \cup DependenciesOf(work'.seen)
                \subseteq DOMAIN work'.seen \cup ToSet(work'.pending)
    BY <1>1, <2>2, <2>6, <2>7, <2>9, <2>10 DEF BundleInv, ReadsAll
  <2>13. ApprovedIsWhole' /\ NothingLoaded' /\ RanWhatWasApproved'
    BY <1>1, <2>9 DEF BundleInv, ApprovedIsWhole, FromTheTree, NothingLoaded,
         RanWhatWasApproved
  <2>14. AsRead'
    BY <1>1, <2>6, <2>9 DEF BundleInv, AsRead
  <2>15. InStepOrFound'
    <3> SUFFICES ASSUME work.at = "after"
                 PROVE  InStepOrFound'
      BY <2>9 DEF InStepOrFound
    <3>1. ASSUME NEW g \in DOMAIN loaded, Astray(g)
          PROVE  /\ approved[g] \in former[g]
                 /\ g \notin DOMAIN digest \/ digest[g] # approved[g] \/ g \in back
      <4>1. /\ approved[g] \in former[g]
            /\ g \notin DOMAIN work.seen \/ work.seen[g] # approved[g] \/ g \in back
        BY <3>1 DEF BundleInv, InStepOrFound
      <4>2. tree[f] = approved[f] /\ approved[f] \in former[f] => f \in back
        BY <2>2 DEF BundleInv, NewOrBack
      <4> QED BY <2>6, <4>1, <4>2
    <3>2. \A g \in DOMAIN loaded : Reached(g)
      BY DEF BundleInv, InStepOrFound
    <3> QED BY <1>1, <2>9, <3>1, <3>2 DEF InStepOrFound, Reached, Astray
  <2>16. beyond' \subseteq SourceFiles /\ edited' \in BOOLEAN /\ loaded' \in Digests
    BY <1>1 DEF BundleInv
  <2> QED
    BY <1>1, <2>9, <2>11, <2>12, <2>13, <2>14, <2>15, <2>16, Unedited DEF BundleInv, ReadsAll
<1> QED BY <1>2, <1>3

----------------------------------------------------------------------------
(* The whole is recorded, the child is started, loads and passes.          *)
LEMMA RecordKeeps ==
    ASSUME BundleInv, RecordBundle
    PROVE  BundleInv'
<1>1. /\ work \in Work /\ work.at = "record" /\ work.pending = <<>> /\ Inspect("before")
      /\ approved' = work.seen /\ UNCHANGED <<loaded, beyond>>
      /\ work.seen \in Digests /\ loaded = NoFiles
  BY DEF RecordBundle, Inspected, BundleInv, Work, NothingLoaded
<1>2. /\ work' \in Work /\ work'.kind = work.kind /\ work'.at = "before"
      /\ work'.pending = EntryPoints[work.kind] /\ work'.seen = NoFiles
      /\ edited' = FALSE /\ UNCHANGED <<tree, former, back>> /\ ReadsAll'
  BY <1>1, InspectFields
<1>3. /\ Scripts(work.kind) \cup DependenciesOf(work.seen) \subseteq DOMAIN work.seen
      /\ FromTheTree(work.seen)
  BY <1>1 DEF BundleInv, ReadsAll, Inspecting, ToSet
<1>4. ApprovedIsWhole'
  BY <1>1, <1>2, <1>3 DEF ApprovedIsWhole, FromTheTree
<1>5. NothingLoaded' /\ InStepOrFound' /\ RanWhatWasApproved'
  BY <1>1, <1>2 DEF NothingLoaded, InStepOrFound, RanWhatWasApproved
<1>6. AsRead'
  BY <1>2, NoFilesIsADigest DEF AsRead
<1>7. beyond' \subseteq SourceFiles /\ edited' \in BOOLEAN /\ loaded' \in Digests
  BY <1>1, <1>2 DEF BundleInv
<1> QED BY <1>2, <1>4, <1>5, <1>6, <1>7, Unedited DEF BundleInv

LEMMA StartKeeps ==
    ASSUME BundleInv, StartChild
    PROVE  BundleInv'
<1>1. /\ work \in Work /\ work.at = "before" /\ loaded = NoFiles
      /\ UNCHANGED <<approved, loaded, beyond, edited>> /\ UNCHANGED <<tree, former, back>>
      /\ UNCHANGED <<approved, loaded, beyond, edits>>
  BY DEF StartChild, Inspected, BundleInv, NothingLoaded, edits
<1>2. CASE work.seen # approved
  BY <1>1, <1>2, FailingUnedited DEF StartChild
<1>3. CASE work.seen = approved
  <2>1. PICK script \in DOMAIN EntryPoints[work.kind] :
            work' = [work EXCEPT !.at = "child",
                                 !.pending = <<EntryPoints[work.kind][script]>>]
    BY <1>3 DEF StartChild
  <2> DEFINE f == EntryPoints[work.kind][script]
  <2>2. <<f>> \in Seq(SourceFiles) /\ f \in Scripts(work.kind)
    BY <1>1, EntryPointsAreFiles DEF Scripts, ToSet
  <2>3. work' = [work EXCEPT !.at = "child", !.pending = <<f>>]
    BY <2>1
  <2> HIDE DEF f
  <2>4. /\ work' \in Work /\ work'.kind = work.kind /\ work'.at = "child"
        /\ work'.pending = <<f>> /\ work'.seen = work.seen
    BY <1>1, <2>2, <2>3, WentToLoad
  <2>5. ToSet(work'.pending) = {f} /\ f \in DOMAIN approved
    <3>1. f \in DOMAIN approved
      BY <1>1, <2>2 DEF BundleInv, ApprovedIsWhole
    <3>2. ToSet(<<f>>) = {f}
      BY DEF ToSet
    <3> QED BY <2>4, <3>1, <3>2
  <2>6. ReadsAll' /\ ApprovedIsWhole' /\ NothingLoaded' /\ RanWhatWasApproved'
    BY <1>1, <2>4 DEF BundleInv, ReadsAll, Inspecting, ApprovedIsWhole, FromTheTree,
                      NothingLoaded, RanWhatWasApproved
  <2>7. InStepOrFound'
    BY <1>1, <2>4, <2>5, NoFilesIsADigest DEF InStepOrFound, Reached
  <2>8. AsRead'
    BY <1>1, <1>3, <2>4, NoFilesIsADigest DEF BundleInv, AsRead
  <2>9. beyond' \subseteq SourceFiles /\ edited' \in BOOLEAN /\ loaded' \in Digests
    BY <1>1 DEF BundleInv
  <2> QED BY <1>1, <2>4, <2>6, <2>7, <2>8, <2>9, Unedited DEF BundleInv
<1> QED BY <1>2, <1>3

(* It loads a file that it may load, and goes on with what may be loaded.  *)
LEMMA LoadingKeeps ==
    ASSUME BundleInv, work.at = "child", NEW f \in SourceFiles, Reached(f),
           f \notin DOMAIN loaded, NEW rest \in Seq(SourceFiles),
           ToSet(rest) \subseteq ToSet(work.pending), Load(f, rest)
    PROVE  BundleInv'
<1> DEFINE next == Dependencies(f, tree[f])
           more == rest \o next
<1>1. /\ work \in Work /\ loaded \in Digests /\ tree[f] # Removed
      /\ tree \in [SourceFiles -> 1..Removed]
      /\ UNCHANGED <<approved, edited>> /\ UNCHANGED <<tree, former, back>>
      /\ loaded' = Plus(loaded, f) /\ work' = [work EXCEPT !.pending = more]
      /\ beyond' = beyond \cup Requires[f][tree[f]]
                          \cup (IF f \in beyond THEN ToSet(next) ELSE {})
  BY DEF Load, BundleInv, edits
<1>2. tree[f] \in 1..MaxVersion
  BY <1>1, StillThere
<1>3. next \in Seq(SourceFiles) /\ Requires[f][tree[f]] \subseteq SourceFiles
  <2>1. next \in Seq(SourceFiles)
    BY <1>2, DependenciesAreFiles
  <2>2. Requires \in [SourceFiles -> [1..MaxVersion -> SUBSET SourceFiles]]
    BY BundleAssumption
  <2>3. Requires[f][tree[f]] \in SUBSET SourceFiles
    BY <1>2, <2>2
  <2> QED BY <2>1, <2>3
<1> HIDE DEF next
<1>4. ToSet(next) \subseteq SourceFiles
  <2>1. \A i \in DOMAIN next : next[i] \in SourceFiles
    BY <1>3, ElementOfSeq, LenProperties
  <2> QED BY <2>1 DEF ToSet
<1>5. more \in Seq(SourceFiles) /\ ToSet(more) = ToSet(rest) \cup ToSet(next)
  BY <1>3, ToSetOfConcat
<1> HIDE DEF more
<1>6. /\ loaded' \in Digests /\ DOMAIN loaded' = DOMAIN loaded \cup {f}
      /\ loaded'[f] = tree[f] /\ \A g \in DOMAIN loaded : loaded'[g] = loaded[g]
  BY <1>1, PlusProperties
<1>7. /\ work' \in Work /\ work'.kind = work.kind /\ work'.at = "child"
      /\ work'.pending = more /\ work'.seen = work.seen
  BY <1>1, <1>5, Passed
<1>8. beyond' \subseteq SourceFiles /\ beyond \subseteq beyond'
  BY <1>1, <1>3, <1>4 DEF BundleInv
<1>9. /\ \A g \in DOMAIN loaded : Astray(g) <=> Astray(g)'
      /\ Astray(f)' <=> f \in DOMAIN approved /\ approved[f] # tree[f]
  BY <1>1, <1>6 DEF Astray
<1>10. \A g : Reached(g) => Reached(g)'
  BY <1>1, <1>6, <1>8, <1>9 DEF Reached
<1>11. \A g \in ToSet(next) : Reached(g)'
  <2>1. DependenciesOf(approved) \subseteq DOMAIN approved
    BY DEF BundleInv, ApprovedIsWhole
  <2>2. CASE f \in DOMAIN approved /\ approved[f] = tree[f]
    <3>1. ToSet(next) \subseteq DOMAIN approved
      BY <2>1, <2>2 DEF DependenciesOf, next
    <3> QED BY <1>1, <3>1 DEF Reached
  <2>3. CASE f \in DOMAIN approved /\ approved[f] # tree[f]
    BY <1>6, <1>9, <2>3 DEF Reached
  <2>4. CASE f \in beyond
    BY <1>1, <2>4 DEF Reached
  <2>5. CASE \E g \in DOMAIN loaded : Astray(g)
    BY <1>6, <1>9, <2>5 DEF Reached
  <2> QED BY <2>2, <2>3, <2>4, <2>5 DEF Reached
<1>12. Astray(f)' => approved[f] \in former[f]
  BY <1>9 DEF BundleInv, ApprovedIsWhole, FromTheTree
<1>13. InStepOrFound'
  <2>1. /\ \A g \in DOMAIN loaded : Reached(g)
        /\ \A g \in ToSet(work.pending) : Reached(g)
        /\ \A g \in DOMAIN loaded : Astray(g) => approved[g] \in former[g]
    BY DEF BundleInv, InStepOrFound
  <2>2. \A g \in DOMAIN loaded' : Reached(g)'
    BY <1>6, <1>10, <2>1
  <2>3. \A g \in ToSet(work'.pending) : Reached(g)'
    BY <1>5, <1>7, <1>10, <1>11, <2>1
  <2>4. \A g \in DOMAIN loaded' : Astray(g)' => approved'[g] \in former'[g]
    BY <1>1, <1>6, <1>9, <1>12, <2>1
  <2> QED BY <1>7, <2>2, <2>3, <2>4 DEF InStepOrFound
<1>14. AsRead'
  BY <1>1, <1>6, <1>7, <1>9 DEF BundleInv, AsRead
<1>15. ReadsAll' /\ ApprovedIsWhole' /\ NothingLoaded' /\ RanWhatWasApproved'
  BY <1>1, <1>7 DEF BundleInv, ReadsAll, Inspecting, ApprovedIsWhole, FromTheTree,
                    NothingLoaded, RanWhatWasApproved
<1>16. edited' \in BOOLEAN
  BY <1>1 DEF BundleInv
<1> QED
  BY <1>1, <1>6, <1>7, <1>8, <1>13, <1>14, <1>15, <1>16, Unedited DEF BundleInv

LEMMA LoadKeeps ==
    ASSUME BundleInv, LoadModule \/ LoadRequired
    PROVE  BundleInv'
<1>1. /\ work \in Work /\ work.at = "child" /\ work.pending \in Seq(SourceFiles)
      /\ \A f \in ToSet(work.pending) : Reached(f)
  BY DEF LoadModule, LoadRequired, BundleInv, Work, InStepOrFound
<1>2. CASE LoadRequired
  <2>1. PICK f \in beyond \ DOMAIN loaded : Load(f, work.pending)
    BY <1>2 DEF LoadRequired
  <2>2. f \in SourceFiles /\ Reached(f)
    BY <2>1 DEF BundleInv, Reached
  <2> QED BY <1>1, <2>1, <2>2, LoadingKeeps
<1>3. CASE LoadModule
  <2>1. PICK i \in DOMAIN work.pending :
            \/ /\ work.pending[i] \notin DOMAIN loaded
               /\ Load(work.pending[i], RemoveAt(work.pending, i))
            \/ /\ work' = [work EXCEPT !.pending = RemoveAt(work.pending, i)]
               /\ UNCHANGED <<approved, loaded, beyond, edits>>
    BY <1>3 DEF LoadModule
  <2> DEFINE f == work.pending[i]
             rest == RemoveAt(work.pending, i)
  <2>2. rest \in Seq(SourceFiles) /\ ToSet(rest) \subseteq ToSet(work.pending)
    BY <1>1, <2>1, RemoveAtProperties
  <2>3. f \in SourceFiles
    BY <1>1, <2>1, ElementOfSeq, LenProperties
  <2>4. f \in ToSet(work.pending)
    BY <2>1 DEF ToSet
  <2>5. CASE f \notin DOMAIN loaded /\ Load(f, rest)
    <3> HIDE DEF f, rest
    <3> QED BY <1>1, <2>2, <2>3, <2>4, <2>5, LoadingKeeps
  <2>6. CASE /\ work' = [work EXCEPT !.pending = rest]
             /\ UNCHANGED <<approved, loaded, beyond, edits>>
    <3> HIDE DEF f, rest
    <3>1. /\ work' \in Work /\ work'.kind = work.kind /\ work'.at = "child"
          /\ work'.pending = rest /\ work'.seen = work.seen
      BY <1>1, <2>2, <2>6, Passed
    <3>2. /\ UNCHANGED <<approved, loaded, beyond, edited>>
          /\ UNCHANGED <<tree, former, back>>
      BY <2>6 DEF edits
    <3>3. InStepOrFound'
      BY <1>1, <2>2, <3>1, <3>2 DEF BundleInv, InStepOrFound, Reached, Astray
    <3>4. ReadsAll' /\ ApprovedIsWhole' /\ NothingLoaded' /\ RanWhatWasApproved' /\ AsRead'
      BY <1>1, <3>1, <3>2 DEF BundleInv, ReadsAll, Inspecting, ApprovedIsWhole, FromTheTree,
                              NothingLoaded, RanWhatWasApproved, AsRead, Astray
    <3>5. beyond' \subseteq SourceFiles /\ edited' \in BOOLEAN /\ loaded' \in Digests
      BY <3>2 DEF BundleInv
    <3> QED BY <3>1, <3>2, <3>3, <3>4, <3>5, Unedited DEF BundleInv
  <2> QED BY <2>1, <2>5, <2>6
<1> QED BY <1>2, <1>3

LEMMA PassKeeps ==
    ASSUME BundleInv, ChildPasses
    PROVE  BundleInv'
<1>1. /\ work \in Work /\ work.at = "child"
      /\ UNCHANGED <<approved, loaded, beyond>>
      /\ \A f \in DOMAIN loaded : Reached(f)
      /\ \A f \in DOMAIN loaded : Astray(f) => approved[f] \in former[f]
      /\ beyond' \subseteq SourceFiles /\ loaded' \in Digests
  BY DEF ChildPasses, BundleInv, InStepOrFound
<1>2. CASE work.kind = "cutover"
  <2>1. Inspect("after")
    BY <1>2 DEF ChildPasses
  <2>2. /\ work' \in Work /\ work'.kind = work.kind /\ work'.at = "after"
        /\ work'.pending = EntryPoints[work.kind] /\ work'.seen = NoFiles
        /\ edited' = FALSE /\ UNCHANGED <<tree, former, back>> /\ ReadsAll'
    BY <1>1, <2>1, InspectFields
  <2>3. ApprovedIsWhole' /\ NothingLoaded' /\ RanWhatWasApproved' /\ AsRead'
    BY <1>1, <2>2 DEF BundleInv, ApprovedIsWhole, FromTheTree, NothingLoaded,
                      RanWhatWasApproved, AsRead
  <2>4. InStepOrFound'
    BY <1>1, <2>2, NoFilesIsADigest DEF InStepOrFound, Reached, Astray
  <2>5. edited' \in BOOLEAN
    BY ONLY <2>2
  <2>6. /\ tree' \in [SourceFiles -> 1..Removed] /\ NewOrBack'
        /\ former' \in [SourceFiles -> SUBSET (1..Removed)]
    BY <2>2, Unedited
  <2>7. work'.at = "after" => work'.kind = "cutover"
    BY <1>2, <2>2
  <2> QED BY <1>1, <2>2, <2>3, <2>4, <2>5, <2>6, <2>7 DEF BundleInv
<1>3. CASE work.kind # "cutover"
  <2>1. GoTo("PASS") /\ UNCHANGED edited /\ UNCHANGED <<tree, former, back>>
    BY <1>3 DEF ChildPasses, edits
  <2>2. work' \in Work /\ work'.kind = work.kind /\ work'.at = "PASS"
    BY <1>1, <2>1, GoToFields
  <2>3. ASSUME ~edited
        PROVE  \A f \in DOMAIN loaded : ~Astray(f)
    BY <1>1, <2>3 DEF BundleInv, AsRead
  <2>4. RanWhatWasApproved'
    <3> SUFFICES ASSUME ~edited, NEW f \in DOMAIN loaded
                 PROVE  \/ f \in DOMAIN approved /\ loaded[f] = approved[f]
                        \/ f \notin DOMAIN approved /\ f \in beyond
      BY <1>1, <1>3, <2>1, <2>2 DEF RanWhatWasApproved
    <3>1. Reached(f) /\ ~Astray(f) /\ \A g \in DOMAIN loaded : ~Astray(g)
      BY <1>1, <2>3
    <3> QED BY <3>1 DEF Reached, Astray
  <2>5. ReadsAll' /\ ApprovedIsWhole' /\ NothingLoaded' /\ InStepOrFound' /\ AsRead'
    BY <1>1, <2>1, <2>2 DEF BundleInv, ReadsAll, Inspecting, ApprovedIsWhole, FromTheTree,
                            NothingLoaded, InStepOrFound, AsRead
  <2>6. edited' \in BOOLEAN
    BY <2>1 DEF BundleInv
  <2> QED BY <1>1, <2>1, <2>2, <2>4, <2>5, <2>6, Unedited DEF BundleInv
<1> QED BY <1>2, <1>3

LEMMA CompareKeeps ==
    ASSUME BundleInv, CompareAgain
    PROVE  BundleInv'
<1>1. /\ work \in Work /\ work.at = "after"
      /\ UNCHANGED <<approved, loaded, beyond, edits>>
  BY DEF CompareAgain, Inspected, BundleInv
<1>2. CASE work.seen # approved
  BY <1>1, <1>2, FailingUnedited DEF CompareAgain
<1>3. CASE work.seen = approved
  <2>1. GoTo("PASS") /\ UNCHANGED edited /\ UNCHANGED <<tree, former, back>>
    BY <1>1, <1>3 DEF CompareAgain, edits
  <2>2. work' \in Work /\ work'.kind = work.kind /\ work'.at = "PASS"
    BY <1>1, <2>1, GoToFields
  <2>3. /\ \A f \in DOMAIN loaded : Reached(f)
        /\ \A f \in DOMAIN loaded : Astray(f) => f \in back
    BY <1>1, <1>3 DEF BundleInv, InStepOrFound, Astray
  <2>4. work.kind = "cutover" => RanWhatWasApproved'
    BY <1>1, <2>1, <2>2, <2>3 DEF RanWhatWasApproved, Reached, Astray
  <2>5. ReadsAll' /\ ApprovedIsWhole' /\ NothingLoaded' /\ InStepOrFound' /\ AsRead'
    BY <1>1, <2>1, <2>2 DEF BundleInv, ReadsAll, Inspecting, ApprovedIsWhole, FromTheTree,
                            NothingLoaded, InStepOrFound, AsRead
  <2>6. beyond' \subseteq SourceFiles /\ edited' \in BOOLEAN /\ loaded' \in Digests
    BY <1>1, <2>1 DEF BundleInv
  <2>7. work.kind = "cutover"
    BY <1>1 DEF BundleInv
  <2> QED BY <2>1, <2>2, <2>4, <2>5, <2>6, <2>7, Unedited DEF BundleInv
<1> QED BY <1>2, <1>3

(* An edit: what a file was is not forgotten. *)
LEMMA ChangeKeeps ==
    ASSUME BundleInv, NEW f \in SourceFiles, ChangeSource(f)
    PROVE  BundleInv'
<1>1. /\ Edit(f) /\ UNCHANGED <<approved, loaded, beyond, work>> /\ work \in Work
      /\ beyond \subseteq SourceFiles /\ loaded \in Digests
  BY DEF ChangeSource, BundleInv
<1>2. /\ tree' \in [SourceFiles -> 1..Removed] /\ edited' = TRUE
      /\ former' \in [SourceFiles -> SUBSET (1..Removed)] /\ NewOrBack'
      /\ back \subseteq back'
      /\ \A g \in SourceFiles : former[g] \subseteq former'[g]
  BY <1>1, EditFields
<1>3. ASSUME NEW d \in Digests, FromTheTree(d)
      PROVE  \A g \in DOMAIN d : d[g] = tree'[g] \/ d[g] \in former'[g]
  BY <1>1, <1>3, StillFromTheTree
<1>4. ReadsAll'
  <2>1. work.seen \in Digests
    BY <1>1 DEF Work
  <2>2. Inspecting => \A g \in DOMAIN work.seen :
            work.seen[g] = tree'[g] \/ work.seen[g] \in former'[g]
    BY <1>3, <2>1 DEF BundleInv, ReadsAll
  <2> QED BY <1>1, <2>2 DEF BundleInv, ReadsAll, Inspecting, FromTheTree
<1>5. ApprovedIsWhole'
  <2>1. work.at \notin {"record", "FAIL"} => \A g \in DOMAIN approved :
            approved[g] = tree'[g] \/ approved[g] \in former'[g]
    BY <1>3 DEF BundleInv, ApprovedIsWhole
  <2> QED BY <1>1, <2>1 DEF BundleInv, ApprovedIsWhole, FromTheTree
<1>6. NothingLoaded' /\ AsRead' /\ RanWhatWasApproved'
  BY <1>1, <1>2 DEF BundleInv, NothingLoaded, AsRead, RanWhatWasApproved
<1>7. InStepOrFound'
  <2>1. \A g : /\ Astray(g)' <=> Astray(g)
               /\ Reached(g)' <=> Reached(g)
    BY <1>1 DEF Reached, Astray
  <2>2. \A g \in DOMAIN loaded : g \in SourceFiles
    BY <1>1, DigestShape
  <2> QED BY <1>1, <1>2, <2>1, <2>2 DEF BundleInv, InStepOrFound
<1> QED BY <1>1, <1>2, <1>4, <1>5, <1>6, <1>7 DEF BundleInv

LEMMA BundleStep ==
    ASSUME BundleInv, BundleNext \/ UNCHANGED bundleVars
    PROVE  BundleInv'
<1>1. CASE ReadUnstable
  <2> DEFINE f == Last(work.pending)
  <2>1. /\ work.pending \in Seq(SourceFiles) /\ work.pending # <<>> /\ Edit(f)
        /\ GoTo("FAIL") /\ UNCHANGED <<approved, loaded, beyond>>
    BY <1>1 DEF ReadUnstable, Unread, BundleInv, Work
  <2>2. f \in SourceFiles
    BY <2>1, FrontProperties
  <2> HIDE DEF f
  <2>3. /\ tree' \in [SourceFiles -> 1..Removed] /\ edited' \in BOOLEAN
        /\ former' \in [SourceFiles -> SUBSET (1..Removed)] /\ NewOrBack'
    BY <2>1, <2>2, EditFields
  <2> QED BY <2>1, <2>3, Failing
<1>2. CASE ChildFails
  BY <1>2, FailingUnedited DEF ChildFails
<1>3. CASE UNCHANGED bundleVars
  BY <1>3
     DEF bundleVars, edits, BundleInv, ReadsAll, Inspecting, FromTheTree, NewOrBack,
         ApprovedIsWhole, NothingLoaded, InStepOrFound, Reached, Astray, AsRead,
         RanWhatWasApproved
<1> QED
  BY <1>1, <1>2, <1>3, SkipKeeps, ReadKeeps, RecordKeeps, StartKeeps, LoadKeeps,
     PassKeeps, CompareKeeps, ChangeKeeps
     DEF BundleNext

LEMMA BundleStart ==
    ASSUME BundleInit
    PROVE  BundleInv
<1>1. PICK stage \in DOMAIN EntryPoints :
        work = [kind |-> stage, at |-> "record", pending |-> EntryPoints[stage],
                seen |-> NoFiles]
  BY DEF BundleInit
<1>2. EntryPoints[stage] \in Seq(SourceFiles) /\ NoFiles \in Digests
  BY BundleAssumption, NoFilesIsADigest
<1>3. work \in Work /\ work.at = "record" /\ work.seen = NoFiles
  BY <1>1, <1>2 DEF Work
<1>4. /\ tree \in [SourceFiles -> 1..Removed] /\ loaded = NoFiles /\ edited = FALSE
      /\ beyond = {} /\ former \in [SourceFiles -> SUBSET (1..Removed)] /\ NewOrBack
  BY BundleAssumption DEF BundleInit, Removed, NewOrBack
<1>5. ReadsAll
  BY <1>1, <1>3, NoFilesIsADigest DEF ReadsAll, Scripts, FromTheTree
<1> QED
  BY <1>2, <1>3, <1>4, <1>5
     DEF BundleInv, ApprovedIsWhole, NothingLoaded, InStepOrFound, AsRead,
       RanWhatWasApproved

LEMMA BundleSafe == BundleInv => RanWhatWasApproved
  BY DEF BundleInv

(***************************************************************************)
(* The steps of the gates: what a step knows when it stands at a place,    *)
(* and what is left in production of the runs that went before.            *)
(***************************************************************************)

Try == [run : Tries, step : GateStepNames, at : Places, actor : DOMAIN Actors,
        bad : BOOLEAN, since : Times, refused : BOOLEAN]

(* Each step has its own places. *)
PlacesOfSteps ==
    /\ try.at \in {"copy", "execute", "remove"} => try.step = "provision"
    /\ try.at \in {"password", "code", "wait", "retry"} =>
            try.step \in {"smoke", "idempotency"}
    /\ try.at \in {"reads", "logout"} => try.step = "smoke"
    /\ try.at \in {"write", "answer", "repeat", "count", "clean", "recount", "leave",
                   "rescue"} => try.step = "idempotency"
    /\ try.at = "look" => try.step \in {"logs", "health"}

(* A step that has not ended has not passed, nor has a run to come. *)
NotYetPassed ==
    /\ \A r \in Tries : r > try.run =>
            results[r]["provision"] # "PASS" /\ results[r]["idempotency"] # "PASS"
    /\ try.step = "provision" => results[try.run]["provision"] # "PASS"
    /\ try.step \in {"provision", "smoke", "idempotency"} =>
            results[try.run]["idempotency"] # "PASS"

(* What a step that has seen nothing bad knows of what it started: the     *)
(* transaction of its worker, and its first write, are over.               *)
KnowsItIsOver ==
    /\ try.at = "remove" /\ ~try.bad => workers[try.run] = "done"
    /\ try.at \in {"repeat", "count", "clean", "recount", "leave"} =>
            writes[try.run] = "done"
    /\ try.at = "leave" /\ ~try.bad => marked[try.run] = {}

(* No code of a step of the clock to come has been accepted, and while the *)
(* actor waits none is.                                                    *)
CodesOfThePast ==
    /\ ~try.refused
    /\ try.since <= time
    /\ \A n \in Persons : account[n].counter = None \/ account[n].counter <= time
    /\ try.at \in {"wait", "retry"} =>
            account[Who].counter = None \/ account[Who].counter <= try.since
    /\ try.at = "retry" => try.since < time

GatesInv ==
    /\ GatesTypeOK /\ PlacesOfSteps /\ NotYetPassed /\ KnowsItIsOver
    /\ CodesOfThePast /\ PassLeavesNothing
----------------------------------------------------------------------------
LEMMA AdminIsAnActor ==
    /\ AdminIndex \in DOMAIN Actors /\ Admin \in Persons
    /\ Len(Actors) \in Nat \ {0} /\ DOMAIN Actors = 1..Len(Actors) /\ 1 \in DOMAIN Actors
  BY GateStepsAssumption DEF AdminIndex, Persons

LEMMA WhoIsAPerson ==
    ASSUME try \in Try
    PROVE  Who \in Persons
  BY DEF Who, Persons, Try

LEMMA MoveFields ==
    ASSUME try \in Try, NEW place \in Places, Move(place) \/ MoveBadly(place)
    PROVE  /\ try' \in Try /\ try'.at = place /\ try'.run = try.run
           /\ try'.step = try.step /\ try'.since = try.since
           /\ try'.refused = try.refused /\ try'.actor = try.actor
           /\ Move(place) => try'.bad = try.bad
           /\ MoveBadly(place) => try'.bad = TRUE
  BY DEF Move, MoveBadly, Try

LEMMA ConcludeFields ==
    ASSUME try \in Try, results \in [Tries -> [GateStepNames -> Verdicts]],
           NEW pass \in BOOLEAN, Conclude(pass)
    PROVE  /\ try' \in Try /\ try'.run = try.run /\ try'.since = try.since
           /\ try'.refused = try.refused
           /\ \/ /\ pass /\ try.step = "provision" /\ try'.step = "smoke"
                 /\ try'.at = "password"
              \/ /\ pass /\ try.step = "smoke" /\ try'.step = "idempotency"
                 /\ try'.at = "password"
              \/ /\ pass /\ try.step = "idempotency" /\ try'.step = "logs"
                 /\ try'.at = "look"
              \/ /\ pass /\ try.step = "logs" /\ try'.step = "health"
                 /\ try'.at = "look"
              \/ try'.at = "over" /\ try'.step = try.step /\ (pass => try.step = "health")
<1>1. CASE pass /\ try.step # "health"
  <2>1. try.step \in {"provision", "smoke", "idempotency", "logs"}
    BY <1>1 DEF Try, GateStepNames
  <2> DEFINE next == After[try.step]
  <2>2. /\ next \in GateStepNames /\ Begin[next] \in Places
        /\ try.step = "provision" => next = "smoke" /\ Begin[next] = "password"
        /\ try.step = "smoke" => next = "idempotency" /\ Begin[next] = "password"
        /\ try.step = "idempotency" => next = "logs" /\ Begin[next] = "look"
        /\ try.step = "logs" => next = "health" /\ Begin[next] = "look"
    BY <2>1 DEF After, Begin, GateStepNames, Places
  <2>3. try' = [try EXCEPT !.step = next, !.at = Begin[next], !.bad = FALSE,
                           !.actor = IF next = "idempotency" THEN AdminIndex ELSE 1]
    BY <1>1 DEF Conclude
  <2> HIDE DEF next
  <2> QED BY <1>1, <2>1, <2>2, <2>3, AdminIsAnActor DEF Try
<1>2. CASE ~(pass /\ try.step # "health")
  <2>1. Move("over")
    BY <1>2 DEF Conclude
  <2> QED BY <1>2, <2>1, MoveFields DEF Places
<1> QED BY <1>1, <1>2

LEMMA Concluded ==
    ASSUME try \in Try, results \in [Tries -> [GateStepNames -> Verdicts]],
           NEW result \in Verdicts,
           results' = [results EXCEPT ![try.run][try.step] = result]
    PROVE  /\ results' \in [Tries -> [GateStepNames -> Verdicts]]
           /\ results'[try.run][try.step] = result
           /\ \A r \in Tries, s \in GateStepNames :
                r # try.run \/ s # try.step => results'[r][s] = results[r][s]
<1>1. try.run \in Tries /\ try.step \in GateStepNames
  BY DEF Try
<1>2. results[try.run] \in [GateStepNames -> Verdicts]
  BY <1>1
<1>3. results' = [results EXCEPT ![try.run] = [results[try.run] EXCEPT ![try.step] = result]]
  OBVIOUS
<1>4. [results[try.run] EXCEPT ![try.step] = result] \in [GateStepNames -> Verdicts]
  BY <1>1, <1>2
<1>5. results'[try.run] = [results[try.run] EXCEPT ![try.step] = result]
  BY <1>1, <1>3
<1> QED BY <1>1, <1>2, <1>3, <1>4, <1>5

LEMMA ConcludedSo ==
    ASSUME try \in Try, results \in [Tries -> [GateStepNames -> Verdicts]],
           NEW pass \in BOOLEAN, Conclude(pass)
    PROVE  /\ results' \in [Tries -> [GateStepNames -> Verdicts]]
           /\ results'[try.run][try.step] = (IF pass THEN "PASS" ELSE "FAIL")
           /\ \A r \in Tries, s \in GateStepNames :
                r # try.run \/ s # try.step => results'[r][s] = results[r][s]
<1>1. (IF pass THEN "PASS" ELSE "FAIL") \in Verdicts
  BY DEF Verdicts
<1>2. results' = [results EXCEPT ![try.run][try.step] = IF pass THEN "PASS" ELSE "FAIL"]
  BY DEF Conclude
<1> QED BY <1>1, <1>2, Concluded

----------------------------------------------------------------------------
(* The steps in groups: those that only move within their step, those that *)
(* conclude it, and those of the server and the container.                 *)
Moving ==
    \/ ExecuteWorker \/ WorkerAnswers \/ Password \/ Code \/ AwaitNextStep \/ SecondCode
    \/ Reads \/ FirstWrite \/ Answer \/ Repeat \/ CountRows \/ Clean \/ Recount
    \/ AnsweredByError

Concluding(pass) ==
    \/ RemoveWorker /\ Conclude(pass) /\ (pass => ~try.bad /\ copies' = copies \ {try.run})
    \/ CopyWorker /\ ~pass /\ Conclude(pass)
    \/ SmokeLogout /\ Conclude(pass)
    \/ Leave /\ Conclude(pass) /\ (pass => ~try.bad)
    \/ Rescue /\ ~pass /\ Conclude(pass)
    \/ (ReadLogs \/ ReadHealth) /\ Conclude(pass)
    \/ RequestTimesOut /\ ~pass /\ Conclude(pass)
    \/ (WindowClosed \/ InputsRefused) /\ ~pass /\ Conclude(pass)

Elsewhere ==
    \E r \in Tries : WorkerCommits(r) \/ WorkerFails(r) \/ ServerTakesKey(r)
                     \/ ServerWrites(r) \/ ServerFails(r)

(* A copy that succeeds, and the logout of an actor that is not the last,  *)
(* move; a request that times out after the smoke test does as well.       *)
MovingOn ==
    \/ CopyWorker /\ Move("execute") /\ UNCHANGED results
    \/ SmokeLogout /\ UNCHANGED results /\ try.actor < Len(Actors)
    \/ RequestTimesOut /\ try.step = "idempotency" /\ MoveBadly("rescue") /\ UNCHANGED results

LEMMA GroupsOfSteps ==
    ASSUME GatesInv, GatesNext
    PROVE  \/ Moving \/ MovingOn \/ (\E pass \in BOOLEAN : Concluding(pass)) \/ Elsewhere
           \/ KillStep \/ TryAgain \/ (TimePasses /\ UNCHANGED gateVars)
<1>1. try.bad \in BOOLEAN
  BY DEF GatesInv, GatesTypeOK
<1>2. ASSUME CopyWorker \/ SmokeLogout \/ RequestTimesOut
      PROVE  MovingOn \/ \E pass \in BOOLEAN : Concluding(pass)
  <2>1. CASE CopyWorker
    BY <2>1 DEF CopyWorker, MovingOn, Concluding
  <2>2. CASE RequestTimesOut
    BY <2>2 DEF RequestTimesOut, MovingOn, Concluding
  <2>3. CASE SmokeLogout
    <3> DEFINE pass == ~(try.bad \/ ~account[Who].session)
    <3>1. CASE try.actor < Len(Actors)
      BY <2>3, <3>1 DEF SmokeLogout, MovingOn
    <3>2. CASE ~(try.actor < Len(Actors))
      <4>1. Conclude(pass) /\ pass \in BOOLEAN
        BY <2>3, <3>2 DEF SmokeLogout
      <4> HIDE DEF pass
      <4> QED BY <2>3, <4>1 DEF Concluding
    <3> QED BY <3>1, <3>2
  <2> QED BY <1>2, <2>1, <2>2, <2>3
<1>3. ASSUME RemoveWorker
      PROVE  \E pass \in BOOLEAN : Concluding(pass)
  <2>1. CASE copies' = copies \ {try.run} /\ Conclude(~try.bad)
    <3>1. Concluding(~try.bad)
      BY <1>3, <2>1 DEF Concluding
    <3> QED BY <3>1
  <2>2. CASE Conclude(FALSE)
    BY <1>3, <2>2 DEF Concluding
  <2> QED BY <1>3, <2>1, <2>2 DEF RemoveWorker
<1>4. ASSUME Leave \/ Rescue
      PROVE  \E pass \in BOOLEAN : Concluding(pass)
  <2>1. CASE Leave
    <3> DEFINE pass == ~try.bad /\ account[Admin].session
    <3>1. pass \in BOOLEAN /\ Conclude(pass) /\ (pass => ~try.bad)
      BY <2>1 DEF Leave
    <3> HIDE DEF pass
    <3> QED BY <2>1, <3>1 DEF Concluding
  <2>2. CASE Rescue
    BY <2>2 DEF Rescue, Concluding
  <2> QED BY <1>4, <2>1, <2>2
<1>5. ASSUME ReadLogs \/ ReadHealth \/ WindowClosed \/ InputsRefused
      PROVE  \E pass \in BOOLEAN : Concluding(pass)
  <2>1. CASE ReadLogs
    BY <2>1 DEF ReadLogs, Concluding, CleanLogs
  <2>2. CASE ReadHealth
    BY <2>2 DEF ReadHealth, Concluding, Healthy
  <2>3. CASE WindowClosed \/ InputsRefused
    BY <2>3 DEF WindowClosed, InputsRefused, Concluding
  <2> QED BY <1>5, <2>1, <2>2, <2>3
<1> QED BY <1>2, <1>3, <1>4, <1>5 DEF GatesNext, Moving, Elsewhere

(* What the steps make of the run. *)
LEMMA TryOfMoving ==
    ASSUME GatesInv, time \in Times, Moving \/ MovingOn
    PROVE  /\ try' \in Try /\ try'.run = try.run /\ try'.step = try.step
           /\ results' = results /\ PlacesOfSteps'
<1> USE DEF GatesInv, GatesTypeOK
<1>1. try \in Try
  BY DEF Try
<1>2. CASE ExecuteWorker
  BY <1>1, <1>2 DEF ExecuteWorker, PlacesOfSteps
<1>3. CASE \/ WorkerAnswers \/ AwaitNextStep \/ Reads \/ FirstWrite \/ Answer \/ Repeat
           \/ CountRows \/ Clean \/ Recount
  <2>1. PICK place \in {"remove", "retry", "logout", "answer", "rescue", "repeat",
                        "count",
                        "clean", "recount", "leave"} :
            /\ Move(place) \/ MoveBadly(place)
            /\ place = "remove" => try.step = "provision"
            /\ place = "retry" => try.at = "wait"
            /\ place = "logout" => try.step = "smoke"
            /\ place \notin {"remove", "retry", "logout"} => try.step = "idempotency"
    BY <1>3 DEF WorkerAnswers, AwaitNextStep, Reads, FirstWrite, Answer, Repeat,
         CountRows,
                Clean, Recount, At
  <2>2. /\ try' \in Try /\ try'.run = try.run /\ try'.step = try.step /\ try'.at = place
    BY <1>1, <2>1, MoveFields DEF Places
  <2>3. results' = results
    BY <1>3 DEF WorkerAnswers, AwaitNextStep, Reads, FirstWrite, Answer, Repeat,
         CountRows,
                Clean, Recount
  <2>4. PlacesOfSteps'
    BY <2>1, <2>2 DEF PlacesOfSteps
  <2> QED BY <2>2, <2>3, <2>4
<1>4. CASE Password \/ AnsweredByError
  <2>1. PICK place \in {"code", "logout", "rescue"} :
            /\ Move(place) \/ MoveBadly(place)
            /\ place = "code" => try.at = "password"
            /\ place = "logout" => try.step = "smoke"
            /\ place = "rescue" => try.step # "smoke"
    BY <1>4 DEF Password, AnsweredByError
  <2>2. try.step \in {"smoke", "idempotency"}
    BY <1>4 DEF Password, AnsweredByError, PlacesOfSteps
  <2>3. /\ try' \in Try /\ try'.run = try.run /\ try'.step = try.step /\ try'.at = place
    BY <1>1, <2>1, MoveFields DEF Places
  <2>4. results' = results
    BY <1>4 DEF Password, AnsweredByError
  <2>5. PlacesOfSteps'
    BY <2>1, <2>2, <2>3 DEF PlacesOfSteps
  <2> QED BY <2>3, <2>4, <2>5
<1>5. CASE Code \/ SecondCode
  <2>1. try.step \in {"smoke", "idempotency"}
    BY <1>5 DEF Code, SecondCode, PlacesOfSteps
  <2>2. results' = results
    BY <1>5 DEF Code, SecondCode
  <2>3. CASE LogIn
    <3>1. PICK place \in {"reads", "write"} :
            /\ Move(place)
            /\ place = "reads" => try.step = "smoke"
            /\ place = "write" => try.step # "smoke"
      BY <2>3 DEF LogIn
    <3>2. /\ try' \in Try /\ try'.run = try.run /\ try'.step = try.step /\ try'.at = place
      BY <1>1, <3>1, MoveFields DEF Places
    <3>3. PlacesOfSteps'
      BY <2>1, <3>1, <3>2 DEF PlacesOfSteps
    <3> QED BY <2>2, <3>2, <3>3
  <2>4. CASE try' = [try EXCEPT !.at = "wait", !.since = time] /\ Code
    <3>1. /\ try' \in Try /\ try'.run = try.run /\ try'.step = try.step /\ try'.at = "wait"
      BY <1>1, <2>4 DEF Try, Places
    <3> QED BY <2>1, <2>2, <3>1 DEF PlacesOfSteps
  <2>5. CASE SecondCode /\ ~LogIn
    <3>1. try' = [try EXCEPT !.refused = TRUE, !.bad = TRUE,
                        !.at = IF try.step = "smoke" THEN "reads" ELSE "rescue"]
      BY <2>5 DEF SecondCode
    <3>2. /\ try' \in Try /\ try'.run = try.run /\ try'.step = try.step
          /\ try'.at = (IF try.step = "smoke" THEN "reads" ELSE "rescue")
      BY <1>1, <3>1 DEF Try, Places
    <3> QED BY <2>1, <2>2, <3>2 DEF PlacesOfSteps
  <2> QED BY <1>5, <2>3, <2>4, <2>5 DEF Code
<1>6. CASE MovingOn
  <2>1. CASE \/ CopyWorker /\ Move("execute") /\ UNCHANGED results
             \/ /\ RequestTimesOut /\ try.step = "idempotency" /\ MoveBadly("rescue")
                /\ UNCHANGED results
    <3>1. \/ Move("execute") /\ try.step = "provision"
          \/ MoveBadly("rescue") /\ try.step = "idempotency"
      BY <2>1 DEF CopyWorker, At
    <3>2. PICK place \in {"execute", "rescue"} :
            /\ Move(place) \/ MoveBadly(place)
            /\ place = "execute" => try.step = "provision"
            /\ place = "rescue" => try.step = "idempotency"
      BY <3>1
    <3>3. /\ try' \in Try /\ try'.run = try.run /\ try'.step = try.step /\ try'.at = place
      BY <1>1, <3>2, MoveFields DEF Places
    <3>4. PlacesOfSteps'
      BY <3>2, <3>3 DEF PlacesOfSteps
    <3> QED BY <2>1, <3>3, <3>4
  <2>2. CASE SmokeLogout /\ UNCHANGED results /\ try.actor < Len(Actors)
    <3>1. PICK bad \in BOOLEAN :
            try' = [try EXCEPT !.at = "password", !.actor = @ + 1, !.bad = bad]
      BY <2>2 DEF SmokeLogout
    <3>2. try.step = "smoke" /\ try.actor + 1 \in DOMAIN Actors
      BY <1>1, <2>2, AdminIsAnActor DEF SmokeLogout, At, Try
    <3>3. /\ try' \in Try /\ try'.run = try.run /\ try'.step = try.step
          /\ try'.at = "password"
      BY <1>1, <3>1, <3>2 DEF Try, Places
    <3> QED BY <2>2, <3>2, <3>3 DEF PlacesOfSteps
  <2> QED BY <1>6, <2>1, <2>2 DEF MovingOn
<1> QED BY <1>2, <1>3, <1>4, <1>5, <1>6 DEF Moving

LEMMA TryOfConcluding ==
    ASSUME GatesInv, NEW pass \in BOOLEAN, Conclude(pass)
    PROVE  try' \in Try /\ PlacesOfSteps'
<1>1. try \in Try /\ results \in [Tries -> [GateStepNames -> Verdicts]]
  BY DEF GatesInv, GatesTypeOK, Try
<1> QED BY <1>1, ConcludeFields DEF PlacesOfSteps

LEMMA TryOfTheRest ==
    ASSUME GatesInv, time \in Times, KillStep \/ TryAgain
    PROVE  /\ try' \in Try /\ PlacesOfSteps'
           /\ KillStep => try'.run = try.run /\ try'.step = try.step /\ try'.at = "over"
           /\ TryAgain => /\ try'.run = try.run + 1 /\ try'.step = "provision"
                          /\ try'.at = "copy"
           /\ try'.since = try.since /\ try'.refused = try.refused
<1>1. try \in Try
  BY DEF GatesInv, GatesTypeOK, Try
<1>2. CASE KillStep
  <2>1. Move("over") /\ "over" \in Places /\ ~TryAgain
    BY <1>2 DEF KillStep, TryAgain, Places
  <2> QED BY <1>1, <1>2, <2>1, MoveFields DEF PlacesOfSteps
<1>3. CASE TryAgain
  <2>1. try.run + 1 \in Tries
    BY <1>1, <1>3, GateStepsAssumption DEF TryAgain, Try, Tries
  <2>2. try' = [try EXCEPT !.run = try.run + 1, !.step = "provision", !.at = "copy",
                          !.actor = 1, !.bad = FALSE]
    BY <1>3 DEF TryAgain
  <2>3. "provision" \in GateStepNames /\ "copy" \in Places
    BY DEF GateStepNames, Places
  <2>4. /\ try' \in Try /\ try'.run = try.run + 1 /\ try'.step = "provision"
        /\ try'.at = "copy" /\ try'.since = try.since /\ try'.refused = try.refused
    BY <1>1, <2>1, <2>2, <2>3, AdminIsAnActor DEF Try
  <2>5. ~KillStep
    BY <1>3 DEF KillStep, TryAgain
  <2> QED BY <2>4, <2>5 DEF PlacesOfSteps
<1> QED BY <1>2, <1>3 DEF KillStep, TryAgain

----------------------------------------------------------------------------
(* What the steps make of the verdicts. *)
LEMMA VerdictsKept ==
    ASSUME GatesInv, time \in Times, GatesNext
    PROVE  results' \in [Tries -> [GateStepNames -> Verdicts]] /\ NotYetPassed'
<1>1. /\ try \in Try /\ results \in [Tries -> [GateStepNames -> Verdicts]]
      /\ NotYetPassed /\ try.run \in Nat /\ Tries \subseteq Nat
  BY DEF GatesInv, GatesTypeOK, Try, Tries
<1>2. CASE Moving \/ MovingOn
  BY <1>1, <1>2, TryOfMoving DEF NotYetPassed
<1>3. CASE \E pass \in BOOLEAN : Concluding(pass)
  <2>1. PICK pass \in BOOLEAN : Conclude(pass)
    BY <1>3 DEF Concluding
  <2>2. "provision" \in GateStepNames /\ "idempotency" \in GateStepNames
    BY DEF GateStepNames
  <2>3. /\ results' \in [Tries -> [GateStepNames -> Verdicts]]
        /\ try'.run = try.run /\ try.run \in Tries
        /\ \A r \in Tries, s \in GateStepNames :
                r # try.run \/ s # try.step => results'[r][s] = results[r][s]
        /\ ~pass => results'[try.run][try.step] # "PASS"
    BY <1>1, <2>1, ConcludeFields, ConcludedSo DEF Try
  <2>4. \/ ~pass /\ try'.step = try.step
        \/ try.step = "provision" /\ try'.step = "smoke"
        \/ try.step = "smoke" /\ try'.step = "idempotency"
        \/ try'.step \in {"logs", "health"}
    BY <1>1, <2>1, ConcludeFields
  <2>5. ASSUME NEW r \in Tries, r > try'.run
        PROVE  results'[r]["provision"] # "PASS" /\ results'[r]["idempotency"] # "PASS"
    BY <1>1, <2>2, <2>3, <2>5 DEF NotYetPassed
  <2>6. try'.step = "provision" => results'[try'.run]["provision"] # "PASS"
    BY <1>1, <2>2, <2>3, <2>4 DEF NotYetPassed
  <2>7. try'.step \in {"provision", "smoke", "idempotency"} =>
            results'[try'.run]["idempotency"] # "PASS"
    BY <1>1, <2>2, <2>3, <2>4 DEF NotYetPassed
  <2> QED BY <2>3, <2>5, <2>6, <2>7 DEF NotYetPassed
<1>4. CASE Elsewhere \/ (TimePasses /\ UNCHANGED gateVars)
  <2>1. UNCHANGED <<try, results>>
    BY <1>4 DEF Elsewhere, WorkerCommits, WorkerFails, ServerTakesKey, ServerWrites,
                ServerFails, gateVars
  <2> QED BY <1>1, <2>1 DEF NotYetPassed
<1>5. CASE KillStep
  <2>1. results' = [results EXCEPT ![try.run][try.step] = "killed"] /\ "killed" \in Verdicts
    BY <1>5 DEF KillStep, Verdicts
  <2>2. "provision" \in GateStepNames /\ "idempotency" \in GateStepNames
    BY DEF GateStepNames
  <2>3. /\ results' \in [Tries -> [GateStepNames -> Verdicts]]
        /\ try.run \in Tries /\ results'[try.run][try.step] # "PASS"
        /\ \A r \in Tries, s \in GateStepNames :
                r # try.run \/ s # try.step => results'[r][s] = results[r][s]
    BY <1>1, <2>1, Concluded DEF Try
  <2>4. try'.run = try.run /\ try'.step = try.step
    BY <1>5, TryOfTheRest
  <2> QED BY <1>1, <2>2, <2>3, <2>4 DEF NotYetPassed
<1>6. CASE TryAgain
  <2>1. results' = results
    BY <1>6 DEF TryAgain
  <2>2. try'.run = try.run + 1 /\ try'.run \in Tries
    BY <1>6, TryOfTheRest DEF Try
  <2> QED BY <1>1, <2>1, <2>2 DEF NotYetPassed
<1> QED BY <1>2, <1>3, <1>4, <1>5, <1>6, GroupsOfSteps

----------------------------------------------------------------------------
(* What the steps make of production. *)
Account == [counter : Times \cup {None}, session : BOOLEAN, logins : 0..MaxAttempts]

LEMMA CounterField ==
    ASSUME NEW old \in Account, NEW c \in Times \cup {None}
    PROVE  /\ [old EXCEPT !.counter = c] \in Account
           /\ [old EXCEPT !.counter = c].counter = c
  BY DEF Account

LEMMA SessionField ==
    ASSUME NEW old \in Account, NEW b \in BOOLEAN
    PROVE  /\ [old EXCEPT !.session = b] \in Account
           /\ [old EXCEPT !.session = b].counter = old.counter
  BY DEF Account

LEMMA LoginsField ==
    ASSUME NEW old \in Account, NEW n \in 0..MaxAttempts
    PROVE  /\ [old EXCEPT !.logins = n] \in Account
           /\ [old EXCEPT !.logins = n].counter = old.counter
  BY DEF Account

LEMMA CodeFields ==
    ASSUME NEW old \in Account, NEW c \in Times \cup {None}, NEW b \in BOOLEAN
    PROVE  /\ [old EXCEPT !.counter = c, !.session = b] \in Account
           /\ [old EXCEPT !.counter = c, !.session = b].counter = c
  BY DEF Account

(* A step changes the account of one actor, or has the worker change all:  *)
(* a code is kept, accepted now, or forgotten.                             *)
LEMMA AccountKept ==
    ASSUME GatesInv, time \in Times, GatesNext
    PROVE  /\ account' \in [Persons -> Account]
           /\ \A n \in Persons :
                \/ account'[n].counter = account[n].counter
                \/ account'[n].counter = None
                \/ try.at \in {"code", "retry"} /\ account'[n].counter = time
<1>1. account \in [Persons -> Account] /\ try \in Try /\ Admin \in Persons /\ Who \in Persons
  BY AdminIsAnActor, WhoIsAPerson DEF GatesInv, GatesTypeOK, Account, Try
<1>2. CASE account' = account
  BY <1>1, <1>2
<1>3. CASE Password
  <2>1. CASE account[Who].logins < MaxAttempts
    <3> DEFINE n == account[Who].logins + 1
    <3>1. n \in 0..MaxAttempts /\ account[Who] \in Account
      BY <1>1, <2>1, GateStepsAssumption DEF Account
    <3>2. account' = [account EXCEPT ![Who].logins = n]
      BY <1>1, <1>3, <2>1, GateStepsAssumption DEF Password, Account
    <3> HIDE DEF n
    <3>3. account' = [account EXCEPT ![Who] = [account[Who] EXCEPT !.logins = n]]
      BY <3>2
    <3>4. /\ [account[Who] EXCEPT !.logins = n] \in Account
          /\ [account[Who] EXCEPT !.logins = n].counter = account[Who].counter
      BY <3>1, LoginsField
    <3> QED BY <1>1, <3>3, <3>4
  <2>2. CASE ~(account[Who].logins < MaxAttempts)
    BY <1>2, <1>3, <2>2 DEF Password
  <2> QED BY <2>1, <2>2
<1>4. CASE LogIn /\ try.at \in {"code", "retry"}
  <2>1. account' = [account EXCEPT ![Who] = [account[Who] EXCEPT !.counter = time,
                                                                 !.session = TRUE]]
    BY <1>4 DEF LogIn
  <2>2. account[Who] \in Account
    BY <1>1
  <2>3. /\ [account[Who] EXCEPT !.counter = time, !.session = TRUE] \in Account
        /\ [account[Who] EXCEPT !.counter = time, !.session = TRUE].counter = time
    BY <2>2, CodeFields
  <2> QED BY <1>1, <1>4, <2>1, <2>3
<1>5. ASSUME NEW who \in Persons,
             account' = [account EXCEPT ![who].session = FALSE]
      PROVE  /\ account' \in [Persons -> Account]
             /\ \A n \in Persons : account'[n].counter = account[n].counter
  <2>1. account' = [account EXCEPT ![who] = [account[who] EXCEPT !.session = FALSE]]
    BY <1>5
  <2>2. account[who] \in Account
    BY <1>1
  <2>3. /\ [account[who] EXCEPT !.session = FALSE] \in Account
        /\ [account[who] EXCEPT !.session = FALSE].counter = account[who].counter
    BY <2>2, SessionField
  <2> QED BY <1>1, <2>1, <2>3
<1>6. CASE RequestTimesOut
  <2>1. CASE account' = [account EXCEPT ![Who].session = FALSE]
    BY <1>1, <1>5, <2>1
  <2>2. CASE /\ account' = [account EXCEPT ![Who].counter = time]
             /\ try.at \in {"code", "retry"}
    <3>1. account' = [account EXCEPT ![Who] = [account[Who] EXCEPT !.counter = time]]
      BY <2>2
    <3>2. account[Who] \in Account
      BY <1>1
    <3>3. /\ [account[Who] EXCEPT !.counter = time] \in Account
          /\ [account[Who] EXCEPT !.counter = time].counter = time
      BY <3>2, CounterField
    <3> QED BY <1>1, <2>2, <3>1, <3>3
  <2> QED BY <1>2, <1>6, <2>1, <2>2 DEF RequestTimesOut
<1>7. CASE \E r \in Tries : WorkerCommits(r)
  <2>1. account' = [n \in Persons |->
                        [account[n] EXCEPT !.counter = None, !.session = FALSE]]
    BY <1>7 DEF WorkerCommits
  <2>2. ASSUME NEW n \in Persons
        PROVE  /\ [account[n] EXCEPT !.counter = None, !.session = FALSE] \in Account
               /\ [account[n] EXCEPT !.counter = None, !.session = FALSE].counter = None
    <3>1. account[n] \in Account
      BY <1>1
    <3> QED BY <3>1, CodeFields
  <2> QED BY <2>1, <2>2
<1>8. CASE SmokeLogout \/ Leave \/ Rescue
  <2>1. \/ account' = account
        \/ account' = [account EXCEPT ![Who].session = FALSE]
        \/ account' = [account EXCEPT ![Admin].session = FALSE]
    BY <1>8 DEF SmokeLogout, Leave, Rescue
  <2> QED BY <1>1, <1>2, <1>5, <2>1
<1>9. CASE Code \/ SecondCode
  BY <1>2, <1>4, <1>9 DEF Code, SecondCode
<1>10. CASE \/ CopyWorker \/ ExecuteWorker \/ WorkerAnswers \/ RemoveWorker
            \/ AwaitNextStep \/ Reads \/ FirstWrite \/ Answer \/ Repeat \/ CountRows \/ Clean
            \/ Recount
  BY <1>2, <1>10 DEF CopyWorker, ExecuteWorker, WorkerAnswers, RemoveWorker,
       AwaitNextStep,
         Reads, FirstWrite, Answer, Repeat, CountRows, Clean, Recount, inProduction
<1>11. CASE \/ ReadLogs \/ ReadHealth \/ AnsweredByError \/ WindowClosed \/ InputsRefused
            \/ KillStep \/ TryAgain \/ (TimePasses /\ UNCHANGED gateVars)
            \/ \E r \in Tries : WorkerFails(r) \/ ServerTakesKey(r)
                                \/ ServerWrites(r) \/ ServerFails(r)
  BY <1>2, <1>11 DEF ReadLogs, ReadHealth, AnsweredByError, WindowClosed, InputsRefused,
         KillStep, TryAgain, gateVars, inProduction, WorkerFails, ServerTakesKey,
         ServerWrites, ServerFails
<1> QED
  BY <1>3, <1>6, <1>7, <1>8, <1>9, <1>10, <1>11 DEF GatesNext

(* What lies in production of a run: only the step that is about it, the   *)
(* transaction that goes on and the server touch it.                       *)
LEMMA ProductionKept ==
    ASSUME GatesInv, GatesNext
    PROVE  /\ workers' \in [Tries -> {"none", "running", "done", "failed"}]
           /\ copies' \subseteq Tries
           /\ writes' \in [Tries -> {"none", "sent", "keyed", "done", "failed"}]
           /\ marked' \in [Tries -> SUBSET {"key", "asset"}]
           /\ errors' \in BOOLEAN
           /\ copies' \subseteq copies
                \/ (try.step = "provision" /\ copies' \subseteq copies \cup {try.run})
           /\ \A r \in Tries :
                /\ \/ workers'[r] = workers[r]
                   \/ workers[r] = "running"
                   \/ workers[r] = "none" /\ try.at = "execute" /\ r = try.run
                /\ \/ writes'[r] = writes[r]
                   \/ writes[r] \in {"sent", "keyed"}
                   \/ try.step = "idempotency" /\ r = try.run
                /\ \/ marked'[r] = marked[r]
                   \/ marked'[r] = {}
                   \/ writes[r] \in {"sent", "keyed"}
                   \/ try.step = "idempotency" /\ r = try.run
<1>1. /\ try \in Try /\ try.run \in Tries
      /\ workers \in [Tries -> {"none", "running", "done", "failed"}]
      /\ copies \subseteq Tries
      /\ writes \in [Tries -> {"none", "sent", "keyed", "done", "failed"}]
      /\ marked \in [Tries -> SUBSET {"key", "asset"}]
      /\ errors \in BOOLEAN
      /\ PlacesOfSteps
  BY DEF GatesInv, GatesTypeOK, Try
<1>2. CASE CopyWorker \/ RemoveWorker
  BY <1>1, <1>2 DEF CopyWorker, RemoveWorker, At
<1>3. CASE ExecuteWorker \/ \E r \in Tries : WorkerCommits(r) \/ WorkerFails(r)
  BY <1>1, <1>3 DEF ExecuteWorker, WorkerCommits, WorkerFails, At
<1>4. CASE UNCHANGED <<workers, copies, writes, marked>> /\ errors' \in BOOLEAN
  BY <1>1, <1>4
<1>5. CASE FirstWrite
  BY <1>1, <1>5 DEF FirstWrite, At
<1>6. CASE \E r \in Tries : ServerTakesKey(r) \/ ServerWrites(r) \/ ServerFails(r)
  <2>1. PICK r \in Tries : ServerTakesKey(r) \/ ServerWrites(r) \/ ServerFails(r)
    BY <1>6
  <2>2. UNCHANGED <<workers, copies>> /\ errors' \in BOOLEAN
    BY <1>1, <2>1 DEF ServerTakesKey, ServerWrites, ServerFails
  <2>3. /\ writes[r] \in {"sent", "keyed"}
        /\ writes' \in [Tries -> {"none", "sent", "keyed", "done", "failed"}]
        /\ \A q \in Tries : q # r => writes'[q] = writes[q]
    BY <1>1, <2>1 DEF ServerTakesKey, ServerWrites, ServerFails
  <2>4. PICK left \in SUBSET {"key", "asset"} : marked' = [marked EXCEPT ![r] = left]
    <3>1. marked[r] \subseteq {"key", "asset"}
      BY <1>1
    <3> QED BY <1>1, <2>1, <3>1 DEF ServerTakesKey, ServerWrites, ServerFails
  <2>5. /\ marked' \in [Tries -> SUBSET {"key", "asset"}]
        /\ \A q \in Tries : q # r => marked'[q] = marked[q]
    BY <1>1, <2>4
  <2> QED BY <1>1, <2>2, <2>3, <2>5
<1>7. CASE Answer \/ Clean \/ Rescue
  <2>1. UNCHANGED <<workers, copies, writes, errors>> /\ try.step = "idempotency"
    BY <1>7 DEF Answer, Clean, Rescue, At
  <2>2. \/ marked' = marked
        \/ marked' = [marked EXCEPT ![try.run] = {}]
        \/ marked' = [marked EXCEPT ![try.run] = {"key", "asset"}]
    BY <1>7 DEF Answer, Clean, Rescue
  <2> QED BY <1>1, <2>1, <2>2
<1>8. CASE RequestTimesOut
  <2>1. UNCHANGED <<workers, copies, marked, errors>>
    BY <1>8 DEF RequestTimesOut
  <2>2. writes' = writes
          \/ (try.at = "repeat" /\ writes' = [writes EXCEPT ![try.run] = "sent"])
    BY <1>8 DEF RequestTimesOut
  <2> QED BY <1>1, <2>1, <2>2 DEF PlacesOfSteps
<1>9. CASE \/ WorkerAnswers \/ Password \/ Code \/ AwaitNextStep \/ SecondCode \/ Reads
           \/ SmokeLogout \/ Repeat \/ CountRows \/ Recount \/ Leave \/ ReadLogs
  BY <1>1, <1>4, <1>9
     DEF WorkerAnswers, Password, Code, AwaitNextStep, SecondCode, Reads, SmokeLogout,
         Repeat, CountRows, Recount, Leave, ReadLogs, inProduction
<1>10. CASE \/ ReadHealth \/ AnsweredByError \/ WindowClosed \/ InputsRefused
            \/ KillStep \/ TryAgain \/ (TimePasses /\ UNCHANGED gateVars)
  BY <1>1, <1>4, <1>10
     DEF ReadHealth, AnsweredByError, WindowClosed, InputsRefused, KillStep, TryAgain,
         gateVars, inProduction
<1> QED
  BY <1>2, <1>3, <1>5, <1>6, <1>7, <1>8, <1>9, <1>10 DEF GatesNext

----------------------------------------------------------------------------
LEMMA KnowledgeKept ==
    ASSUME GatesInv, time \in Times, GatesNext
    PROVE  KnowsItIsOver'
<1>1. /\ try \in Try /\ try.run \in Tries /\ KnowsItIsOver /\ PlacesOfSteps
      /\ results \in [Tries -> [GateStepNames -> Verdicts]]
      /\ workers \in [Tries -> {"none", "running", "done", "failed"}]
      /\ writes \in [Tries -> {"none", "sent", "keyed", "done", "failed"}]
      /\ marked \in [Tries -> SUBSET {"key", "asset"}]
  BY DEF GatesInv, GatesTypeOK, Try
<1>2. CASE WorkerAnswers
  <2>1. \/ Move("remove") /\ workers[try.run] = "done"
        \/ MoveBadly("remove")
    BY <1>2 DEF WorkerAnswers
  <2>2. try'.at = "remove" /\ try'.run = try.run /\ (try'.bad = FALSE => workers[try.run] = "done")
    BY <1>1, <2>1, MoveFields DEF Places
  <2>3. workers' = workers
    BY <1>2 DEF WorkerAnswers, inProduction
  <2> QED BY <2>2, <2>3 DEF KnowsItIsOver
<1>3. CASE Answer
  <2>1. \/ Move("repeat") /\ writes[try.run] = "done"
        \/ MoveBadly("rescue")
    BY <1>3 DEF Answer
  <2>2. /\ try'.at \in {"repeat", "rescue"} /\ try'.run = try.run
        /\ try'.at = "repeat" => writes[try.run] = "done"
    BY <1>1, <2>1, MoveFields DEF Places
  <2>3. writes' = writes
    BY <1>3 DEF Answer
  <2> QED BY <2>2, <2>3 DEF KnowsItIsOver
<1>4. CASE Repeat \/ CountRows \/ Clean
  <2>1. PICK place \in {"count", "clean", "recount", "rescue"} :
            Move(place) \/ MoveBadly(place)
    BY <1>4 DEF Repeat, CountRows, Clean
  <2>2. try'.at = place /\ try'.run = try.run
    <3>1. place \in Places
      BY DEF Places
    <3> QED BY <1>1, <2>1, <3>1, MoveFields
  <2>3. writes[try.run] = "done" /\ writes' = writes
    BY <1>1, <1>4 DEF Repeat, CountRows, Clean, At, KnowsItIsOver, inProduction
  <2> QED BY <2>2, <2>3 DEF KnowsItIsOver
<1>5. CASE Recount
  <2>1. \/ Move("leave") /\ marked[try.run] = {}
        \/ MoveBadly("leave")
    BY <1>5 DEF Recount
  <2>2. /\ try'.at = "leave" /\ try'.run = try.run
        /\ try'.bad = FALSE => marked[try.run] = {}
    BY <1>1, <2>1, MoveFields DEF Places
  <2>3. writes[try.run] = "done" /\ writes' = writes /\ marked' = marked
    BY <1>1, <1>5 DEF Recount, At, KnowsItIsOver, inProduction
  <2> QED BY <2>2, <2>3 DEF KnowsItIsOver
<1>6. CASE Elsewhere
  <2>1. try' = try
    BY <1>6 DEF Elsewhere, WorkerCommits, WorkerFails, ServerTakesKey, ServerWrites,
                ServerFails
  <2>2. \A r \in Tries : /\ workers[r] = "done" => workers'[r] = "done"
                         /\ writes[r] = "done" => writes'[r] = "done" /\ marked'[r] = marked[r]
    BY <1>1, <1>6 DEF Elsewhere, WorkerCommits, WorkerFails, ServerTakesKey,
         ServerWrites,
                ServerFails
  <2> QED BY <1>1, <2>1, <2>2 DEF KnowsItIsOver
<1>7. CASE try' = try /\ UNCHANGED <<workers, writes, marked>>
  BY <1>1, <1>7 DEF KnowsItIsOver
<1>8. CASE try'.at \notin {"remove", "repeat", "count", "clean", "recount", "leave"}
  BY <1>8 DEF KnowsItIsOver
<1>9. CASE ExecuteWorker \/ (TimePasses /\ UNCHANGED gateVars)
  <2>1. CASE ExecuteWorker
    <3>1. try' = try /\ try.at = "execute"
      BY <2>1 DEF ExecuteWorker, At
    <3> QED BY <1>8, <3>1
  <2> QED BY <1>7, <1>9, <2>1 DEF gateVars, inProduction
<1>10. ASSUME NEW place \in Places,
              place \notin {"remove", "repeat", "count", "clean", "recount", "leave"},
              Move(place) \/ MoveBadly(place)
       PROVE  try'.at \notin {"remove", "repeat", "count", "clean", "recount", "leave"}
  BY <1>1, <1>10, MoveFields
<1>11. CASE AwaitNextStep \/ Reads \/ FirstWrite \/ Password \/ AnsweredByError
  <2>1. PICK place \in {"retry", "logout", "answer", "rescue", "code"} :
            Move(place) \/ MoveBadly(place)
    BY <1>11 DEF AwaitNextStep, Reads, FirstWrite, Password, AnsweredByError
  <2> QED BY <1>8, <1>10, <2>1 DEF Places
<1>12. CASE Code \/ SecondCode
  <2>1. try'.at \in {"reads", "write", "wait", "rescue"}
    <3>1. CASE LogIn
      <4>1. PICK place \in {"reads", "write"} : Move(place)
        BY <3>1 DEF LogIn
      <4> QED BY <1>1, <4>1, MoveFields DEF Places
    <3>2. CASE ~LogIn
      BY <1>1, <1>12, <3>2 DEF Code, SecondCode, Try
    <3> QED BY <3>1, <3>2
  <2> QED BY <1>8, <2>1
<1>13. CASE MovingOn
  <2>1. CASE Move("execute") \/ MoveBadly("rescue")
    BY <1>8, <1>10, <2>1 DEF Places
  <2>2. CASE SmokeLogout /\ UNCHANGED results /\ try.actor < Len(Actors)
    <3>1. try'.at = "password"
      BY <1>1, <2>2 DEF SmokeLogout, Try
    <3> QED BY <1>8, <3>1
  <2> QED BY <1>13, <2>1, <2>2 DEF MovingOn
<1>14. CASE \E pass \in BOOLEAN : Concluding(pass)
  <2>1. PICK pass \in BOOLEAN : Conclude(pass)
    BY <1>14 DEF Concluding
  <2>2. try'.at \in {"password", "look", "over"}
    BY <1>1, <2>1, ConcludeFields
  <2> QED BY <1>8, <2>2
<1>15. CASE KillStep \/ TryAgain
  <2>1. try'.at \in {"over", "copy"}
    BY <1>15, TryOfTheRest
  <2> QED BY <1>8, <2>1
<1> QED
  BY <1>2, <1>3, <1>4, <1>5, <1>6, <1>9, <1>11, <1>12, <1>13, <1>14, <1>15,
       GroupsOfSteps
     DEF Moving

(* A step that passes is the one that knows; what passed before is left    *)
(* alone.                                                                  *)
LEMMA PassesKept ==
    ASSUME GatesInv, time \in Times, GatesNext
    PROVE  PassLeavesNothing'
<1>1. /\ try \in Try /\ try.run \in Tries /\ KnowsItIsOver /\ PlacesOfSteps
      /\ results \in [Tries -> [GateStepNames -> Verdicts]]
      /\ NotYetPassed /\ PassLeavesNothing
      /\ "provision" \in GateStepNames /\ "idempotency" \in GateStepNames
  BY DEF GatesInv, GatesTypeOK, Try, GateStepNames
<1>2. ASSUME NEW r \in Tries, results'[r]["provision"] = results[r]["provision"],
             results[r]["provision"] = "PASS"
      PROVE  r \notin copies' /\ workers'[r] = "done"
  <2>1. r \notin copies /\ workers[r] = "done"
    BY <1>1, <1>2 DEF PassLeavesNothing
  <2>2. ~(try.step = "provision" /\ r = try.run)
    BY <1>1, <1>2 DEF NotYetPassed
  <2> QED BY <2>1, <2>2, ProductionKept
<1>3. ASSUME NEW r \in Tries, results'[r]["idempotency"] = results[r]["idempotency"],
             results[r]["idempotency"] = "PASS"
      PROVE  marked'[r] = {} /\ writes'[r] = "done"
  <2>1. marked[r] = {} /\ writes[r] = "done"
    BY <1>1, <1>3 DEF PassLeavesNothing
  <2>2. ~(try.step = "idempotency" /\ r = try.run)
    BY <1>1, <1>3 DEF NotYetPassed
  <2> QED BY <2>1, <2>2, ProductionKept
<1>4. CASE results' = results
  BY <1>2, <1>3, <1>4 DEF PassLeavesNothing
<1>5. CASE KillStep
  <2>1. results' = [results EXCEPT ![try.run][try.step] = "killed"] /\ "killed" \in Verdicts
    BY <1>5 DEF KillStep, Verdicts
  <2>2. /\ results'[try.run][try.step] = "killed"
        /\ \A r \in Tries, s \in GateStepNames :
                r # try.run \/ s # try.step => results'[r][s] = results[r][s]
    BY <1>1, <2>1, Concluded
  <2> QED BY <1>1, <1>2, <1>3, <2>2 DEF PassLeavesNothing
<1>6. CASE \E pass \in BOOLEAN : Concluding(pass)
  <2>1. PICK pass \in BOOLEAN : Concluding(pass) /\ Conclude(pass)
    BY <1>6 DEF Concluding
  <2>2. /\ results'[try.run][try.step] = (IF pass THEN "PASS" ELSE "FAIL")
        /\ \A r \in Tries, s \in GateStepNames :
                r # try.run \/ s # try.step => results'[r][s] = results[r][s]
    BY <1>1, <2>1, ConcludedSo
  <2>3. ASSUME pass, try.step = "provision"
        PROVE  try.run \notin copies' /\ workers'[try.run] = "done"
    <3>1. RemoveWorker /\ ~try.bad /\ copies' = copies \ {try.run}
      BY <2>1, <2>3 DEF Concluding, SmokeLogout, Leave, ReadLogs, ReadHealth, At
    <3> QED BY <1>1, <3>1 DEF RemoveWorker, At, KnowsItIsOver
  <2>4. ASSUME pass, try.step = "idempotency"
        PROVE  marked'[try.run] = {} /\ writes'[try.run] = "done"
    <3>1. Leave /\ ~try.bad
      BY <2>1, <2>4 DEF Concluding, SmokeLogout, RemoveWorker, ReadLogs, ReadHealth, At
    <3> QED BY <1>1, <3>1 DEF Leave, At, KnowsItIsOver
  <2>5. ASSUME NEW r \in Tries, results'[r]["provision"] = "PASS"
        PROVE  r \notin copies' /\ workers'[r] = "done"
    <3>1. CASE r = try.run /\ try.step = "provision"
      BY <2>2, <2>3, <2>5, <3>1
    <3>2. CASE ~(r = try.run /\ try.step = "provision")
      BY <1>1, <1>2, <2>2, <2>5, <3>2
    <3> QED BY <3>1, <3>2
  <2>6. ASSUME NEW r \in Tries, results'[r]["idempotency"] = "PASS"
        PROVE  marked'[r] = {} /\ writes'[r] = "done"
    <3>1. CASE r = try.run /\ try.step = "idempotency"
      BY <2>2, <2>4, <2>6, <3>1
    <3>2. CASE ~(r = try.run /\ try.step = "idempotency")
      BY <1>1, <1>3, <2>2, <2>6, <3>2
    <3> QED BY <3>1, <3>2
  <2> QED BY <2>5, <2>6 DEF PassLeavesNothing
<1>7. CASE Elsewhere \/ TryAgain \/ (TimePasses /\ UNCHANGED gateVars)
  BY <1>4, <1>7 DEF Elsewhere, WorkerCommits, WorkerFails, ServerTakesKey, ServerWrites,
                    ServerFails, TryAgain, gateVars
<1>8. CASE Moving \/ MovingOn
  BY <1>4, <1>8, TryOfMoving
<1> QED BY <1>5, <1>6, <1>7, <1>8, GroupsOfSteps

----------------------------------------------------------------------------
(* When an actor waits after a step: because its code was refused now, or  *)
(* it waited before; and no second code is refused.                        *)
LEMMA WaitingAfter ==
    ASSUME GatesInv, time \in Times, GatesNext
    PROVE  \/ /\ try' = try
              /\ \A n \in Persons : account'[n].counter \in {account[n].counter, None}
           \/ /\ try'.at \notin {"wait", "retry"} /\ try'.since = try.since
              /\ try'.refused = try.refused
           \/ /\ try'.at = "wait" /\ try'.since = time /\ try'.actor = try.actor
              /\ try'.refused = try.refused /\ account' = account
           \/ /\ try.at = "wait" /\ try'.at = "retry" /\ try'.since = try.since
              /\ try'.actor = try.actor /\ try.since < time
              /\ try'.refused = try.refused /\ account' = account
<1>1. /\ try \in Try /\ account \in [Persons -> Account] /\ CodesOfThePast
      /\ results \in [Tries -> [GateStepNames -> Verdicts]] /\ Who \in Persons
  BY WhoIsAPerson DEF GatesInv, GatesTypeOK, Try, Account
<1>2. ASSUME NEW place \in Places \ {"wait", "retry"}, Move(place) \/ MoveBadly(place)
      PROVE  /\ try'.at \notin {"wait", "retry"} /\ try'.since = try.since
             /\ try'.refused = try.refused
  BY <1>1, <1>2, MoveFields
<1>3. CASE Elsewhere \/ (TimePasses /\ UNCHANGED gateVars)
  <2>1. CASE \E r \in Tries : WorkerCommits(r)
    <3>1. account' = [n \in Persons |->
                        [account[n] EXCEPT !.counter = None, !.session = FALSE]]
      BY <2>1 DEF WorkerCommits
    <3>2. ASSUME NEW n \in Persons
          PROVE  account'[n].counter = None
      <4>1. account[n] \in Account
        BY <1>1
      <4> QED BY <3>1, <4>1, CodeFields
    <3> QED BY <2>1, <3>2 DEF WorkerCommits
  <2> QED BY <1>3, <2>1 DEF Elsewhere, WorkerFails, ServerTakesKey, ServerWrites,
                            ServerFails, gateVars, inProduction
<1>4. CASE ExecuteWorker
  BY <1>4 DEF ExecuteWorker
<1>5. CASE \/ WorkerAnswers \/ Reads \/ FirstWrite \/ Answer \/ Repeat \/ CountRows \/ Clean
           \/ Recount \/ Password \/ AnsweredByError
  <2>1. PICK place \in {"remove", "logout", "answer", "rescue", "repeat", "count",
                        "clean",
                        "recount", "leave", "code"} :
            Move(place) \/ MoveBadly(place)
    BY <1>5 DEF WorkerAnswers, Reads, FirstWrite, Answer, Repeat, CountRows, Clean,
         Recount,
                Password, AnsweredByError
  <2>2. place \in Places \ {"wait", "retry"}
    BY DEF Places
  <2> QED BY <1>2, <2>1, <2>2
<1>6. CASE LogIn
  <2>1. PICK place \in {"reads", "write"} : Move(place)
    BY <1>6 DEF LogIn
  <2> QED BY <1>2, <2>1 DEF Places
<1>7. CASE Code /\ ~LogIn
  <2>1. try' = [try EXCEPT !.at = "wait", !.since = time] /\ account' = account
    BY <1>7 DEF Code
  <2> QED BY <1>1, <2>1 DEF Try
<1>8. CASE SecondCode /\ ~LogIn
  <2>1. ~Unused(Who) /\ try.at = "retry"
    BY <1>8 DEF SecondCode
  <2>2. account[Who].counter = None \/ account[Who].counter <= try.since
    BY <1>1, <2>1 DEF CodesOfThePast
  <2>3. try.since < time
    BY <1>1, <2>1 DEF CodesOfThePast
  <2>4. account[Who].counter \in Int \/ account[Who].counter = None
    BY <1>1 DEF Account, Times
  <2>5. try.since \in Int /\ time \in Int
    BY <1>1 DEF Try, Times
  <2> QED BY <2>1, <2>2, <2>3, <2>4, <2>5 DEF Unused
<1>9. CASE AwaitNextStep
  <2>1. Move("retry") /\ try.at = "wait" /\ time > try.since /\ account' = account
    BY <1>9 DEF AwaitNextStep, inProduction
  <2>2. try.since \in Int /\ time \in Int
    BY <1>1 DEF Try, Times
  <2> QED BY <1>1, <2>1, <2>2, MoveFields DEF Places
<1>10. CASE MovingOn
  <2>1. CASE Move("execute") \/ MoveBadly("rescue")
    BY <1>2, <2>1 DEF Places
  <2>2. CASE SmokeLogout /\ UNCHANGED results /\ try.actor < Len(Actors)
    BY <1>1, <2>2 DEF SmokeLogout, Try
  <2> QED BY <1>10, <2>1, <2>2 DEF MovingOn
<1>11. CASE \E pass \in BOOLEAN : Concluding(pass)
  <2>1. PICK pass \in BOOLEAN : Conclude(pass)
    BY <1>11 DEF Concluding
  <2> QED BY <1>1, <2>1, ConcludeFields
<1>12. CASE KillStep \/ TryAgain
  BY <1>12, TryOfTheRest
<1> QED
  BY <1>3, <1>4, <1>5, <1>6, <1>7, <1>8, <1>9, <1>10, <1>11, <1>12, GroupsOfSteps
     DEF Moving, Code, SecondCode

LEMMA GateTime ==
    ASSUME GatesNext, time \in Times
    PROVE  time' = time \/ (TimePasses /\ UNCHANGED gateVars)
<1>1. CASE \/ CopyWorker \/ ExecuteWorker \/ WorkerAnswers \/ RemoveWorker \/ Password \/ Code
           \/ AwaitNextStep \/ SecondCode \/ Reads \/ SmokeLogout
  BY <1>1 DEF CopyWorker, ExecuteWorker, WorkerAnswers, RemoveWorker, Password, Code,
              AwaitNextStep, SecondCode, Reads, SmokeLogout
<1>2. CASE \/ FirstWrite \/ Answer \/ Repeat \/ CountRows \/ Clean \/ Recount \/ Leave
           \/ Rescue \/ ReadLogs \/ ReadHealth
  BY <1>2 DEF FirstWrite, Answer, Repeat, CountRows, Clean, Recount, Leave, Rescue,
       ReadLogs,
              ReadHealth
<1>3. CASE \/ RequestTimesOut \/ AnsweredByError \/ WindowClosed \/ InputsRefused
           \/ KillStep \/ TryAgain
  BY <1>3 DEF RequestTimesOut, AnsweredByError, WindowClosed, InputsRefused, KillStep,
              TryAgain
<1>4. CASE \E r \in Tries : WorkerCommits(r) \/ WorkerFails(r) \/ ServerTakesKey(r)
                            \/ ServerWrites(r) \/ ServerFails(r)
  BY <1>4 DEF WorkerCommits, WorkerFails, ServerTakesKey, ServerWrites, ServerFails
<1> QED BY <1>1, <1>2, <1>3, <1>4 DEF GatesNext

(* The clock may go on while the gates rest. *)
LEMMA GatesRest ==
    ASSUME GatesInv, UNCHANGED gateVars, time \in Times, time' \in Times, time <= time'
    PROVE  GatesInv'
<1>1. UNCHANGED <<try, account, workers, copies, writes, marked, errors, results>>
  BY DEF gateVars, inProduction
<1>2. GatesTypeOK' /\ PlacesOfSteps' /\ NotYetPassed' /\ KnowsItIsOver' /\ PassLeavesNothing'
  BY <1>1 DEF GatesInv, GatesTypeOK, PlacesOfSteps, NotYetPassed, KnowsItIsOver,
              PassLeavesNothing
<1>3. CodesOfThePast'
  <2>1. /\ time \in Int /\ time' \in Int /\ try.since \in Int
        /\ \A n \in Persons : account[n].counter = None \/ account[n].counter \in Int
    BY DEF GatesInv, GatesTypeOK, Times
  <2>2. Who' = Who
    BY <1>1 DEF Who
  <2> QED BY <1>1, <2>1, <2>2 DEF GatesInv, CodesOfThePast
<1> QED BY <1>2, <1>3 DEF GatesInv

LEMMA CodesKept ==
    ASSUME GatesInv, time \in Times, GatesNext, time' = time
    PROVE  CodesOfThePast'
<1>1. /\ try \in Try /\ account \in [Persons -> Account] /\ CodesOfThePast /\ Who \in Persons
      /\ time \in Int /\ try.since \in Int
      /\ \A n \in Persons : account[n].counter = None \/ account[n].counter \in Int
  BY WhoIsAPerson DEF GatesInv, GatesTypeOK, Try, Account, Times
<1>2. \A n \in Persons : account'[n].counter = None \/ account'[n].counter <= time'
  BY <1>1, AccountKept DEF CodesOfThePast
<1>3. try'.actor = try.actor => Who' = Who
  BY DEF Who
<1>4. CASE /\ try' = try
           /\ \A n \in Persons : account'[n].counter \in {account[n].counter, None}
  <2>3. try'.at \in {"wait", "retry"} =>
            account'[Who].counter = None \/ account'[Who].counter <= try.since
    BY <1>1, <1>4 DEF CodesOfThePast
  <2> QED BY <1>1, <1>2, <1>3, <1>4, <2>3 DEF CodesOfThePast
<1>5. CASE /\ try'.at \notin {"wait", "retry"} /\ try'.since = try.since
           /\ try'.refused = try.refused
  BY <1>1, <1>2, <1>5 DEF CodesOfThePast
<1>6. CASE /\ try'.at = "wait" /\ try'.since = time /\ try'.actor = try.actor
           /\ try'.refused = try.refused /\ account' = account
  BY <1>1, <1>2, <1>3, <1>6 DEF CodesOfThePast
<1>7. CASE /\ try.at = "wait" /\ try'.at = "retry" /\ try'.since = try.since
           /\ try'.actor = try.actor /\ try.since < time
           /\ try'.refused = try.refused /\ account' = account
  BY <1>1, <1>2, <1>3, <1>7 DEF CodesOfThePast
<1> QED BY <1>4, <1>5, <1>6, <1>7, WaitingAfter

LEMMA GatesStep ==
    ASSUME GatesInv, GatesNext \/ UNCHANGED gateVars,
           time \in Times, time' \in Times, time <= time'
    PROVE  GatesInv'
<1>1. CASE UNCHANGED gateVars
  BY <1>1, GatesRest
<1>2. CASE GatesNext /\ time' = time
  <2>1. try' \in Try /\ PlacesOfSteps'
    <3>1. CASE Elsewhere \/ (TimePasses /\ UNCHANGED gateVars)
      <4>1. try' = try
        BY <3>1 DEF Elsewhere, WorkerCommits, WorkerFails, ServerTakesKey, ServerWrites,
                    ServerFails, gateVars
      <4> QED BY <4>1 DEF GatesInv, GatesTypeOK, Try, PlacesOfSteps
    <3>2. CASE \E pass \in BOOLEAN : Concluding(pass)
      <4>1. PICK pass \in BOOLEAN : Conclude(pass)
        BY <3>2 DEF Concluding
      <4> QED BY <4>1, TryOfConcluding
    <3> QED BY <1>2, <3>1, <3>2, GroupsOfSteps, TryOfMoving, TryOfTheRest
  <2>2. GatesTypeOK'
    BY <1>2, <2>1, ProductionKept, AccountKept, VerdictsKept DEF GatesTypeOK, Try,
         Account
  <2> QED
    BY <1>2, <2>1, <2>2, VerdictsKept, KnowledgeKept, CodesKept, PassesKept DEF GatesInv
<1> QED BY <1>1, <1>2, GateTime

LEMMA GatesStart ==
    ASSUME GatesInit, time = 0
    PROVE  GatesInv
<1>1. 0 \in Times /\ 1 \in Tries /\ 1 \in DOMAIN Actors /\ 0 \in 0..MaxAttempts
  BY DrillWorldAssumption, GateStepsAssumption DEF Times, Tries
<1>2. try \in Try /\ try.at = "copy" /\ try.step = "provision" /\ ~try.refused /\ try.since = 0
  BY <1>1 DEF GatesInit, Try, GateStepNames, Places
<1>3. \A r \in Tries, s \in GateStepNames : results[r][s] = "none"
  BY DEF GatesInit
<1>4. \A n \in Persons : account[n].counter = None
  BY DEF GatesInit
<1>5. GatesTypeOK
  BY <1>1, <1>2 DEF GatesInit, GatesTypeOK, Try, Verdicts
<1>6. PlacesOfSteps /\ KnowsItIsOver
  BY <1>2 DEF PlacesOfSteps, KnowsItIsOver
<1>7. NotYetPassed /\ PassLeavesNothing
  BY <1>2, <1>3 DEF NotYetPassed, PassLeavesNothing, GateStepNames, Try
<1>8. CodesOfThePast
  BY <1>2, <1>4 DEF CodesOfThePast
<1> QED BY <1>5, <1>6, <1>7, <1>8 DEF GatesInv

LEMMA GatesSafe == GatesInv => PassLeavesNothing /\ SecondCodeWorks
  BY DEF GatesInv, CodesOfThePast, SecondCodeWorks

(***************************************************************************)
(* The drill of the backup: what the runner knows at each stage, and what  *)
(* is there of what it does not know.                                      *)
(***************************************************************************)

(* What the export says was counted on both sides. *)
DrillIsOfThisRun ==
    drill # None => runner.at = "idle" /\ DrillWasReal

(* The counts are those of a version of production. *)
Counted ==
    runner.at \in {"dump", "close", "create", "restore", "count", "drop", "export"} =>
        runner.counts \in 0..MaxWrites

(* The transaction of the snapshot is over before there is a drill         *)
(* database, and while a run goes on that has not named its drill database *)
(* there is none.                                                          *)
NothingUnknown ==
    /\ runner.at \in {"create", "restore", "count", "drop", "export"} => snapshot = "none"
    /\ runner.at \in {"snapshot", "dump", "close", "create", "export"} => ~runner.named
    /\ runner.at \in {"restore", "count", "drop"} => runner.named
    /\ runner.at # "idle" /\ ~runner.named => drillDb = None

BackupInv ==
    /\ BackupTypeOK
    /\ DrillIsOfThisRun /\ Counted /\ NothingUnknown /\ NothingLeftBehind

LEMMA RunnerFields ==
    ASSUME runner \in Runner, NEW stage \in Stages
    PROVE  /\ [runner EXCEPT !.at = stage] \in Runner
           /\ [runner EXCEPT !.at = stage].at = stage
           /\ [runner EXCEPT !.at = stage].counts = runner.counts
           /\ [runner EXCEPT !.at = stage].restored = runner.restored
           /\ [runner EXCEPT !.at = stage].holding = runner.holding
           /\ [runner EXCEPT !.at = stage].named = runner.named
  BY DEF Runner

(* The steps after which the runner is at another stage and otherwise what *)
(* it was.                                                                 *)
LEMMA BackupGoes ==
    ASSUME BackupInv, time \in Times,
           \/ Dump \/ Restore \/ ExportDrill \/ StageFails \/ Cleanup \/ KillRunner
    PROVE  BackupInv'
<1> USE DEF BackupInv, BackupTypeOK
<1>1. PICK stage \in Stages : runner' = [runner EXCEPT !.at = stage] /\ Go(stage)
  BY DEF Dump, Restore, ExportDrill, StageFails, Cleanup, KillRunner, Go, Stages
<1>2. /\ runner' \in Runner /\ runner'.at = stage
      /\ runner'.counts = runner.counts /\ runner'.restored = runner.restored
      /\ runner'.holding = runner.holding /\ runner'.named = runner.named
  BY <1>1, RunnerFields
<1>3. None \notin Int /\ Some \in Int
  BY DrillWorldAssumption DEF Some
<1>4. runner.counts \in Rows \cup {None} /\ runner.began \in Times /\ runner.at \in Stages
  BY DEF Runner
<1>5. CASE Dump
  <2>1. runner'.at = "close" /\ runner.at = "dump"
    BY <1>2, <1>5 DEF Dump, Go, Runner
  <2> QED
    BY <1>2, <1>4, <1>5, <2>1 DEF Dump, database, evidence, DrillIsOfThisRun,
           DrillWasReal, Counted, NothingUnknown, NothingLeftBehind
<1>6. CASE Restore
  <2>1. runner'.at \in {"count", "cleanup"} /\ runner.at = "restore"
    BY <1>2, <1>6 DEF Restore, Go, Runner
  <2> QED
    BY <1>2, <1>4, <1>6, <2>1 DEF Restore, database, evidence, DrillIsOfThisRun,
           DrillWasReal, Counted, NothingUnknown, NothingLeftBehind
<1>7. CASE ExportDrill
  <2>1. runner'.at \in {"idle", "cleanup"} /\ runner.at = "export"
    BY <1>2, <1>7 DEF ExportDrill, Go, Runner
  <2>2. runner'.at = "idle" => drill' = [rows |-> runner.counts, began |-> runner.began]
    BY <1>2, <1>7, <2>1 DEF ExportDrill, Go, Runner
  <2>3. runner.counts \in 0..MaxWrites
    BY <2>1 DEF Counted
  <2>4. runner.counts \in Rows /\ runner.counts # Some
    BY <2>3, DrillWorldAssumption, BackupDrillAssumption DEF Rows, Some
  <2>5. BackupTypeOK'
    BY <1>2, <1>4, <1>7, <2>4 DEF ExportDrill, database
  <2>6. DrillIsOfThisRun'
    <3>1. CASE RowsAgree
      <4>1. runner'.at = "idle" /\ drill' = [rows |-> runner.counts,
                                             began |-> runner.began]
        BY <1>7, <3>1, <2>1, <2>2, <1>2 DEF ExportDrill, Go, Runner
      <4> QED BY <1>2, <2>4, <3>1, <4>1 DEF RowsAgree, DrillIsOfThisRun, DrillWasReal
    <3>2. CASE ~RowsAgree
      BY <1>7, <2>1, <3>2 DEF ExportDrill, DrillIsOfThisRun
    <3> QED BY <3>1, <3>2
  <2>7. (Counted /\ NothingUnknown /\ NothingLeftBehind)'
    BY <1>2, <1>7, <2>1 DEF ExportDrill, database, Counted, NothingUnknown,
                            NothingLeftBehind
  <2> QED BY <2>5, <2>6, <2>7
<1>8. CASE StageFails
  <2>1. /\ runner'.at = "cleanup"
        /\ runner.at \in {"snapshot", "dump", "close", "count", "export"}
    BY <1>2, <1>8 DEF StageFails, Go, Runner
  <2> QED
    BY <1>2, <1>4, <1>8, <2>1 DEF StageFails, evidence, DrillIsOfThisRun,
           DrillWasReal, Counted, NothingUnknown, NothingLeftBehind
<1>9. CASE Cleanup
  <2>1. runner'.at = "idle" /\ runner.at = "cleanup" /\ runner.named \in BOOLEAN
    BY <1>2, <1>9 DEF Cleanup, Go, Runner
  <2> QED
    BY <1>2, <1>4, <1>9, <2>1 DEF Cleanup, evidence, DrillIsOfThisRun,
           DrillWasReal, Counted, NothingUnknown, NothingLeftBehind
<1>10. CASE KillRunner
  <2>1. runner'.at = "idle" /\ runner.at # "idle"
    BY <1>2, <1>10 DEF KillRunner, Go, Runner
  <2> QED
    BY <1>2, <1>4, <1>10, <2>1 DEF KillRunner, evidence, DrillIsOfThisRun,
           DrillWasReal, Counted, NothingUnknown, NothingLeftBehind
<1> QED BY <1>5, <1>6, <1>7, <1>8, <1>9, <1>10

(* The steps of the runner by which it learns something. *)
LEMMA BackupLearns ==
    ASSUME BackupInv, time \in Times,
           \/ StartDrill \/ OpenSnapshot \/ CloseSnapshot \/ CreateDrillDb
           \/ CountRestored \/ DropDrillDb
    PROVE  BackupInv'
<1> USE DEF BackupInv, BackupTypeOK
<1>1. None \notin Int /\ Some \in Int /\ 0..MaxWrites \subseteq Rows /\ Some \in Rows
  BY DrillWorldAssumption, BackupDrillAssumption DEF Some, Rows
<1>2. CASE StartDrill
  <2>1. /\ runner'.at = "snapshot" /\ ~runner'.named /\ drill = None
        /\ runner' \in Runner
    BY <1>2 DEF StartDrill, MayDrill, Runner, Stages
  <2> QED
    BY <1>2, <2>1 DEF StartDrill, evidence, DrillIsOfThisRun,
           DrillWasReal, Counted, NothingUnknown, NothingLeftBehind
<1>3. CASE OpenSnapshot
  <2>1. /\ runner'.at = "dump" /\ runner'.named = runner.named
        /\ runner'.counts = rows
        /\ runner' \in Runner
    BY <1>1, <1>3 DEF OpenSnapshot, Runner, Stages
  <2> QED
    BY <1>3, <2>1 DEF OpenSnapshot, evidence, DrillIsOfThisRun,
           DrillWasReal, Counted, NothingUnknown, NothingLeftBehind
<1>4. CASE CloseSnapshot
  <2>1. /\ runner'.at = "create" /\ runner'.named = runner.named
        /\ runner'.counts = runner.counts
        /\ runner' \in Runner
    BY <1>4 DEF CloseSnapshot, Runner, Stages
  <2> QED
    BY <1>4, <2>1 DEF CloseSnapshot, evidence, DrillIsOfThisRun,
           DrillWasReal, Counted, NothingUnknown, NothingLeftBehind
<1>5. CASE CreateDrillDb
  <2>1. /\ runner'.at \in {"restore", "cleanup"} /\ runner'.named
        /\ runner'.counts = runner.counts
        /\ runner' \in Runner
    BY <1>5 DEF CreateDrillDb, Runner, Stages
  <2> QED
    BY <1>1, <1>5, <2>1 DEF CreateDrillDb, evidence, DrillIsOfThisRun,
           DrillWasReal, Counted, NothingUnknown, NothingLeftBehind
<1>6. CASE CountRestored
  <2>1. /\ runner'.at = "drop" /\ runner'.named = runner.named
        /\ runner'.counts = runner.counts
        /\ runner' \in Runner
    BY <1>6 DEF CountRestored, Runner, Stages
  <2> QED
    BY <1>6, <2>1 DEF CountRestored, database, evidence, DrillIsOfThisRun,
           DrillWasReal, Counted, NothingUnknown, NothingLeftBehind
<1>7. CASE DropDrillDb
  <2>1. /\ \/ runner'.at = "export" /\ ~runner'.named /\ drillDb' = None
           \/ runner'.at = "cleanup" /\ runner'.named = runner.named
        /\ runner'.counts = runner.counts
        /\ runner' \in Runner
    BY <1>7 DEF DropDrillDb, Go, Runner, Stages
  <2> QED
    BY <1>7, <2>1 DEF DropDrillDb, evidence, DrillIsOfThisRun,
           DrillWasReal, Counted, NothingUnknown, NothingLeftBehind
<1> QED BY <1>2, <1>3, <1>4, <1>5, <1>6, <1>7

(* The runner knows nothing of the other steps. *)
LEMMA BackupElsewhere ==
    ASSUME BackupInv, time \in Times,
           \/ CompileBackup \/ CompileRestore \/ KillCompiler \/ RemoveDocument
           \/ WriteProduction \/ DamageDump \/ RestoreEnds \/ UNCHANGED backupVars
    PROVE  BackupInv'
<1>1. /\ runner' = runner /\ snapshot' = snapshot /\ drillDb' = drillDb
      /\ outcome' = outcome /\ drill' = drill
  BY DEF CompileBackup, CompileRestore, KillCompiler, RemoveDocument, WriteProduction,
         DamageDump, RestoreEnds, backupVars, database, evidence
<1>2. (DrillIsOfThisRun /\ Counted /\ NothingUnknown /\ NothingLeftBehind)'
  BY <1>1 DEF BackupInv, DrillIsOfThisRun, DrillWasReal, Counted, NothingUnknown,
              NothingLeftBehind
<1>3. restoring' \in BOOLEAN /\ rows' \in 0..MaxWrites /\ dump' \in Rows \cup {None}
  <2>1. Some \in Rows
    BY BackupDrillAssumption DEF Rows, Some
  <2>2. \/ rows' = rows
        \/ rows < MaxWrites /\ rows' = rows + 1
    BY DEF CompileBackup, CompileRestore, KillCompiler, RemoveDocument, WriteProduction,
           DamageDump, RestoreEnds, backupVars, database, evidence
  <2>3. /\ restoring' = restoring \/ restoring' = FALSE
        /\ dump' = dump \/ dump' = Some
    BY DEF CompileBackup, CompileRestore, KillCompiler, RemoveDocument, WriteProduction,
           DamageDump, RestoreEnds, backupVars, database, evidence
  <2>4. rows \in 0..MaxWrites /\ restoring \in BOOLEAN /\ dump \in Rows \cup {None}
    BY DEF BackupInv, BackupTypeOK
  <2>5. rows' \in 0..MaxWrites
    BY <2>2, <2>4, BackupDrillAssumption
  <2> QED BY <2>1, <2>3, <2>4, <2>5
<1>4. compiler' \in Times \cup {None}
  BY DEF CompileBackup, CompileRestore, KillCompiler, RemoveDocument, WriteProduction,
         DamageDump, RestoreEnds, backupVars, database, evidence, BackupInv, BackupTypeOK
<1>5. pair' \in [{"backup", "restore"} -> Times \cup {None}]
  BY DEF CompileBackup, CompileRestore, KillCompiler, RemoveDocument, WriteProduction,
         DamageDump, RestoreEnds, backupVars, database, evidence, BackupInv, BackupTypeOK
<1>6. BackupTypeOK'
  BY <1>1, <1>3, <1>4, <1>5 DEF BackupInv, BackupTypeOK
<1> QED BY <1>2, <1>6 DEF BackupInv

LEMMA BackupStep ==
    ASSUME BackupInv, time \in Times, BackupNext \/ UNCHANGED backupVars
    PROVE  BackupInv'
  BY BackupGoes, BackupLearns, BackupElsewhere DEF BackupNext

LEMMA BackupStart == BackupInit => BackupInv
<1> SUFFICES ASSUME BackupInit
             PROVE  BackupInv
  OBVIOUS
<1>1. 0 \in Times /\ 0 \in 0..MaxWrites
  BY DrillWorldAssumption, BackupDrillAssumption DEF Times
<1>2. runner \in Runner /\ runner.at = "idle"
  BY <1>1 DEF BackupInit, Runner, Stages
<1>3. BackupTypeOK
  BY <1>1, <1>2 DEF BackupInit, BackupTypeOK
<1> QED
  BY <1>2, <1>3 DEF BackupInit, BackupInv, DrillIsOfThisRun, DrillWasReal, Counted,
                    NothingUnknown, NothingLeftBehind

LEMMA BackupSafe == BackupInv => DrillWasReal /\ NothingLeftBehind
  BY DEF BackupInv, DrillIsOfThisRun, DrillWasReal

(***************************************************************************)
(* The drills that send messages: what the provider has on record.         *)
(***************************************************************************)

(* Requests and pages carry the key of their drill and message.            *)
Keyed ==
    /\ \A r \in network : r.key = <<r.drill, r.message>>
    /\ \A p \in pages :
        /\ p = [key |-> p.key, drill |-> p.drill, message |-> p.message,
                at |-> p.at, answered |-> p.answered]
        /\ p.key = <<p.drill, p.message>>

(* The provider has one page for a key. *)
OneForAKey == \A p, q \in pages : p.key = q.key => p = q

PageInv == Keyed /\ OneForAKey

LEMMA AnsweredPage ==
    ASSUME NEW p, NEW t, p = [key |-> p.key, drill |-> p.drill, message |-> p.message,
                              at |-> p.at, answered |-> p.answered]
    PROVE  [p EXCEPT !.answered = t] =
                [key |-> p.key, drill |-> p.drill, message |-> p.message,
                 at |-> p.at, answered |-> t]
  OBVIOUS

LEMMA ArrivalKeepsPages ==
    ASSUME PageInv, RequestArrives
    PROVE  PageInv'
<1>1. PICK r \in network :
        /\ network' = network \ {r}
        /\ pages' = IF \E p \in pages : p.key = r.key THEN pages
                    ELSE pages \cup {[key |-> r.key, drill |-> r.drill,
                                      message |-> r.message,
                                      at |-> time, answered |-> None]}
  BY DEF RequestArrives
<1> DEFINE new == [key |-> r.key, drill |-> r.drill, message |-> r.message,
                   at |-> time, answered |-> None]
<1>2. CASE \E p \in pages : p.key = r.key
  BY <1>1, <1>2 DEF PageInv, Keyed, OneForAKey
<1>3. CASE \A p \in pages : p.key # r.key
  <2>1. /\ new.key = r.key /\ new.drill = r.drill /\ new.message = r.message
        /\ new = [key |-> new.key, drill |-> new.drill, message |-> new.message,
                  at |-> new.at, answered |-> new.answered]
    OBVIOUS
  <2>2. pages' = pages \cup {new}
    BY <1>1, <1>3
  <2> HIDE DEF new
  <2>3. Keyed'
    BY <1>1, <2>1, <2>2 DEF PageInv, Keyed
  <2>4. OneForAKey'
    BY <1>3, <2>1, <2>2 DEF PageInv, OneForAKey
  <2> QED BY <2>3, <2>4 DEF PageInv
<1> QED BY <1>2, <1>3

LEMMA AnswerKeepsPages ==
    ASSUME PageInv, SomebodyAnswers
    PROVE  PageInv'
<1>1. PICK p \in pages :
        /\ p.answered = None
        /\ pages' = (pages \ {p}) \cup {[p EXCEPT !.answered = time]}
        /\ UNCHANGED network
  BY DEF SomebodyAnswers
<1> DEFINE new == [p EXCEPT !.answered = time]
<1>2. new = [key |-> p.key, drill |-> p.drill, message |-> p.message,
             at |-> p.at, answered |-> time]
  BY AnsweredPage DEF PageInv, Keyed
<1>3. /\ new.key = p.key /\ new.drill = p.drill /\ new.message = p.message
      /\ new = [key |-> new.key, drill |-> new.drill, message |-> new.message,
                at |-> new.at, answered |-> new.answered]
  BY <1>2
<1> HIDE DEF new
<1>4. pages' = (pages \ {p}) \cup {new}
  BY <1>1 DEF new
<1>5. Keyed'
  BY <1>1, <1>3, <1>4 DEF PageInv, Keyed
<1>6. OneForAKey'
  BY <1>3, <1>4 DEF PageInv, OneForAKey
<1> QED BY <1>5, <1>6 DEF PageInv

(* Every step of the drill keeps one page for a key: only a request that   *)
(* arrives adds one, and an answer is written into the page it is of.      *)
LEMMA PageStep ==
    ASSUME PageInv, PageNext \/ UNCHANGED pageVars
    PROVE  PageInv'
<1>1. CASE SendPage
  <2>1. /\ Request.key = <<Request.drill, Request.message>>
        /\ network' = network \cup {Request} /\ pages' = pages
    BY <1>1 DEF SendPage, Request, PageKey
  <2> QED BY <2>1 DEF PageInv, Keyed, OneForAKey
<1>2. CASE RequestFails
  <2>1. network' \subseteq network /\ pages' = pages
    BY <1>2 DEF RequestFails
  <2> QED BY <2>1 DEF PageInv, Keyed, OneForAKey
<1>3. CASE RequestArrives
  BY <1>3, ArrivalKeepsPages
<1>4. CASE SomebodyAnswers
  BY <1>4, AnswerKeepsPages
<1>5. CASE \/ StartPaging \/ ReceiveReply \/ KillSender \/ ExportReceipts
           \/ ApproveManifest \/ CompileReceipts \/ UNCHANGED pageVars
  <2>1. network' = network /\ pages' = pages
    BY <1>5 DEF StartPaging, ReceiveReply, KillSender, ExportReceipts,
                ApproveManifest, CompileReceipts, pageVars
  <2> QED BY <2>1 DEF PageInv, Keyed, OneForAKey
<1> QED BY <1>1, <1>2, <1>3, <1>4, <1>5 DEF PageNext

LEMMA PageStart == PageInit => PageInv
  BY DEF PageInit, PageInv, Keyed, OneForAKey

LEMMA PageSafe == PageInv => PagedOnce
  BY DEF PageInv, Keyed, OneForAKey, PagedOnce

(***************************************************************************)
(* The pages of the queue: what lies before the page that is read next has *)
(* been read, for an issue that is opened only moves the others back.      *)
(***************************************************************************)
Attestation == [last : Times, next : Nat]
Read == [place : Nat, item : Issues, triaged : BOOLEAN]
Collector == [at : {"idle", "page", "export"}, page : Nat \ {0}, got : SUBSET Read,
              began : Times, triage : {None} \cup Attestation]

Items(got) == {read.item : read \in got}

(* What the collection must have, and has of the first n of the list. *)
Wanted == steady \ Pulls
ReadUpTo(n) == \A j \in DOMAIN list : j <= n /\ list[j] \in Wanted => list[j] \in Items(collector.got)

WhilePaging ==
    collector.at = "page" =>
        /\ queue = None
        /\ steady \subseteq ToSet(list)
        /\ ~shifted => ReadUpTo((collector.page - 1) * PerPage)

WhenRead == collector.at = "export" => queue = None /\ (~shifted => Wanted \subseteq Items(collector.got))

QueueInv ==
    /\ list \in Seq(Issues) /\ shifted \in BOOLEAN
    /\ attestation \in Attestation /\ collector \in Collector
    /\ WhilePaging /\ WhenRead /\ QueueIsComplete
----------------------------------------------------------------------------

LEMMA ListProperties ==
    ASSUME QueueInv
    PROVE  /\ Len(list) \in Nat /\ DOMAIN list = 1..Len(list)
           /\ \A j \in DOMAIN list : list[j] \in Issues
  BY LenProperties, ElementOfSeq DEF QueueInv

(* What a page holds. *)
LEMMA PageProperties ==
    ASSUME QueueInv, NEW n \in Nat \ {0}
    PROVE  LET first == (n - 1) * PerPage IN
           /\ first \in Nat /\ n * PerPage = first + PerPage
           /\ Len(Page(n)) \in Nat /\ DOMAIN Page(n) = 1..Len(Page(n))
           /\ \A j \in DOMAIN Page(n) : Page(n)[j] = list[first + j]
           /\ first + PerPage <= Len(list) => Len(Page(n)) = PerPage
           /\ first + PerPage > Len(list) /\ first <= Len(list) =>
                Len(Page(n)) = Len(list) - first
           /\ first > Len(list) => Len(Page(n)) = 0
<1> DEFINE first == (n - 1) * PerPage
           last == IF n * PerPage <= Len(list) THEN n * PerPage ELSE Len(list)
<1>1. PerPage \in Nat \ {0} /\ Len(list) \in Nat
  BY QueueExportAssumption, ListProperties
<1>2. first \in Nat /\ n * PerPage = first + PerPage
  BY <1>1
<1>3. first + 1 \in Int /\ last \in Int /\ last <= Len(list)
  BY <1>1, <1>2
<1>4. Page(n) = SubSeq(list, first + 1, last)
  BY DEF Page
<1>5. \A i \in (first + 1)..last : list[i] \in Issues
  BY <1>2, <1>3, ListProperties
<1>6. last = IF first + PerPage <= Len(list) THEN first + PerPage ELSE Len(list)
  BY <1>2
<1> HIDE DEF first, last
<1>7. /\ Page(n) \in Seq(Issues)
      /\ Len(Page(n)) = (IF first + 1 <= last THEN last - (first + 1) + 1 ELSE 0)
      /\ \A j \in 1..(last - (first + 1) + 1) : Page(n)[j] = list[first + 1 + j - 1]
  BY <1>3, <1>4, <1>5, SubSeqProperties
<1>8. DOMAIN Page(n) = 1..Len(Page(n)) /\ Len(Page(n)) \in Nat
  BY <1>7, LenProperties
<1>9. \A j \in DOMAIN Page(n) : Page(n)[j] = list[first + j]
  <2> TAKE j \in DOMAIN Page(n)
  <2>1. j \in 1..(last - (first + 1) + 1) /\ first + 1 + j - 1 = first + j
    BY <1>2, <1>3, <1>7, <1>8
  <2> QED BY <1>7, <2>1
<1>10. /\ first + PerPage <= Len(list) => Len(Page(n)) = PerPage
       /\ first + PerPage > Len(list) /\ first <= Len(list) => Len(Page(n)) = Len(list) - first
       /\ first > Len(list) => Len(Page(n)) = 0
  BY <1>1, <1>2, <1>6, <1>7
<1> QED BY <1>2, <1>8, <1>9, <1>10 DEF first

(* A page that is read has been read up to its end. *)
LEMMA ReadOn ==
    ASSUME QueueInv, collector.at = "page", ~shifted, NEW j \in DOMAIN list,
           list[j] \in Wanted, j <= collector.page * PerPage
    PROVE  list[j] \in Items(collector.got \cup Parsed(collector.page))
<1> DEFINE n == collector.page
           first == (n - 1) * PerPage
<1>1. n \in Nat \ {0} /\ ReadUpTo(first)
  BY DEF QueueInv, WhilePaging, Collector
<1>2. /\ first \in Nat /\ n * PerPage = first + PerPage
      /\ DOMAIN Page(n) = 1..Len(Page(n)) /\ Len(Page(n)) \in Nat
      /\ \A k \in DOMAIN Page(n) : Page(n)[k] = list[first + k]
      /\ first + PerPage <= Len(list) => Len(Page(n)) = PerPage
      /\ first + PerPage > Len(list) /\ first <= Len(list) => Len(Page(n)) = Len(list) - first
  BY <1>1, PageProperties
<1>3. j \in 1..Len(list) /\ Len(list) \in Nat /\ PerPage \in Nat \ {0}
  BY ListProperties, QueueExportAssumption
<1> HIDE DEF n, first
<1>4. CASE j <= first
  BY <1>1, <1>4 DEF ReadUpTo, Items
<1>5. CASE ~(j <= first)
  <2> DEFINE k == j - first
  <2>1. k \in DOMAIN Page(n) /\ first + k = j
    BY <1>2, <1>3, <1>5 DEF n
  <2> HIDE DEF k
  <2>2. Page(n)[k] = list[j] /\ Page(n)[k] \notin Pulls
    BY <1>2, <2>1 DEF Wanted
  <2>3. \E read \in Parsed(n) : read.item = list[j]
    <3>1. k \in Own(Page(n))
      BY <2>1, <2>2 DEF Own
    <3> DEFINE read == [place |-> (n - 1) * PerPage + k, item |-> Page(n)[k],
                        triaged |-> Page(n)[k] \in triaged]
    <3>2. read \in Parsed(n)
      BY <3>1 DEF Parsed
    <3>3. read.item = list[j]
      BY <2>2
    <3> QED BY <3>2, <3>3
  <2> QED BY <2>3 DEF Items, n
<1> QED BY <1>4, <1>5

LEMMA ParsedAreRead ==
    ASSUME QueueInv
    PROVE  Parsed(collector.page) \subseteq Read
<1> DEFINE n == collector.page
           first == (n - 1) * PerPage
<1>1. n \in Nat \ {0}
  BY DEF QueueInv, Collector
<1>2. /\ first \in Nat /\ DOMAIN Page(n) = 1..Len(Page(n)) /\ Len(Page(n)) \in Nat
      /\ Len(Page(n)) > 0 => first + Len(Page(n)) <= Len(list)
      /\ \A k \in DOMAIN Page(n) : Page(n)[k] = list[first + k]
  <2>1. Len(list) \in Nat /\ PerPage \in Nat
    BY ListProperties, QueueExportAssumption
  <2> HIDE DEF n
  <2>2. /\ first \in Nat /\ DOMAIN Page(n) = 1..Len(Page(n)) /\ Len(Page(n)) \in Nat
        /\ \A k \in DOMAIN Page(n) : Page(n)[k] = list[first + k]
        /\ first + PerPage <= Len(list) => Len(Page(n)) = PerPage
        /\ first + PerPage > Len(list) /\ first <= Len(list) =>
                Len(Page(n)) = Len(list) - first
        /\ first > Len(list) => Len(Page(n)) = 0
    BY <1>1, PageProperties
  <2> HIDE DEF first
  <2>3. Len(Page(n)) > 0 => first + Len(Page(n)) <= Len(list)
    <3> DEFINE size == Len(Page(n))
               all == Len(list)
    <3>1. /\ first \in Nat /\ size \in Nat /\ all \in Nat /\ PerPage \in Nat
          /\ first + PerPage <= all => size = PerPage
          /\ first + PerPage > all /\ first <= all => size = all - first
          /\ first > all => size = 0
      BY <2>1, <2>2
    <3> HIDE DEF size, all
    <3>2. size > 0 => first + size <= all
      BY ONLY <3>1
    <3> QED BY <3>2 DEF size, all
  <2> QED BY <2>2, <2>3
<1> HIDE DEF n, first
<1>3. ASSUME NEW k \in DOMAIN Page(n)
      PROVE  first + k \in Nat /\ Page(n)[k] \in Issues
  <2>1. first + k \in 1..Len(list)
    BY <1>2, <1>3, ListProperties
  <2> QED BY <1>2, <1>3, <2>1, ListProperties
<1>4. \A k \in Own(Page(n)) : k \in DOMAIN Page(n)
  BY DEF Own
<1>5. Parsed(n) = {[place |-> first + k, item |-> Page(n)[k],
                    triaged |-> Page(n)[k] \in triaged] : k \in Own(Page(n))}
  BY DEF Parsed, first
<1>6. Parsed(n) \subseteq Read
  <2>1. \A k \in Own(Page(n)) : (Page(n)[k] \in triaged) \in BOOLEAN
    OBVIOUS
  <2>2. ASSUME NEW k \in Own(Page(n))
        PROVE  [place |-> first + k, item |-> Page(n)[k],
                triaged |-> Page(n)[k] \in triaged] \in Read
    <3> DEFINE place == first + k
               item == Page(n)[k]
               valid == Page(n)[k] \in triaged
    <3>1. place \in Nat /\ item \in Issues /\ valid \in BOOLEAN
      BY <1>3, <1>4, <2>1
    <3> HIDE DEF place, item, valid
    <3>2. [place |-> place, item |-> item, triaged |-> valid] \in Read
      BY <3>1 DEF Read
    <3> QED BY <3>2 DEF place, item, valid
  <2> QED BY <1>5, <2>2
<1> QED BY <1>6 DEF n

LEMMA ReadFields ==
    ASSUME collector \in Collector, NEW got \in SUBSET Read,
           collector' = [collector EXCEPT !.at = "export", !.got = got]
    PROVE  collector' \in Collector /\ collector'.at = "export" /\ collector'.got = got
  BY DEF Collector

LEMMA NextFields ==
    ASSUME collector \in Collector, NEW got \in SUBSET Read, NEW page \in Nat \ {0},
           collector' = [collector EXCEPT !.page = page, !.got = got]
    PROVE  /\ collector' \in Collector /\ collector'.at = collector.at
           /\ collector'.page = page /\ collector'.got = got
  BY DEF Collector

LEMMA ReadyFields ==
    ASSUME NEW a \in Attestation, time \in Times
    PROVE  LET first == [Ready EXCEPT !.at = "page", !.began = time, !.triage = a]
           IN  /\ Ready \in Collector /\ Ready.at = "idle"
               /\ first \in Collector /\ first.at = "page" /\ first.page = 1 /\ first.got = {}
<1>1. 0 \in Times
  BY DrillWorldAssumption DEF Times
<1>2. Ready \in Collector /\ Ready.at = "idle" /\ Ready.page = 1 /\ Ready.got = {}
  BY <1>1 DEF Ready, Collector
<1> DEFINE first == [Ready EXCEPT !.at = "page", !.began = time, !.triage = a]
<1>3. first \in Collector
  BY <1>2 DEF Collector
<1>4. first.at = "page" /\ first.page = 1 /\ first.got = {}
  BY <1>2 DEF Collector
<1> QED BY <1>2, <1>3, <1>4

----------------------------------------------------------------------------
LEMMA StartCollectionKeeps ==
    ASSUME QueueInv, time \in Times, StartCollection
    PROVE  QueueInv'
<1>1. /\ queue = None /\ steady' = ToSet(list) /\ shifted' = FALSE
      /\ collector' = [Ready EXCEPT !.at = "page", !.began = time, !.triage = attestation]
      /\ UNCHANGED <<list, attestation, queue>> /\ attestation \in Attestation
  BY DEF StartCollection, MayCollect, repository, QueueInv
<1>2. collector' \in Collector /\ collector'.at = "page" /\ collector'.page = 1
  BY <1>1, ReadyFields
<1>3. (collector'.page - 1) * PerPage = 0
  BY <1>2, QueueExportAssumption
<1>4. ReadUpTo((collector.page - 1) * PerPage)'
  BY <1>1, <1>3, ListProperties DEF ReadUpTo
<1> QED BY <1>1, <1>2, <1>4 DEF QueueInv, WhilePaging, WhenRead, QueueIsComplete

LEMMA ReadPageKeeps ==
    ASSUME QueueInv, time \in Times, ReadPage
    PROVE  QueueInv'
<1> DEFINE n == collector.page
           got == collector.got \cup Parsed(n)
<1>1. /\ collector.at = "page" /\ UNCHANGED <<list, attestation, steady, shifted, queue>>
      /\ collector \in Collector /\ queue = None /\ steady \subseteq ToSet(list)
      /\ n \in Nat \ {0} /\ got \in SUBSET Read /\ attestation \in Attestation
  BY ParsedAreRead DEF ReadPage, repository, QueueInv, WhilePaging, Collector
<1>2. \/ IsLast(Page(n)) /\ collector' = [collector EXCEPT !.at = "export", !.got = got]
      \/ ~IsLast(Page(n)) /\ collector' = Ready
      \/ ~IsLast(Page(n)) /\ collector' = [collector EXCEPT !.page = n + 1, !.got = got]
  BY DEF ReadPage
<1>3. \A j \in DOMAIN list : j <= n * PerPage /\ list[j] \in Wanted /\ ~shifted =>
            list[j] \in Items(got)
  BY <1>1, ReadOn
<1> HIDE DEF got
<1>4. CASE IsLast(Page(n)) /\ collector' = [collector EXCEPT !.at = "export", !.got = got]
  <2>1. collector' \in Collector /\ collector'.at = "export" /\ collector'.got = got
    BY <1>1, <1>4, ReadFields
  <2>2. \A j \in DOMAIN list : j <= n * PerPage
    <3> DEFINE first == (n - 1) * PerPage
    <3>1. /\ first \in Nat /\ n * PerPage = first + PerPage
          /\ first + PerPage <= Len(list) => Len(Page(n)) = PerPage
      BY <1>1, PageProperties
    <3>2. Len(Page(n)) < PerPage /\ PerPage \in Nat
      BY <1>4, QueueExportAssumption DEF IsLast
    <3> HIDE DEF first, n
    <3> QED BY <3>1, <3>2, ListProperties
  <2>3. ~shifted => Wanted \subseteq Items(got)
    BY <1>1, <1>3, <2>2 DEF Wanted, ToSet
  <2> QED BY <1>1, <2>1, <2>3 DEF QueueInv, WhilePaging, WhenRead, QueueIsComplete,
       Wanted, Items
<1>5. CASE collector' = Ready
  <2>1. collector' \in Collector /\ collector'.at = "idle"
    BY <1>1, <1>5, ReadyFields
  <2> QED BY <1>1, <2>1 DEF QueueInv, WhilePaging, WhenRead, QueueIsComplete
<1>6. CASE ~IsLast(Page(n)) /\ collector' = [collector EXCEPT !.page = n + 1, !.got = got]
  <2>1. /\ collector' \in Collector /\ collector'.at = "page" /\ collector'.page = n + 1
        /\ collector'.got = got /\ (n + 1) - 1 = n
    <3> DEFINE next == n + 1
    <3>1. next \in Nat \ {0} /\ next - 1 = n
      BY <1>1
    <3>2. collector' = [collector EXCEPT !.page = next, !.got = got]
      BY <1>6
    <3> HIDE DEF n, next
    <3>3. /\ collector' \in Collector /\ collector'.at = "page" /\ collector'.page = next
          /\ collector'.got = got
      BY <1>1, <3>1, <3>2, NextFields
    <3> QED BY <3>1, <3>3 DEF next
  <2>2. ~shifted' => ReadUpTo((collector.page - 1) * PerPage)'
    BY <1>1, <1>3, <2>1 DEF ReadUpTo, Wanted, Items
  <2> QED BY <1>1, <2>1, <2>2 DEF QueueInv, WhilePaging, WhenRead, QueueIsComplete
<1> QED BY <1>2, <1>4, <1>5, <1>6

LEMMA CollectionEnds ==
    ASSUME QueueInv, time \in Times, PageFails \/ ExportQueue
    PROVE  QueueInv'
<1>1. /\ collector' = Ready /\ UNCHANGED <<list, attestation, steady, shifted>>
      /\ attestation \in Attestation
  BY DEF PageFails, ExportQueue, repository, QueueInv
<1>2. collector' \in Collector /\ collector'.at = "idle"
  BY <1>1, ReadyFields
<1>3. QueueIsComplete'
  <2>1. CASE PageFails
    BY <1>1, <2>1 DEF PageFails, QueueInv, QueueIsComplete
  <2>2. CASE ExportQueue
    <3>1. collector.at = "export" /\ (~shifted => Wanted \subseteq Items(collector.got))
      BY <2>2 DEF ExportQueue, QueueInv, WhenRead
    <3>2. \/ queue' = None
          \/ queue' = [items |-> {read.item : read \in collector.got},
                       at |-> collector.began, triage |-> collector.triage]
      BY <2>2 DEF ExportQueue
    <3>3. queue' = None \/ queue'.items = Items(collector.got)
      BY <3>2 DEF Items
    <3> QED BY <1>1, <3>1, <3>3 DEF QueueIsComplete, Wanted
  <2> QED BY <2>1, <2>2
<1> QED BY <1>1, <1>2, <1>3 DEF QueueInv, WhilePaging, WhenRead

(* An issue that is opened moves the others back by one. *)
LEMMA OpenKeeps ==
    ASSUME QueueInv, OpenIssue
    PROVE  QueueInv'
<1>1. PICK i \in Issues : /\ i \notin ToSet(list) /\ list' = <<i>> \o list
                          /\ UNCHANGED <<attestation, collector, steady, shifted, queue>>
  BY DEF OpenIssue
<1>2. /\ list \in Seq(Issues) /\ Len(list) \in Nat /\ DOMAIN list = 1..Len(list)
      /\ <<i>> \in Seq(Issues) /\ Len(<<i>>) = 1 /\ <<i>>[1] = i
  BY ListProperties DEF QueueInv
<1>3. /\ list' \in Seq(Issues) /\ Len(list') = Len(list) + 1
      /\ \A j \in 1..(Len(list) + 1) : list'[j] = IF j <= 1 THEN i ELSE list[j - 1]
  <2>1. /\ <<i>> \o list \in Seq(Issues) /\ Len(<<i>> \o list) = Len(<<i>>) + Len(list)
        /\ \A j \in 1..(Len(<<i>>) + Len(list)) : (<<i>> \o list)[j] =
                IF j <= Len(<<i>>) THEN <<i>>[j] ELSE list[j - Len(<<i>>)]
    BY <1>2, ConcatProperties
  <2> QED BY <1>1, <1>2, <2>1
<1>4. DOMAIN list' = 1..(Len(list) + 1)
  BY <1>2, <1>3, LenProperties
<1>5. ToSet(list) \subseteq ToSet(list')
  <2>1. ASSUME NEW j \in DOMAIN list
        PROVE  j + 1 \in DOMAIN list' /\ list'[j + 1] = list[j]
    <3>1. j + 1 \in 1..(Len(list) + 1) /\ ~(j + 1 <= 1) /\ (j + 1) - 1 = j
      BY <1>2, <2>1
    <3> QED BY <1>3, <1>4, <3>1
  <2> QED BY <2>1 DEF ToSet
<1>6. WhilePaging'
  <2> SUFFICES ASSUME collector.at = "page"
               PROVE  WhilePaging'
    BY <1>1 DEF WhilePaging
  <2>1. queue = None /\ steady \subseteq ToSet(list)
    BY DEF QueueInv, WhilePaging
  <2> DEFINE n == (collector.page - 1) * PerPage
  <2>2. n \in Int
    BY QueueExportAssumption DEF QueueInv, Collector
  <2>3. ~shifted => ReadUpTo(n)
    BY DEF QueueInv, WhilePaging
  <2>4. n' = n
    BY <1>1
  <2> HIDE DEF n
  <2>5. ASSUME ~shifted, NEW j \in DOMAIN list', j <= n, list'[j] \in Wanted
        PROVE  list'[j] \in Items(collector.got)
    <3>1. list'[j] # i
      BY <1>1, <2>1, <2>5 DEF Wanted
    <3>2. j \in Int /\ ~(j <= 1) /\ j - 1 \in DOMAIN list /\ j - 1 <= n /\ list'[j] = list[j - 1]
      BY <1>2, <1>3, <1>4, <2>2, <2>5, <3>1
    <3> QED BY <2>3, <2>5, <3>2 DEF ReadUpTo
  <2>6. ~shifted => ReadUpTo(n)'
    BY <1>1, <2>4, <2>5 DEF ReadUpTo, Wanted
  <2> QED BY <1>1, <1>5, <2>1, <2>4, <2>6 DEF WhilePaging, n
<1>7. WhenRead' /\ QueueIsComplete'
  BY <1>1 DEF QueueInv, WhenRead, Wanted, QueueIsComplete
<1> QED BY <1>1, <1>3, <1>6, <1>7 DEF QueueInv

LEMMA CloseKeeps ==
    ASSUME QueueInv, CloseIssue
    PROVE  QueueInv'
<1>1. PICK i \in DOMAIN list :
        /\ list' = RemoveAt(list, i)
        /\ IF collector.at = "page"
           THEN steady' = steady \ {list[i]} /\ shifted' = TRUE
           ELSE UNCHANGED <<steady, shifted>>
        /\ UNCHANGED <<attestation, collector, queue>>
  BY DEF CloseIssue
<1>2. /\ list' \in Seq(Issues)
      /\ \A x \in ToSet(list) : x = list[i] \/ x \in ToSet(list')
  BY <1>1, RemoveAtProperties DEF QueueInv
<1>3. CASE collector.at = "page"
  BY <1>1, <1>2, <1>3 DEF QueueInv, WhilePaging, WhenRead, QueueIsComplete
<1>4. CASE collector.at # "page"
  BY <1>1, <1>2, <1>4 DEF QueueInv, WhilePaging, WhenRead, Wanted, QueueIsComplete
<1> QED BY <1>3, <1>4

LEMMA TriageKeeps ==
    ASSUME QueueInv, time \in Times, TriageIssues \/ CompileQueue \/ UNCHANGED queueVars
    PROVE  QueueInv'
<1>1. UNCHANGED <<list, collector, steady, shifted, queue>>
  BY DEF TriageIssues, CompileQueue, queueVars, repository
<1>2. attestation' \in Attestation
  BY QueueExportAssumption
     DEF QueueInv, TriageIssues, CompileQueue, queueVars, Attestation, Times
<1> QED
  BY <1>1, <1>2
     DEF QueueInv, WhilePaging, ReadUpTo, WhenRead, Wanted, QueueIsComplete

LEMMA QueueStep ==
    ASSUME QueueInv, time \in Times, QueueNext \/ UNCHANGED queueVars
    PROVE  QueueInv'
  BY StartCollectionKeeps, ReadPageKeeps, CollectionEnds, OpenKeeps, CloseKeeps,
       TriageKeeps
     DEF QueueNext

LEMMA QueueStart ==
    ASSUME QueueInit, time = 0
    PROVE  QueueInv
<1>1. 0 \in Times /\ Triage \in Nat
  BY DrillWorldAssumption, QueueExportAssumption DEF Times
<1>2. collector \in Collector /\ collector.at = "idle"
  BY <1>1 DEF QueueInit, Ready, Collector
<1>3. attestation \in Attestation /\ list \in Seq(Issues) /\ queue = None
  BY <1>1 DEF QueueInit, Attestation
<1> QED BY <1>2, <1>3 DEF QueueInit, QueueInv, WhilePaging, WhenRead, QueueIsComplete

LEMMA QueueSafe == QueueInv => QueueIsComplete
  BY DEF QueueInv

(***************************************************************************)
(* The runners that look at production.  What has been failing all the     *)
(* time has been seen by the looks that decide it; and a release that both *)
(* looks at the containers saw has been that of both at once, unless both  *)
(* were replaced in between.                                               *)
(***************************************************************************)

AllLooks == Len(Looks(runnerKind))
Looked == 1..(AllLooks - observer.left)

ObserverShape ==
    /\ runnerKind \in Kinds
    /\ observer.left \in 0..AllLooks /\ observer.bad \in BOOLEAN
    /\ observer = [left |-> observer.left, seen |-> observer.seen, bad |-> observer.bad,
                   at |-> observer.at, next |-> observer.next]
    /\ observer # Away => observer.left > 0 /\ observation = None
    /\ deployed \in [Containers -> 1..MaxChanges]

(* The history is that of production since the runner began. *)
HistoryGoesOn ==
    observer.left > 0 =>
        /\ There \subseteq meanwhile.together
        /\ meanwhile.moved \subseteq Containers
        /\ meanwhile.failing \subseteq failing

(* Nothing has been failing all the time that has been looked at, or the   *)
(* runner knows of it.                                                     *)
FailuresAreKnown ==
    observer.left > 0 /\ ~observer.bad =>
        \A i \in Looked : ChecksOf(Looks(runnerKind)[i]) \cap meanwhile.failing = {}

WasThere(what) ==
    \/ what \in meanwhile.together
    \/ runnerKind = "maintenance" /\ meanwhile.moved = Containers

(* Of the releases: first of none, then of the frontend, then of both.     *)
ReleasesSeen ==
    runnerKind = "maintenance" =>
        /\ observer.left \in {5, 6} => observer.seen = {}
        /\ observer.left = 4 =>
            \E r \in 1..MaxChanges :
                /\ observer.seen = {r}
                /\ deployed["frontend"] = r \/ "frontend" \in meanwhile.moved
                /\ \/ "backend" \in meanwhile.moved
                   \/ deployed["backend"] = r => r \in meanwhile.together
        /\ observer.left \in 1..3 => \A r : observer.seen = {r} => WasThere(r)

CertificatesSeen ==
    runnerKind = "certificate" =>
        /\ observer.left = 2 => observer.seen = {}
        /\ observer.left = 1 => observer.seen \subseteq meanwhile.together

ObservationInv ==
    /\ ObserverShape /\ HistoryGoesOn /\ FailuresAreKnown
    /\ ReleasesSeen /\ CertificatesSeen
    /\ SawWhatWasThere

LEMMA LooksAre ==
    /\ Len(Looks("maintenance")) = 6 /\ Len(Looks("certificate")) = 2
    /\ DOMAIN Looks("maintenance") = 1..6 /\ DOMAIN Looks("certificate") = 1..2
    /\ Looks("maintenance")[1] = "http" /\ Looks("maintenance")[2] = "frontend"
    /\ Looks("maintenance")[3] = "backend" /\ Looks("maintenance")[4] = "database"
    /\ Looks("maintenance")[5] = "backup" /\ Looks("maintenance")[6] = "logs"
    /\ Looks("certificate")[1] = "health" /\ Looks("certificate")[2] = "readiness"
  BY DEF Looks

LEMMA HowManyLooks ==
    ASSUME runnerKind \in Kinds
    PROVE  AllLooks \in {2, 6} /\ DOMAIN Looks(runnerKind) = 1..AllLooks
  BY LooksAre DEF Kinds, AllLooks

(* The looks that are over when one more is. *)
LEMMA OneMoreLook ==
    ASSUME ObserverShape, observer.left > 0
    PROVE  /\ Len(Looks(runnerKind)) - observer.left + 1 \in 1..AllLooks
           /\ 1..(AllLooks - (observer.left - 1))
                = Looked \cup {Len(Looks(runnerKind)) - observer.left + 1}
  BY HowManyLooks DEF ObserverShape, AllLooks, Looked

(* What is there for a maintenance to see, or for a certificate. *)
LEMMA BothAreThere ==
    ASSUME runnerKind = "maintenance", deployed \in [Containers -> 1..MaxChanges],
           deployed["frontend"] = deployed["backend"]
    PROVE  deployed["frontend"] \in There
  BY DEF There, Containers

LEMMA ReleasesLookedAt ==
    ASSUME ObservationInv, runnerKind = "maintenance", observer.left > 0
    PROVE  LET seen == observer.seen \cup Seen(NextLook)
           IN  /\ observer.left - 1 = 5 => seen = {}
               /\ observer.left - 1 = 4 =>
                    \E r \in 1..MaxChanges :
                        /\ seen = {r}
                        /\ deployed["frontend"] = r
                        /\ deployed["backend"] = r => r \in meanwhile.together
               /\ observer.left - 1 \in 0..3 => \A r : seen = {r} => WasThere(r)
<1> DEFINE seen == observer.seen \cup Seen(NextLook)
<1>1. /\ AllLooks = 6 /\ observer.left \in 1..6
      /\ deployed \in [Containers -> 1..MaxChanges]
      /\ NextLook = Looks("maintenance")[7 - observer.left]
      /\ There \subseteq meanwhile.together /\ meanwhile.moved \subseteq Containers
  <2>1. AllLooks = 6
    BY LooksAre DEF AllLooks
  <2>2. observer.left \in 1..6 /\ deployed \in [Containers -> 1..MaxChanges]
    BY <2>1 DEF ObservationInv, ObserverShape
  <2>3. 6 - observer.left + 1 = 7 - observer.left
    BY <2>2
  <2>4. NextLook = Looks("maintenance")[7 - observer.left]
    BY <2>3, LooksAre DEF NextLook
  <2>5. There \subseteq meanwhile.together /\ meanwhile.moved \subseteq Containers
    BY DEF ObservationInv, HistoryGoesOn
  <2> QED BY <2>1, <2>2, <2>4, <2>5
<1>2. CASE observer.left = 6
  BY <1>1, <1>2, LooksAre DEF ObservationInv, ReleasesSeen, Seen
<1>3. CASE observer.left = 5
  <2>1. seen = {deployed["frontend"]} /\ deployed["frontend"] \in 1..MaxChanges
    BY <1>1, <1>3, LooksAre DEF ObservationInv, ReleasesSeen, Seen, Containers
  <2>2. deployed["backend"] = deployed["frontend"] =>
            deployed["frontend"] \in meanwhile.together
    BY <1>1, BothAreThere
  <2> QED BY <1>3, <2>1, <2>2
<1>4. CASE observer.left = 4
  <2>1. PICK r \in 1..MaxChanges :
                /\ observer.seen = {r}
                /\ deployed["frontend"] = r \/ "frontend" \in meanwhile.moved
                /\ \/ "backend" \in meanwhile.moved
                   \/ deployed["backend"] = r => r \in meanwhile.together
    BY <1>4 DEF ObservationInv, ReleasesSeen
  <2>2. seen = {r, deployed["backend"]}
    BY <1>1, <1>4, <2>1, LooksAre DEF Seen
  <2>3. ASSUME NEW q, seen = {q}
        PROVE  WasThere(q)
    <3>1. q = r /\ deployed["backend"] = r
      BY <2>2, <2>3
    <3>2. CASE "backend" \notin meanwhile.moved
      BY <2>1, <3>1, <3>2 DEF WasThere
    <3>3. CASE {"frontend", "backend"} \subseteq meanwhile.moved
      BY <1>1, <3>3 DEF WasThere, Containers
    <3>4. CASE "frontend" \notin meanwhile.moved
      BY <1>1, <2>1, <3>1, <3>4, BothAreThere DEF WasThere
    <3> QED BY <3>2, <3>3, <3>4
  <2> QED BY <1>4, <2>3
<1>5. CASE observer.left \in 1..3
  <2>1. Seen(NextLook) = {}
    BY <1>1, <1>5, LooksAre DEF Seen
  <2> QED BY <1>5, <2>1 DEF ObservationInv, ReleasesSeen
<1> QED BY <1>1, <1>2, <1>3, <1>4, <1>5

LEMMA CertificatesLookedAt ==
    ASSUME ObservationInv, runnerKind = "certificate", observer.left > 0
    PROVE  observer.seen \cup Seen(NextLook) \subseteq meanwhile.together
<1>1. /\ observer.left \in 1..2
      /\ NextLook = Looks("certificate")[3 - observer.left]
      /\ {served} \subseteq meanwhile.together
  <2>1. AllLooks = 2
    BY LooksAre DEF AllLooks
  <2>2. observer.left \in 1..2
    BY <2>1 DEF ObservationInv, ObserverShape
  <2>3. 2 - observer.left + 1 = 3 - observer.left
    BY <2>2
  <2>4. NextLook = Looks("certificate")[3 - observer.left]
    BY <2>3, LooksAre DEF NextLook
  <2>5. There = {served} /\ There \subseteq meanwhile.together
    BY DEF ObservationInv, HistoryGoesOn, There
  <2> QED BY <2>2, <2>4, <2>5
<1>2. Seen(NextLook) = {served}
  BY <1>1, LooksAre DEF Seen
<1> QED BY <1>1, <1>2 DEF ObservationInv, CertificatesSeen

LEMMA LookKept ==
    ASSUME ObservationInv, Look
    PROVE  ObservationInv'
<1> DEFINE n == Len(Looks(runnerKind)) - observer.left + 1
           seen == observer.seen \cup Seen(NextLook)
           bad == observer.bad \/ ChecksOf(NextLook) \cap failing # {}
<1>1. /\ observer.left > 0 /\ observer.left \in Nat
      /\ UNCHANGED <<runnerKind, deployed, served, failing, meanwhile>>
      /\ AllLooks \in {2, 6} /\ DOMAIN Looks(runnerKind) = 1..AllLooks
      /\ n \in 1..AllLooks
      /\ NextLook = Looks(runnerKind)[n]
      /\ 1..(AllLooks - (observer.left - 1)) = Looked \cup {n}
      /\ meanwhile.failing \subseteq failing
      /\ runnerKind \in Kinds
  BY HowManyLooks, OneMoreLook DEF Look, production, ObservationInv, ObserverShape,
       HistoryGoesOn, NextLook
<1>2. AllLooks' = AllLooks /\ There' = There /\ \A what : WasThere(what)' <=> WasThere(what)
  BY <1>1 DEF AllLooks, There, WasThere
<1>3. ~bad => \A i \in Looked \cup {n} :
            ChecksOf(Looks(runnerKind)[i]) \cap meanwhile.failing = {}
  BY <1>1 DEF ObservationInv, FailuresAreKnown
<1>4. bad \in BOOLEAN /\ observer # Away /\ observation = None
  BY <1>1 DEF ObservationInv, ObserverShape, Away
<1>5. CASE observer.left > 1
  <2>1. /\ observer' = [left |-> observer.left - 1, seen |-> seen, bad |-> bad,
                        at |-> IF NextLook = "backup" THEN time ELSE observer.at,
                        next |-> observer.next]
        /\ observation' = observation
    BY <1>5, <1>1 DEF Look, ObservationInv, ObserverShape
  <2>2. runnerKind = "maintenance" =>
            /\ observer.left - 1 = 5 => seen = {}
            /\ observer.left - 1 = 4 =>
                \E r \in 1..MaxChanges :
                    /\ seen = {r}
                    /\ deployed["frontend"] = r
                    /\ deployed["backend"] = r => r \in meanwhile.together
            /\ observer.left - 1 \in 0..3 => \A r : seen = {r} => WasThere(r)
    BY <1>1, ReleasesLookedAt
  <2>3. runnerKind = "certificate" => seen \subseteq meanwhile.together
    BY <1>1, CertificatesLookedAt
  <2> HIDE DEF seen, bad, n
  <2>4. /\ observer'.left = observer.left - 1
        /\ observer'.seen = seen /\ observer'.bad = bad
        /\ ObserverShape'
    BY <1>1, <1>2, <1>4, <1>5, <2>1 DEF ObservationInv, ObserverShape
  <2>5. Looked' = Looked \cup {n}
    BY <1>1, <1>2, <2>4 DEF Looked
  <2>6. HistoryGoesOn'
    BY <1>1, <1>2 DEF ObservationInv, HistoryGoesOn
  <2>7. FailuresAreKnown'
    BY <1>1, <1>3, <2>4, <2>5 DEF FailuresAreKnown
  <2>8. ReleasesSeen'
    <3>1. observer.left \in 2..6
      BY <1>1, <1>5, LooksAre DEF ObservationInv, ObserverShape, AllLooks
    <3> SUFFICES ASSUME runnerKind = "maintenance"
                 PROVE  ReleasesSeen'
      BY <1>1 DEF ReleasesSeen
    <3>2. observer'.left \in {5, 6} => observer'.seen = {}
      BY <2>2, <2>4, <3>1
    <3>3. observer'.left = 4 =>
            \E r \in 1..MaxChanges :
                /\ observer'.seen = {r}
                /\ deployed'["frontend"] = r \/ "frontend" \in meanwhile'.moved
                /\ \/ "backend" \in meanwhile'.moved
                   \/ deployed'["backend"] = r => r \in meanwhile'.together
      BY <1>1, <2>2, <2>4, <3>1
    <3>4. ASSUME observer'.left \in 1..3, NEW r, observer'.seen = {r}
          PROVE  WasThere(r)'
      BY <1>2, <2>2, <2>4, <3>1, <3>4
    <3> QED BY <3>2, <3>3, <3>4 DEF ReleasesSeen
  <2>9. CertificatesSeen'
    <3>1. ASSUME runnerKind = "certificate"
          PROVE  observer.left = 2
      <4>1. AllLooks = 2
        BY <3>1, LooksAre DEF AllLooks
      <4>2. observer.left \in 0..2
        BY <4>1 DEF ObservationInv, ObserverShape
      <4> QED BY <1>5, <4>2
    <3> QED BY <1>1, <2>3, <2>4, <3>1 DEF CertificatesSeen
  <2>10. SawWhatWasThere'
    BY <1>4, <2>1 DEF SawWhatWasThere
  <2> QED BY <2>4, <2>6, <2>7, <2>8, <2>9, <2>10 DEF ObservationInv
<1>6. CASE ~(observer.left > 1)
  <2>1. /\ observer' = Away
        /\ observation' = IF ~bad /\ Complete(seen)
                          THEN [what |-> CHOOSE r \in seen : TRUE, at |-> observer.at]
                          ELSE None
    BY <1>6 DEF Look
  <2>2. observer.left = 1 /\ Looked \cup {n} = 1..AllLooks
    BY <1>1, <1>6
  <2>3. /\ runnerKind = "maintenance" => \A r : seen = {r} => WasThere(r)
        /\ runnerKind = "certificate" => seen \subseteq meanwhile.together
    BY <1>1, <2>2, ReleasesLookedAt, CertificatesLookedAt
  <2> HIDE DEF seen, bad, n
  <2>4. ObserverShape'
    BY <1>1, <1>2, <2>1 DEF ObservationInv, ObserverShape, Away
  <2>5. HistoryGoesOn' /\ FailuresAreKnown' /\ ReleasesSeen' /\ CertificatesSeen'
    BY <2>1 DEF HistoryGoesOn, FailuresAreKnown, ReleasesSeen, CertificatesSeen, Away
  <2>6. ASSUME ~bad, Complete(seen)
        PROVE  /\ LookedAt(runnerKind) \cap meanwhile.failing = {}
               /\ WasThere(CHOOSE r \in seen : TRUE)
    <3>1. \A i \in 1..AllLooks :
            ChecksOf(Looks(runnerKind)[i]) \cap meanwhile.failing = {}
      BY <1>3, <2>2, <2>6
    <3>2. LookedAt(runnerKind) \cap meanwhile.failing = {}
      BY <1>1, <3>1 DEF LookedAt
    <3>3. seen = {CHOOSE r \in seen : TRUE}
      BY <2>6 DEF Complete, TheSame
    <3> DEFINE what == CHOOSE r \in seen : TRUE
    <3>4. seen = {what} /\ what \in seen
      BY <3>3
    <3> HIDE DEF what
    <3>5. WasThere(what)
      BY <1>1, <2>3, <3>4 DEF WasThere, Kinds
    <3> QED BY <3>2, <3>5 DEF what
  <2>7. SawWhatWasThere'
    BY <1>1, <2>1, <2>6 DEF SawWhatWasThere, WasThere
  <2> QED BY <2>4, <2>5, <2>7 DEF ObservationInv
<1> QED BY <1>5, <1>6

(* Production changes.  If nobody looks, the history is left alone. *)
LEMMA ProductionChanges ==
    ASSUME ObservationInv, Deploy \/ ReplaceCertificate \/ Break \/ Recover
    PROVE  ObservationInv'
<1>1. /\ observer' = observer /\ runnerKind' = runnerKind /\ observation' = observation
      /\ Follow
  BY DEF Deploy, ReplaceCertificate, Break, Recover
<1>2. deployed' \in [Containers -> 1..MaxChanges]
  <2>1. deployed \in [Containers -> 1..MaxChanges]
    BY DEF ObservationInv, ObserverShape
  <2> QED BY <2>1 DEF Deploy, ReplaceCertificate, Break, Recover
<1>3. AllLooks' = AllLooks /\ Looked' = Looked
  BY <1>1 DEF AllLooks, Looked
<1>4. ObserverShape'
  BY <1>1, <1>2, <1>3 DEF ObservationInv, ObserverShape
<1>5. CASE observer = Away
  <2>1. observer'.left = 0 /\ meanwhile' = meanwhile
    BY <1>1, <1>5 DEF Follow, Away
  <2> QED
    BY <1>1, <1>4, <2>1 DEF ObservationInv, HistoryGoesOn, FailuresAreKnown, ReleasesSeen,
         CertificatesSeen, SawWhatWasThere
<1>6. CASE observer # Away
  <2>1. observation = None /\ observer.left > 0
    BY <1>6 DEF ObservationInv, ObserverShape
  <2> DEFINE anew == {c \in Containers : deployed'[c] # deployed[c]}
  <2>2. meanwhile' = [together |-> meanwhile.together \cup There',
                      moved |-> meanwhile.moved \cup anew,
                      failing |-> meanwhile.failing \cap failing']
    BY <1>1, <1>6 DEF Follow
  <2>3. /\ meanwhile.together \subseteq meanwhile'.together
        /\ There' \subseteq meanwhile'.together
        /\ meanwhile'.moved = meanwhile.moved \cup anew
        /\ meanwhile'.failing \subseteq meanwhile.failing
        /\ meanwhile'.failing \subseteq failing'
    BY <2>2
  <2>4. HistoryGoesOn'
    BY <1>1, <2>1, <2>3 DEF ObservationInv, HistoryGoesOn
  <2>5. meanwhile.moved \subseteq Containers /\ meanwhile'.moved \subseteq Containers
    BY <2>1, <2>3 DEF ObservationInv, HistoryGoesOn
  <2>6. FailuresAreKnown'
    BY <1>1, <1>3, <2>3 DEF ObservationInv, FailuresAreKnown
  <2>7. \A what : WasThere(what) => WasThere(what)'
    BY <1>1, <2>3, <2>5 DEF WasThere
  <2>8. \A c \in Containers : c \notin meanwhile'.moved =>
            c \notin meanwhile.moved /\ deployed'[c] = deployed[c]
    BY <2>3
  <2> HIDE DEF anew
  <2>9. ReleasesSeen'
    <3> SUFFICES ASSUME runnerKind = "maintenance"
                 PROVE  ReleasesSeen'
      BY <1>1 DEF ReleasesSeen
    <3>1. ASSUME observer.left = 4
          PROVE  \E r \in 1..MaxChanges :
                    /\ observer.seen = {r}
                    /\ deployed'["frontend"] = r \/ "frontend" \in meanwhile'.moved
                    /\ \/ "backend" \in meanwhile'.moved
                       \/ deployed'["backend"] = r => r \in meanwhile'.together
      <4>1. PICK r \in 1..MaxChanges :
                    /\ observer.seen = {r}
                    /\ deployed["frontend"] = r \/ "frontend" \in meanwhile.moved
                    /\ \/ "backend" \in meanwhile.moved
                       \/ deployed["backend"] = r => r \in meanwhile.together
        BY <3>1 DEF ObservationInv, ReleasesSeen
      <4> WITNESS r \in 1..MaxChanges
      <4> QED BY <2>3, <2>8, <4>1 DEF Containers
    <3> QED BY <1>1, <2>7, <3>1 DEF ObservationInv, ReleasesSeen
  <2>10. CertificatesSeen'
    BY <1>1, <2>3 DEF ObservationInv, CertificatesSeen
  <2>11. SawWhatWasThere'
    BY <1>1, <2>1 DEF SawWhatWasThere
  <2> QED BY <1>4, <2>4, <2>6, <2>9, <2>10, <2>11 DEF ObservationInv
<1> QED BY <1>5, <1>6

LEMMA ObservationStep ==
    ASSUME ObservationInv, ObservationNext \/ UNCHANGED observationVars
    PROVE  ObservationInv'
<1>1. CASE StartObserving
  <2> PICK next \in Times :
        observer' = [Away EXCEPT !.left = Len(Looks(runnerKind)), !.at = time,
                     !.next = next]
    BY <1>1 DEF StartObserving
  <2>1. /\ observer' = [left |-> AllLooks, seen |-> {}, bad |-> FALSE,
                        at |-> time, next |-> next]
        /\ observation = None
        /\ UNCHANGED <<runnerKind, deployed, served, failing, observation>>
        /\ meanwhile' = [together |-> There, moved |-> {}, failing |-> failing]
    BY <1>1 DEF StartObserving, MayObserve, Away, AllLooks, production
  <2>2. AllLooks' = AllLooks /\ AllLooks \in {2, 6} /\ There' = There
    BY <2>1, HowManyLooks DEF AllLooks, ObservationInv, ObserverShape, There
  <2>3. observer'.left = AllLooks /\ observer'.bad = FALSE /\ observer'.seen = {}
    BY ONLY <2>1
  <2>4. Looked' = {}
    BY <2>2, <2>3 DEF Looked
  <2>5. ObserverShape'
    <3>1. observer' = [left |-> observer'.left, seen |-> observer'.seen,
                       bad |-> observer'.bad, at |-> observer'.at,
                         next |-> observer'.next]
      BY ONLY <2>1
    <3>2. runnerKind' \in Kinds /\ deployed' \in [Containers -> 1..MaxChanges]
      BY <2>1 DEF ObservationInv, ObserverShape
    <3>3. observer'.left \in 0..AllLooks' /\ observer'.left > 0 /\ observation' = None
      BY ONLY <2>1, <2>2, <2>3
    <3>4. observer'.bad \in BOOLEAN
      BY ONLY <2>3
    <3> QED BY ONLY <3>1, <3>2, <3>3, <3>4 DEF ObserverShape
  <2>6. HistoryGoesOn' /\ FailuresAreKnown'
    BY <2>1, <2>2, <2>4 DEF HistoryGoesOn, FailuresAreKnown
  <2>7. ReleasesSeen' /\ CertificatesSeen'
    <3>1. /\ runnerKind = "maintenance" => observer'.left = 6
          /\ runnerKind = "certificate" => observer'.left = 2
      BY <2>3, LooksAre DEF AllLooks
    <3> QED BY <2>1, <2>3, <3>1 DEF ReleasesSeen, CertificatesSeen
  <2> QED BY <2>1, <2>5, <2>6, <2>7 DEF ObservationInv, SawWhatWasThere
<1>2. CASE Look
  BY <1>2, LookKept
<1>3. CASE LookFails
  <2>1. /\ observer' = Away /\ observer'.left = 0 /\ observer'.bad = FALSE
        /\ UNCHANGED <<runnerKind, deployed, served, failing, meanwhile, observation>>
    BY <1>3 DEF LookFails, production, Away
  <2>2. AllLooks' = AllLooks /\ AllLooks \in {2, 6}
    BY <2>1, HowManyLooks DEF AllLooks, ObservationInv, ObserverShape
  <2>3. ObserverShape'
    BY <2>1, <2>2 DEF ObservationInv, ObserverShape, Away
  <2> QED
    BY <2>1, <2>3 DEF ObservationInv, HistoryGoesOn, FailuresAreKnown, ReleasesSeen,
         CertificatesSeen, SawWhatWasThere
<1>4. CASE Deploy \/ ReplaceCertificate \/ Break \/ Recover
  BY <1>4, ProductionChanges
<1>5. CASE CompileObservation \/ UNCHANGED observationVars
  <2>1. UNCHANGED <<runnerKind, deployed, served, failing, observer, meanwhile,
    observation>>
    BY <1>5 DEF CompileObservation, observationVars, production
  <2>2. /\ AllLooks' = AllLooks /\ Looked' = Looked /\ There' = There
        /\ \A what : WasThere(what)' <=> WasThere(what)
    BY <2>1 DEF AllLooks, Looked, There, WasThere
  <2> QED
    BY <2>1, <2>2 DEF ObservationInv, ObserverShape, HistoryGoesOn, FailuresAreKnown,
         ReleasesSeen, CertificatesSeen, SawWhatWasThere
<1> QED BY <1>1, <1>2, <1>3, <1>4, <1>5 DEF ObservationNext

LEMMA ObservationStart == ObservationInit => ObservationInv
<1> SUFFICES ASSUME ObservationInit
             PROVE  ObservationInv
  OBVIOUS
<1>1. AllLooks \in {2, 6}
  BY HowManyLooks DEF ObservationInit
<1>2. observer = Away /\ observer.left = 0 /\ observer.bad = FALSE /\ observation = None
  BY DEF ObservationInit, Away
<1>3. ObserverShape
  <2>1. deployed \in [Containers -> 1..MaxChanges]
    BY ObservationAssumption DEF ObservationInit
  <2>2. observer = [left |-> observer.left, seen |-> observer.seen, bad |-> observer.bad,
                    at |-> observer.at, next |-> observer.next]
    BY <1>2 DEF Away
  <2>3. runnerKind \in Kinds
    BY DEF ObservationInit
  <2>4. observer.left \in 0..AllLooks
    BY ONLY <1>1, <1>2
  <2>5. observer.bad \in BOOLEAN
    BY ONLY <1>2
  <2> QED BY <1>2, <2>1, <2>2, <2>3, <2>4, <2>5 DEF ObserverShape
<1> QED
  BY <1>2, <1>3 DEF ObservationInv, HistoryGoesOn, FailuresAreKnown, ReleasesSeen,
       CertificatesSeen, SawWhatWasThere

(***************************************************************************)
(* The handover: how far the completion has written the files, and back,   *)
(* and on what.                                                            *)
(***************************************************************************)

(* A completion that writes has read documents that belong together, and   *)
(* the files before the one it comes to are new; a restoration has brought *)
(* back those before it.                                                   *)
Written ==
    /\ clerk.task = "write" =>
        /\ OnePublication(Got) /\ clerk.at \in 1..5
        /\ \A f \in Files : f < clerk.at => files[f] = "new"
    /\ clerk.task = "restore" =>
        /\ clerk.at \in 1..5
        /\ \A f \in Files : f < clerk.at => files[f] = "old"

(* Once the roadmap is closed nothing is written any more. *)
ClosedForGood ==
    verdict = "PASS" => clerk.task \notin {"write", "restore"}

HandoverInv ==
    /\ DOMAIN files = Files
    /\ clerk = [task |-> clerk.task, got |-> clerk.got, at |-> clerk.at,
                manifest |-> clerk.manifest]
    /\ Written /\ ClosedForGood /\ ClosedAsAWhole

LEMMA ClerkAt ==
    ASSUME NEW c, c = [task |-> c.task, got |-> c.got, at |-> c.at,
                       manifest |-> c.manifest],
           NEW at
    PROVE  [c EXCEPT !.at = at]
                = [task |-> c.task, got |-> c.got, at |-> at, manifest |-> c.manifest]
  OBVIOUS

LEMMA ClerkTask ==
    ASSUME NEW c, c = [task |-> c.task, got |-> c.got, at |-> c.at,
                       manifest |-> c.manifest],
           NEW task
    PROVE  [c EXCEPT !.task = task]
                = [task |-> task, got |-> c.got, at |-> c.at, manifest |-> c.manifest]
  OBVIOUS

LEMMA ClerkFields ==
    ASSUME HandoverInv, NEW task, NEW at
    PROVE  /\ [clerk EXCEPT !.task = task, !.at = at]
                = [task |-> task, got |-> clerk.got, at |-> at,
                   manifest |-> clerk.manifest]
           /\ [clerk EXCEPT !.at = at]
                = [task |-> clerk.task, got |-> clerk.got, at |-> at,
                   manifest |-> clerk.manifest]
<1> DEFINE c == [clerk EXCEPT !.task = task]
<1>1. clerk = [task |-> clerk.task, got |-> clerk.got, at |-> clerk.at,
               manifest |-> clerk.manifest]
  BY DEF HandoverInv
<1>2. c = [task |-> task, got |-> clerk.got, at |-> clerk.at, manifest |-> clerk.manifest]
  BY <1>1, ClerkTask
<1>3. [clerk EXCEPT !.task = task, !.at = at] = [c EXCEPT !.at = at]
  OBVIOUS
<1> HIDE DEF c
<1>4. /\ c = [task |-> c.task, got |-> c.got, at |-> c.at, manifest |-> c.manifest]
      /\ c.task = task /\ c.got = clerk.got /\ c.manifest = clerk.manifest
  BY ONLY <1>2
<1>5. [c EXCEPT !.at = at]
        = [task |-> task, got |-> clerk.got, at |-> at, manifest |-> clerk.manifest]
  BY <1>4, ClerkAt
<1> QED BY <1>1, <1>3, <1>5, ClerkAt

(* The commands that write no file. *)
LEMMA PaperKept ==
    ASSUME HandoverInv,
           \/ ReadDocument \/ ReadingFails
           \/ StartSignoffInput \/ AssembleSignoffInput \/ CompileSignoff
           \/ StartManifest \/ AssembleManifest \/ StartCompletion
           \/ Sign \/ (\E d \in Names : ReplaceDocument(d)) \/ RemovePaper
           \/ UNCHANGED handoverVars
    PROVE  HandoverInv'
<1>1. UNCHANGED <<files, closed, verdict>>
  BY DEF ReadDocument, ReadingFails, StartSignoffInput, AssembleSignoffInput,
         CompileSignoff, StartManifest, AssembleManifest, StartCompletion, Start, Sign,
         ReplaceDocument, RemovePaper, handoverVars, ending
<1>2. CASE clerk' = clerk
  <2>1. Got' = Got
    BY <1>2 DEF Got
  <2> QED
    BY <1>1, <1>2, <2>1 DEF HandoverInv, Written, ClosedForGood, ClosedAsAWhole,
                            PairTogether, AllOrNothing, OnePublication
<1>3. CASE /\ clerk' = [task |-> clerk'.task, got |-> clerk'.got, at |-> clerk'.at,
                        manifest |-> clerk'.manifest]
           /\ clerk.task \notin {"write", "restore"}
           /\ clerk'.task \notin {"write", "restore"}
  BY <1>1, <1>3 DEF HandoverInv, Written, ClosedForGood, ClosedAsAWhole,
                    PairTogether, AllOrNothing
<1>4. CASE ReadDocument
  <2>1. clerk' = [task |-> clerk.task,
                  got |-> Append(clerk.got, documents[Domains[Len(clerk.got) + 1]]),
                  at |-> clerk.at, manifest |-> clerk.manifest]
    BY <1>4 DEF ReadDocument, HandoverInv
  <2> QED BY <1>3, <1>4, <2>1 DEF ReadDocument
<1>5. CASE \/ ReadingFails \/ AssembleSignoffInput \/ AssembleManifest
           \/ StartSignoffInput \/ StartManifest \/ StartCompletion
  <2>1. /\ clerk.task \notin {"write", "restore"}
        /\ \/ clerk' = Off
           \/ \E task \in {"input", "manifest", "complete"} :
                clerk' = [Off EXCEPT !.task = task, !.manifest = handover]
    BY <1>5 DEF ReadingFails, AssembleSignoffInput, AssembleManifest, StartSignoffInput,
                StartManifest, StartCompletion, Start
  <2>2. \E task \in {"none", "input", "manifest", "complete"} : \E given :
            clerk' = [task |-> task, got |-> <<>>, at |-> 0, manifest |-> given]
    BY <2>1 DEF Off
  <2> QED BY <1>3, <2>1, <2>2
<1> QED
  BY <1>2, <1>4, <1>5 DEF CompileSignoff, Sign, ReplaceDocument, RemovePaper,
       handoverVars

(* The completion and the restoration. *)
LEMMA FilesKept ==
    ASSUME HandoverInv,
           \/ BeginToClose \/ WriteFile \/ WriteFails \/ CloseDone
           \/ RestoreFile \/ RestoreFails \/ RestoreDone \/ KillCompletion \/ RevertFiles
    PROVE  HandoverInv'
<1> USE DEF HandoverInv, Files
<1>1. /\ Off = [task |-> "none", got |-> <<>>, at |-> 0, manifest |-> None]
      /\ Off.task = "none"
  BY DEF Off
<1>2. CASE BeginToClose
  <2>1. CASE MayClose
    <3>1. /\ clerk' = [task |-> "write", got |-> clerk.got, at |-> 1,
                       manifest |-> clerk.manifest]
          /\ UNCHANGED <<files, closed, verdict>>
      BY <1>2, <2>1, ClerkFields DEF BeginToClose, ending
    <3>2. /\ Got' = Got /\ clerk'.task = "write" /\ clerk'.at = 1
          /\ clerk' = [task |-> clerk'.task, got |-> clerk'.got, at |-> clerk'.at,
                       manifest |-> clerk'.manifest]
      BY <3>1 DEF Got
    <3>3. OnePublication(Got) /\ files[1] = "old"
      BY <2>1 DEF MayClose, Open
    <3>4. Written' /\ ClosedForGood'
      BY <3>1, <3>2, <3>3 DEF Written, ClosedForGood, ClosedAsAWhole, AllOrNothing,
                              OnePublication
    <3> QED BY <3>1, <3>2, <3>4 DEF ClosedAsAWhole, PairTogether, AllOrNothing
  <2>2. CASE ~MayClose
    BY <1>1, <1>2, <2>2 DEF BeginToClose, ending, Written, ClosedForGood,
         ClosedAsAWhole,
                            PairTogether, AllOrNothing
  <2> QED BY <2>1, <2>2
<1>3. CASE WriteFile
  <2>1. /\ clerk' = [task |-> "write", got |-> clerk.got, at |-> clerk.at + 1,
                     manifest |-> clerk.manifest]
        /\ clerk.task = "write" /\ clerk.at \in 1..4
        /\ files' = [files EXCEPT ![clerk.at] = "new"] /\ verdict' = verdict
        /\ closed' = IF clerk.at = 1 THEN Got ELSE closed
    BY <1>3, ClerkFields DEF WriteFile
  <2>2. /\ Got' = Got /\ clerk'.task = "write" /\ clerk'.at = clerk.at + 1
        /\ clerk' = [task |-> clerk'.task, got |-> clerk'.got, at |-> clerk'.at,
                     manifest |-> clerk'.manifest]
    BY <2>1 DEF Got
  <2>3. Written' /\ ClosedForGood'
    BY <2>1, <2>2 DEF Written, ClosedForGood, OnePublication
  <2>4. PairTogether'
    BY <2>1 DEF Written, ClosedAsAWhole, PairTogether, OnePublication
  <2> QED BY <2>1, <2>2, <2>3, <2>4 DEF ClosedForGood, ClosedAsAWhole, AllOrNothing
<1>4. CASE WriteFails
  <2>1. PICK left \in {"old", "torn"} : files' = [files EXCEPT ![clerk.at] = left]
    BY <1>4 DEF WriteFails
  <2>2. /\ clerk' = [task |-> "restore", got |-> clerk.got, at |-> 1,
                     manifest |-> clerk.manifest]
        /\ clerk.task = "write" /\ UNCHANGED <<closed, verdict>>
    BY <1>4, ClerkFields DEF WriteFails
  <2> QED
    BY <2>1, <2>2 DEF Written, ClosedForGood, ClosedAsAWhole, PairTogether, AllOrNothing
<1>5. CASE CloseDone
  BY <1>1, <1>5 DEF CloseDone, Written, ClosedForGood, ClosedAsAWhole, PairTogether,
                    AllOrNothing
<1>6. CASE RestoreFile
  <2>1. /\ clerk' = [task |-> "restore", got |-> clerk.got, at |-> clerk.at + 1,
                     manifest |-> clerk.manifest]
        /\ clerk.task = "restore" /\ clerk.at \in 1..4
        /\ files' = [files EXCEPT ![clerk.at] = "old"] /\ verdict' = verdict
        /\ closed' = IF clerk.at = 1 THEN None ELSE closed
    BY <1>6, ClerkFields DEF RestoreFile, ToRestore
  <2>2. /\ clerk'.task = "restore" /\ clerk'.at = clerk.at + 1
        /\ clerk' = [task |-> clerk'.task, got |-> clerk'.got, at |-> clerk'.at,
                     manifest |-> clerk'.manifest]
    BY <2>1
  <2>3. Written' /\ ClosedForGood'
    BY <2>1, <2>2 DEF Written, ClosedForGood
  <2> QED
    BY <2>1, <2>2, <2>3 DEF ClosedForGood, ClosedAsAWhole, PairTogether, AllOrNothing
<1>7. CASE RestoreFails \/ RestoreDone \/ KillCompletion
  BY <1>1, <1>7 DEF RestoreFails, RestoreDone, KillCompletion, Written, ClosedForGood,
                    ClosedAsAWhole, PairTogether, AllOrNothing
<1>8. CASE RevertFiles
  BY <1>8 DEF RevertFiles, Written, ClosedForGood, ClosedAsAWhole, PairTogether,
              AllOrNothing
<1> QED BY <1>2, <1>3, <1>4, <1>5, <1>6, <1>7, <1>8

LEMMA HandoverStep ==
    ASSUME HandoverInv, HandoverNext \/ UNCHANGED handoverVars
    PROVE  HandoverInv'
  BY PaperKept, FilesKept DEF HandoverNext

LEMMA HandoverStart == HandoverInit => HandoverInv
  BY DEF HandoverInit, HandoverInv, Off, Files, Written, ClosedForGood, ClosedAsAWhole,
         PairTogether, AllOrNothing

(***************************************************************************)
(* The parts together: in every step the clock stays or goes on by one, as *)
(* does the count of mishaps, and each part does a step of its own or none.*)
(***************************************************************************)
World == time \in Times /\ mishaps \in 0..MaxIncidents

ClockGoes == World' /\ time <= time' /\ mishaps <= mishaps'

(* What every action does to the clock and to the count of mishaps. *)
Ticks ==
    \/ UNCHANGED <<time, mishaps>>
    \/ UNCHANGED time /\ Mishap
    \/ TimePasses

LEMMA TicksKeepTheWorld ==
    ASSUME World, Ticks
    PROVE  ClockGoes
<1>1. MaxTime \in Nat /\ MaxIncidents \in Nat
  BY DrillWorldAssumption
<1> QED BY <1>1 DEF World, Ticks, Mishap, TimePasses, Times, ClockGoes

LEMMA StartupTicks == StartupNext => Ticks
  BY DEF StartupNext, StartServer, TakeLock, LockTimesOut, ReadHistory, Apply, Unlock,
         Verify, KillServer, StopServer, Ticks

LEMMA AutomationTicks == AutomationNext => Ticks
  BY DEF AutomationNext, AcquireLease, BeginRule, Match, Notify, Succeed, Fail, EndRun,
         KillRun, Ticks

LEMMA BundleTicks == BundleNext => Ticks
<1>1. CASE Skip \/ ReadSource \/ RecordBundle \/ StartChild \/ ChildFails \/ ChildPasses
           \/ CompareAgain
  BY <1>1 DEF Skip, ReadSource, RecordBundle, StartChild, ChildFails, ChildPasses,
              CompareAgain, Ticks
<1>2. CASE LoadModule \/ LoadRequired
  BY <1>2 DEF LoadModule, LoadRequired, Load, Ticks
<1>3. CASE ReadUnstable \/ \E f \in SourceFiles : ChangeSource(f)
  BY <1>3 DEF ReadUnstable, ChangeSource, Edit, Ticks
<1> QED BY <1>1, <1>2, <1>3 DEF BundleNext

LEMMA GatesTicks == GatesNext => Ticks
<1>1. CASE \/ CopyWorker \/ ExecuteWorker \/ WorkerAnswers \/ RemoveWorker
           \/ Password \/ Code \/ AwaitNextStep \/ SecondCode
  BY <1>1 DEF CopyWorker, ExecuteWorker, WorkerAnswers, RemoveWorker, Password, Code,
              AwaitNextStep, SecondCode, Ticks
<1>2. CASE \/ Reads \/ SmokeLogout \/ FirstWrite \/ Answer \/ Repeat \/ CountRows
           \/ Clean \/ Recount \/ Leave \/ Rescue \/ ReadLogs \/ ReadHealth
  BY <1>2 DEF Reads, SmokeLogout, FirstWrite, Answer, Repeat, CountRows, Clean, Recount,
              Leave, Rescue, ReadLogs, ReadHealth, Ticks
<1>3. CASE \/ RequestTimesOut \/ AnsweredByError \/ WindowClosed
           \/ InputsRefused \/ KillStep \/ TryAgain
  BY <1>3 DEF RequestTimesOut, AnsweredByError, WindowClosed, InputsRefused, KillStep,
              TryAgain, Ticks
<1>4. ASSUME NEW r \in Tries,
             \/ WorkerCommits(r) \/ WorkerFails(r) \/ ServerTakesKey(r)
             \/ ServerWrites(r) \/ ServerFails(r)
      PROVE  Ticks
  BY <1>4 DEF WorkerCommits, WorkerFails, ServerTakesKey, ServerWrites, ServerFails,
       Ticks
<1>5. CASE TimePasses
  BY <1>5 DEF Ticks
<1> QED BY <1>1, <1>2, <1>3, <1>4, <1>5 DEF GatesNext

LEMMA BackupTicks == BackupNext => Ticks
  BY DEF BackupNext, StartDrill, OpenSnapshot, Dump, CloseSnapshot, CreateDrillDb,
       Restore,
         CountRestored, DropDrillDb, ExportDrill, StageFails, Cleanup, KillRunner,
         CompileBackup, CompileRestore, KillCompiler, WriteProduction, DamageDump,
         RestoreEnds, RemoveDocument, Ticks

LEMMA PageTicks == PageNext => Ticks
  BY DEF PageNext, StartPaging, SendPage, ReceiveReply, RequestFails, KillSender,
         ExportReceipts, ApproveManifest, CompileReceipts, RequestArrives,
         SomebodyAnswers, Ticks

LEMMA QueueTicks == QueueNext => Ticks
  BY DEF QueueNext, StartCollection, ReadPage, PageFails, ExportQueue, CompileQueue,
         OpenIssue, CloseIssue, TriageIssues, Ticks

LEMMA ObservationTicks == ObservationNext => Ticks
  BY DEF ObservationNext, StartObserving, Look, LookFails, CompileObservation, Deploy,
         ReplaceCertificate, Break, Recover, Ticks

LEMMA HandoverTicks == HandoverNext => Ticks
  BY DEF HandoverNext, ReadDocument, ReadingFails, StartSignoffInput,
       AssembleSignoffInput,
         CompileSignoff, StartManifest, AssembleManifest, StartCompletion, BeginToClose,
         WriteFile, WriteFails, CloseDone, RestoreFile, RestoreFails, RestoreDone,
         KillCompletion, Sign, ReplaceDocument, RemovePaper, RevertFiles, Start, Ticks

LEMMA AllTick ==
    ASSUME Next \/ UNCHANGED <<part, time, mishaps, allVars>>
    PROVE  Ticks
<1>1. CASE Next
  BY <1>1, StartupTicks, AutomationTicks, BundleTicks, GatesTicks, BackupTicks,
       PageTicks,
     QueueTicks, ObservationTicks, HandoverTicks DEF Next
<1>2. CASE UNCHANGED <<part, time, mishaps, allVars>>
  BY <1>2 DEF Ticks
<1> QED BY <1>1, <1>2

(* What each part does in a step of any of them. *)
LEMMA OneAtATime ==
    ASSUME Next \/ UNCHANGED <<part, time, mishaps, allVars>>
    PROVE  /\ StartupNext \/ UNCHANGED startupVars
           /\ AutomationNext \/ UNCHANGED automationVars
           /\ BundleNext \/ UNCHANGED bundleVars
           /\ GatesNext \/ UNCHANGED gateVars
           /\ BackupNext \/ UNCHANGED backupVars
           /\ PageNext \/ UNCHANGED pageVars
           /\ QueueNext \/ UNCHANGED queueVars
           /\ ObservationNext \/ UNCHANGED observationVars
           /\ HandoverNext \/ UNCHANGED handoverVars
<1>1. CASE Next
  BY <1>1, ZenonT(60) DEF Next
<1>2. CASE UNCHANGED <<part, time, mishaps, allVars>>
  BY <1>2 DEF allVars
<1> QED BY <1>1, <1>2

OperationsInv ==
    /\ World
    /\ StartupInv /\ AutomationInv /\ BundleInv /\ GatesInv /\ BackupInv
    /\ PageInv /\ QueueInv /\ ObservationInv /\ HandoverInv

LEMMA OperationsStart == Init => OperationsInv
<1> SUFFICES ASSUME Init
             PROVE  OperationsInv
  OBVIOUS
<1>1. /\ time = 0 /\ mishaps = 0
      /\ StartupInit /\ AutomationInit /\ BundleInit /\ GatesInit
      /\ BackupInit /\ PageInit /\ QueueInit /\ ObservationInit /\ HandoverInit
  BY DEF Init
<1>2. World
  BY <1>1, DrillWorldAssumption DEF World, Times
<1> QED BY <1>1, <1>2, StartupStart, AutomationStart, BundleStart, GatesStart,
     BackupStart,
           PageStart, QueueStart, ObservationStart, HandoverStart DEF OperationsInv

LEMMA OperationsStep ==
    ASSUME OperationsInv, Next \/ UNCHANGED <<part, time, mishaps, allVars>>
    PROVE  OperationsInv'
<1>1. /\ World /\ StartupInv /\ AutomationInv /\ BundleInv /\ GatesInv /\ BackupInv
      /\ PageInv /\ QueueInv /\ ObservationInv /\ HandoverInv
  BY DEF OperationsInv
<1>2. ClockGoes
  BY <1>1, AllTick, TicksKeepTheWorld
<1>3. /\ time \in Times /\ time' \in Times /\ time <= time' /\ World'
      /\ time \in Nat /\ time' \in Nat
      /\ mishaps \in Nat /\ mishaps' \in Nat /\ mishaps <= mishaps'
  BY <1>1, <1>2, DrillWorldAssumption DEF World, ClockGoes, Times
<1>4. StartupInv'
  BY <1>1, OneAtATime, StartupStep
<1>5. AutomationInv'
  BY <1>1, <1>3, OneAtATime, AutomationStep
<1>6. BundleInv'
  BY <1>1, OneAtATime, BundleStep
<1>7. GatesInv'
  BY <1>1, <1>3, OneAtATime, GatesStep
<1>8. BackupInv'
  BY <1>1, <1>3, OneAtATime, BackupStep
<1>9. PageInv'
  BY <1>1, OneAtATime, PageStep
<1>10. QueueInv'
  BY <1>1, <1>3, OneAtATime, QueueStep
<1>11. ObservationInv'
  BY <1>1, OneAtATime, ObservationStep
<1>12. HandoverInv'
  BY <1>1, OneAtATime, HandoverStep
<1> QED
  BY <1>3, <1>4, <1>5, <1>6, <1>7, <1>8, <1>9, <1>10, <1>11, <1>12 DEF OperationsInv

(* Whatever part runs, and whatever it does, the state of each is as its   *)
(* invariant says, in every behaviour.                                     *)
THEOREM OperationsInvariant == Spec => []OperationsInv
<1>1. Init => OperationsInv
  BY OperationsStart
<1>2. OperationsInv /\ [Next]_<<part, time, mishaps, allVars>> => OperationsInv'
  BY OperationsStep
<1> QED BY <1>1, <1>2, PTL DEF Spec

(* However many servers, of whatever releases, start together on an empty  *)
(* database and again later, and wherever one of them fails or is killed:  *)
(* no migration is applied twice.                                          *)
THEOREM MigrationsOnce == Spec => []AppliedOnce
<1>1. OperationsInv => AppliedOnce
  BY StartupSafe DEF OperationsInv
<1> QED BY <1>1, OperationsInvariant, PTL

(* A server that serves has found or applied every migration of its own    *)
(* release, with the text it knows, whatever other releases start beside   *)
(* it.                                                                     *)
THEOREM ServersMeetTheirSchema == Spec => []ServesItsSchema
<1>1. OperationsInv => ServesItsSchema
  BY StartupSafe DEF OperationsInv
<1> QED BY <1>1, OperationsInvariant, PTL

(* Any number of hosts, with clocks any distance apart: two of them run    *)
(* rules together only after a lease has run out, and a run that says      *)
(* SUCCEEDED has written the notices it counts.                            *)
THEOREM RulesRunAsRecorded == Spec => []RunsAsRecorded
<1>1. OperationsInv => RunsAsRecorded
  BY AutomationSafe DEF OperationsInv
<1> QED BY <1>1, OperationsInvariant, PTL

(* For any import graph: a step of the cutover that passed has run the     *)
(* files its command found at its start, whatever was edited while it ran; *)
(* of a step of the activation this is so if nothing was edited (the       *)
(* bundle digests).                                                        *)
THEOREM CodeWasApproved == Spec => []RanWhatWasApproved
<1>1. OperationsInv => RanWhatWasApproved
  BY BundleSafe DEF OperationsInv
<1> QED BY <1>1, OperationsInvariant, PTL

(* For any number of runs, killed or given up at any place: a step of the  *)
(* gates that passed has left no worker, transaction or row behind.        *)
THEOREM NothingIsLeftByAPass == Spec => []PassLeavesNothing
<1>1. OperationsInv => PassLeavesNothing
  BY GatesSafe DEF OperationsInv
<1> QED BY <1>1, OperationsInvariant, PTL

(* A gate whose code was refused, because its actor's last login used the  *)
(* one of this step of the clock, waits for the next step, and the code it *)
(* presents then is accepted, whatever runs were given up before.          *)
THEOREM SecondCodesWork == Spec => []SecondCodeWorks
<1>1. OperationsInv => SecondCodeWorks
  BY GatesSafe DEF OperationsInv
<1> QED BY <1>1, OperationsInvariant, PTL

(* An export of a restore drill says what was counted in the drill         *)
(* database of this very run, though the dump was damaged or production    *)
(* written meanwhile.                                                      *)
THEOREM DrillsAreReal == Spec => []DrillWasReal
<1>1. OperationsInv => DrillWasReal
  BY BackupSafe DEF OperationsInv
<1> QED BY <1>1, OperationsInvariant, PTL

(* A drill that ended by itself, at whatever stage it failed, has left no  *)
(* drill database behind unless its outcome says so, and no transaction if *)
(* it passed.                                                              *)
THEOREM NoDrillDatabaseStays == Spec => []NothingLeftBehind
<1>1. OperationsInv => NothingLeftBehind
  BY BackupSafe DEF OperationsInv
<1> QED BY <1>1, OperationsInvariant, PTL

(* Any number of requests for a drill, arriving at any time and in any     *)
(* order: the provider pages nobody twice for it.                          *)
THEOREM NobodyIsPagedTwice == Spec => []PagedOnce
<1>1. OperationsInv => PagedOnce
  BY PageSafe DEF OperationsInv
<1> QED BY <1>1, OperationsInvariant, PTL

(* For a list of any length and pages of any size: an export of the queue  *)
(* has every issue that stayed open, if none was closed while it was read. *)
THEOREM ExportsAreComplete == Spec => []QueueIsComplete
<1>1. OperationsInv => QueueIsComplete
  BY QueueSafe DEF OperationsInv
<1> QED BY <1>1, OperationsInvariant, PTL

(* What an observation says of production is so, if production did not     *)
(* change since its runner began.                                          *)
THEOREM ObservationsAreTrue == Spec => []SawWhatWasThere
<1>1. OperationsInv => SawWhatWasThere
  BY DEF OperationsInv, ObservationInv
<1> QED BY <1>1, OperationsInvariant, PTL

(* A completion of P7 that ends by itself has written all its files or     *)
(* none, and on documents that belong together, whatever was replaced      *)
(* while it read.                                                          *)
THEOREM HandoverIsWhole == Spec => []ClosedAsAWhole
<1>1. OperationsInv => ClosedAsAWhole
  BY DEF OperationsInv, HandoverInv
<1> QED BY <1>1, OperationsInvariant, PTL
================================================================================
