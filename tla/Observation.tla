------------------------------ MODULE Observation ------------------------------
(***************************************************************************)
(* Two runners that look at production and export what they saw: the daily *)
(* maintenance (public health, the release of the containers, failed       *)
(* logins, the last backup, server errors) and the certificate (two        *)
(* requests at the same time).  They look at one thing after the other     *)
(* while releases are deployed, certificates are replaced and parts of     *)
(* production fail and recover.                                            *)
(***************************************************************************)
EXTENDS DrillWorld, Sequences

CONSTANTS
    MaxChanges,     \* bound: releases, and certificates
    Hour, OneDay    \* greatest age of a certificate and of a maintenance export

ASSUME ObservationAssumption ==
    MaxChanges \in Nat \ {0} /\ Hour \in Nat /\ OneDay \in Nat

VARIABLES
    runnerKind, \* which of the two runners this is
    deployed,   \* the release that the label of each container names
    served,     \* the certificate
    failing,    \* the checks that would not pass now
    observer,   \* what the process of the runner knows
    meanwhile,  \* history: what production has been like while the runner looked
    observation,
    report      \* the evidence compiled from the observation, or None

observationVars ==
    <<runnerKind, deployed, served, failing, observer, meanwhile, observation, report>>
production == <<deployed, served, failing>>

Kinds == {"maintenance", "certificate"}
Containers == {"frontend", "backend"}

(* What a runner looks at, in order. *)
Looks(k) ==
    IF k = "maintenance"
    THEN <<"http", "frontend", "backend", "database", "backup", "logs">>
    ELSE <<"health", "readiness">>

(* The checks that each look decides. *)
ChecksOf(look) ==
    CASE look = "http" -> {"frontend_health", "api_health", "database_health"}
      [] look = "database" -> {"login_failure_spike"}
      [] look = "backup" -> {"backup_success"}
      [] look = "logs" -> {"http_5xx"}
      [] look = "health" -> {"frontend_health"}
      [] look = "readiness" -> {"database_health"}
      [] OTHER -> {}

LookedAt(k) == UNION {ChecksOf(Looks(k)[i]) : i \in DOMAIN Looks(k)}
Checks == UNION {LookedAt(k) : k \in Kinds}

ObservationTypeOK ==
    /\ runnerKind \in Kinds
    /\ deployed \in [Containers -> 1..MaxChanges]
    /\ served \in 1..MaxChanges
    /\ failing \subseteq Checks
    /\ observer.left \in 0..6 /\ observer.bad \in BOOLEAN
    /\ meanwhile \in [together : SUBSET (1..MaxChanges), moved : SUBSET Containers,
                     failing : SUBSET Checks]
    /\ report \in Times \cup {None}

Away == [left |-> 0, seen |-> {}, bad |-> FALSE, at |-> 0, next |-> 0]

ObservationInit ==
    /\ runnerKind \in Kinds
    /\ deployed = [c \in Containers |-> 1]
    /\ served = 1
    /\ failing = {}
    /\ observer = Away
    /\ meanwhile = [together |-> {}, moved |-> {}, failing |-> {}]
    /\ observation = None
    /\ report = None

(* What there is to see: the release, while both containers are of one; or *)
(* the certificate.                                                        *)
There ==
    IF runnerKind = "maintenance"
    THEN {r \in 1..MaxChanges : \A c \in Containers : deployed[c] = r}
    ELSE {served}

(* together: all that there has been to see since the runner began; moved: *)
(* the containers that were replaced since; failing: the checks that have  *)
(* been failing all the time.                                              *)
Follow ==
    meanwhile' =
        IF observer = Away THEN meanwhile
        ELSE [together |-> meanwhile.together \cup There',
              moved |-> meanwhile.moved \cup {c \in Containers : deployed'[c] # deployed[c]},
              failing |-> meanwhile.failing \cap failing']

----------------------------------------------------------------------------
(* The runners.  left: the looks that remain; seen: the releases, or the   *)
(* certificates, that were seen.                                           *)
MayObserve == observer = Away /\ observation = None

StartObserving ==
    /\ MayObserve
    /\ \E next \in Times :
        observer' = [Away EXCEPT !.left = Len(Looks(runnerKind)), !.at = time,
                                 !.next = next]
    /\ meanwhile' = [together |-> There, moved |-> {}, failing |-> failing]
    /\ UNCHANGED <<runnerKind, production, observation, report, time, mishaps>>

NextLook == Looks(runnerKind)[Len(Looks(runnerKind)) - observer.left + 1]

Seen(look) ==
    CASE look \in {"frontend", "backend"} -> {deployed[look]}
      [] look \in {"health", "readiness"} -> {served}
      [] OTHER -> {}

(* Mutant of Complete: one release is recorded, whichever it is. *)
CompleteWithAny(seen) ==
    runnerKind = "maintenance" => observer.next - observer.at \in 1..OneDay

(* One certificate, or one release, was seen. *)
TheSame(seen) == seen = {CHOOSE r \in seen : TRUE}

(* What the export requires beside the checks: one release, or one         *)
(* certificate, and the next maintenance within a day.                     *)
Complete(seen) ==
    /\ TheSame(seen)
    /\ runnerKind = "maintenance" => observer.next - observer.at \in 1..OneDay

(* Look at the next thing; after the last one, write the observation or    *)
(* give up.  The time of a certificate is that of the beginning, the time  *)
(* of a maintenance is taken before the backup and the logs are looked at. *)
Look ==
    /\ observer.left > 0
    /\ LET seen == observer.seen \cup Seen(NextLook)
           bad == observer.bad \/ ChecksOf(NextLook) \cap failing # {}
       IN  IF observer.left > 1
           THEN /\ observer' = [observer EXCEPT !.left = @ - 1, !.seen = seen, !.bad = bad,
                                !.at = IF NextLook = "backup" THEN time ELSE @]
                /\ UNCHANGED observation
           ELSE /\ observer' = Away
                /\ observation' =
                    IF ~bad /\ Complete(seen)
                    THEN [what |-> CHOOSE r \in seen : TRUE, at |-> observer.at]
                    ELSE None
    /\ UNCHANGED <<runnerKind, production, meanwhile, report, time, mishaps>>

LookFails ==
    /\ observer.left > 0
    /\ Mishap
    /\ observer' = Away
    /\ UNCHANGED <<runnerKind, production, meanwhile, observation, report, time>>

Fresh(o) == time - o.at <= (IF runnerKind = "maintenance" THEN OneDay ELSE Hour)

CompileObservation ==
    /\ observation # None /\ report = None
    /\ Fresh(observation)
    /\ report' = time
    /\ UNCHANGED <<runnerKind, production, observer, meanwhile, observation, time, mishaps>>

----------------------------------------------------------------------------
(* Production, as far as this runner looks at it.  A container is replaced *)
(* by one of another release, a newer one or, when a release is taken      *)
(* back, an older one.                                                     *)
Deploy ==
    /\ runnerKind = "maintenance"
    /\ \E c \in Containers :
        \E release \in (1..MaxChanges) \ {deployed[c]} :
            deployed' = [deployed EXCEPT ![c] = release]
    /\ UNCHANGED <<runnerKind, served, failing, observer, observation, report,
                   time, mishaps>>
    /\ Follow

ReplaceCertificate ==
    /\ runnerKind = "certificate"
    /\ served' \in (1..MaxChanges) \ {served}
    /\ UNCHANGED <<runnerKind, deployed, failing, observer, observation, report,
                   time, mishaps>>
    /\ Follow

Break ==
    /\ Mishap
    /\ \E c \in LookedAt(runnerKind) \ failing : failing' = failing \cup {c}
    /\ UNCHANGED <<runnerKind, deployed, served, observer, observation, report, time>>
    /\ Follow

Recover ==
    /\ \E c \in failing : failing' = failing \ {c}
    /\ UNCHANGED <<runnerKind, deployed, served, observer, observation, report,
                   time, mishaps>>
    /\ Follow

ObservationNext ==
    \/ StartObserving \/ Look \/ LookFails \/ CompileObservation
    \/ Deploy \/ ReplaceCertificate \/ Break \/ Recover
    \/ TimePasses /\ UNCHANGED observationVars

----------------------------------------------------------------------------
(* An observation is of production as it was at some moment while the      *)
(* runner looked, though it looks at one thing after the other and a       *)
(* deployment goes on: both containers were of its release at one time, or *)
(* the certificate was served; and no check that it looked at was failing  *)
(* from the beginning to the end.  Only if both containers were replaced   *)
(* meanwhile may it name a release that they never had together.           *)
SawWhatWasThere ==
    observation # None =>
        /\ LookedAt(runnerKind) \cap meanwhile.failing = {}
        /\ \/ observation.what \in meanwhile.together
           \/ runnerKind = "maintenance" /\ meanwhile.moved = Containers
=============================================================================
