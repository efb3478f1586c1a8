------------------------------ MODULE QueueExport ------------------------------
(***************************************************************************)
(* The export of the improvement queue: the collector reads the open       *)
(* issues with the operations label page by page, newest first, while      *)
(* people open, triage and close issues, and pull requests come and go in  *)
(* the same list.  An attestation of the triage owner says when the last   *)
(* triage was and when the next one will be.                               *)
(*                                                                         *)
(* The list is external.  The dates of each single item are left out.      *)
(***************************************************************************)
EXTENDS DrillWorld, Sequences, SequencesExt

CONSTANTS
    Issues,
    Pulls,          \* the issues that are pull requests
    PerPage,        \* 100 in the code
    MaxPages,       \* 10 in the code
    Day, Triage     \* greatest age of an export, and of a triage: seven days

ASSUME QueueExportAssumption ==
    /\ Pulls \subseteq Issues
    /\ PerPage \in Nat \ {0} /\ MaxPages \in Nat \ {0}
    /\ Day \in Nat /\ Triage \in Nat

VARIABLES
    list,           \* the open issues, newest first
    triaged,        \* the issues with a valid description of their triage
    past,           \* the issues that have been closed
    attestation,    \* when the last triage was and when the next one will be
    collector,      \* what the process of the collector knows
    steady,         \* issues that are open since the collection began
    shifted,        \* an issue has been closed since the collection began
    queue,          \* the export, or None
    filed           \* the evidence compiled from it, or None

queueVars == <<list, triaged, past, attestation, collector, steady, shifted, queue, filed>>
repository == <<list, triaged, past>>

QueueTypeOK ==
    /\ ToSet(list) \subseteq Issues /\ IsInjective(list)
    /\ triaged \subseteq Issues \ Pulls
    /\ past \subseteq Issues \ ToSet(list)
    /\ attestation.last \in Times /\ attestation.next \in Nat
    /\ collector.at \in {"idle", "page", "export"}
    /\ collector.page \in 1..(MaxPages + 1)
    /\ collector.got \subseteq [place : Nat, item : Issues, triaged : BOOLEAN]
    /\ steady \subseteq Issues /\ shifted \in BOOLEAN
    /\ filed \in Times \cup {None}

Ready == [at |-> "idle", page |-> 1, got |-> {}, began |-> 0, triage |-> None]

QueueInit ==
    /\ list = <<>> /\ triaged = {} /\ past = {}
    /\ attestation \in [last : {0}, next : 1..(Triage + 1)]
    /\ collector = Ready
    /\ steady = {} /\ shifted = FALSE
    /\ queue = None
    /\ filed = None

(* What both the collector and the compiler require of the attestation.    *)
TriageHolds(a) ==
    /\ time - a.last \in 0..Triage
    /\ a.next - time \in 1..Triage

----------------------------------------------------------------------------
(* The collector. *)
MayCollect == collector.at = "idle" /\ queue = None

StartCollection ==
    /\ MayCollect
    /\ TriageHolds(attestation)
    /\ collector' = [Ready EXCEPT !.at = "page", !.began = time, !.triage = attestation]
    /\ steady' = ToSet(list) /\ shifted' = FALSE
    /\ UNCHANGED <<repository, attestation, queue, filed, time, mishaps>>

Page(n) == SubSeq(list, (n - 1) * PerPage + 1,
                  IF n * PerPage <= Len(list) THEN n * PerPage ELSE Len(list))

Own(page) == {j \in DOMAIN page : page[j] \notin Pulls}

(* Mutant of IsLast: the pull requests are filtered out before.            *)
IsLastFiltered(page) == Cardinality(Own(page)) < PerPage

(* The last page is the one that is not full, pull requests included.      *)
IsLast(page) == Len(page) < PerPage

(* An issue as it is read: where, itself, and whether its body describes a *)
(* valid triage.  Pull requests are passed over.                           *)
Parsed(n) ==
    LET page == Page(n) IN
    {[place |-> (n - 1) * PerPage + j, item |-> page[j], triaged |-> page[j] \in triaged] :
        j \in Own(page)}

ReadPage ==
    /\ collector.at = "page"
    /\ LET got == collector.got \cup Parsed(collector.page)
       IN  collector' =
            IF IsLast(Page(collector.page))
            THEN [collector EXCEPT !.at = "export", !.got = got]
            ELSE IF collector.page = MaxPages THEN Ready
            ELSE [collector EXCEPT !.page = @ + 1, !.got = got]
    /\ UNCHANGED <<repository, attestation, steady, shifted, queue, filed, time, mishaps>>

PageFails ==
    /\ collector.at = "page"
    /\ Mishap
    /\ collector' = Ready
    /\ UNCHANGED <<repository, attestation, steady, shifted, queue, filed, time>>

(* Every item must be described, and none may be there twice.              *)
ExportQueue ==
    /\ collector.at = "export"
    /\ LET got == collector.got
       IN  queue' = IF /\ \A read \in got : read.triaged
                       /\ \A read, other \in got : read.item = other.item => read = other
                    THEN [items |-> {read.item : read \in got},
                          at |-> collector.began, triage |-> collector.triage]
                    ELSE None
    /\ collector' = Ready
    /\ UNCHANGED <<repository, attestation, steady, shifted, filed, time, mishaps>>

CompileQueue ==
    /\ queue # None /\ filed = None
    /\ time - queue.at <= Day
    /\ TriageHolds(queue.triage)
    /\ filed' = time
    /\ UNCHANGED <<repository, attestation, collector, steady, shifted, queue, time, mishaps>>

----------------------------------------------------------------------------
(* The people. *)
OpenIssue ==
    \E i \in Issues \ (ToSet(list) \cup past) :
        /\ list' = <<i>> \o list
        /\ triaged' \in {triaged, triaged \cup ({i} \ Pulls)}
        /\ UNCHANGED <<past, attestation, collector, steady, shifted, queue, filed,
                       time, mishaps>>

CloseIssue ==
    \E i \in DOMAIN list :
        /\ list' = RemoveAt(list, i)
        /\ past' = past \cup {list[i]}
        /\ IF collector.at = "page"
           THEN steady' = steady \ {list[i]} /\ shifted' = TRUE
           ELSE UNCHANGED <<steady, shifted>>
        /\ UNCHANGED <<triaged, attestation, collector, queue, filed, time, mishaps>>

TriageIssues ==
    /\ attestation' \in [last : {time}, next : (time + 1)..(time + Triage)]
    /\ triaged' = triaged \cup (ToSet(list) \ Pulls)
    /\ attestation # attestation' \/ triaged # triaged'
    /\ UNCHANGED <<list, past, collector, steady, shifted, queue, filed, time, mishaps>>

QueueNext ==
    \/ StartCollection \/ ReadPage \/ PageFails \/ ExportQueue \/ CompileQueue
    \/ OpenIssue \/ CloseIssue \/ TriageIssues
    \/ TimePasses /\ UNCHANGED queueVars

----------------------------------------------------------------------------
(* The export has every issue that stayed open while it was read, if none  *)
(* was closed: issues that were opened only repeat others, and that is     *)
(* refused.  A closed issue moves the next one to a page already read.     *)
QueueIsComplete ==
    queue # None /\ ~shifted => steady \ Pulls \subseteq queue.items
=============================================================================
