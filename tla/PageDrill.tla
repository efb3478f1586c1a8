------------------------------ MODULE PageDrill ------------------------------
(***************************************************************************)
(* Two drills that send messages to a provider and export its receipts:    *)
(* the alert delivery (five signals to one recipient) and the on-call      *)
(* escalation (first the primary, then the escalation owner).  A runner    *)
(* sends one message after the other and waits for each reply for fifteen  *)
(* seconds; a run that fails is started again by its operator, and sends   *)
(* everything again under the same idempotency keys.                       *)
(*                                                                         *)
(* The provider is external: it pages once for a key, it may be slow, and  *)
(* a request whose sender has given up may still arrive.  People answer a  *)
(* page when they do.                                                      *)
(***************************************************************************)
EXTENDS DrillWorld, Sequences

CONSTANTS
    Signals,        \* the alerts, in order
    Roles,          \* the people on call, in order: primary, escalation
    Within,         \* Within[m]: in what time a message must be answered
    Week,           \* greatest age of an on-call drill: seven days
    MaxManifests,   \* bound: approved manifests, each with a drill id
    MaxRuns         \* bound: runs of the runner

Script(k) == IF k = "alert" THEN Signals ELSE Roles
Messages == {Signals[i] : i \in DOMAIN Signals} \cup {Roles[i] : i \in DOMAIN Roles}

ASSUME PageDrillAssumption ==
    /\ Within \in [Messages -> Nat]
    /\ Week \in Nat /\ MaxManifests \in Nat \ {0} /\ MaxRuns \in Nat

VARIABLES
    kind,       \* which of the two drills this is
    manifest,   \* the drill id of the approved manifest
    runs,       \* how many runs there have been
    sender,     \* what the process of the runner knows
    network,    \* requests on their way to the provider
    pages,      \* what the provider has on record
    receipts,   \* the export, or None
    proof       \* the evidence compiled from it, or None

pageVars == <<kind, manifest, runs, sender, network, pages, receipts, proof>>

(* A page of the provider: who was paged for which drill, when, and when   *)
(* the page was answered.                                                  *)
PageRecord(p) ==
    /\ p.drill \in 1..MaxManifests /\ p.message \in Messages
    /\ p.at \in Times /\ p.answered \in Times \cup {None}

PageTypeOK ==
    /\ kind \in {"alert", "oncall"}
    /\ manifest \in 1..MaxManifests
    /\ runs \in 0..MaxRuns
    /\ sender.at \in {"idle", "send", "wait", "export"}
    /\ \A i \in DOMAIN sender.got : PageRecord(sender.got[i])
    /\ \A p \in pages : PageRecord(p)
    /\ proof \in Times \cup {None}

Idle == [at |-> "idle", next |-> 1, got |-> <<>>]

PageInit ==
    /\ kind \in {"alert", "oncall"}
    /\ manifest = 1
    /\ runs = 0
    /\ sender = Idle
    /\ network = {}
    /\ pages = {}
    /\ receipts = None
    /\ proof = None

(* Mutant of PageKey: a key for each attempt. *)
KeyOfAttempt(drill, message, run) == <<drill, message, run>>

(* The idempotency key of a message. *)
PageKey(drill, message, run) == <<drill, message>>

Current == Script(kind)[sender.next]
Request == [key |-> PageKey(manifest, Current, runs), drill |-> manifest,
            message |-> Current, run |-> runs]

----------------------------------------------------------------------------
(* The runner. *)

(* The path of the export is free, the manifest approved.                  *)
MayPage == sender.at = "idle" /\ receipts = None

StartPaging ==
    /\ MayPage
    /\ runs < MaxRuns
    /\ runs' = runs + 1
    /\ sender' = [Idle EXCEPT !.at = "send"]
    /\ UNCHANGED <<kind, manifest, network, pages, receipts, proof, time, mishaps>>

SendPage ==
    /\ sender.at = "send"
    /\ network' = network \cup {Request}
    /\ sender' = [sender EXCEPT !.at = "wait"]
    /\ UNCHANGED <<kind, manifest, runs, pages, receipts, proof, time, mishaps>>

(* The reply says what the provider has on record, answered or not.  The   *)
(* next message is sent in either case.                                    *)
ReceiveReply ==
    /\ sender.at = "wait" /\ Request \notin network
    /\ \E p \in pages :
        /\ p.key = Request.key
        /\ sender' = [at |-> IF sender.next = Len(Script(kind)) THEN "export" ELSE "send",
                      next |-> sender.next + 1, got |-> Append(sender.got, p)]
    /\ UNCHANGED <<kind, manifest, runs, network, pages, receipts, proof, time, mishaps>>

(* A timeout, a refusal or a reply that cannot be read.                    *)
RequestFails ==
    /\ sender.at = "wait"
    /\ Mishap
    /\ sender' = Idle
    /\ network' \in {network, network \ {Request}}
    /\ UNCHANGED <<kind, manifest, runs, pages, receipts, proof, time>>

KillSender ==
    /\ sender.at # "idle"
    /\ Mishap
    /\ sender' = Idle
    /\ UNCHANGED <<kind, manifest, runs, network, pages, receipts, proof, time>>

InTime(p) == p.answered # None /\ p.answered - p.at <= Within[p.message]

(* On-call receipts have an age limit, alert receipts have none.           *)
Recent(got) == kind = "oncall" => time - got[1].at <= Week

(* What the export and the trial compilation require of the receipts.      *)
Acceptable(got) ==
    /\ \A i \in DOMAIN got : InTime(got[i])
    /\ Recent(got)
    /\ kind = "oncall" =>
        \A i \in 1..(Len(got) - 1) : got[i].at <= got[i + 1].at

ExportReceipts ==
    /\ sender.at = "export"
    /\ receipts' = IF Acceptable(sender.got) THEN sender.got ELSE None
    /\ sender' = Idle
    /\ UNCHANGED <<kind, manifest, runs, network, pages, proof, time, mishaps>>

(* A drill whose page was answered too late is lost: its keys bring back   *)
(* the same receipts.  A new manifest has a new drill id.                  *)
ApproveManifest ==
    /\ MayPage
    /\ manifest < MaxManifests
    /\ manifest' = manifest + 1
    /\ UNCHANGED <<kind, runs, sender, network, pages, receipts, proof, time, mishaps>>

CompileReceipts ==
    /\ receipts # None /\ proof = None
    /\ Recent(receipts)
    /\ proof' = time
    /\ UNCHANGED <<kind, manifest, runs, sender, network, pages, receipts, time, mishaps>>

----------------------------------------------------------------------------
(* The provider and the people. *)
RequestArrives ==
    \E r \in network :
        /\ network' = network \ {r}
        /\ pages' = IF \E p \in pages : p.key = r.key THEN pages
                    ELSE pages \cup {[key |-> r.key, drill |-> r.drill, message |-> r.message,
                                      at |-> time, answered |-> None]}
        /\ UNCHANGED <<kind, manifest, runs, sender, receipts, proof, time, mishaps>>

SomebodyAnswers ==
    \E p \in pages :
        /\ p.answered = None
        /\ pages' = (pages \ {p}) \cup {[p EXCEPT !.answered = time]}
        /\ UNCHANGED <<kind, manifest, runs, sender, network, receipts, proof, time, mishaps>>

PageNext ==
    \/ StartPaging \/ SendPage \/ ReceiveReply \/ RequestFails \/ KillSender
    \/ ExportReceipts \/ ApproveManifest \/ CompileReceipts
    \/ RequestArrives \/ SomebodyAnswers
    \/ TimePasses /\ UNCHANGED pageVars

----------------------------------------------------------------------------
(* However often a drill is started again, and whenever its requests       *)
(* arrive, nobody is paged twice for it.                                   *)
PagedOnce ==
    \A p, q \in pages : p.drill = q.drill /\ p.message = q.message => p = q

=============================================================================
