------------------------------ MODULE Ingress ------------------------------
(***************************************************************************)
(* The four commands that open and close the public route                 *)
(* (scripts/production-ingress-publication, -orphan-recovery,              *)
(* -lease-recovery and production-route-disable): every run is a process   *)
(* of its own that calls the provider and writes local files, may be       *)
(* killed between any two steps, and may see a call fail whose effect the  *)
(* provider applies all the same, at once or later.  A dry run and a run   *)
(* its gate refuses write nothing and are not steps.                       *)
(***************************************************************************)
EXTENDS Naturals

CONSTANTS
    Runs,       \* the processes; a run also names the tunnel it creates
    Nothing,
    MaxFaults   \* bound: kills, failed calls and exits of cloudflared

ASSUME IngressAssumption == Nothing \notin Runs /\ MaxFaults \in Nat

VARIABLES
    tunnel,     \* provider: the tunnel with the production name
    record,     \* provider: the CNAME of the production host name
    dns,        \* what resolvers answer: the name is published
    late,       \* effects of failed calls the provider has still to apply
    temp,       \* the temporary credential file: the tunnel it is the key of
    final,      \* final[t]: what the credential file named after t is the key of
    config,     \* cloudflared.yml: the tunnel it names
    process,    \* the cloudflared process: the tunnel it serves
    lease,      \* the lease file: the run that made it
    old,        \* the lease is at least five minutes old
    run,        \* run[r]: where run r is
    overlap,    \* two lease recoveries have been about to remove at once
    faults

provider == <<tunnel, record, dns, late>>
files == <<temp, final, config, process>>
locks == <<lease, old>>
ingressVars == <<provider, files, locks, run, overlap, faults>>

Owner == Runs \cup {Nothing}

Record == [target: Runs, by: Runs]

Late == [op: {"create", "delete", "post"}, tunnel: Runs, by: Runs]
          \cup [op: {"drop"}, record: Record]

Holding == {"create", "link", "unlink", "config", "start", "connect", "record",
            "post", "verify", "check", "delete", "remove", "release"}

Unleased == {"lease", "orphan", "clear", "read", "drop", "after"}

Over == {"done", "dead"}

(* tunnel: the tunnel id the run works with; key: the file, the lease or    *)
(* the record it has looked at and is going to remove.                     *)
Run == [at: {"unborn"} \cup Unleased \cup Holding \cup Over,
        tunnel: Owner, key: Owner]

IngressTypeOK ==
    /\ tunnel \in Owner /\ record \in Record \cup {Nothing} /\ dns \in BOOLEAN
    /\ late \subseteq Late
    /\ temp \in Owner /\ final \in [Runs -> Owner]
    /\ config \in Owner /\ process \in Owner
    /\ lease \in Owner /\ old \in BOOLEAN
    /\ run \in [Runs -> Run]
    /\ overlap \in BOOLEAN /\ faults \in 0..MaxFaults

IngressInit ==
    /\ tunnel = Nothing /\ record = Nothing /\ dns = FALSE /\ late = {}
    /\ temp = Nothing /\ final = [t \in Runs |-> Nothing]
    /\ config = Nothing /\ process = Nothing
    /\ lease = Nothing /\ old = FALSE
    /\ run = [r \in Runs |-> [at |-> "unborn", tunnel |-> Nothing, key |-> Nothing]]
    /\ overlap = FALSE /\ faults = 0

Fault == faults < MaxFaults /\ faults' = faults + 1

Goto(r, place) == run' = [run EXCEPT ![r].at = place]

(* The list of tunnels has this one under the production name. *)
Listed(t) == tunnel # Nothing /\ tunnel = t

(* The process has reached the provider with the right key. *)
Connected == process # Nothing /\ process = tunnel /\ final[process] = process

(* The end of a run, the catch block included: a lease the run does not    *)
(* own is preserved.                                                       *)
End(r) ==
    /\ Goto(r, "done")
    /\ lease' = IF lease = r THEN Nothing ELSE lease
    /\ old' = (old /\ lease # r)

(***************************************************************************)
(* The lease                                                               *)
(***************************************************************************)

AcquireLease(r) ==
    /\ run[r].at \in {"lease", "orphan"}
    /\ IF lease # Nothing
       THEN Goto(r, "done") /\ UNCHANGED locks
       ELSE /\ lease' = r /\ old' = FALSE
            /\ Goto(r, IF run[r].at = "orphan" THEN "check"
                       ELSE IF run[r].tunnel = Nothing THEN "create" ELSE "config")
    /\ UNCHANGED <<provider, files, overlap, faults>>

(* Mutant of RecoverLease: the owner's process id is not looked up. *)
RecoverLeaseOfLiving(r) ==
    /\ run[r].at = "unborn"
    /\ lease # Nothing /\ old
    /\ run' = [run EXCEPT ![r].at = "clear", ![r].key = lease]
    /\ overlap' = (overlap \/ \E q \in Runs : run[q].at = "clear")
    /\ UNCHANGED <<provider, files, locks, faults>>

(* Lease recovery, up to its second look at the file and at the owner. *)
RecoverLease(r) ==
    /\ run[r].at = "unborn"
    /\ lease # Nothing /\ old
    /\ run[lease].at \in Over
    /\ run' = [run EXCEPT ![r].at = "clear", ![r].key = lease]
    /\ overlap' = (overlap \/ \E q \in Runs : run[q].at = "clear")
    /\ UNCHANGED <<provider, files, locks, faults>>

(* unlink takes a path: it removes the file that is there by now. *)
ClearLease(r) ==
    /\ run[r].at = "clear"
    /\ Goto(r, "done")
    /\ lease' = Nothing /\ old' = FALSE
    /\ UNCHANGED <<provider, files, overlap, faults>>

(***************************************************************************)
(* Publication                                                             *)
(***************************************************************************)

(* No name is published that has no tunnel, and a tunnel has its key. *)
PublicationGate ==
    /\ tunnel = Nothing => ~dns
    /\ tunnel # Nothing => final[tunnel] # Nothing

(* The gate reads DNS, the tunnel and its credential before the lease. *)
PublishIngress(r) ==
    /\ run[r].at = "unborn"
    /\ PublicationGate
    /\ run' = [run EXCEPT ![r].at = "lease", ![r].tunnel = tunnel]
    /\ UNCHANGED <<provider, files, locks, overlap, faults>>

(* cloudflared refuses a name in use and a credential file that exists. *)
Create(r) ==
    /\ run[r].at = "create"
    /\ IF tunnel = Nothing /\ temp = Nothing
       THEN /\ tunnel' = r /\ temp' = r
            /\ run' = [run EXCEPT ![r].at = "link", ![r].tunnel = r]
            /\ UNCHANGED locks
       ELSE End(r) /\ UNCHANGED <<tunnel, temp>>
    /\ UNCHANGED <<record, dns, late, final, config, process, overlap, faults>>

(* The tunnel is listed with the acknowledged id, and its temporary        *)
(* credential is linked to the final name.                                 *)
LinkCredential(r) ==
    LET t == run[r].tunnel IN
    /\ run[r].at = "link"
    /\ IF Listed(t) /\ temp # Nothing /\ final[t] = Nothing
       THEN final' = [final EXCEPT ![t] = temp] /\ Goto(r, "unlink") /\ UNCHANGED locks
       ELSE End(r) /\ UNCHANGED final
    /\ UNCHANGED <<provider, temp, config, process, overlap, faults>>

UnlinkTemporary(r) ==
    /\ run[r].at = "unlink"
    /\ temp' = Nothing
    /\ Goto(r, "config")
    /\ UNCHANGED <<provider, final, config, process, locks, overlap, faults>>

(* A configuration that exists must name this very tunnel. *)
EnsureConfig(r) ==
    LET t == run[r].tunnel IN
    /\ run[r].at = "config"
    /\ IF final[t] # Nothing /\ config \in {Nothing, t}
       THEN config' = t /\ Goto(r, "start") /\ UNCHANGED locks
       ELSE End(r) /\ UNCHANGED config
    /\ UNCHANGED <<provider, temp, final, process, overlap, faults>>

(* cloudflared is started unless one runs or the tunnel is connected. *)
StartProcess(r) ==
    /\ run[r].at = "start"
    /\ Goto(r, IF Connected THEN "record" ELSE "connect")
    /\ process' = IF process = Nothing THEN config ELSE process
    /\ UNCHANGED <<provider, temp, final, config, locks, overlap, faults>>

AwaitConnection(r) ==
    /\ run[r].at = "connect"
    /\ IF Connected THEN Goto(r, "record") /\ UNCHANGED locks ELSE End(r)
    /\ UNCHANGED <<provider, files, overlap, faults>>

Serves(t) == record # Nothing /\ record.target = t

ReadRecord(r) ==
    /\ run[r].at = "record"
    /\ \/ record = Nothing /\ Goto(r, "post") /\ UNCHANGED locks
       \/ Serves(run[r].tunnel) /\ Goto(r, "release") /\ UNCHANGED locks
       \/ record # Nothing /\ ~Serves(run[r].tunnel) /\ End(r)
    /\ UNCHANGED <<provider, files, overlap, faults>>

(* The provider refuses a second CNAME of the same name. *)
PostRecord(r) ==
    /\ run[r].at = "post"
    /\ IF record = Nothing
       THEN /\ record' = [target |-> run[r].tunnel, by |-> r]
            /\ Goto(r, "verify") /\ UNCHANGED locks
       ELSE End(r) /\ UNCHANGED record
    /\ UNCHANGED <<tunnel, dns, late, files, overlap, faults>>

VerifyRecord(r) ==
    /\ run[r].at = "verify"
    /\ IF Serves(run[r].tunnel) THEN Goto(r, "release") /\ UNCHANGED locks ELSE End(r)
    /\ UNCHANGED <<provider, files, overlap, faults>>

(* The result is classified and the lease given back. *)
Finish(r) ==
    /\ run[r].at = "release"
    /\ End(r)
    /\ UNCHANGED <<provider, files, overlap, faults>>

(***************************************************************************)
(* Orphan recovery                                                         *)
(***************************************************************************)

(* The only partial state that is undone; every other one is for a person. *)
ExactOrphan ==
    /\ tunnel # Nothing /\ ~Connected
    /\ temp # Nothing /\ final[tunnel] = Nothing
    /\ config = Nothing /\ process = Nothing /\ ~dns

RecoverOrphan(r) ==
    /\ run[r].at = "unborn"
    /\ ExactOrphan
    /\ run' = [run EXCEPT ![r].at = "orphan", ![r].tunnel = tunnel]
    /\ UNCHANGED <<provider, files, locks, overlap, faults>>

(* Under the lease everything is observed again. *)
CheckOrphan(r) ==
    /\ run[r].at = "check"
    /\ IF ExactOrphan /\ Listed(run[r].tunnel)
       THEN /\ run' = [run EXCEPT ![r].at = "delete", ![r].key = temp]
            /\ UNCHANGED locks
       ELSE End(r)
    /\ UNCHANGED <<provider, files, overlap, faults>>

(* A deletion the provider has accepted may show later; a connected tunnel *)
(* is not deleted without --force.                                         *)
DeleteTunnel(r) ==
    LET t == run[r].tunnel IN
    /\ run[r].at = "delete"
    /\ IF Listed(t) /\ ~Connected
       THEN /\ \/ tunnel' = Nothing /\ UNCHANGED late
               \/ /\ late' = late \cup {[op |-> "delete", tunnel |-> t, by |-> r]}
                  /\ UNCHANGED tunnel
            /\ Goto(r, "remove") /\ UNCHANGED locks
       ELSE End(r) /\ UNCHANGED <<tunnel, late>>
    /\ UNCHANGED <<record, dns, files, overlap, faults>>

(* Mutant of RemoveTemporary: the list of tunnels is not read again. *)
RemoveTemporaryUnseen(r) ==
    /\ run[r].at = "remove"
    /\ IF temp # Nothing /\ temp = run[r].key
       THEN temp' = Nothing /\ Goto(r, "release") /\ UNCHANGED locks
       ELSE End(r) /\ UNCHANGED temp
    /\ UNCHANGED <<provider, final, config, process, overlap, faults>>

(* The temporary credential goes when no tunnel is listed and the file is  *)
(* the one that was seen.                                                  *)
RemoveTemporary(r) ==
    /\ run[r].at = "remove"
    /\ IF tunnel = Nothing /\ temp # Nothing /\ temp = run[r].key
       THEN temp' = Nothing /\ Goto(r, "release") /\ UNCHANGED locks
       ELSE End(r) /\ UNCHANGED temp
    /\ UNCHANGED <<provider, final, config, process, overlap, faults>>

(***************************************************************************)
(* Route disable, which takes no lease                                     *)
(***************************************************************************)

DisableRoute(r) ==
    /\ run[r].at = "unborn"
    /\ tunnel # Nothing
    /\ run' = [run EXCEPT ![r].at = "read", ![r].tunnel = tunnel]
    /\ UNCHANGED <<provider, files, locks, overlap, faults>>

ReadRoute(r) ==
    /\ run[r].at = "read"
    /\ \/ record = Nothing /\ Goto(r, "after")
       \/ Serves(run[r].tunnel) /\ run' = [run EXCEPT ![r].at = "drop", ![r].key = record.by]
       \/ record # Nothing /\ ~Serves(run[r].tunnel) /\ Goto(r, "done")
    /\ UNCHANGED <<provider, files, locks, overlap, faults>>

(* The record is deleted by its id. *)
DropRecord(r) ==
    /\ run[r].at = "drop"
    /\ IF record # Nothing /\ record.by = run[r].key
       THEN record' = Nothing /\ Goto(r, "after")
       ELSE Goto(r, "done") /\ UNCHANGED record
    /\ UNCHANGED <<tunnel, dns, late, files, locks, overlap, faults>>

(* The records are read again and DNS is waited for: only the report       *)
(* depends on what they say.                                               *)
ConfirmRoute(r) ==
    /\ run[r].at = "after"
    /\ Goto(r, "done")
    /\ UNCHANGED <<provider, files, locks, overlap, faults>>

(***************************************************************************)
(* Faults and the world                                                    *)
(***************************************************************************)

(* The process of a run is gone; its lease stays. *)
Kill(r) ==
    /\ Fault
    /\ run[r].at \notin {"unborn"} \cup Over
    /\ Goto(r, "dead")
    /\ UNCHANGED <<provider, files, locks, overlap>>

(* An observation, a validation or a call fails and has done nothing. *)
Break(r) ==
    /\ Fault
    /\ run[r].at \notin {"unborn"} \cup Over
    /\ End(r)
    /\ UNCHANGED <<provider, files, overlap>>

(* A call fails or times out, yet the provider applies it, now or later.   *)
(* cloudflared may be killed before it has written the credential.         *)
CreateLost(r) ==
    /\ Fault
    /\ run[r].at = "create" /\ tunnel = Nothing /\ temp = Nothing
    /\ End(r)
    /\ \/ tunnel' = r /\ temp' \in {Nothing, r} /\ UNCHANGED late
       \/ /\ late' = late \cup {[op |-> "create", tunnel |-> r, by |-> r]}
          /\ UNCHANGED <<tunnel, temp>>
    /\ UNCHANGED <<record, dns, final, config, process, overlap>>

DeleteLost(r) ==
    /\ Fault
    /\ run[r].at = "delete" /\ tunnel = run[r].tunnel /\ ~Connected
    /\ End(r)
    /\ \/ tunnel' = Nothing /\ UNCHANGED late
       \/ /\ late' = late \cup {[op |-> "delete", tunnel |-> tunnel, by |-> r]}
          /\ UNCHANGED tunnel
    /\ UNCHANGED <<record, dns, files, overlap>>

PostLost(r) ==
    /\ Fault
    /\ run[r].at = "post" /\ record = Nothing
    /\ End(r)
    /\ late' = late \cup {[op |-> "post", tunnel |-> run[r].tunnel, by |-> r]}
    /\ UNCHANGED <<tunnel, record, dns, files, overlap>>

DropLost(r) ==
    /\ Fault
    /\ run[r].at = "drop" /\ record # Nothing /\ record.by = run[r].key
    /\ Goto(r, "done")
    /\ late' = late \cup {[op |-> "drop", record |-> record]}
    /\ UNCHANGED <<tunnel, record, dns, files, locks, overlap>>

(* The spawn is not acknowledged in time, but cloudflared runs. *)
SpawnLost(r) ==
    /\ Fault
    /\ run[r].at = "start" /\ ~Connected /\ process = Nothing
    /\ End(r)
    /\ process' = config
    /\ UNCHANGED <<provider, temp, final, config, overlap>>

(* The provider applies a late effect if it still can. *)
Land(e) ==
    /\ e \in late
    /\ late' = late \ {e}
    /\ tunnel' = IF e.op = "create" /\ tunnel = Nothing THEN e.tunnel
                 ELSE IF e.op = "delete" /\ tunnel = e.tunnel /\ ~Connected THEN Nothing
                 ELSE tunnel
    /\ record' = IF e.op = "post" /\ record = Nothing THEN [target |-> e.tunnel, by |-> e.by]
                 ELSE IF e.op = "drop" /\ record = e.record THEN Nothing
                 ELSE record
    /\ UNCHANGED <<dns, files, locks, run, overlap, faults>>

(* Resolvers answer what the record says. *)
Propagate ==
    /\ dns # (record # Nothing)
    /\ dns' = (record # Nothing)
    /\ UNCHANGED <<tunnel, record, late, files, locks, run, overlap, faults>>

LeaseAges ==
    /\ lease # Nothing /\ ~old
    /\ old' = TRUE
    /\ UNCHANGED <<provider, files, lease, run, overlap, faults>>

ProcessExits ==
    /\ Fault
    /\ process # Nothing
    /\ process' = Nothing
    /\ UNCHANGED <<provider, temp, final, config, locks, run, overlap>>

Publication(r) ==
    \/ PublishIngress(r) \/ Create(r) \/ LinkCredential(r) \/ UnlinkTemporary(r)
    \/ EnsureConfig(r) \/ StartProcess(r) \/ AwaitConnection(r)
    \/ ReadRecord(r) \/ PostRecord(r) \/ VerifyRecord(r)

OrphanRecovery(r) ==
    RecoverOrphan(r) \/ CheckOrphan(r) \/ DeleteTunnel(r) \/ RemoveTemporary(r)

RouteDisable(r) ==
    DisableRoute(r) \/ ReadRoute(r) \/ DropRecord(r) \/ ConfirmRoute(r)

Lost(r) ==
    CreateLost(r) \/ DeleteLost(r) \/ PostLost(r) \/ DropLost(r) \/ SpawnLost(r)

IngressNext ==
    \/ \E r \in Runs :
          \/ AcquireLease(r) \/ Finish(r) \/ RecoverLease(r) \/ ClearLease(r)
          \/ Publication(r) \/ OrphanRecovery(r) \/ RouteDisable(r)
          \/ Kill(r) \/ Break(r) \/ Lost(r)
    \/ \E e \in late : Land(e)
    \/ Propagate \/ LeaseAges \/ ProcessExits

IngressSpec == IngressInit /\ [][IngressNext]_ingressVars

(***************************************************************************)
(* Properties.  All but IngressTypeOK are claimed as long as no two lease   *)
(* recoveries have been about to remove at once: unlink removes what is    *)
(* under the path, and the second removes the lease of a living run.       *)
(***************************************************************************)

(* Report 258, "single writer": of the runs between acquiring and          *)
(* releasing, one is alive at most and it is the lease's owner, although   *)
(* a lease is removed by other processes when its owner is dead.           *)
OneHolder ==
    ~overlap => \A r \in Runs : run[r].at \in Holding => lease = r

(* The only key of a tunnel whose creation was acknowledged is not lost    *)
(* while the tunnel exists: a tunnel without its key can be neither        *)
(* published nor recovered by any command.                                 *)
KeyKept ==
    ~overlap =>
      \A t \in Runs :
         tunnel = t /\ run[t].tunnel = t => temp = t \/ final[t] = t
=============================================================================
