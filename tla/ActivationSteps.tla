---------------------------- MODULE ActivationSteps ----------------------------
(***************************************************************************)
(* The children of the operations activation (P7): the scripts that        *)
(* collect evidence of production, compile it, have it signed and hand it  *)
(* over.  A child is what the activation can tell of it:                   *)
(*   reads   the documents of earlier steps it needs;                      *)
(*   writes  the documents it creates, in the order it creates them; each  *)
(*           is written once, by linking a temporary file to its name;     *)
(*   again   what it makes of a document of its own that is there already: *)
(*           "pass" reports the step as done, "fail" refuses to run;       *)
(*   missing what it makes of a document it needs and does not find:       *)
(*           "wait" or "fail";                                             *)
(*   expires TRUE if what it writes is accepted for a limited time only.   *)
(* The contents of the documents, and the many checks that they are those  *)
(* of this release and of production, are left out: a check that fails is  *)
(* a child that fails.                                                     *)
(***************************************************************************)

(* One sample of the production URL for each UTC day; after enough days    *)
(* the export.                                                             *)
SloCollect ==
    [id |-> "slo-collect", reads |-> {}, writes |-> <<"slo export">>,
     again |-> "pass", missing |-> "wait", expires |-> FALSE]

SloCompile ==
    [id |-> "slo-compile", reads |-> {"slo export"}, writes |-> <<"slo evidence">>,
     again |-> "fail", missing |-> "wait", expires |-> FALSE]

(* Five test alerts; the provider drops a repeated idempotency key. *)
AlertDeliver ==
    [id |-> "alert-deliver", reads |-> {}, writes |-> <<"alert receipts">>,
     again |-> "pass", missing |-> "wait", expires |-> FALSE]

AlertCompile ==
    [id |-> "alert-compile", reads |-> {"alert receipts"}, writes |-> <<"alerting evidence">>,
     again |-> "fail", missing |-> "wait", expires |-> FALSE]

(* A dump off site, restored in a database made for the drill.  The dump   *)
(* is accepted for 1440 minutes.                                           *)
BackupRestoreRun ==
    [id |-> "backup-restore-run", reads |-> {}, writes |-> <<"drill export">>,
     again |-> "fail", missing |-> "wait", expires |-> TRUE]

BackupRestoreCompile ==
    [id |-> "backup-restore-compile", reads |-> {"drill export"},
     writes |-> <<"backup evidence", "restore evidence">>,
     again |-> "fail", missing |-> "wait", expires |-> FALSE]

(* The observation is accepted for 60 minutes. *)
CertificateObserve ==
    [id |-> "certificate-observe", reads |-> {}, writes |-> <<"observation">>,
     again |-> "fail", missing |-> "wait", expires |-> TRUE]

CertificateCompile ==
    [id |-> "certificate-compile", reads |-> {"observation"},
     writes |-> <<"certificate evidence">>,
     again |-> "fail", missing |-> "wait", expires |-> FALSE]

(* The drill is accepted for 7 days. *)
OncallDrill ==
    [id |-> "oncall-drill", reads |-> {}, writes |-> <<"oncall receipts">>,
     again |-> "pass", missing |-> "wait", expires |-> TRUE]

OncallCompile ==
    [id |-> "oncall-compile", reads |-> {"oncall receipts"}, writes |-> <<"oncall evidence">>,
     again |-> "fail", missing |-> "wait", expires |-> FALSE]

(* Accepted for 24 hours. *)
MaintenanceRun ==
    [id |-> "maintenance-run", reads |-> {}, writes |-> <<"maintenance export">>,
     again |-> "fail", missing |-> "wait", expires |-> TRUE]

MaintenanceCompile ==
    [id |-> "maintenance-compile", reads |-> {"maintenance export"},
     writes |-> <<"maintenance evidence">>,
     again |-> "fail", missing |-> "wait", expires |-> FALSE]

(* Accepted for 24 hours. *)
ImprovementCollect ==
    [id |-> "improvement-collect", reads |-> {}, writes |-> <<"queue export">>,
     again |-> "pass", missing |-> "wait", expires |-> TRUE]

ImprovementCompile ==
    [id |-> "improvement-compile", reads |-> {"queue export"}, writes |-> <<"queue evidence">>,
     again |-> "fail", missing |-> "wait", expires |-> FALSE]

(* The evidence of the eight domains of operations. *)
Evidence ==
    {"slo evidence", "alerting evidence", "backup evidence", "restore evidence",
     "certificate evidence", "oncall evidence", "maintenance evidence", "queue evidence"}

(* With the receipt of the owner of operations, signed within 24 hours. *)
SignoffInputAssemble ==
    [id |-> "signoff-input-assemble", reads |-> Evidence, writes |-> <<"signoff input">>,
     again |-> "pass", missing |-> "wait", expires |-> TRUE]

SignoffCompile ==
    [id |-> "signoff-compile", reads |-> {"signoff input"}, writes |-> <<"signoff evidence">>,
     again |-> "fail", missing |-> "wait", expires |-> FALSE]

HandoverAssemble ==
    [id |-> "handover-assemble", reads |-> Evidence \cup {"signoff evidence"},
     writes |-> <<"manifest">>,
     again |-> "fail", missing |-> "wait", expires |-> FALSE]

(* The manifest and the documents it names, read again and checked. *)
HandoverFinalize ==
    [id |-> "handover-finalize", reads |-> Evidence \cup {"signoff evidence", "manifest"},
     writes |-> <<>>, again |-> "pass", missing |-> "fail", expires |-> FALSE]

(* Checks the manifest once more and closes P7: its own files are those of *)
(* the repository, see Activation.                                         *)
PhaseComplete ==
    [id |-> "phase-complete", reads |-> Evidence \cup {"signoff evidence", "manifest"},
     writes |-> <<>>, again |-> "fail", missing |-> "fail", expires |-> FALSE]

Children ==
    <<SloCollect, SloCompile, AlertDeliver, AlertCompile,
      BackupRestoreRun, BackupRestoreCompile, CertificateObserve, CertificateCompile,
      OncallDrill, OncallCompile, MaintenanceRun, MaintenanceCompile,
      ImprovementCollect, ImprovementCompile, SignoffInputAssemble, SignoffCompile,
      HandoverAssemble, HandoverFinalize, PhaseComplete>>
=============================================================================
