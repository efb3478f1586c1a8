------------------------------- MODULE Operations -------------------------------
(***************************************************************************)
(* The commands around the program: the start of a server, the worker of  *)
(* the rules, the inspection of the code a command runs, the steps by      *)
(* which the gates try production, the commands of P7 that make the        *)
(* evidence of operations, and the handover that ends with it.  The nine   *)
(* parts share nothing but the clock and the bound on mishaps, so one of   *)
(* them runs in a behaviour: the states are the sum of the parts' and not  *)
(* their product.                                                          *)
(***************************************************************************)
EXTENDS Startup, Automation, Bundle, GateSteps, BackupDrill, PageDrill,
        QueueExport, Observation, Handover

VARIABLE part       \* the one that runs

Parts == {"startup", "automation", "bundle", "gates", "backup", "page",
          "queue", "observation", "handover"}

Init ==
    /\ part \in Parts
    /\ time = 0 /\ mishaps = 0
    /\ StartupInit /\ AutomationInit /\ BundleInit /\ GatesInit
    /\ BackupInit /\ PageInit /\ QueueInit /\ ObservationInit /\ HandoverInit
    \* A part that does not run makes no choice.
    /\ part # "bundle" => work.kind = "cutover"
    /\ part # "page" => kind = "alert"
    /\ part # "queue" => attestation.next = 1
    /\ part # "observation" => runnerKind = "maintenance"

Next ==
    /\ UNCHANGED part
    /\ \/ /\ part = "startup" /\ StartupNext
          /\ UNCHANGED <<automationVars, bundleVars, gateVars, backupVars, pageVars,
                         queueVars, observationVars, handoverVars>>
       \/ /\ part = "automation" /\ AutomationNext
          /\ UNCHANGED <<startupVars, bundleVars, gateVars, backupVars, pageVars,
                         queueVars, observationVars, handoverVars>>
       \/ /\ part = "bundle" /\ BundleNext
          /\ UNCHANGED <<startupVars, automationVars, gateVars, backupVars, pageVars,
                         queueVars, observationVars, handoverVars>>
       \/ /\ part = "gates" /\ GatesNext
          /\ UNCHANGED <<startupVars, automationVars, bundleVars, backupVars, pageVars,
                         queueVars, observationVars, handoverVars>>
       \/ /\ part = "backup" /\ BackupNext
          /\ UNCHANGED <<startupVars, automationVars, bundleVars, gateVars, pageVars,
                         queueVars, observationVars, handoverVars>>
       \/ /\ part = "page" /\ PageNext
          /\ UNCHANGED <<startupVars, automationVars, bundleVars, gateVars, backupVars,
                         queueVars, observationVars, handoverVars>>
       \/ /\ part = "queue" /\ QueueNext
          /\ UNCHANGED <<startupVars, automationVars, bundleVars, gateVars, backupVars,
                         pageVars, observationVars, handoverVars>>
       \/ /\ part = "observation" /\ ObservationNext
          /\ UNCHANGED <<startupVars, automationVars, bundleVars, gateVars, backupVars,
                         pageVars, queueVars, handoverVars>>
       \/ /\ part = "handover" /\ HandoverNext
          /\ UNCHANGED <<startupVars, automationVars, bundleVars, gateVars, backupVars,
                         pageVars, queueVars, observationVars>>

allVars == <<startupVars, automationVars, bundleVars, gateVars, backupVars, pageVars,
             queueVars, observationVars, handoverVars>>

Spec == Init /\ [][Next]_<<part, time, mishaps, allVars>>

TypeOK ==
    /\ part \in Parts
    /\ time \in Times /\ mishaps \in 0..MaxIncidents
    /\ StartupTypeOK /\ AutomationTypeOK /\ BundleTypeOK /\ GatesTypeOK
    /\ BackupTypeOK /\ PageTypeOK /\ QueueTypeOK /\ ObservationTypeOK
    /\ HandoverTypeOK
================================================================================
