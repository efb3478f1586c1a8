----------------------------- MODULE MCActivation -----------------------------
(* A short plan for TLC: every kind of child is in it. *)
EXTENDS Activation, TLC

ShortPlan ==
    <<SloCollect, BackupRestoreRun, BackupRestoreCompile, PhaseComplete>>

SlowSteps == {2}
=============================================================================
