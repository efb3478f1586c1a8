------------------------------ MODULE BackupDrill ------------------------------
(***************************************************************************)
(* The off-site backup with its restore drill: a runner dumps production   *)
(* from an exported snapshot, restores the dump into a database with a     *)
(* random name, counts the rows on both sides and writes an export; a      *)
(* compiler makes of it two documents, one after the other.                *)
(*                                                                         *)
(* Production is written all the time.  Each command to the database runs  *)
(* in a container and may fail or time out, with or without its effect;    *)
(* killing its client does not always stop what runs in the container.     *)
(* The runner may be killed, and a file may be damaged where it is stored. *)
(*                                                                         *)
(* The sum of the time limits of the commands is below the four hours a    *)
(* restore may take, so that limit is left out.                            *)
(***************************************************************************)
EXTENDS DrillWorld

CONSTANTS
    Rpo,            \* greatest age of a backup: 1440 minutes in the code
    MaxWrites       \* bound: changes of production

ASSUME BackupDrillAssumption ==
    /\ Rpo \in Nat /\ MaxWrites \in Nat

VARIABLES
    rows,       \* the rows of production, as a version of them
    snapshot,   \* "open" while the transaction of the snapshot is
    dump,       \* the rows in the off-site file of this run, or None
    drillDb,    \* the rows in the drill database of this run, or None
    restoring,  \* a restore goes on in the container after its client is gone
    runner,     \* what the process of the runner knows
    outcome,    \* how the last run ended
    drill,      \* the export of the drill, or None
    pair,       \* the two documents made of it: their publication, or None
    compiler    \* the publication the compiler has half written, or None

database == <<rows, snapshot, drillDb, restoring>>
evidence == <<drill, pair, compiler>>
backupVars == <<database, dump, runner, outcome, evidence>>

(* Rows that are not those of any version of production. *)
Some == -1
Rows == Some..MaxWrites

Stages == {"idle", "snapshot", "dump", "close", "create", "restore", "count",
           "drop", "export", "cleanup"}

(* holding: the handle of the snapshot is set; named: that of the drill    *)
(* database is.  began: when the run took its timestamp.                   *)
Runner == [at: Stages, counts: Rows \cup {None}, restored: Rows \cup {None},
           began: Times, holding: BOOLEAN, named: BOOLEAN]

BackupTypeOK ==
    /\ rows \in 0..MaxWrites
    /\ snapshot \in {"none", "open"}
    /\ dump \in Rows \cup {None} /\ drillDb \in Rows \cup {None}
    /\ restoring \in BOOLEAN
    /\ runner \in Runner
    /\ outcome \in {"none", "PASS", "BLOCKED", "UNCLEAN", "KILLED"}
    /\ drill \in [rows: Rows, began: Times] \cup {None}
    /\ pair \in [{"backup", "restore"} -> Times \cup {None}]
    /\ compiler \in Times \cup {None}

BackupInit ==
    /\ rows = 0 /\ snapshot = "none" /\ drillDb = None /\ restoring = FALSE
    /\ dump = None
    /\ runner = [at |-> "idle", counts |-> None, restored |-> None, began |-> 0,
                 holding |-> FALSE, named |-> FALSE]
    /\ outcome = "none"
    /\ drill = None
    /\ pair = [d \in {"backup", "restore"} |-> None]
    /\ compiler = None

Go(stage) == runner' = [runner EXCEPT !.at = stage]

----------------------------------------------------------------------------
(* The runner. *)

(* The path of the export is free; the phase, the inputs and the           *)
(* attestation of the storage are always in order.                         *)
MayDrill == runner.at = "idle" /\ drill = None

(* The names of the file and of the database are new in each run.          *)
StartDrill ==
    /\ MayDrill
    /\ outcome' = "none"
    /\ runner' = [at |-> "snapshot", counts |-> None, restored |-> None,
                  began |-> time, holding |-> FALSE, named |-> FALSE]
    /\ dump' = None /\ drillDb' = None
    /\ snapshot' = "none" /\ restoring' = FALSE
    /\ UNCHANGED <<rows, evidence, time, mishaps>>

(* One transaction exports the snapshot and counts the rows.               *)
OpenSnapshot ==
    /\ runner.at = "snapshot"
    /\ snapshot' = "open"
    /\ runner' = [runner EXCEPT !.at = "dump", !.counts = rows, !.holding = TRUE]
    /\ UNCHANGED <<rows, drillDb, restoring, dump, outcome, evidence, time, mishaps>>

(* pg_dump reads what the transaction of the snapshot sees.                *)
Dump ==
    /\ runner.at = "dump" /\ snapshot = "open"
    /\ dump' = runner.counts
    /\ Go("close")
    /\ UNCHANGED <<database, outcome, evidence, time, mishaps>>

CloseSnapshot ==
    /\ runner.at = "close"
    /\ snapshot' = "none"
    /\ runner' = [runner EXCEPT !.at = "create", !.holding = FALSE]
    /\ UNCHANGED <<rows, drillDb, restoring, dump, outcome, evidence, time, mishaps>>

(* Mutant of CreateDrillDb: the handle is set when createdb has succeeded. *)
CreateThenName ==
    /\ runner.at = "create"
    /\ \/ /\ drillDb' = Some
          /\ runner' = [runner EXCEPT !.at = "restore", !.named = TRUE]
          /\ UNCHANGED mishaps
       \/ /\ Mishap
          /\ drillDb' \in {None, Some}
          /\ runner' = [runner EXCEPT !.at = "cleanup"]
    /\ UNCHANGED <<rows, snapshot, restoring, dump, outcome, evidence, time>>

(* The handle is set before createdb runs, so that the cleanup knows it    *)
(* even if createdb fails after its effect.  (One that takes effect after  *)
(* the cleanup, its client having timed out, is left out.)                 *)
CreateDrillDb ==
    /\ runner.at = "create"
    /\ \/ /\ drillDb' = Some
          /\ runner' = [runner EXCEPT !.at = "restore", !.named = TRUE]
          /\ UNCHANGED mishaps
       \/ /\ Mishap
          /\ drillDb' \in {None, Some}
          /\ runner' = [runner EXCEPT !.at = "cleanup", !.named = TRUE]
    /\ UNCHANGED <<rows, snapshot, restoring, dump, outcome, evidence, time>>

(* A client that is killed on a timeout may leave pg_restore running.      *)
Restore ==
    /\ runner.at = "restore"
    /\ \/ /\ drillDb' = dump
          /\ Go("count")
          /\ UNCHANGED <<restoring, mishaps>>
       \/ /\ Mishap
          /\ restoring' \in BOOLEAN
          /\ Go("cleanup")
          /\ UNCHANGED drillDb
    /\ UNCHANGED <<rows, snapshot, dump, outcome, evidence, time>>

CountRestored ==
    /\ runner.at = "count"
    /\ runner' = [runner EXCEPT !.at = "drop", !.restored = drillDb]
    /\ UNCHANGED <<database, dump, outcome, evidence, time, mishaps>>

DropDrillDb ==
    /\ runner.at = "drop"
    /\ \/ /\ drillDb' = None
          /\ runner' = [runner EXCEPT !.at = "export", !.named = FALSE]
          /\ UNCHANGED mishaps
       \/ /\ Mishap
          /\ drillDb' \in {None, drillDb}
          /\ Go("cleanup")
    /\ UNCHANGED <<rows, snapshot, restoring, dump, outcome, evidence, time>>

(* Mutant of ExportDrill: the rows are not compared. *)
ExportUnchecked ==
    /\ runner.at = "export"
    /\ drill' = [rows |-> runner.counts, began |-> runner.began]
    /\ outcome' = "PASS"
    /\ Go("idle")
    /\ UNCHANGED <<database, dump, pair, compiler, time, mishaps>>

(* Both sides are compared by the digest of their counts.                  *)
RowsAgree == runner.counts = runner.restored

(* The export is refused if the rows differ.                               *)
ExportDrill ==
    /\ runner.at = "export"
    /\ \/ /\ RowsAgree
          /\ drill' = [rows |-> runner.counts, began |-> runner.began]
          /\ outcome' = "PASS"
          /\ Go("idle")
       \/ /\ ~RowsAgree
          /\ Go("cleanup")
          /\ UNCHANGED <<drill, outcome>>
    /\ UNCHANGED <<database, dump, pair, compiler, time, mishaps>>

(* A command or a file operation fails without an effect that stays: the   *)
(* temporary file of a dump is removed.  The client of a snapshot that     *)
(* could not be opened is killed, its transaction perhaps not.             *)
StageFails ==
    /\ runner.at \in {"snapshot", "dump", "close", "count", "export"}
    /\ Mishap
    /\ Go("cleanup")
    /\ snapshot' \in (IF runner.at = "snapshot" THEN {"none", "open"} ELSE {snapshot})
    /\ UNCHANGED <<rows, drillDb, restoring, dump, outcome, evidence, time>>

(* The finally block: it kills the client of the snapshot and drops the    *)
(* drill database, which fails as long as somebody is connected to it.     *)
Cleanup ==
    /\ runner.at = "cleanup"
    /\ snapshot' \in (IF runner.holding THEN {"none", snapshot} ELSE {snapshot})
    /\ \/ /\ runner.named => ~restoring
          /\ drillDb' = IF runner.named THEN None ELSE drillDb
          /\ outcome' = "BLOCKED"
          /\ UNCHANGED mishaps
       \/ /\ runner.named /\ restoring
          /\ outcome' = "UNCLEAN"
          /\ UNCHANGED <<drillDb, mishaps>>
       \/ /\ runner.named
          /\ Mishap
          /\ drillDb' \in {None, drillDb}
          /\ outcome' = "UNCLEAN"
    /\ Go("idle")
    /\ UNCHANGED <<rows, restoring, dump, evidence, time>>

KillRunner ==
    /\ runner.at # "idle"
    /\ Mishap
    /\ outcome' = "KILLED"
    /\ Go("idle")
    /\ snapshot' \in {"none", snapshot}
    /\ UNCHANGED <<rows, drillDb, restoring, dump, evidence, time>>

----------------------------------------------------------------------------
(* The compiler of the two documents: both are created once, the second    *)
(* after the first, and a run that finds one of them stops.                *)
CompileBackup ==
    /\ drill # None /\ compiler = None
    /\ time - drill.began <= Rpo
    /\ pair["backup"] = None
    /\ pair' = [pair EXCEPT !["backup"] = time]
    /\ compiler' = time
    /\ UNCHANGED <<database, dump, runner, outcome, drill, time, mishaps>>

CompileRestore ==
    /\ compiler # None
    /\ pair' = IF pair["restore"] = None
               THEN [pair EXCEPT !["restore"] = compiler] ELSE pair
    /\ compiler' = None
    /\ UNCHANGED <<database, dump, runner, outcome, drill, time, mishaps>>

KillCompiler ==
    /\ compiler # None
    /\ Mishap
    /\ compiler' = None
    /\ UNCHANGED <<database, dump, runner, outcome, drill, pair, time>>

----------------------------------------------------------------------------
(* The world. *)
WriteProduction ==
    /\ rows < MaxWrites
    /\ rows' = rows + 1
    /\ UNCHANGED <<snapshot, drillDb, restoring, dump, runner, outcome, evidence,
                   time, mishaps>>

DamageDump ==
    /\ dump # None
    /\ Mishap
    /\ dump' = Some
    /\ UNCHANGED <<database, runner, outcome, evidence, time>>

RestoreEnds ==
    /\ restoring
    /\ restoring' = FALSE
    /\ UNCHANGED <<rows, snapshot, drillDb, dump, runner, outcome, evidence, time, mishaps>>

(* An operator removes a document so that it can be compiled again.        *)
RemoveDocument ==
    /\ compiler = None
    /\ Mishap
    /\ \E d \in DOMAIN pair :
        /\ pair[d] # None
        /\ pair' = [pair EXCEPT ![d] = None]
    /\ UNCHANGED <<database, dump, runner, outcome, drill, compiler, time>>

BackupNext ==
    \/ StartDrill \/ OpenSnapshot \/ Dump \/ CloseSnapshot \/ CreateDrillDb
    \/ Restore \/ CountRestored \/ DropDrillDb \/ ExportDrill
    \/ StageFails \/ Cleanup \/ KillRunner
    \/ CompileBackup \/ CompileRestore \/ KillCompiler
    \/ WriteProduction \/ DamageDump \/ RestoreEnds \/ RemoveDocument
    \/ TimePasses /\ UNCHANGED backupVars

----------------------------------------------------------------------------
(* An export says of a backup what was found when it was restored: the     *)
(* drill database held the rows of the snapshot, whatever happened to the  *)
(* file before, and production may have gone on since.                     *)
DrillWasReal ==
    drill # None => drill.rows = runner.restored /\ drill.rows # Some

(* A run that ended by itself leaves no database with production data      *)
(* behind, unless it says so; and a run that passed no open transaction.   *)
NothingLeftBehind ==
    runner.at = "idle" =>
        /\ outcome \in {"PASS", "BLOCKED"} => drillDb = None
        /\ outcome = "PASS" => snapshot = "none"
=============================================================================
