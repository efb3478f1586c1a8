-------------------------------- MODULE Startup --------------------------------
(***************************************************************************)
(* What a server does to the schema before it serves: it applies the       *)
(* migrations of its release that the history does not have, under an      *)
(* advisory lock of the database, each with its row of the history in one  *)
(* transaction; or, as in production, it only compares the history with    *)
(* its files.                                                              *)
(*                                                                         *)
(* Servers of several releases start at the same time, may be killed, and  *)
(* start again.  A statement that waits or works for more than five        *)
(* seconds is ended by the database; waiting for the lock is one.  When a  *)
(* server is killed the database ends its session: the lock is free and    *)
(* the transaction is lost, unless its commit had arrived.                 *)
(***************************************************************************)
EXTENDS DrillWorld, Sequences, FiniteSets

CONSTANTS
    Servers,
    Releases,       \* function: release -> its migrations in the order of names
    Text            \* function: release -> migration -> its text

ASSUME StartupAssumption ==
    /\ None \notin Servers
    /\ DOMAIN Releases # {}
    /\ \A rel \in DOMAIN Releases :
        /\ Releases[rel] \in Seq(STRING)
        /\ \A i \in DOMAIN Releases[rel] : Releases[rel][i] \in DOMAIN Text[rel]

VARIABLES
    schema,     \* what has been applied to the schema, in order
    history,    \* the rows of schema_migrations
    lock,       \* the server that holds the advisory lock, or None
    server      \* the release of each server, and where it stands

recorded == <<schema, history, lock>>
startupVars == <<schema, history, lock, server>>

Migrations(rel) == {Releases[rel][i] : i \in DOMAIN Releases[rel]}
Row(rel, file) == [version |-> file, text |-> Text[rel][file]]
HistoryRows ==
    UNION {{Row(rel, file) : file \in Migrations(rel)} : rel \in DOMAIN Releases}

(* next: the index of the migration the server comes to.                   *)
StartupTypeOK ==
    /\ \A i \in DOMAIN schema : schema[i] \in HistoryRows
    /\ history \subseteq HistoryRows
    /\ lock \in Servers \cup {None}
    /\ server \in [Servers ->
        [release : DOMAIN Releases, migrates : BOOLEAN,
         at : {"down", "asking", "reading", "applying",
               "verifying", "serving"}, next : Nat]]

StartupInit ==
    /\ schema = <<>> /\ history = {} /\ lock = None
    /\ server = [s \in Servers |->
                    [release |-> CHOOSE rel \in DOMAIN Releases : TRUE,
                     migrates |-> FALSE, at |-> "down", next |-> 1]]

Place(s, at) == server' = [server EXCEPT ![s].at = at]
Mine(s) == Releases[server[s].release]
Due(s) == Row(server[s].release, Mine(s)[server[s].next])

(* A deployment chooses the release, the configuration whether it migrates. *)
StartServer(s) ==
    /\ server[s].at = "down"
    /\ \E rel \in DOMAIN Releases, migrates \in BOOLEAN :
        server' = [server EXCEPT ![s] =
                    [release |-> rel, migrates |-> migrates, next |-> 1,
                     at |-> IF migrates THEN "asking" ELSE "verifying"]]
    /\ UNCHANGED <<recorded, time, mishaps>>

TakeLock(s) ==
    /\ server[s].at = "asking"
    /\ lock = None
    /\ lock' = s
    /\ Place(s, "reading")
    /\ UNCHANGED <<schema, history, time, mishaps>>

(* The start fails, and the process ends.                                  *)
LockTimesOut(s) ==
    /\ server[s].at = "asking"
    /\ lock # None
    /\ Place(s, "down")
    /\ UNCHANGED <<recorded, time, mishaps>>

Arrived(s) == server[s].at = "reading" /\ server[s].next <= Len(Mine(s))
Recorded(s) == {row \in history : row.version = Due(s).version}
NextFile(s) == server' = [server EXCEPT ![s].next = @ + 1, ![s].at = "reading"]

(* The start fails: the lock is given back, and the process ends.          *)
GiveUp(s) ==
    /\ lock' = IF lock = s THEN None ELSE lock
    /\ Place(s, "down")

(* Mutant of ReadHistory: the checksum of a recorded migration is not      *)
(* compared.                                                               *)
ReadVersions(s) ==
    /\ Arrived(s)
    /\ IF Recorded(s) = {} THEN Place(s, "applying") ELSE NextFile(s)
    /\ UNCHANGED <<recorded, time, mishaps>>

(* A recorded migration is skipped, and if its text has changed, in more   *)
(* than the ends of its lines, the start fails.                            *)
ReadHistory(s) ==
    /\ Arrived(s)
    /\ \/ Recorded(s) = {} /\ Place(s, "applying") /\ UNCHANGED lock
       \/ Due(s) \in history /\ NextFile(s) /\ UNCHANGED lock
       \/ Recorded(s) # {} /\ Due(s) \notin history /\ GiveUp(s)
    /\ UNCHANGED <<schema, history, time, mishaps>>

(* Mutant of Apply: the migration and its row are not one transaction.     *)
ApplyThenRecord(s) ==
    /\ server[s].at = "applying"
    /\ schema' = Append(schema, Due(s))
    /\ \/ history' = history \cup {Due(s)} /\ NextFile(s) /\ UNCHANGED <<lock, mishaps>>
       \/ Mishap /\ UNCHANGED history /\ GiveUp(s)
    /\ UNCHANGED time

(* The migration and its row are committed together; the key of the        *)
(* history refuses a second row.  After a failure, or the end of the       *)
(* process, nothing of it remains unless the commit had arrived.           *)
Apply(s) ==
    /\ server[s].at = "applying"
    /\ \/ /\ Recorded(s) = {}
          /\ schema' = Append(schema, Due(s))
          /\ history' = history \cup {Due(s)}
          /\ \/ NextFile(s) /\ UNCHANGED <<lock, mishaps>>
             \/ Mishap /\ GiveUp(s)
       \/ /\ (Recorded(s) # {} /\ UNCHANGED mishaps) \/ Mishap
          /\ GiveUp(s)
          /\ UNCHANGED <<schema, history>>
    /\ UNCHANGED time

Unlock(s) ==
    /\ server[s].at = "reading" /\ server[s].next > Len(Mine(s))
    /\ lock' = None
    /\ Place(s, "serving")
    /\ UNCHANGED <<schema, history, time, mishaps>>

(* The history has the migrations of the release and no other.             *)
Verify(s) ==
    /\ server[s].at = "verifying"
    /\ IF /\ {row.version : row \in history} = Migrations(server[s].release)
          /\ \A file \in Migrations(server[s].release) :
                Row(server[s].release, file) \in history
       THEN Place(s, "serving")
       ELSE Place(s, "down")
    /\ UNCHANGED <<recorded, time, mishaps>>

KillServer(s) ==
    /\ server[s].at # "down"
    /\ Mishap
    /\ GiveUp(s)
    /\ UNCHANGED <<schema, history, time>>

StopServer(s) ==
    /\ server[s].at = "serving"
    /\ Place(s, "down")
    /\ UNCHANGED <<recorded, time, mishaps>>

StartupNext ==
    \E s \in Servers :
        \/ StartServer(s) \/ TakeLock(s) \/ LockTimesOut(s)
        \/ ReadHistory(s) \/ Apply(s) \/ Unlock(s)
        \/ Verify(s) \/ KillServer(s) \/ StopServer(s)

----------------------------------------------------------------------------
(* No migration is applied a second time, whatever servers start together, *)
(* fail and start again: most of them would fail, or change data twice.    *)
AppliedOnce ==
    \A i, j \in DOMAIN schema : schema[i].version = schema[j].version => i = j

(* A server that serves was written for the schema it meets: each of its   *)
(* migrations has been applied, with the text it has in its release.       *)
ServesItsSchema ==
    \A s \in Servers : server[s].at = "serving" =>
        \A file \in Migrations(server[s].release) :
            \E i \in DOMAIN schema : schema[i] = Row(server[s].release, file)
================================================================================
