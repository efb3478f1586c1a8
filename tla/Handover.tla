-------------------------------- MODULE Handover --------------------------------
(***************************************************************************)
(* The end of P7: the owner of operations signs the documents of the       *)
(* domains; his receipt becomes the input of the signoff, and that the     *)
(* signoff; a manifest names the documents and the signoff with their      *)
(* hashes; the completion reads the manifest and every document again and  *)
(* writes the four files that say the work is closed.                      *)
(*                                                                         *)
(* Each command reads its documents one after the other, and the operator  *)
(* may replace one meanwhile.  A file is read whole or not at all (it is   *)
(* examined before and after), so one reading is one step.                 *)
(***************************************************************************)
EXTENDS DrillWorld, Sequences

CONSTANTS
    Domains,        \* the domains, in order; backup, restore, maintenance among them
    FreshFor,       \* greatest age of a signature: 24 hours
    MaxReplaced     \* bound: documents replaced

Names == {Domains[i] : i \in DOMAIN Domains}

ASSUME HandoverAssumption ==
    /\ Domains \in Seq(STRING) /\ {"backup", "restore", "maintenance"} \subseteq Names
    /\ FreshFor \in Nat /\ MaxReplaced \in Nat

VARIABLES
    documents,      \* the document of each domain, at its path
    replaced,       \* how many have been replaced
    receipt,        \* what the owner has signed, or None
    signoffInput,   \* the same in the form of the compiler, or None
    signoff,        \* the signoff, or None
    handover,       \* the manifest, or None
    clerk,          \* the command that runs, and what it has read
    files,          \* the four files of the roadmap
    closed,         \* the documents on which the roadmap was closed, or None
    verdict         \* how the last completion ended

papers == <<receipt, signoffInput, signoff, handover>>
ending == <<files, closed, verdict>>
handoverVars == <<documents, replaced, papers, clerk, ending>>

(* A document: its hash, and what it is of: the publication of a backup or *)
(* of a restore, the release of a maintenance.                             *)
Document == [hash: 0..MaxReplaced, of: {"one", "other"}]
Files == 1..4               \* the roadmap itself is the first

(* The release of the cutover, for which P7 is done. *)
Release == "one"

Signed(s) == s.names \in [Names -> Document] /\ s.signed \in Times
Off == [task |-> "none", got |-> <<>>, at |-> 0, manifest |-> None]

HandoverTypeOK ==
    /\ documents \in [Names -> Document]
    /\ replaced \in 0..MaxReplaced
    /\ \A s \in {receipt, signoffInput, signoff} \ {None} : Signed(s)
    /\ handover # None => handover.names \in [Names -> Document] /\ Signed(handover.signoff)
    /\ clerk.task \in {"none", "input", "manifest", "complete", "write", "restore"}
    /\ clerk.got \in Seq(Document) /\ clerk.at \in 0..5
    /\ files \in [Files -> {"old", "new", "torn"}]
    /\ closed \in [Names -> Document] \cup {None}
    /\ verdict \in {"none", "PASS", "FAIL", "UNRESTORED", "KILLED"}

HandoverInit ==
    /\ documents = [d \in Names |-> [hash |-> 0, of |-> "one"]]
    /\ replaced = 0
    /\ receipt = None /\ signoffInput = None /\ signoff = None /\ handover = None
    /\ clerk = Off
    /\ files = [f \in Files |-> "old"]
    /\ closed = None
    /\ verdict = "none"

----------------------------------------------------------------------------
(* Reading, of all commands. *)

AllRead == Len(clerk.got) = Len(Domains)
Got == [d \in Names |-> clerk.got[CHOOSE i \in DOMAIN Domains : Domains[i] = d]]

(* The next document, as it is now. *)
ReadDocument ==
    /\ clerk.task \in {"input", "manifest", "complete"} /\ ~AllRead
    /\ clerk' = [clerk EXCEPT
           !.got = Append(@, documents[Domains[Len(clerk.got) + 1]])]
    /\ UNCHANGED <<documents, replaced, papers, ending, time, mishaps>>

(* It is not there, or changes while it is read: the command gives up.     *)
ReadingFails ==
    /\ clerk.task \in {"input", "manifest", "complete"} /\ ~AllRead
    /\ Mishap
    /\ clerk' = Off
    /\ UNCHANGED <<documents, replaced, papers, ending, time>>

Start(task) ==
    /\ clerk.task = "none"
    /\ clerk' = [Off EXCEPT !.task = task, !.manifest = handover]
    /\ UNCHANGED <<documents, replaced, papers, ending, time, mishaps>>

----------------------------------------------------------------------------
(* The signoff. *)

StartSignoffInput == signoffInput = None /\ receipt # None /\ Start("input")

(* What is signed must be what was read.                                   *)
SignoffAccepted ==
    /\ receipt # None
    /\ receipt.names = Got
    /\ Got["maintenance"].of = Release
    /\ time - receipt.signed <= FreshFor

AssembleSignoffInput ==
    /\ clerk.task = "input" /\ AllRead
    /\ IF SignoffAccepted THEN signoffInput' = receipt ELSE UNCHANGED signoffInput
    /\ clerk' = Off
    /\ UNCHANGED <<documents, replaced, receipt, signoff, handover, ending, time, mishaps>>

(* The compiler does not look at the documents of the domains again.       *)
CompileSignoff ==
    /\ clerk.task = "none"
    /\ signoff = None /\ signoffInput # None
    /\ time - signoffInput.signed <= FreshFor
    /\ signoff' = signoffInput
    /\ UNCHANGED <<documents, replaced, receipt, signoffInput, handover, clerk,
                   ending, time, mishaps>>

----------------------------------------------------------------------------
(* The manifest. *)

(* Mutant of OnePublication: each document by itself. *)
AnyPublication(names) == names["backup"].of \in {"one", "other"}

(* A backup and a restore must come from one publication.  The documents   *)
(* are not compared with those the owner signed, nor is any age.           *)
OnePublication(names) == names["backup"].of = names["restore"].of

StartManifest == handover = None /\ signoff # None /\ Start("manifest")

AssembleManifest ==
    /\ clerk.task = "manifest" /\ AllRead
    /\ IF signoff # None /\ OnePublication(Got)
         THEN handover' = [names |-> Got, signoff |-> signoff]
         ELSE UNCHANGED handover
    /\ clerk' = Off
    /\ UNCHANGED <<documents, replaced, receipt, signoffInput, signoff, ending,
                   time, mishaps>>

----------------------------------------------------------------------------
(* The completion. *)

(* The manifest is read first, and once.                                   *)
StartCompletion == handover # None /\ Start("complete")

(* The roadmap and its queue say that P7 is in progress. *)
Open == files[1] = "old" /\ files[2] = "old"

(* git status names none of the four files. *)
CleanWorktree == \A f \in Files : files[f] = "old"

(* Every document is there with the hash of the manifest, the bundle is    *)
(* acceptable, P7 is open in the roadmap and the worktree is clean.        *)
MayClose ==
    /\ Got = clerk.manifest.names /\ signoff = clerk.manifest.signoff
    /\ OnePublication(Got)
    /\ Open /\ CleanWorktree

BeginToClose ==
    /\ clerk.task = "complete" /\ AllRead
    /\ IF MayClose THEN clerk' = [clerk EXCEPT !.task = "write", !.at = 1]
                   ELSE clerk' = Off
    /\ UNCHANGED <<documents, replaced, papers, ending, time, mishaps>>

(* One file after the other; the roadmap carries the hash of the manifest. *)
WriteFile ==
    /\ clerk.task = "write" /\ clerk.at \in Files
    /\ files' = [files EXCEPT ![clerk.at] = "new"]
    /\ closed' = IF clerk.at = 1 THEN Got ELSE closed
    /\ clerk' = [clerk EXCEPT !.at = @ + 1]
    /\ UNCHANGED <<documents, replaced, papers, verdict, time, mishaps>>

(* A write that fails may leave part of the file.                          *)
WriteFails ==
    /\ clerk.task = "write" /\ clerk.at \in Files
    /\ Mishap
    /\ \E left \in {"old", "torn"} : files' = [files EXCEPT ![clerk.at] = left]
    /\ clerk' = [clerk EXCEPT !.task = "restore", !.at = 1]
    /\ UNCHANGED <<documents, replaced, papers, closed, verdict, time>>

CloseDone ==
    /\ clerk.task = "write" /\ clerk.at = 5
    /\ verdict' = "PASS"
    /\ clerk' = Off
    /\ UNCHANGED <<documents, replaced, papers, files, closed, time, mishaps>>

(* What a restoration has to write: all four files.                        *)
ToRestore == Files

RestoreFile ==
    /\ clerk.task = "restore" /\ clerk.at \in Files
    /\ IF clerk.at \in ToRestore
         THEN /\ files' = [files EXCEPT ![clerk.at] = "old"]
              /\ closed' = IF clerk.at = 1 THEN None ELSE closed
         ELSE UNCHANGED <<files, closed>>
    /\ clerk' = [clerk EXCEPT !.at = @ + 1]
    /\ UNCHANGED <<documents, replaced, papers, verdict, time, mishaps>>

(* The second failure ends the command with the rest as it is.             *)
RestoreFails ==
    /\ clerk.task = "restore" /\ clerk.at \in Files
    /\ Mishap
    /\ verdict' = "UNRESTORED"
    /\ clerk' = Off
    /\ UNCHANGED <<documents, replaced, papers, files, closed, time>>

RestoreDone ==
    /\ clerk.task = "restore" /\ clerk.at = 5
    /\ verdict' = "FAIL"
    /\ clerk' = Off
    /\ UNCHANGED <<documents, replaced, papers, files, closed, time, mishaps>>

KillCompletion ==
    /\ clerk.task \in {"write", "restore"}
    /\ Mishap
    /\ verdict' = "KILLED"
    /\ clerk' = Off
    /\ UNCHANGED <<documents, replaced, papers, files, closed, time>>

----------------------------------------------------------------------------
(* The owner and the operator (external). *)

Sign ==
    /\ receipt' = [names |-> documents, signed |-> time]
    /\ receipt' # receipt
    /\ UNCHANGED <<documents, replaced, signoffInput, signoff, handover, clerk,
                   ending, time, mishaps>>

(* A document is removed and its compiler runs again, or its path is set   *)
(* to another file.                                                        *)
ReplaceDocument(d) ==
    /\ replaced < MaxReplaced
    /\ replaced' = replaced + 1
    /\ \E of \in {"one", "other"} :
          /\ of = "other" => d \in {"backup", "restore", "maintenance"}
          /\ documents' = [documents EXCEPT ![d] = [hash |-> replaced + 1, of |-> of]]
    /\ UNCHANGED <<papers, clerk, ending, time, mishaps>>

(* Outputs are never overwritten, so he removes one to have it made again. *)
RemovePaper ==
    /\ Mishap
    /\ \/ signoffInput # None /\ signoffInput' = None /\ UNCHANGED <<signoff, handover>>
       \/ signoff # None /\ signoff' = None /\ UNCHANGED <<signoffInput, handover>>
       \/ handover # None /\ handover' = None /\ UNCHANGED <<signoffInput, signoff>>
    /\ UNCHANGED <<documents, replaced, receipt, clerk, ending, time>>

(* git restore, after a completion that did not end well.                  *)
RevertFiles ==
    /\ clerk.task = "none" /\ verdict \in {"UNRESTORED", "KILLED"}
    /\ files' = [f \in Files |-> "old"] /\ closed' = None /\ verdict' = "none"
    /\ UNCHANGED <<documents, replaced, papers, clerk, time, mishaps>>

HandoverNext ==
    \/ ReadDocument \/ ReadingFails
    \/ StartSignoffInput \/ AssembleSignoffInput \/ CompileSignoff
    \/ StartManifest \/ AssembleManifest
    \/ StartCompletion \/ BeginToClose \/ WriteFile \/ WriteFails \/ CloseDone
    \/ RestoreFile \/ RestoreFails \/ RestoreDone \/ KillCompletion
    \/ Sign \/ (\E d \in Names : ReplaceDocument(d)) \/ RemovePaper \/ RevertFiles
    \/ TimePasses /\ UNCHANGED handoverVars

----------------------------------------------------------------------------
(* P7 is never closed on a backup and a restore of two publications,       *)
(* whenever a document was replaced while a command was reading.           *)
PairTogether ==
    closed # None => closed["backup"].of = closed["restore"].of

(* A completion that ends by itself has written the four files or none:    *)
(* they say the same of P7, unless it was killed or could not restore.     *)
AllOrNothing ==
    /\ verdict = "PASS" => \A f \in Files : files[f] = "new"
    /\ verdict = "FAIL" /\ clerk.task \notin {"write", "restore"} =>
           \A f \in Files : files[f] = "old"

(* P7 is closed as a whole or not at all, and on documents that belong     *)
(* together.                                                               *)
ClosedAsAWhole == PairTogether /\ AllOrNothing
================================================================================
