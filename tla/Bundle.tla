-------------------------------- MODULE Bundle --------------------------------
(***************************************************************************)
(* The commands that run approved code: what is approved is a digest of a  *)
(* script and of every file that it imports from a relative path, and what *)
(* those import, and the files are read one by one while somebody may be   *)
(* changing them.  A step of the cutover is compared with the manifest of  *)
(* its command before and after its child; a step of the activation with   *)
(* the approval, before its child only.                                    *)
(*                                                                         *)
(* The child loads more than that: what a file requires (the services that *)
(* two of the scripts use), copies and runs by its path (the worker of a   *)
(* third) or takes from the packages.                                      *)
(*                                                                         *)
(* A digest is a function from files to versions: two are the same if all  *)
(* contents are.                                                           *)
(***************************************************************************)
EXTENDS DrillWorld, Sequences, SequencesExt

CONSTANTS
    SourceFiles,
    Imports,        \* Imports[f][v]: what version v of file f imports, in order
    Requires,       \* Requires[f][v]: what it gets at in other ways
    Json,           \* files whose contents are not searched for imports
    EntryPoints,    \* function: kind of command -> the scripts of its bundle
    MaxVersion      \* bound: the contents of a file

ASSUME BundleAssumption ==
    /\ MaxVersion \in Nat \ {0}
    /\ Imports \in [SourceFiles -> [1..MaxVersion -> Seq(SourceFiles)]]
    /\ Requires \in [SourceFiles -> [1..MaxVersion -> SUBSET SourceFiles]]
    /\ Json \subseteq SourceFiles
    /\ EntryPoints \in [{"cutover", "activation"} -> Seq(SourceFiles) \ {<<>>}]

VARIABLES
    tree,       \* tree[f]: the version of file f that is there
    approved,   \* the digest the command must find, or None
    loaded,     \* what the child has loaded
    beyond,     \* what it may load, or has, that no import led it to
    work,       \* where the command stands
    edited,     \* history: a file was changed since the last inspection began
    former,     \* history: former[f]: the versions that file f was changed from
    back        \* history: the files that were changed to a former version

edits == <<tree, edited, former, back>>
bundleVars == <<approved, loaded, beyond, work, edits>>

(* The file is there no more. *)
Removed == MaxVersion + 1

Digests == UNION {[files -> 1..MaxVersion] : files \in SUBSET SourceFiles}
NoFiles == [f \in {} |-> 0]

(* pending: the files still to be read, or to be loaded by the child; seen: *)
(* what this inspection has read.                                          *)
BundleTypeOK ==
    /\ tree \in [SourceFiles -> 1..Removed]
    /\ approved \in Digests \cup {None}
    /\ loaded \in Digests
    /\ beyond \subseteq SourceFiles
    /\ work.kind \in DOMAIN EntryPoints
    /\ work.at \in {"record", "before", "child", "after", "PASS", "FAIL"}
    /\ work.pending \in Seq(SourceFiles)
    /\ work.seen \in Digests
    /\ edited \in BOOLEAN
    /\ former \in [SourceFiles -> SUBSET (1..Removed)]
    /\ back \subseteq SourceFiles

BundleInit ==
    /\ tree = [f \in SourceFiles |-> 1]
    /\ approved = None
    /\ loaded = NoFiles
    /\ beyond = {}
    /\ \E kind \in DOMAIN EntryPoints :
        work = [kind |-> kind, at |-> "record", pending |-> EntryPoints[kind],
                seen |-> NoFiles]
    /\ edited = FALSE
    /\ former = [f \in SourceFiles |-> {}]
    /\ back = {}

GoTo(at) == work' = [work EXCEPT !.at = at]

Inspect(at) ==
    /\ work' = [work EXCEPT !.at = at, !.pending = EntryPoints[work.kind],
                            !.seen = NoFiles]
    /\ edited' = FALSE
    /\ UNCHANGED <<tree, former, back>>

Inspecting == work.at \in {"record", "before", "after"}

(* What the imports of file f lead to, which is all that a digest follows. *)
Dependencies(f, version) == IF f \in Json THEN <<>> ELSE Imports[f][version]

Plus(digest, f) ==
    [g \in DOMAIN digest \cup {f} |-> IF g = f THEN tree[f] ELSE digest[g]]

(* The file on top of those to be read was read before. *)
Skip ==
    /\ Inspecting /\ work.pending # <<>>
    /\ Last(work.pending) \in DOMAIN work.seen
    /\ work' = [work EXCEPT !.pending = Front(@)]
    /\ UNCHANGED <<approved, loaded, beyond, edits, time, mishaps>>

Unread == Inspecting /\ work.pending # <<>> /\ Last(work.pending) \notin DOMAIN work.seen

(* It is read, and what it imports is to be read next.  A file that is not *)
(* there ends the inspection and the command.                              *)
ReadSource ==
    /\ Unread
    /\ LET f == Last(work.pending)
           found == tree[f] # Removed
           next == IF found THEN Dependencies(f, tree[f]) ELSE <<>>
       IN  IF found /\ \A i \in DOMAIN next : tree[next[i]] # Removed
           THEN work' = [work EXCEPT !.seen = Plus(@, f),
                                     !.pending = Front(@) \o next]
           ELSE GoTo("FAIL")
    /\ UNCHANGED <<approved, loaded, beyond, edits, time, mishaps>>

(* A file is changed to another version, a new one or one it had before,   *)
(* or is removed, or is there again.                                       *)
Edit(f) ==
    /\ Mishap
    /\ \E version \in (1..Removed) \ {tree[f]} :
        /\ tree' = [tree EXCEPT ![f] = version]
        /\ back' = IF version \in former[f] THEN back \cup {f} ELSE back
    /\ former' = [former EXCEPT ![f] = @ \cup {tree[f]}]
    /\ edited' = TRUE

(* It is changed between the first look at it and the second. *)
ReadUnstable ==
    /\ Unread
    /\ tree[Last(work.pending)] # Removed
    /\ Edit(Last(work.pending))
    /\ GoTo("FAIL")
    /\ UNCHANGED <<approved, loaded, beyond, time>>

Inspected(at) == work.at = at /\ work.pending = <<>>

(* The manifest of the cutover's command; the digest the owner approves.   *)
RecordBundle ==
    /\ Inspected("record")
    /\ approved' = work.seen
    /\ Inspect("before")
    /\ UNCHANGED <<loaded, beyond, time, mishaps>>

(* Another digest, and no child is started. *)
StartChild ==
    /\ Inspected("before")
    /\ IF work.seen = approved
       THEN \E script \in DOMAIN EntryPoints[work.kind] :
                work' = [work EXCEPT !.at = "child",
                                     !.pending = <<EntryPoints[work.kind][script]>>]
       ELSE GoTo("FAIL")
    /\ UNCHANGED <<approved, loaded, beyond, edits, time, mishaps>>

(* The child loads file f, and what f imports and the rest is to be loaded *)
(* next.                                                                   *)
Load(f, rest) ==
    LET version == tree[f]
        next == Dependencies(f, version)
    IN  /\ version # Removed
        /\ loaded' = Plus(loaded, f)
        /\ work' = [work EXCEPT !.pending = rest \o next]
        /\ beyond' = beyond \cup Requires[f][version]
                            \cup (IF f \in beyond THEN ToSet(next) ELSE {})
    /\ UNCHANGED <<approved, edits, time, mishaps>>

(* It loads what is imported, all of it, in some order; it fails if it     *)
(* cannot, or for reasons of its own.                                      *)
LoadModule ==
    /\ work.at = "child"
    /\ \E i \in DOMAIN work.pending :
        LET f == work.pending[i]
            rest == RemoveAt(work.pending, i)
        IN  \/ f \notin DOMAIN loaded /\ Load(f, rest)
            \/ /\ f \in DOMAIN loaded
               /\ work' = [work EXCEPT !.pending = rest]
               /\ UNCHANGED <<approved, loaded, beyond, edits, time, mishaps>>

(* It gets, when it comes to it, at a file that no digest leads to. *)
LoadRequired ==
    /\ work.at = "child"
    /\ \E f \in beyond \ DOMAIN loaded : Load(f, work.pending)

ChildFails ==
    /\ work.at = "child"
    /\ GoTo("FAIL")
    /\ UNCHANGED <<approved, loaded, beyond, edits, time, mishaps>>

(* Mutant of ChildPasses: no step is inspected again. *)
ChildPassesAtOnce ==
    /\ work.at = "child" /\ work.pending = <<>>
    /\ GoTo("PASS")
    /\ UNCHANGED <<approved, loaded, beyond, edits, time, mishaps>>

ChildPasses ==
    /\ work.at = "child" /\ work.pending = <<>>
    /\ IF work.kind = "cutover"
       THEN Inspect("after")
       ELSE GoTo("PASS") /\ UNCHANGED edits
    /\ UNCHANGED <<approved, loaded, beyond, time, mishaps>>

CompareAgain ==
    /\ Inspected("after")
    /\ GoTo(IF work.seen = approved THEN "PASS" ELSE "FAIL")
    /\ UNCHANGED <<approved, loaded, beyond, edits, time, mishaps>>

(* Somebody edits the working tree, or checks out another release. *)
ChangeSource(f) ==
    /\ Edit(f)
    /\ UNCHANGED <<approved, loaded, beyond, work, time>>

BundleNext ==
    \/ Skip \/ ReadSource \/ ReadUnstable \/ RecordBundle \/ StartChild
    \/ LoadModule \/ LoadRequired \/ ChildFails \/ ChildPasses \/ CompareAgain
    \/ \E f \in SourceFiles : ChangeSource(f)

----------------------------------------------------------------------------
(* A step of the cutover that passed has loaded every file that its digest *)
(* covers at the version its command found there at its start, unless the  *)
(* file was changed and changed back meanwhile, which no inspection tells; *)
(* and any other file only by a way that the digest does not follow, or    *)
(* because of a file that was changed and changed back.  A step of the     *)
(* activation has done so, without that exception, if nobody edited        *)
(* anything since its command began to read.                               *)
RanWhatWasApproved ==
    work.at = "PASS" /\ (work.kind = "cutover" \/ ~edited) =>
        \A f \in DOMAIN loaded :
            \/ f \in DOMAIN approved /\ loaded[f] = approved[f]
            \/ f \notin DOMAIN approved /\ f \in beyond
            \/ /\ work.kind = "cutover"
               /\ IF f \in DOMAIN approved
                  THEN f \in back
                  ELSE back \cap DOMAIN approved \cap DOMAIN loaded # {}
================================================================================
