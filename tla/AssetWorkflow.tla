--------------------------- MODULE AssetWorkflow ---------------------------
(***************************************************************************)
(* The asset ledger and the requests that change it                        *)
(* (src/services/enterprise-service.js, approval-service.js,               *)
(* return-service.js, file-service.js): assets move through a table of     *)
(* statuses, a request goes through the steps of an approval plan, and     *)
(* only its last approval touches the asset and its assignment.            *)
(*                                                                         *)
(* Every handler is one transaction that locks the request, then the       *)
(* asset, before it decides, so it is one action here; the upload of a     *)
(* return photo is not one transaction and is three.                       *)
(***************************************************************************)
EXTENDS Integers, Sequences

CONSTANTS
    Assets,     \* assets.id
    Users,      \* users of one organization
    Managers,   \* users with the role MANAGER
    Admins,     \* users with the role ADMIN
    Nobody,     \* the holder of an asset without ACTIVE assignment
    Requests,   \* bound: the ids of the requests ever made
    Types,      \* the request types that are made
    Plans       \* step roles of the approval policies there are

VARIABLES
    status,     \* status[a]: assets.status_code, "NONE" before the row exists
    holder,     \* holder[a]: the user of the ACTIVE row of asset_assignments;
                \* uq_asset_active_assignment allows an asset one such row
    requests,   \* requests[r]: the row of workflow_requests
    approvals,  \* approvals[r]: its rows in workflow_request_approvals
    photo,      \* photo[r]: has it a return photo, and is one still ACTIVE
    uploads,    \* requests with a photo on its way through scanner and store
    returned    \* returned[r]: its row in asset_return_records

workflowVars == <<status, holder, requests, approvals, photo, uploads, returned>>

RequestTypes ==
    {"ASSIGN", "RETURN", "TRANSFER", "REPAIR", "LOST", "PURCHASE", "DISPOSAL"}

Statuses ==
    {"DRAFT", "RECEIVED", "INSPECTION_PENDING", "AVAILABLE", "ASSIGNED", "IN_USE",
     "TRANSFER_PENDING", "RETURNED", "REPAIR", "LOST", "FOUND", "DISPOSE_PENDING",
     "DISPOSED", "CANCELLED"}

Roles == {"MANAGER", "ADMIN"}

(* normalizeApprovalPolicy: one to ten steps, each of a known role. *)
IsPolicy(plan) == plan \in Seq(Roles) /\ Len(plan) \in 1..10

ASSUME WorkflowAssumption ==
    /\ Nobody \notin Users
    /\ Types \subseteq RequestTypes
    /\ \A plan \in Plans : IsPolicy(plan)

(* STATUS_TRANSITIONS. *)
Transitions ==
    [s \in Statuses |->
        CASE s = "DRAFT"              -> {"RECEIVED", "AVAILABLE", "CANCELLED"}
          [] s = "RECEIVED"           -> {"INSPECTION_PENDING"}
          [] s = "INSPECTION_PENDING" -> {"AVAILABLE", "REPAIR"}
          [] s = "AVAILABLE"          -> {"ASSIGNED", "REPAIR", "LOST", "DISPOSE_PENDING"}
          [] s = "ASSIGNED"           -> {"IN_USE", "RETURNED", "REPAIR", "LOST", "TRANSFER_PENDING"}
          [] s = "IN_USE"             -> {"RETURNED", "REPAIR", "LOST", "TRANSFER_PENDING"}
          [] s = "TRANSFER_PENDING"   -> {"IN_USE", "AVAILABLE", "CANCELLED"}
          [] s = "RETURNED"           -> {"AVAILABLE", "REPAIR", "DISPOSE_PENDING"}
          [] s = "REPAIR"             -> {"AVAILABLE", "IN_USE", "DISPOSE_PENDING"}
          [] s = "LOST"               -> {"FOUND", "DISPOSE_PENDING"}
          [] s = "FOUND"              -> {"AVAILABLE"}
          [] s = "DISPOSE_PENDING"    -> {"DISPOSED", "AVAILABLE"}
          [] OTHER                    -> {}]

----------------------------------------------------------------------------
(* Rows.  A request has no row before it is created; current is 0 where     *)
(* current_approval_step is NULL.                                          *)
NoRow == [status |-> "NONE"]

RequestRow ==
    [type: RequestTypes, requester: Users, asset: Assets, assignee: Users,
     status: {"DRAFT", "SUBMITTED", "APPROVED", "REJECTED", "CANCELLED"},
     current: Nat]

StepRow == [role: Roles, status: {"PENDING", "APPROVED", "REJECTED", "SKIPPED"}]

NoReturnRecord == [holder |-> Nobody, by |-> Nobody]

ReturnRecord == [holder: Users, by: Users]

WorkflowTypeOK ==
    /\ status \in [Assets -> Statuses \cup {"NONE"}]
    /\ holder \in [Assets -> Users \cup {Nobody}]
    /\ requests \in [Requests -> RequestRow \cup {NoRow}]
    /\ approvals \in [Requests -> Seq(StepRow)]
    /\ photo \in [Requests -> {"NONE", "ACTIVE", "INACTIVE"}]
    /\ uploads \subseteq Requests
    /\ returned \in [Requests -> ReturnRecord \cup {NoReturnRecord}]

WorkflowInit ==
    /\ status = [a \in Assets |-> "NONE"]
    /\ holder = [a \in Assets |-> Nobody]
    /\ requests = [r \in Requests |-> NoRow]
    /\ approvals = [r \in Requests |-> <<>>]
    /\ photo = [r \in Requests |-> "NONE"]
    /\ uploads = {}
    /\ returned = [r \in Requests |-> NoReturnRecord]

asset == <<status, holder, returned>>
evidence == <<photo, uploads>>

----------------------------------------------------------------------------
(* Assets. *)

(* createAsset takes the initial status from its input. *)
CreateAsset(a, s) ==
    /\ status[a] = "NONE"
    /\ status' = [status EXCEPT ![a] = s]
    /\ UNCHANGED <<holder, requests, approvals, evidence, returned>>

(* changeAssetStatus follows the table and does not look at assignments. *)
ChangeAssetStatus(a, to) ==
    /\ status[a] # "NONE"
    /\ to \in Transitions[status[a]]
    /\ status' = [status EXCEPT ![a] = to]
    /\ UNCHANGED <<holder, requests, approvals, evidence, returned>>

----------------------------------------------------------------------------
(* Requests and their evidence. *)

(* createRequest: only the user of the ACTIVE assignment may ask for a     *)
(* RETURN.  The assignment is read without a lock; the draft it leads to   *)
(* is seen by nobody before its own COMMIT.                                *)
CreateRequest(r, user, type, a, assignee) ==
    /\ requests[r] = NoRow
    /\ type = "PURCHASE" \/ status[a] # "NONE"     \* a purchase is of no asset
    /\ type = "RETURN" => holder[a] = user
    /\ type # "ASSIGN" => assignee = user
    /\ requests' = [requests EXCEPT ![r] =
                      [type |-> type, requester |-> user, asset |-> a,
                       assignee |-> assignee, status |-> "DRAFT", current |-> 0]]
    /\ UNCHANGED <<asset, approvals, evidence>>

(* uploadReturnPhoto checks the draft, then awaits the malware scan and    *)
(* the object store ...                                                    *)
UploadStart(r) ==
    /\ requests[r].status = "DRAFT"
    /\ requests[r].type = "RETURN"
    /\ uploads' = uploads \cup {r}
    /\ UNCHANGED <<asset, requests, approvals, photo>>

(* ... and createReturnEvidence inserts the rows without a second look.    *)
UploadRecord(r) ==
    /\ r \in uploads
    /\ uploads' = uploads \ {r}
    /\ photo' = [photo EXCEPT ![r] = "ACTIVE"]
    /\ UNCHANGED <<asset, requests, approvals>>

(* An unclean scan, a store or a database error, a crash. *)
UploadFail(r) ==
    /\ r \in uploads
    /\ uploads' = uploads \ {r}
    /\ UNCHANGED <<asset, requests, approvals, photo>>

(* deactivateAssetFile: the photo is a file of the asset like any other.   *)
DeactivatePhoto(r) ==
    /\ photo[r] = "ACTIVE"
    /\ photo' = [photo EXCEPT ![r] = "INACTIVE"]
    /\ UNCHANGED <<asset, requests, approvals, uploads>>

----------------------------------------------------------------------------
(* initializeApprovalPlan: a row for every step of the policy selected by  *)
(* then, the default policy where no other matches.                        *)
PlanRows(plan) ==
    [k \in DOMAIN plan |-> [role |-> plan[k], status |-> "PENDING"]]

(* transitionRequest, SUBMIT and CANCEL. *)
Submit(r, plan) ==
    /\ requests[r].status = "DRAFT"
    /\ requests[r].type = "RETURN" => photo[r] = "ACTIVE"
    /\ approvals[r] = <<>>
    /\ approvals' = [approvals EXCEPT ![r] = PlanRows(plan)]
    /\ requests' = [requests EXCEPT ![r].status = "SUBMITTED", ![r].current = 1]
    /\ UNCHANGED <<asset, evidence>>

(* The PENDING steps from k on get a new status. *)
Closed(steps, k, outcome) ==
    [j \in 1..Len(steps) |->
        IF j >= k /\ steps[j].status = "PENDING"
        THEN [steps[j] EXCEPT !.status = outcome] ELSE steps[j]]

Cancel(r) ==
    /\ requests[r].status \in {"DRAFT", "SUBMITTED"}
    /\ approvals' = [approvals EXCEPT ![r] = Closed(@, 1, "SKIPPED")]
    /\ requests' = [requests EXCEPT ![r].status = "CANCELLED", ![r].current = 0]
    /\ UNCHANGED <<asset, evidence>>

(* getCurrentApproval: the lowest PENDING step after the first `from' ones. *)
IsLowestPending(steps, k, from) ==
    /\ k \in (from + 1)..Len(steps)
    /\ steps[k].status = "PENDING"
    /\ \A j \in (from + 1)..(k - 1) : steps[j].status # "PENDING"

(* requireStepRole *)
HasStepRole(user, step) == user \in Admins \/ step.role = "MANAGER"

(* The step a reviewer acts on must be the request's current one, the      *)
(* reviewer not the requester.                                             *)
MayReview(r, user, k) ==
    /\ user \in Managers \cup Admins
    /\ requests[r].status = "SUBMITTED"
    /\ user # requests[r].requester
    /\ k = requests[r].current
    /\ IsLowestPending(approvals[r], k, 0)
    /\ HasStepRole(user, approvals[r][k])

(* Mutant of Reject: the steps after the rejected one stay open. *)
RejectOneStep(r, user, k) ==
    /\ MayReview(r, user, k)
    /\ approvals' = [approvals EXCEPT ![r][k].status = "REJECTED"]
    /\ requests' = [requests EXCEPT ![r].status = "REJECTED", ![r].current = 0]
    /\ UNCHANGED <<asset, evidence>>

Reject(r, user, k) ==
    /\ MayReview(r, user, k)
    /\ approvals' = [approvals EXCEPT ![r] =
                       [Closed(@, k + 1, "SKIPPED") EXCEPT ![k].status = "REJECTED"]]
    /\ requests' = [requests EXCEPT ![r].status = "REJECTED", ![r].current = 0]
    /\ UNCHANGED <<asset, evidence>>

(* An approval that leaves a PENDING step opens the lowest one. *)
ApproveStep(r, user, k, next) ==
    /\ MayReview(r, user, k)
    /\ IsLowestPending(approvals[r], next, k)
    /\ approvals' = [approvals EXCEPT ![r][k].status = "APPROVED"]
    /\ requests' = [requests EXCEPT ![r].current = next]
    /\ UNCHANGED <<asset, evidence>>

----------------------------------------------------------------------------
(* applyApprovedRequest, by request type: a refusal rolls the approval back. *)
ApplyAssign(r, a) ==
    /\ requests[r].type = "ASSIGN"
    /\ "ASSIGNED" \in Transitions[status[a]]
    /\ holder[a] = Nobody                   \* or uq_asset_active_assignment fails
    /\ status' = [status EXCEPT ![a] = "ASSIGNED"]
    /\ holder' = [holder EXCEPT ![a] = requests[r].assignee]
    /\ UNCHANGED returned

(* The ACTIVE assignment is closed, whoever holds it by now. *)
ApplyReturn(r, a) ==
    /\ requests[r].type = "RETURN"
    /\ status[a] \in {"ASSIGNED", "IN_USE"}
    /\ photo[r] = "ACTIVE"
    /\ holder[a] # Nobody
    /\ returned[r] = NoReturnRecord               \* asset_return_records.request_id is UNIQUE
    /\ status' = [status EXCEPT ![a] = "RETURNED"]
    /\ holder' = [holder EXCEPT ![a] = Nobody]
    /\ returned' = [returned EXCEPT ![r] =
                      [holder |-> holder[a], by |-> requests[r].requester]]

(* The new assignment has the user of the one it replaces. *)
ApplyTransfer(r, a) ==
    /\ requests[r].type = "TRANSFER"
    /\ status[a] \in {"ASSIGNED", "IN_USE"}
    /\ holder[a] # Nobody
    /\ status' = [status EXCEPT ![a] = "IN_USE"]
    /\ UNCHANGED <<holder, returned>>

ApplyStatus(r, a, type, from, to) ==
    /\ requests[r].type = type
    /\ status[a] \in from
    /\ status' = [status EXCEPT ![a] = to]
    /\ UNCHANGED <<holder, returned>>

Apply(r, a) ==
    \/ ApplyAssign(r, a)
    \/ ApplyReturn(r, a)
    \/ ApplyTransfer(r, a)
    \/ ApplyStatus(r, a, "REPAIR", {"AVAILABLE", "ASSIGNED", "IN_USE", "RETURNED"}, "REPAIR")
    \/ ApplyStatus(r, a, "LOST", {"AVAILABLE", "ASSIGNED", "IN_USE"}, "LOST")
    \/ ApplyStatus(r, a, "DISPOSAL", {"AVAILABLE", "RETURNED", "REPAIR", "LOST"},
                   "DISPOSE_PENDING")
    \/ requests[r].type = "PURCHASE" /\ UNCHANGED asset

(* Mutant of ApproveFinal: the first approval decides. *)
ApproveAtOnce(r, user, k) ==
    /\ MayReview(r, user, k)
    /\ approvals' = [approvals EXCEPT ![r][k].status = "APPROVED"]
    /\ requests' = [requests EXCEPT ![r].status = "APPROVED", ![r].current = 0]
    /\ Apply(r, requests[r].asset)
    /\ UNCHANGED evidence

(* The approval that leaves no PENDING step decides the request. *)
ApproveFinal(r, user, k) ==
    /\ MayReview(r, user, k)
    /\ \A j \in (k + 1)..Len(approvals[r]) : approvals[r][j].status # "PENDING"
    /\ approvals' = [approvals EXCEPT ![r][k].status = "APPROVED"]
    /\ requests' = [requests EXCEPT ![r].status = "APPROVED", ![r].current = 0]
    /\ Apply(r, requests[r].asset)
    /\ UNCHANGED evidence

----------------------------------------------------------------------------
WorkflowNext ==
    \/ \E a \in Assets, s \in Statuses : CreateAsset(a, s) \/ ChangeAssetStatus(a, s)
    \/ \E r \in Requests, user, assignee \in Users, type \in Types, a \in Assets :
          CreateRequest(r, user, type, a, assignee)
    \/ \E r \in Requests :
          \/ UploadStart(r)
          \/ UploadRecord(r)
          \/ UploadFail(r)
          \/ DeactivatePhoto(r)
          \/ \E plan \in Plans : Submit(r, plan)
          \/ Cancel(r)
          \/ \E user \in Users, k \in 1..Len(approvals[r]) :
                \/ Reject(r, user, k)
                \/ \E next \in 1..Len(approvals[r]) : ApproveStep(r, user, k, next)
                \/ ApproveFinal(r, user, k)

WorkflowSpec == WorkflowInit /\ [][WorkflowNext]_workflowVars

----------------------------------------------------------------------------
StepsAre(steps, from, to, outcome) ==
    \A k \in 1..Len(steps) : k \in from..to => steps[k].status = outcome

(* A request and its step rows tell one story.                             *)
OneStory(request, steps) ==
    LET n == Len(steps) IN
    /\ request.status \in {"NONE", "DRAFT"} => n = 0
    /\ request.status = "SUBMITTED" =>
          /\ request.current \in 1..n
          /\ StepsAre(steps, 1, request.current - 1, "APPROVED")
          /\ StepsAre(steps, request.current, n, "PENDING")
    /\ request.status = "APPROVED" => n > 0 /\ StepsAre(steps, 1, n, "APPROVED")
    /\ request.status = "REJECTED" =>
          \E k \in 1..n : /\ StepsAre(steps, 1, k - 1, "APPROVED")
                          /\ steps[k].status = "REJECTED"
                          /\ StepsAre(steps, k + 1, n, "SKIPPED")
    /\ request.status = "CANCELLED" =>
          \E k \in 0..n : /\ StepsAre(steps, 1, k, "APPROVED")
                          /\ StepsAre(steps, k + 1, n, "SKIPPED")

(* Steps are approved in order and none is skipped over, the request's own *)
(* step number is the one that is open, and a decision leaves no step open *)
(* (transitionRequest, getCurrentApproval).                                *)
ApprovalInOrder == \A r \in Requests : OneStory(requests[r], approvals[r])

(* An assignment begins or ends only in the step that approves a request   *)
(* for that very asset, its last step; no intermediate approval,           *)
(* rejection, cancellation or manual status change touches it.             *)
AssignmentNeedsApproval ==
    [][\A a \in Assets : holder'[a] # holder[a] =>
          \E r \in Requests :
             /\ requests[r].status = "SUBMITTED"
             /\ requests'[r].status = "APPROVED"
             /\ requests[r].type \in {"ASSIGN", "RETURN"}
             /\ requests[r].asset = a
             /\ holder'[a] = (IF requests[r].type = "ASSIGN"
                              THEN requests[r].assignee ELSE Nobody)
             /\ \A k \in 1..Len(approvals'[r]) : approvals'[r][k].status = "APPROVED"]_workflowVars

(* docs/phase-reports/27_반납_사진.md:8: a requester can return only the    *)
(* asset that is currently assigned to him.                                *)
ReturnedByHolder ==
    \A r \in Requests : returned[r].by = returned[r].holder
=============================================================================
