CONSTANTS
    Assets = {a1}
    Users = {u1, u2, u3}
    Managers = {u1}
    Admins = {u2}
    Nobody = Nobody
    Requests = {r1, r2}
    Types <- RequestTypes
    Plans <- MCPlans
SYMMETRY RequestSymmetry
SPECIFICATION WorkflowSpec
INVARIANTS
    ApprovalInOrder
PROPERTY AssignmentNeedsApproval
\* The system may stop: every request decided, the asset disposed of.
CHECK_DEADLOCK FALSE
