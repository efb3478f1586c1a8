CONSTANTS
    Assets = {a1}
    Users = {u1, u2}
    Managers = {u1}
    Admins = {u2}
    Nobody = Nobody
    Requests = {r1, r2, r3, r4}
    Types = {"ASSIGN", "RETURN"}
    Plans <- OneStepPlans
SYMMETRY RequestSymmetry
SPECIFICATION WorkflowSpec
INVARIANT ReturnedByHolder
CHECK_DEADLOCK FALSE
