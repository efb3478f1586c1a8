CONSTANTS
    Requests = {q1, q2}
    Procs = {p1, p2}
    NoProc = NoProc
    MaxReceipts = 4
    MaxQuantity = 3
SYMMETRY Symmetry
SPECIFICATION Spec
INVARIANTS
    NeverOverReceived
    AssetsMatchReceipts
\* The system may stop: everything received and inspected.
CHECK_DEADLOCK FALSE
