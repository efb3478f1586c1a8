CONSTANTS
    Attempts = {a1, a2, a3, a4}
    Payloads = {x, y}
    SlowHandlers = FALSE
    MaxFaults = 2
SYMMETRY Symmetry
SPECIFICATION Spec
INVARIANTS
    OneAtATime
    AnswersAreTrue
    RepeatsNeedFaults
\* The system stops when every request has been answered.
CHECK_DEADLOCK FALSE
