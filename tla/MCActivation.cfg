CONSTANTS
    Commands = {c1, c2}
    Approvals = {a1}
    None = None
    Dead = Dead
    Plan <- ShortPlan
    Slow <- SlowSteps
    SampleDays = 2
    Beats = 2
    MaxAttempts = 9
    MaxIncidents = 2
SPECIFICATION FairSpec
INVARIANTS
    OneWriter
    EvidenceInOrder
    LeaseGuardsWorld
PROPERTY Settles
\* The system stops when P7 is closed or no approval is valid.
CHECK_DEADLOCK FALSE
