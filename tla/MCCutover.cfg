CONSTANTS
    Runs = {run1, run2}
    Operators = {op1, op2}
    None = None
    Entries = 9
    Summaries <- GateSummaries
    Publication = 3
    Public <- PublicSteps
    Signoff = 8
    MaxDocuments = 16
    MaxCommands = 3
    MaxIncidents = 1
SYMMETRY Symmetry
SPECIFICATION Spec
INVARIANTS
    GatesInOrder
    ContainmentIsReal
    FailureClosesRoute
PROPERTIES
    GoMeansPublic
    GatesKept
\* Every command ends, and there are no more than MaxCommands.
CHECK_DEADLOCK FALSE
