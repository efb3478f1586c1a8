CONSTANTS
    Items = {i1, i2}
    Procs = {p1, p2}
    NoProc = NoProc
    MaxLoans = 2
    MaxTotal = 2
SPECIFICATION FairSpec
INVARIANTS
    BooksKept
PROPERTIES
    Serializable
    ConnectionsComeBack
\* The system may stop: every item deactivated, no loan open.
CHECK_DEADLOCK FALSE
