CONSTANTS
    Handlers = {h1, h2}
    Sids = {s1, s2}
    Invitations = {i1, i2}
    Tokens = {t1, t2}
    None = None
    FailLimit = 2
    MaxFails = 2
    MaxClock = 1
    MaxEnrolments = 2
SPECIFICATION AccountsSpec
SYMMETRY Symmetric
INVARIANTS
    IdleSessionsEnd
    CodesAcceptedOnce
    MfaCanBeMet
    OneAcceptance
\* A person who is not invited again, with every session id given out.
CHECK_DEADLOCK FALSE
