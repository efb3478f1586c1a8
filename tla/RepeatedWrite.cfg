CONSTANTS
    Attempts = {a1, a2}
    Payloads = {x}
    SlowHandlers = FALSE
    MaxFaults = 1
SPECIFICATION Spec
INVARIANT AtMostOnce
CHECK_DEADLOCK FALSE
