CONSTANTS
    Runs = {r1, r2, r3, r4, r5}
    Nothing = Nothing
    MaxFaults = 2
SPECIFICATION IngressSpec
SYMMETRY AnyRun
INVARIANTS
    OneHolder
    KeyKept
\* The system stops when every run is over.
CHECK_DEADLOCK FALSE
