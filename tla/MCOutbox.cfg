CONSTANTS
    MaxEvents = 2
    Workers = {w1, w2}
    Nobody = Nobody
    Gone = Gone
    MaxAttempts = 3
    MaxFaults = 2
SPECIFICATION FairSpec
INVARIANTS
    OneWorkerPerEvent
    NothingLost
PROPERTY EventuallySettled
\* The system stops when every event is settled.
CHECK_DEADLOCK FALSE
