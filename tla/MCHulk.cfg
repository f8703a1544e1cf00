CONSTANTS
    w1 = w1
    w2 = w2
    Workers <- MCWorkers
    MaxReq = 3
SPECIFICATION FairSpec
INVARIANTS
    TypeOK
    CounterNeverAhead
PROPERTIES
    SafeStopReached
CHECK_DEADLOCK FALSE
