CONSTANTS
    w1 = w1
    w2 = w2
    Workers <- MCWorkers
    MaxReq = 3
SPECIFICATION FairSpec
INVARIANTS
    CounterCountsRequests
CHECK_DEADLOCK FALSE
