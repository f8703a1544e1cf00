CONSTANTS
    w1 = w1
    w2 = w2
    Workers <- MCWorkers
    MaxReq = 3
SPECIFICATION FairSpec
PROPERTIES
    StopAnnounced
CHECK_DEADLOCK FALSE
