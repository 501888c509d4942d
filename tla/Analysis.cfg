SPECIFICATION Spec
CONSTANTS
    t1 = t1
    t2 = t2
    t3 = t3
    w1 = w1
    w2 = w2
    r1 = r1
    r2 = r2
    Tracks <- MCTracks
    Workers <- MCWorkers
    Requests <- MCRequests
    Undecodable <- MCUndecodable
    _WRITE_BATCH = 2
    ConnectMayFail = TRUE
INVARIANT
    CompletePassLeavesNothingOut
PROPERTIES
    ImplementsExclusiveJob
    PassesEnd
CHECK_DEADLOCK FALSE
