SPECIFICATION FairSpec
CONSTANTS
    Keys = {k1, k2}
    Workers = {w1, w2}
    Slots = 1
    Capacity = 2
    NoKey = NoKey
    Requests = {r1, r2}
INVARIANTS
    RepositoryOutlivesRefreshes
    GracefulStopIsClean
PROPERTY StopEndsTheProcess
CHECK_DEADLOCK FALSE
