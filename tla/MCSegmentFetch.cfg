SPECIFICATION FairSpec
CONSTANTS
    MaxWorkers = 2
    Counts = {0, 1, 3, 4}
    CountLimit = 3
    Sizes = {1, 2}
    SizeLimit = 3
INVARIANTS
    StrictIsComplete
    TolerantKeepsLoaded
    SizeRespected
    CauseReported
    Joined
PROPERTIES
    Returns
CHECK_DEADLOCK FALSE
