SPECIFICATION FairRefreshSpec
CONSTANTS
    Keys = {k1, k2, k3}
    Workers = {w1, w2, w3}
    Slots = 1
    Capacity = 2
    NoKey = NoKey
INVARIANTS
    OneFetchPerKey
    LoadIsBounded
    JoinedIsQuiescent
PROPERTIES
    KeyIsFreedAgain
    CloseReturns
    ImplementsContract
CHECK_DEADLOCK FALSE
