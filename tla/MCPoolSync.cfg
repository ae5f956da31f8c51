SPECIFICATION FairSpec
CONSTANTS
    a = a
    b = b
    Items <- TwoItems
    Feeds <- AnyOrder
    Callers = {c1, c2}
    Admins = {m1}
    Interval = 1
    MaxClock = 1
INVARIANTS
    NoDuplicateInsert
    SyncDelivers
    CountsAddUp
    StaleIsPending
PROPERTIES
    SpacedButForWaits
    CallsEnd
CHECK_DEADLOCK FALSE
