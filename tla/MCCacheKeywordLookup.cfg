SPECIFICATION Spec
CONSTANTS
    Last = 1
    Readers = {r1}
    Writers = {w1}
    MaxChanges = 1
    MaxRevision = 2
    ReadFaults = FALSE
    IncrFaults = FALSE
    LookupFaults = TRUE
    Deaths = FALSE
INVARIANTS
    ReadSeesReturnedWrites
CHECK_DEADLOCK FALSE
