SPECIFICATION Spec
CONSTANTS
    Last = 1
    Readers = {r1}
    Writers = {w1, w2}
    MaxChanges = 2
    MaxRevision = 2
    ReadFaults = TRUE
    IncrFaults = TRUE
    LookupFaults = TRUE
    Deaths = TRUE
SYMMETRY Symmetry
INVARIANTS
    FreshRead
PROPERTY ImplementsContract
CHECK_DEADLOCK FALSE
