SPECIFICATION Spec
CONSTANTS
    Identities = {v1, v2, v3}
    Readers = {r1, r2}
    Writers = {w1, w2}
    Capacity = 2
    MaxChanges = 2
INVARIANTS
    EntriesCurrent
PROPERTIES
    ImplementsContract
CHECK_DEADLOCK FALSE
