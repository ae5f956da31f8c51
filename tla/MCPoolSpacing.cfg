SPECIFICATION Spec
CONSTANTS
    a = a
    b = b
    Items <- TwoItems
    Feeds <- AnyOrder
    Callers = {c1, c2}
    Admins = {}
    Interval = 2
    MaxClock = 2
PROPERTIES
    PassiveSpacing
CHECK_DEADLOCK FALSE
