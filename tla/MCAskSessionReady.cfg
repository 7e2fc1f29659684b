SPECIFICATION Spec
CONSTANTS
    a = a
    b = b
    Docs = {a, b}
    Registered = {b}
    Items <- TheItems
    MaxSockets = 2
    MaxAsks = 2
    Drops = FALSE
CHECK_DEADLOCK FALSE
INVARIANT ReadyToAsk
