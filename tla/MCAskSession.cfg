SPECIFICATION FairSpec
CONSTANTS
    a = a
    b = b
    Docs = {a, b}
    Registered = {b}
    Items <- TheItems
    MaxSockets = 2
    MaxAsks = 2
    Drops = TRUE
CHECK_DEADLOCK FALSE
INVARIANTS
    TypeOK
    OneRunPerThread
    QuietWhenIdle
    LandsWhereItBelongs
PROPERTIES
    AskedIsAnswered
