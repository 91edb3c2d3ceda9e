SPECIFICATION LiveSpec
CONSTANTS
    ChannelCount = 2
    Capacity = 1
    MaxArrivals = 0
    Roles = {"app", "editor"}
\* Every thread may have come to its end.
CHECK_DEADLOCK FALSE
INVARIANTS NotifiedOnce ClosedIsClean ClosedWhenUnused LocksOrdered
PROPERTIES ComesDown
