SPECIFICATION LiveSpec
CONSTANTS
    Ids = {"a"}
    MaxConns = 2
    MaxChannels = 2
    MaxStreams = 2
\* Every goroutine may have come to its end.
CHECK_DEADLOCK FALSE
INVARIANTS ClosedIsLeaving ReportedOnce
PROPERTIES NeverReplaced CloseReturns GoneIsReported
