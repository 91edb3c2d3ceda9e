SPECIFICATION LiveSpec
CONSTANT MaxConns = 2
\* Every goroutine may have come to its end.
CHECK_DEADLOCK FALSE
INVARIANTS Watched
PROPERTIES Reconnects ClosedStaysDown
