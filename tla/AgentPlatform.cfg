SPECIFICATION LiveSpec
CONSTANTS
    Idxs = {1}
    Attempts = 2
    MaxRounds = 2
    MaxFailedReads = 2
\* The loop and every heartbeat may have come to their end.
CHECK_DEADLOCK FALSE
INVARIANTS TypeOK AgentsAccepted OneConnection
PROPERTIES Reconnects LoopEnds
