SPECIFICATION Spec
CONSTANTS
    ChannelCount = 1
    Capacity = 1
    MaxArrivals = 3
    Roles = {"editor", "consumer", "datagram"}
\* Every thread may have come to its end.
CHECK_DEADLOCK FALSE
INVARIANTS DatagramLeavesGracefully
