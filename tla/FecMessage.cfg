SPECIFICATION ReliableSpec
CONSTANTS
    Kind = "message"
    Half8 = 2
    Half16 = 16
    DataShards = 2
    ParityShards = 1
    BlocksPerFrame = 1
    Cooldown = 1
    MaxGroups = 9
    Window = 2
    Reliable = TRUE
    Duplication = FALSE
    NoGroup = NoGroup
\* The sender stops after MaxGroups groups.
CHECK_DEADLOCK FALSE
INVARIANTS GroupsPure NoneStranded
PROPERTIES NoGap AllDelivered
