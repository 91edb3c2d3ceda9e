SPECIFICATION LiveSpec
CONSTANTS
    Kind = "audio"
    Half8 = 4
    Half16 = 16
    DataShards = 2
    ParityShards = 1
    BlocksPerFrame = 1
    SkipTo = 2
    Cooldown = 1
    MaxGroups = 4
    Window = 2
    Reliable = FALSE
    Duplication = FALSE
    NoGroup = NoGroup
\* The sender stops after MaxGroups groups.
CHECK_DEADLOCK FALSE
INVARIANTS ClientBufferedIsNewer ClientNoPanic
PROPERTIES ClientLeavesForNewer DeliverySpec DecodeEnds
