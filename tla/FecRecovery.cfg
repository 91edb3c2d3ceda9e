SPECIFICATION Spec
CONSTANTS
    Kind = "message"
    Half8 = 4
    Half16 = 16
    DataShards = 2
    ParityShards = 1
    BlocksPerFrame = 1
    Cooldown = 1
    MaxGroups = 2
    Window = 2
    Reliable = FALSE
    Duplication = FALSE
    NoGroup = NoGroup
\* The sender stops after MaxGroups groups.
CHECK_DEADLOCK FALSE
INVARIANTS LostShardsRecovered
