SPECIFICATION Spec
CONSTANTS
    Kind = "message"
    Half8 = 2
    Half16 = 16
    DataShards = 2
    ParityShards = 1
    BlocksPerFrame = 1
    Cooldown = 1
    MaxGroups = 5
    Window = 2
    Reliable = FALSE
    Duplication = FALSE
    NoGroup = NoGroup
\* The sender stops after MaxGroups groups.
CHECK_DEADLOCK FALSE
INVARIANTS GroupsPure
