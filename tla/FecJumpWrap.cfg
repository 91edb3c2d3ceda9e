SPECIFICATION Spec
CONSTANTS
    Kind = "video"
    Half8 = 3
    Half16 = 16
    DataShards = 2
    ParityShards = 0
    BlocksPerFrame = 1
    Cooldown = 1
    MaxGroups = 7
    Window = 3
    Reliable = TRUE
    Duplication = FALSE
    NoGroup = NoGroup
\* The sender stops after MaxGroups groups.
CHECK_DEADLOCK FALSE
INVARIANTS OlderGroupsDropped
