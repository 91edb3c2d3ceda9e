SPECIFICATION Spec
CONSTANTS
    Kind = "video"
    Half8 = 4
    Half16 = 16
    DataShards = 2
    ParityShards = 0
    BlocksPerFrame = 2
    Cooldown = 1
    MaxGroups = 4
    Window = 3
    Reliable = FALSE
    Duplication = TRUE
    NoGroup = NoGroup
\* The sender stops after MaxGroups groups.
CHECK_DEADLOCK FALSE
INVARIANTS TypeOK BufferedIsNewer NoPanic FrameTracked LossNeverReported
PROPERTIES LeavesForNewer DeliverySpec
