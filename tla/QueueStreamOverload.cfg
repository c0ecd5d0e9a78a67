SPECIFICATION Spec
CONSTANTS
    FlowControl = "window-ack-v1"
    BufferLimit = 3
    HighWater = 3
    RoundBudget = 2
    PayloadMax = 1
    WindowBytes = 2
    WindowTurns = 2
    ReplayBurstLimit = 2
    ClientTurns = 2
    FrameBytes = 2
    TextCost = 1
    MaxOutput = 2
    MaxPongs = 0
    MaxTexts = 1
    Disruptions = {"leave", "close"}
INVARIANTS
    TypeOK
    ClientInSync
    AckRefusedOnlyAfterEnd
    BufferAccounting
    NoLostWakeup
CHECK_DEADLOCK FALSE
