SPECIFICATION FairSpec
CONSTANTS
    FlowControl = "turn-ack-v1"
    BufferLimit = 2
    HighWater = 2
    RoundBudget = 1
    PayloadMax = 1
    WindowBytes = 3
    WindowTurns = 2
    ReplayBurstLimit = 1
    ClientTurns = 2
    FrameBytes = 2
    TextCost = 1
    MaxOutput = 3
    MaxPongs = 0
    MaxTexts = 0
    Disruptions = {"crash", "exit", "write"}
INVARIANTS
    BurstUnacknowledged
PROPERTIES
    OutputDelivered
    OverloadReported
    EndReported
    StoppedReaderEnds
CHECK_DEADLOCK FALSE
