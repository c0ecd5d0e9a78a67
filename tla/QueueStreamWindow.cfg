SPECIFICATION Spec
CONSTANTS
    FlowControl = "window-ack-v1"
    BufferLimit = 6
    HighWater = 4
    RoundBudget = 2
    PayloadMax = 2
    WindowBytes = 2
    WindowTurns = 2
    ReplayBurstLimit = 2
    ClientTurns = 2
    FrameBytes = 2
    TextCost = 1
    MaxOutput = 3
    MaxPongs = 1
    MaxTexts = 0
    Disruptions = {}
INVARIANTS
    HeadroomPreventsOverload
    WindowLedger
PROPERTIES
    ImplementsCreditStream
CHECK_DEADLOCK FALSE
