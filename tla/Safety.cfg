SPECIFICATION BothSpec
CONSTANTS
    Clients = {c1, c2}
    MaxOutput = 3
    ChunkMax = 2
    QueueLimit = 3
    SendCap = 1
    TextCost = 2
    Sizes = {s1, s2}
    FirstSize = s1
    MaxEpoch = 1
    Free = Free
    Requests = {r1, r2}
    Kinds = {"state", "split_pane", "activity"}
    Cwds = {"home", "work"}
    Home = "home"
    MaxPanes = 2
    MaxGenerations = 5
    MaxEpochs = 2
    Faults = {"reply", "provider", "version"}
INVARIANTS
    EachByteOnce
    ControlsInPlace
    EpochAgreement
    QueueAccounting
    OwnerAttached
    LastShownRecoverable
PROPERTIES
    LiveNotReplaced
SYMMETRY Symmetry
CHECK_DEADLOCK FALSE
