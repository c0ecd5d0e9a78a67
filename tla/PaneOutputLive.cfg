SPECIFICATION FairSpec
CONSTANTS
    Clients = {c1, c2}
    MaxOutput = 1
    ChunkMax = 1
    QueueLimit = 3
    SendCap = 1
    TextCost = 2
    Sizes = {s1}
    FirstSize = s1
    MaxEpoch = 1
    Free = Free
CHECK_DEADLOCK FALSE
PROPERTIES
    AttachmentsEnd
    OutputWritten
