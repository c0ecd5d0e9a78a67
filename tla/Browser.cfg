SPECIFICATION BrowserSpec
CONSTANTS
    MaxBytes = 2
    MaxResizes = 1
    MaxFaults = 2
    QueueLimit = 2
    Window = 2
    RetryLimit = 3
    FailureLimit = 3
    Pane = {1, 2}
    Active = 1
    Visible = {1}
    BackgroundSlots = 1
    PauseLimit = 2
    MicroLimit = 12
    Troubles <- Both
INVARIANTS
    ConnectionOwned
    StreamsMatchSessions
    SubscribedFirst
    ScreenMatches
    GridBoundary
    AckedParsed
    NoLostFlush
PROPERTIES
    ReplacesBroken
    PageReconnects
    ScreenCatchesUp
CHECK_DEADLOCK FALSE
