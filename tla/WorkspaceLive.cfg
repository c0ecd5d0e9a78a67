SPECIFICATION FairSpec
CONSTANTS
    Requests = {"r1", "r2"}
    MaxPanes = 2
    MaxWorkspaces = 2
    Mixes = {{"attach", "restore", "close_pane", "close"}}
    MaxRestored = 1
    Failures = FALSE
    EarlyExit = TRUE
INVARIANTS
    ClosedStaysEmpty
PROPERTIES
    WorkEnds
CHECK_DEADLOCK FALSE
