SPECIFICATION Spec
CONSTANTS
    Requests = {"r1"}
    MaxPanes = 2
    MaxWorkspaces = 1
    Mixes = {{"split_pane"}}
    MaxRestored = 0
    Failures = FALSE
    EarlyExit = FALSE
PROPERTIES
    FailedFinalPaneKept
CHECK_DEADLOCK FALSE
