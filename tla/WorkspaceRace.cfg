SPECIFICATION Spec
CONSTANTS
    Requests = {"r1", "r2"}
    MaxPanes = 3
    MaxWorkspaces = 1
    Mixes = {{"create_tab", "attach"}}
    MaxRestored = 0
    Failures = FALSE
    EarlyExit = FALSE
INVARIANTS
    FreshIdentities
CHECK_DEADLOCK FALSE
