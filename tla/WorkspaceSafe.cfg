SPECIFICATION Spec
CONSTANTS
    Requests = {"r1"}
    MaxPanes = 3
    MaxWorkspaces = 2
    Mixes = {
        {"split_pane", "restart_pane", "close_pane"},
        {"split_pane", "move_pane_to_tab"},
        {"split_pane", "update_layout", "activate_pane"},
        {"create_tab", "close_tab", "activate_tab"},
        {"create_tab", "move_tab", "reorder_tab"},
        {"create_tab", "close_other_tabs"},
        {"close"},
        {"restore", "close_pane"}}
    MaxRestored = 2
    Failures = TRUE
    EarlyExit = FALSE
INVARIANTS
    TabsPartitionPanes
    FocusValid
    ExitSettled
    LivePanesOwned
    FreshIdentities
CHECK_DEADLOCK FALSE
