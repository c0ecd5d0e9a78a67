SPECIFICATION RecoverySpec
CONSTANTS
    Requests = {"r1"}
    Kinds = {"state"}
    Cwds = {"home", "work"}
    Home = "home"
    MaxPanes = 2
    MaxGenerations = 5
    MaxEpochs = 1
    Faults = {"save"}
PROPERTIES
    LiveNotReplaced
CHECK_DEADLOCK FALSE
