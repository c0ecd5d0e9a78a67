SPECIFICATION RecoverySpec
CONSTANTS
    Requests = {"r1"}
    Kinds = {"state", "activity"}
    Cwds = {"home", "work"}
    Home = "home"
    MaxPanes = 2
    MaxGenerations = 4
    MaxEpochs = 1
    Faults = {}
PROPERTIES
    OwnDirectories
CHECK_DEADLOCK FALSE
