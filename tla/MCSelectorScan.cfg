CONSTANTS
    WorldSize = 4
    NumLayers = 1
    NumExperts = 2
    DeployPerRank = 2
    DevicesPerHost = 2
SPECIFICATION Spec
CHECK_DEADLOCK FALSE
INVARIANT ScanSelects
