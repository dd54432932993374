CONSTANTS
    WorldSize = 2
    NumLayers = 2
    NumExperts = 2
    DeployPerRank = 2
    DevicesPerHost = 2
    ExpertRedundantLimit = 2
    Placements <- LayeredPlacements
    Loads = {0, 9}
    MaxSwapAdds = 2
    MaxRounds = 2
SPECIFICATION FairSpec
CHECK_DEADLOCK FALSE
INVARIANT BelievesPlacement
PROPERTY RemovalEnds
