CONSTANTS
    WorldSize = 3
    NumLayers = 1
    NumExperts = 3
    DeployPerRank = 2
    DevicesPerHost = 2
    ExpertRedundantLimit = 2
    Placements <- PatternPlacements
    Loads = {0, 1, 20}
    MaxSwapAdds = 4
    MaxRounds = 1
SPECIFICATION Spec
CHECK_DEADLOCK FALSE
INVARIANTS
    BeliefsAgree
    ReplicasInBounds
    NeverExhausted
PROPERTIES
    DecisionsAreLegal
    LoadNeverGrows
