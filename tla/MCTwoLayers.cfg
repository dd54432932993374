CONSTANTS
    WorldSize = 2
    NumLayers = 2
    NumExperts = 2
    DeployPerRank = 2
    DevicesPerHost = 1
    QUEUE_SIZE = 1
    ExpertRedundantLimit = 2
    InitialMappings <- TwoLayersMappings
    Moves <- TwoLayersMoves
    MaxInstructions = 2
    MaxRounds = 2
SPECIFICATION Spec
INVARIANTS
    TypeOK
    MutualExclusion
    CountsExact
    RoundReachesPlan
    LatestIsMapped
    LocalTokensServed
