CONSTANTS
    WorldSize = 3
    NumLayers = 1
    NumExperts = 3
    DeployPerRank = 2
    DevicesPerHost = 2
    QUEUE_SIZE = 1
    ExpertRedundantLimit = 2
    InitialMappings <- ThreeRanksMappings
    Moves <- LivenessMoves
    MaxInstructions = 2
    MaxRounds = 1
SPECIFICATION FairSpec
PROPERTY RoundEnds
