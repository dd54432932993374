CONSTANTS
    WorldSize = 3
    NumLayers = 1
    NumExperts = 3
    DeployPerRank = 2
    DevicesPerHost = 2
    QUEUE_SIZE = 2
    ExpertRedundantLimit = 2
    InitialMappings <- ThreeRanksMappings
    Moves <- ThreeRanksMoves
    MaxInstructions = 2
    MaxRounds = 1
SPECIFICATION Spec
INVARIANTS
    MappingAgreement
    EveryExpertDeployed
    NeverThrows
    OneCollective
PROPERTIES
    QueuesAreFifo
    RoundsAreAtomic
