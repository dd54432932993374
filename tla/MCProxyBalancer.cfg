CONSTANTS
    r1 = r1
    r2 = r2
    r3 = r3
    w1 = w1
    w2 = w2
    a1 = a1
    a2 = a2
    Request = {r1, r2, r3}
    Worker = {w1, w2}
    WorkerOf <- Workers
    Length <- Lengths
    Address <- Addresses
    NumPeers <- TwoPeers
    Configurations <- AllBalancers
    ReqLimit = 0
    MaxActive = 2
    BatchSize = 1
    CounterSize = 32
    MaxTokens = 1
    MaxFailures = 1
SPECIFICATION FairSpec
CHECK_DEADLOCK FALSE
INVARIANTS TypeOK CountersExact NoStaleEntries LimitHolds
PROPERTY EveryRequestEnds
