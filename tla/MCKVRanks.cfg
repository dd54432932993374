CONSTANTS
    r1 = r1
    r2 = r2
    p1 = p1
    p2 = p2
    Requests = {r1, r2}
    Clusters = {p1, p2}
    Homes <- OneOrTwoNodes
    NumBlocks <- Blocks
    RemoteCounts <- Enough
    Configurations = {"ranks"}
    NumCaches = 2
    RetryTimes = 2
    MaxFailures = 0
SPECIFICATION Spec
INVARIANT DoneMeansDone
