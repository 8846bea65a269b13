\* Two jobs in the queue, one of which no node can take.
CONSTANTS
    Jobs = {j1, j2}
    Nodes = {n1}
    NoNode = NoNode
    RetryLimits = {0, 2}
    Shares = {s0}
    NoShares = s0
    SaveResults = {TRUE}
    MayCrash = FALSE
    ServiceJobs = {}
    NoJobID = NoJobID
    Unmatched = j2
    Misfit = NoNode
    Faults = {"rpc", "node"}
    Matches <- SomeMatch
SPECIFICATION FairSpec
PROPERTIES EveryJobEnds
