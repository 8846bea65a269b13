\* The coordinator may restart.
CONSTANTS
    Jobs = {j1}
    Nodes = {n1}
    NoNode = NoNode
    RetryLimits = {0, 2}
    Shares = {s0}
    NoShares = s0
    SaveResults = {TRUE}
    MayCrash = TRUE
    ServiceJobs = {}
    NoJobID = NoJobID
    Unmatched = NoJobID
    Misfit = NoNode
    Faults = {}
    Matches <- SomeMatch
SPECIFICATION FairSpec
PROPERTIES EveryJobEnds
