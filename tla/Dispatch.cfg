\* One job, batch or service, three nodes of which two match it, every fault, failed saves and restarts.
CONSTANTS
    Jobs = {j1}
    Nodes = {n1, n2, n3}
    NoNode = NoNode
    RetryLimits = {0, 2}
    Shares = {s0}
    NoShares = s0
    SaveResults = {TRUE, FALSE}
    MayCrash = TRUE
    ServiceJobs = {j1}
    NoJobID = NoJobID
    Unmatched = NoJobID
    Misfit = n3
    Faults = {"rpc", "report", "node", "health"}
    Matches <- SomeMatch
SYMMETRY NodeSymmetry
SPECIFICATION Spec
INVARIANTS OneRunAtATime CompletedByItsRun
