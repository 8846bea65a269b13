\* Every graph of three jobs under every condition, with from references; nothing disturbs it.
CONSTANTS
    Jobs = {1, 2, 3}
    Nodes = {n1}
    NoNode = NoNode
    RetryLimits = {0}
    Shares = {s0}
    NoShares = s0
    SaveResults = {TRUE}
    MayCrash = FALSE
    NoJobID = NoJobID
    UseConditions = {"on_success", "on_failure", "on_complete"}
    Happens = {"exit", "noOutput", "cancelWorkflow"}
    Templates <- AllTemplates
SPECIFICATION CalmSpec
CHECK_DEADLOCK FALSE
INVARIANTS DependenciesMet SkippedBelowFailure VerdictMatchesJobs
PROPERTIES WorkflowEnds
