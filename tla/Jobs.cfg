\* One job: every outcome of every SaveJob and a restart at any point; recovery from every store a
\* restart may find; two jobs of a workflow and
\* everything that may happen to them; its tables with an unheard commit and a backfill; 34 attempts at the default delays.
CONSTANTS
    Jobs = {j1}
    Nodes = {n1, n2}
    NoNode = NoNode
    RetryLimits = {0, 2, 3}
    Shares = {s0, s1}
    NoShares = s0
    SaveResults = {TRUE, FALSE}
    MayCrash = TRUE
    NoJobID = NoJobID
    Happens = {"exit", "rpc", "noOutput", "cancelJob", "cancelWorkflow"}
    RpcFails = TRUE
    CtxCancelled = TRUE
    Priority = 50
    TableAttempts = 2
    MaxMarks = 1
    MaxQueue = 2
    MaxBackfills = 1
    Tables = {"auth_events", "artifact_transfers"}
    Faults = {"unheard", "pg"}
    Strategy = "exponential"
    InitialDelayMs = 0
    MaxDelayMs = 0
    DelayedAttempts = 34
SPECIFICATION MCSpec
INVARIANTS OrderSurvives OutcomeShown 
PROPERTIES ContractSpec EndedStaysEnded
CHECK_DEADLOCK FALSE
