\* A job's and a workflow's record under two key versions; two boots, three tokens, one certificate
\* and two handlers that revoke it; two requests of one operator, three ceremonies.
CONSTANTS
    JobRecs = {"job"}
    FlowRecs = {"workflow"}
    Keys = {"token", "mode"}
    SecretSets = {{}, {"token"}}
    MaxVersion = 2
    MaxSaves = 2
    t1 = t1
    t2 = t2
    t3 = t3
    c1 = c1
    c2 = c2
    Ids <- Tokens
    Serials = {"5a"}
    OperatorCNs = {"alice"}
    CNs = {"alice"}
    Offered <- Asks
    Callers <- Handlers
    CertTiers = {"off", "warn", "on"}
    HardwareTiers = {"off", "on"}
    MaxBoots = 2
    None = None
    Requests = {"tab1", "tab2"}
    Credentials = {"key"}
    MaxChallenge = 3
    MaxCount = 1
SYMMETRY Symmetric
SPECIFICATION MCSpec
CHECK_DEADLOCK FALSE
INVARIANTS NoPlainSecret Recoverable RevealedIsAudited  RevocationHolds ChallengeUsedOnce CounterUsedOnce
