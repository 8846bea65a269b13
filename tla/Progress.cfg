\* Two runs of a job with a chunk each, a small channel and buffer, every fault; three jobs to place on
\* two nodes, by each policy.
CONSTANTS
    JobIDs = {j1}
    MaxAttempts = 2
    MaxChunks = 1
    ChannelSize = 1
    BatchSize = 2
    BufferLimit = 2
    LogFaults = {"badger", "pg", "answer", "stop", "crash", "age"}
    Queued = {"train", "serve", "batch"}
    Fleet = {"big", "small"}
    Policies = {"round-robin", "least", "resource-aware"}
    TopPriority = 3
    MidPriority = 2
    Aged = 1
SPECIFICATION MCSpec
  
PROPERTIES ReachesPG LowestIsPlaced
CHECK_DEADLOCK FALSE
