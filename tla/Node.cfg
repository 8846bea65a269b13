\* A GPU job sent twice and a service on two devices; two producers of two attempts, three readers.
CONSTANTS
    j1 = j1
    j2 = j2
    j3 = j3
    c1 = c1
    c2 = c2
    c3 = c3
    c4 = c4
    Jobs = {j1, j2, j3}
    NoJobID = NoJobID
    Calls = {c1, c2, c3}
    NoCall = NoCall
    JobOf <- MCJobOf
    Gpus <- MCGpus
    Total = 2
    Wrap = 8
    Outputs <- MCOutputs
    Staged = {j1, j3}
    Services = {j2}
    Keep = FALSE
    k1 = k1
    k2 = k2
    Producers = {j1, j2}
    Consumers = {c1, c2, c3}
    From <- MCFrom
    Plain = {c2}
    Keys = {k1, k2}
    KeyOf <- MCKeyOf
    Escapes = {}
    Backend = "local"
    MaxAttempts = 2
    Chunks = 2
    Faults = {"copy", "node", "rot"}
SPECIFICATION MCSpec
CHECK_DEADLOCK FALSE
INVARIANTS  SuccessIsComplete NoTornInput InputIsProduced
