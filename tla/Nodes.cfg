\* Two nodes, one of which may move, every fault; a service with two attempts, every fault; one node's
\* registrations, streams and revocations, two at a time, with restarts.
CONSTANTS
    n1 = n1
    n2 = n2
    Nodes = {n1, n2}
    Addresses = {1, 2, 3}
    AddressesOf <- MCAddressesOf
    Labels = {"none"}
    NoLabels = "none"
    Faults = {"coordinator", "node", "save"}
    NoNode = NoNode
    MaxAttempts = 2
    ServiceFaults = {"lost", "restart", "cancel"}
    NodeIDs = {n1}
    k1 = k1
    NoCert = NoCert
    Certs = {k1, k2, k3}
    Unsigned = {k3}
    Pinned <- MCPinned
    Calls = {1, 2}
    Streams = {1, 2}
    NoStream = 0
    Restarts = TRUE
SPECIFICATION MCSpec
INVARIANTS LiveStaysHealthy  CancelFindsStream RevokedStaysOut
PROPERTIES KnownNodeHeals 
CHECK_DEADLOCK FALSE
