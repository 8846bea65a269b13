\* Two handlers, three callers, one group, one resource; a list of up to three rows in pages of one.
CONSTANTS
    ada = ada
    root = root
    q1 = q1
    q2 = q2
    Callers <- MCCallers
    Members <- MCMembers
    Kept <- MCKept
    Free = {"model"}
    Grants <- MCGrants
    GroupNames = {"g"}
    Procs = {q1, q2}
    MaxShares = 2
    MaxEpoch = 1
    Faults = {"save", "lookup"}
    Keys = {"v1", "v2", "v3", "v4"}
    Valid = {"v1", "v2", "v3"}
    Permitted = {"v1", "v2"}
    PageSize = 1
    FetchSize = 3
    MaxClock = 2
SYMMETRY MCSymmetry
SPECIFICATION MCSpec
CHECK_DEADLOCK FALSE
INVARIANTS IndexAgrees SharesByOwner SharesAsAsked 
