\* Every graph of three jobs with up to six entries, which may be repeated; a job, a workflow and their refusals.
CONSTANTS
    Jobs = {a, b, c}
    Copies = {1, 2}
    MaxEntries = 6
    Offered <- Bodies
    Callers <- Senders
    Exceptions <- Rules
    Denied = {"LD_PRELOAD"}
SPECIFICATION MCSpec
CHECK_DEADLOCK FALSE
INVARIANTS DepsFirst  DryRunAgrees
