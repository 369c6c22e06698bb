CONSTANTS
    None = None
    N = 2
    Job <- TwoJobs
    MessageOf <- TwoMessages
    Initiator <- TwoInitiators
    Peers <- LoneSecond
    Called <- AllCalled
    Capacity = 1
    MaxCrash = 0
SPECIFICATION Spec
INVARIANTS Unanimity
CHECK_DEADLOCK FALSE
