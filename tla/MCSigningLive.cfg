CONSTANTS
    None = None
    N = 2
    Job <- OneJob
    MessageOf <- OneMessage
    Initiator <- OneInitiator
    Peers <- AllPeers
    Called <- AllCalled
    Capacity = 2
    MaxCrash = 1
SPECIFICATION Spec
PROPERTIES Round2Ends QuietRunSigns
CHECK_DEADLOCK FALSE
