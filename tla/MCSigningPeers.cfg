CONSTANTS
    None = None
    N = 3
    Job <- OneJob
    MessageOf <- OneMessage
    Initiator <- OneInitiator
    Peers <- SomePeers
    Called <- AllCalled
    Capacity = 4
    MaxCrash = 0
SPECIFICATION Spec
INVARIANTS
    PeersSign
CHECK_DEADLOCK FALSE
