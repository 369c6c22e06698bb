CONSTANTS
    None = None
    N = 3
    Job <- OneJob
    MessageOf <- OneMessage
    Initiator <- OneInitiator
    Peers <- AllPeers
    Called <- AllCalled
    Capacity = 4
    MaxCrash = 0
SPECIFICATION Spec
INVARIANTS
    TypeOK SameKeyList NobodyLeftWaiting OnlyTimeoutsFail
PROPERTIES BlamesUndelivered ImplementsMultiSig
CHECK_DEADLOCK FALSE
