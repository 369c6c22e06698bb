CONSTANTS
    None = None
    N = 3
    Self = 2
    Message = "m"
    Other = "x"
    Streams <- MCStreams
    Capacity = 3
SPECIFICATION Spec
INVARIANTS
    TypeOK NeverMissing DeadlineOfThisRound WaitsForSomething
    ShareAfterAllNonces BlamesTheSilent SignatureIsOfThisSigning
PROPERTIES NoncesInThenReturns
CHECK_DEADLOCK FALSE
