CONSTANTS
    None = None
    N = 3
    Self = 2
    Message = "m"
    Other = "x"
    Streams <- MCStreams
    Capacity = 3
SPECIFICATION Spec
INVARIANTS UnexpectedIsNotCritical
CHECK_DEADLOCK FALSE
