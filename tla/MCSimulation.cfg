CONSTANTS
    None = None
    N = 3
    Messages <- TwoMessages
    Runs = 2
SPECIFICATION Spec
INVARIANTS
    LockStep PanicsOnTwoMessages OnlyPrepareIsMeasured
PROPERTIES FirstRunEnds
CHECK_DEADLOCK FALSE
