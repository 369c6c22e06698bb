CONSTANTS
    P = 43
    CurveB = 28
    Q = 31
    Word = 64
    Gx = 2
    Gy = 6
    H <- MCHash
    Err = Err
    N = 3
    Keys <- MCKeys
    Messages = {5, 31}
SPECIFICATION Spec
INVARIANTS OneSigner FailsOnlyAtEdges OnlyTheSumVerifies
CHECK_DEADLOCK FALSE
