CONSTANTS
    None = None
    b1 = b1
    b2 = b2
    N = 4
    Body <- MCBody
SPECIFICATION Spec
INVARIANTS TypeOK CountExact NoHoles BlameExact
PROPERTIES FirstBodyStays ImplementsMailbox
CHECK_DEADLOCK FALSE
