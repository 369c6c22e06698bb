CONSTANTS
    None = None
    N = 3
    Job <- OneJob
    TextOf <- OneText
    Width = 2
    Stdin <- OneTyped
    Ended = {}
    Capacity = 1
    Sends = 0
    MaxDials = 3
    MaxLoss = 1
SPECIFICATION Spec
INVARIANTS
    ListsWhomItDialed NobodyTwice SameSignersSameOrder
PROPERTIES ImplementsCalls
CHECK_DEADLOCK FALSE
