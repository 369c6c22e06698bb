CONSTANTS
    None = None
    N = 2
    Job <- TwoJobs
    TextOf <- TwoTexts
    Width = 2
    Stdin <- TwoTyped
    Ended = {1}
    Capacity = 2
    Sends = 1
    MaxDials = 1
    MaxLoss = 1
SPECIFICATION Spec
INVARIANTS
    OnlyInputStopsANode SignsTheFirstBytes
PROPERTIES CallIsAnswered
CHECK_DEADLOCK FALSE
