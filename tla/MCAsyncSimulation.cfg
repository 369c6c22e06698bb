CONSTANTS
    None = None
    N = 2
    Messages <- TwoMessages
    Capacity = 2
    Runs = 2
SPECIFICATION Spec
INVARIANTS
    BacklogBounded
PROPERTIES AnswersInOrder RunReturns
CHECK_DEADLOCK FALSE
