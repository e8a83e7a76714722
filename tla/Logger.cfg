SPECIFICATION Spec
CONSTANTS
    MaxSize = 2
    LineSizes = {1, 2}
    LastSecond = 3
    LastLine = 5
INVARIANTS
    RetryPending
    SizeBounded
    LogInOrder
PROPERTY LinesKept
CHECK_DEADLOCK FALSE
