SPECIFICATION Spec
CONSTANTS
    MaxRows = 1
    MaxSinks = 1
    QueueMax = 1
    BatchMax = 1
    MaxRetries = 1
    Threshold = 1
    None = None
CHECK_DEADLOCK FALSE
INVARIANT DropsCounted
