SPECIFICATION Spec
CONSTANTS
    FrameLens = {1, 3}
    MaxTail = 6
    MaxBatchBytes = 4
    MaxBatchParts = 3
INVARIANT
    WireIsPrefix
CHECK_DEADLOCK FALSE
