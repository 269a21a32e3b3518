SPECIFICATION ArenaFairSpec
CONSTANTS
    FrameLens = {1, 3}
    MaxTail = 12
    MaxBatchBytes = 4
    MaxBatchParts = 3
    Chunk = 4
    Spare = 1
INVARIANTS
    ResumesExactly
    SoftCloseDrains
    BatchExact
    PinnedBound
PROPERTY
    CloseEndsWriter
CHECK_DEADLOCK FALSE
