SPECIFICATION Spec
CONSTANTS
    Commands <- SegmentCommands
    MaxCommands = 3
    MaxControlLine = 1
    Slack = 2
    MaxPayload = 3
INVARIANTS
    
    NothingHeldBack
    
    BufferBounded
CHECK_DEADLOCK FALSE
