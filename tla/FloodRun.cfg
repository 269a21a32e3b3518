SPECIFICATION FloodFairSpec
CONSTANTS
    Msgs = 4
    MaxSocket = 2
    MaxQueue = 2
INVARIANTS
    SubscribedFirst
    
PROPERTIES
    RunEnds
CHECK_DEADLOCK FALSE
