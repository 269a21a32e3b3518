SPECIFICATION FairSpec
CONSTANTS
    MaxPingsOut = 2
    MaxIn = 2
    MaxOut = 2
    MaxWire = 1
    Sends = {"PUB", "BAD"}
    PingBytes = 6
    PingTail = 7
INVARIANTS
    ProbeAccounted
    BarrierProves
PROPERTIES
    MuteIsClosed
    TaskEnds
CHECK_DEADLOCK FALSE
