SPECIFICATION RegistrySpec
CONSTANTS
    a = a
    b = b
    c = c
    s1 = s1
    s2 = s2
    s3 = s3
    s4 = s4
    foo = foo
    all = all
    other = other
    queue = queue
    NoQueue = NoQueue
    NoReply = NoReply
    NoSub = NoSub
    Conns = {a, b, c}
    Ids = {s1, s2}
    Filters <- MCFilters
    Wild <- MCWild
    Matches <- MCMatches
    Echo = {a, b, c}
    NoResponders = {}
    Subscribes <- LimitSubs
    Unsubscribes <- LimitUnsubs
    Publishes <- LimitPubs
    MaxSent = 2
    MaxBatch = 1
    SlowConsumers = {}
    Closers = {}
SYMMETRY Identities
INVARIANTS
    AutoUnsubBound
    UnsubReaches
CHECK_DEADLOCK FALSE
