SPECIFICATION RegistrySpec
CONSTANTS
    a = a
    b = b
    c = c
    s1 = s1
    s2 = s2
    s3 = s3
    s4 = s4
    foo = foo
    all = all
    other = other
    queue = queue
    NoQueue = NoQueue
    NoReply = NoReply
    NoSub = NoSub
    Conns = {a, c}
    Ids = {s1, s2, s3}
    Filters <- MCFilters
    Wild <- MCWild
    Matches <- MCMatches
    Echo = {a, c}
    NoResponders = {}
    Subscribes <- CacheSubs
    Unsubscribes <- CacheUnsubs
    Publishes <- CachePubs
    MaxSent = 3
    MaxBatch = 1
    SlowConsumers = {}
    Closers = {a}
SYMMETRY Identities
INVARIANTS
    TotalExact
    CacheCoherent
    
PROPERTIES
    ImplementsDelivery
CHECK_DEADLOCK FALSE
