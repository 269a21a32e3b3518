SPECIFICATION RegistrySpec
CONSTANTS
    a = a
    b = b
    c = c
    s1 = s1
    s2 = s2
    s3 = s3
    s4 = s4
    foo = foo
    all = all
    other = other
    queue = queue
    NoQueue = NoQueue
    NoReply = NoReply
    NoSub = NoSub
    Conns = {a, b, c}
    Ids = {s1, s2, s3, s4}
    Filters <- MCFilters
    Wild <- MCWild
    Matches <- MCMatches
    Echo = {a, b}
    NoResponders = {c}
    Subscribes <- FanoutSubs
    Unsubscribes <- FanoutUnsubs
    Publishes <- FanoutPubs
    MaxSent = 1
    MaxBatch = 1
    SlowConsumers = {b}
    Closers = {a}
SYMMETRY Identities
INVARIANTS
    PlainServed
    GroupOnce
    
    StatusMeansNobody
CHECK_DEADLOCK FALSE
