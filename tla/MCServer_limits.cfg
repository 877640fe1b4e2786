CONSTANTS
    a1 = a1
    s1 = s1
    Clients <- OneAddress
    Shards <- OneShard
    ShardOf <- Hash
    MaxRequests = 2
    Window = 0
    MaxTime = 1
    Requests = {r1, r2}
    Modes <- EveryMode
    MaxActive = 1
    Threads = 2
SPECIFICATION ServerFairSpec
CHECK_DEADLOCK FALSE
INVARIANTS
    OvershootBounded
PROPERTIES
    ShedOnlyWhenFull
    NobodyHeldUp
    
