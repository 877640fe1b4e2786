CONSTANTS
    a1 = a1
    a2 = a2
    s1 = s1
    s2 = s2
    Clients <- Addresses
    Shards <- TwoShards
    ShardOf <- Hash
    MaxRequests = 2
    Window = 1
    MaxTime = 5
SPECIFICATION Spec
INVARIANTS
    WithinLimit
    RemembersWindow
    SweptClean
