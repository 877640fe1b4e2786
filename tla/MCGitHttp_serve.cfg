CONSTANTS
    Requests = {r1, r2}
    Ops <- AllOps
    Backends <- AllBackends
    MaxAttempts = 2
SPECIFICATION FairSpec
CHECK_DEADLOCK FALSE
INVARIANTS
    ActsAsGranted
    RefusedHasNoEffect
    RefsFresh
PROPERTIES
    Answered
