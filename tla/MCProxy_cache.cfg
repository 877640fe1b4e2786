CONSTANTS
    Requests = {r1, r2}
    Keys = {k1, k2}
    Ops <- AllOps
    Transport = "unix"
    MaxFailures = 1
    Timeout = 1
    MaxUpdates = 2
    Faults <- AllFaults
    None = None
SPECIFICATION Spec
SYMMETRY Interchangeable
INVARIANTS
    StaleOnlyFromStraddler
