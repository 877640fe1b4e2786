CONSTANTS
    Requests = {r1, r2}
    Keys = {k1}
    Ops <- GetsAndUpdates
    Transport = "unix"
    MaxFailures = 1
    Timeout = 1
    MaxUpdates = 1
    Faults <- NoFaults
    None = None
SPECIFICATION Spec
INVARIANTS
    AckedUpdateVisible
