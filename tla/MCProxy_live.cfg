CONSTANTS
    Requests = {r1, r2}
    Keys = {k1}
    Ops <- GetsAndUpdates
    Transport = "tcp"
    MaxFailures = 2
    Timeout = 2
    MaxUpdates = 1
    Faults <- Failing
    None = None
SPECIFICATION FairSpec
PROPERTIES
    BreakerOpens
    BreakerReopens
    Answered
    Converges
