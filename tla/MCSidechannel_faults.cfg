CONSTANTS
    Streams = {s1, s2}
    PackLen = 6
    Window = 2
    ChanCap = 2
    Faults <- AllFaults
SPECIFICATION FairSpec
CHECK_DEADLOCK FALSE
INVARIANTS
    DriverOutlivesPump
    OneSidechannel
PROPERTIES
    ServesPack
    AnswersOrOrphaned
    ReleasedOrStalled
    Delivers
