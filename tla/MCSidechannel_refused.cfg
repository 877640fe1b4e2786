CONSTANTS
    Streams = {s1, s2}
    PackLen = 2
    Window = 1
    ChanCap = 1
    Faults <- CallRefused
SPECIFICATION FairSpec
CHECK_DEADLOCK FALSE
PROPERTIES
    HandlerAnswers
