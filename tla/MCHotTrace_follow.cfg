CONSTANTS
    None = None
    LogLen = 2
    MaxMishaps = 1
    MaxCached = 1
    Polls = {"plain", "head", "offset", "both", "junk", "tail"}
    Projects <- SomeProjects
    Levels <- SomeLevels
SPECIFICATION FairSpec
INVARIANTS
    Announced
    NoHole
    ReadersOnly
PROPERTIES
    CatchesUp
