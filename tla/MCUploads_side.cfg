CONSTANTS
    None = None
    Requests = {r1, r2, r3}
    Forms <- MCForms
    MaxSize = 2
    BodyLimit = 5
    MaxFiles = 2
    MaxPool = 1
SPECIFICATION Spec
SYMMETRY Alike
CHECK_DEADLOCK FALSE
INVARIANTS
    ToldOfStoredFiles
    WithinSize
    CutOnlyByFailure
    OwnBytes
