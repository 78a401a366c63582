CONSTANTS
    Matches <- MCMatches
    Window = 9
    MaxChunk = 3
    MaxBody = 62
    TicksPerWindow = 2
SPECIFICATION Spec
INVARIANTS
    SynopsisIsWhole
    ActionsAreCounted
PROPERTY GrowingFileIsTorn
CHECK_DEADLOCK FALSE
