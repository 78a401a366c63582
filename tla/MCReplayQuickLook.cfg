CONSTANTS
    Matches <- MCMatches
    Window = 9
    MaxChunk = 3
    MaxBody = 62
    TicksPerWindow = 2
SPECIFICATION Spec
INVARIANT QuickLookAgrees
CHECK_DEADLOCK FALSE
