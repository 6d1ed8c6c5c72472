SPECIFICATION PageSpec
CONSTANTS
    None = None
    NoSocket = 0
    MAX_HISTORY = 1
    MAX_EVENTS = 1
    MAX_RESOURCE = 1
    Ranges = {"1h", "all"}
    Frames <- MCFrames
    MaxRequests = 2
INVARIANT RowsOfShown
