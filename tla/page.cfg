SPECIFICATION Spec
CONSTANTS
    None = None
    NoSocket = 0
    MAX_HISTORY = 1
    MAX_EVENTS = 1
    MAX_RESOURCE = 1
    Ranges = {"1h", "all"}
    Frames <- MCFrames
    MaxRequests = 2
    ListSnaps <- MCListSnaps
    NoWindow = NoWindow
    MIN_ZOOM_SEC = 2
    ChartTimes = {0, 1, 2, 3, 4}
    LonePointSpan = 6
    NODE_POS <- MCNodePos
    GraphServices = {"s", "t"}
    MaxPlace = 2
    MinScale = 1
    MaxScale = 2
    Pixels = {0, 3}
    CONN_DEFS <- MCConnDefs
    SlowConns <- MCSlowConns
    INTERNAL_SERVICES = {"a", "b"}
    EXTERNAL_SERVICES = {"x"}
    StressTimes = {1}
    SpikeTimes = {1, 2}
    Retransmits = {1}
    CalmP99 = {4000}
    SpikeP99 = {100000}
    MAX_LOG = 2
    MaxOnsets = 3
INVARIANTS RangeIsOfShown SettledShowsRange HighlightMatchesPanel
INVARIANTS FullUnlessZoomed LogMatchesSpikes PublishedTogether
PROPERTIES RowsDoNotJump ZoomEndsOnData OnlyDraggingMoves DragIsNoClick
