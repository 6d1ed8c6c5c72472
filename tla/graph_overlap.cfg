SPECIFICATION Spec
CONSTANTS
    None = None
    NODE_POS <- MCPlaces
    GraphServices = {"s1", "s2", "s3", "s4", "s5", "s6", "s7", "s8", "s9"}
    MaxPlace = 1000
    MinScale = 1
    MaxScale = 2
    Pixels = {0}
INVARIANT NoOverlap
CHECK_DEADLOCK FALSE
