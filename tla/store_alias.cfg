SPECIFICATION Spec
CONSTANTS
    InitialCap = 2
    RetentionTime = 1
    MaxRows = 3
    MaxTime = 1
    Faults = {}
INVARIANT StoredOnce
CHECK_DEADLOCK FALSE
