CONSTANTS
    U8Max = 3
    MaxWrites = 3
    MaxFaults = 3
SPECIFICATION Spec
INVARIANTS
    WriteSticks
    SpareIsNewer
PROPERTY PrimaryKeepsContract
CHECK_DEADLOCK FALSE
