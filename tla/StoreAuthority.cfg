CONSTANTS
    U8Max = 3
    MaxWrites = 3
    MaxFaults = 2
SPECIFICATION Spec
INVARIANT SpareIsAuthority
CHECK_DEADLOCK FALSE
