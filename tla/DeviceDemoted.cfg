CONSTANTS
    U8Max = 3
    Images = {i1, i2}
    Blank = Blank
    NBlocks = 2
    ImageLen <- SameLen
    MaxAttempts = 2
    Retained = TRUE
    ReadFaults = FALSE
    Debugged = FALSE
    MaxFaults = 0
SPECIFICATION QuietSpec
INVARIANT TrialStaysTrial
