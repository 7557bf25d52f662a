CONSTANTS
    U8Max = 3
    Images = {i1, i2}
    Blank = Blank
    NBlocks = 2
    ImageLen <- SecondTooLong
    MaxAttempts = 1
    Retained = TRUE
    ReadFaults = FALSE
    Debugged = FALSE
    MaxFaults = 1
SPECIFICATION FairSpec
PROPERTIES
    Settles
    TrialEnds
