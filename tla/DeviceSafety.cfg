CONSTANTS
    U8Max = 3
    Images = {i1, i2}
    Blank = Blank
    NBlocks = 2
    ImageLen <- SameLen
    MaxAttempts = 2
    Retained = FALSE
    ReadFaults = TRUE
    Debugged = TRUE
    MaxFaults = 1
SPECIFICATION Spec
SYMMETRY Symmetry
INVARIANTS
    TypeOK
    RecordSound
    PromotedWasVouched
    AtMostOneNew
    TrialBudget
    TrialIsWatched
    RejectedByItself
    CondemnedNeverRuns
PROPERTY RequestKept
