CONSTANTS
    NQuads = 3
    MaxFaults = 3
SPECIFICATION Spec
INVARIANTS
    TypeOK
    BothHeads
    FlashGoesThrough
    FusesRecoverable
PROPERTIES
    ActiveKept
    VerifiedIsLatched
