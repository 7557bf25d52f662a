CONSTANTS
    PageSize = 4
    PagesPerBlock = 3
    LockRegions = 8
    Granule = 12
    SeeBlock = 12
    Parts <- MCParts
    WordSize = 2
    VecWords = 1
    FmtVer = 1
    Wide = 128
    Linked <- MCLinked
    Erased <- MCErased
    Bad <- MCBad
    Foreign <- MCForeign
    zero = zero
    p = p
    q = q
    MaxDownloads = 2
SPECIFICATION Spec
INVARIANTS
    TypeOK
    AcceptedIsStamped
    SoundIsAccepted
    InsideRegion
    CrcCoversImage
    CacheRight
    LocksCoverBoot
PROPERTIES
    VerdictIsContent
CHECK_DEADLOCK FALSE
