SPECIFICATION MCSpec
CONSTANTS
    FsNames = {"a"}
    FsMaxSize = 1
    FsEntries = 2
    FsLoads <- Loads
    SdStartupLimit = 3
    SdReadRepeats = 2
    SdPartitions = 1
    SdSectors = 2
    UpChunks = 2
    UpMaxClients = 2
    UpMaxCommands = 3
    UpMaxInputs = 3
    HlPeriod <- Periods
    HlAllowance = 2
    HlMaxAge = 5
    HlTimeout = 6
    HlEarly = 1
    HlDelay = 4
    HlMaxTime = 14
    HlMaxBoots = 2
INVARIANTS
    FsOneUser
    FtNoDebris
    SdCardKept
PROPERTIES
    FtPublishes
    UpSeparate
    HlJudges
    ServicesEnd
CHECK_DEADLOCK FALSE
