SPECIFICATION MCSpec
CONSTANTS
    OtBlocks = 3
    OtCells = 2
    OtLocks = 2
    OtSerials = {"a", "b"}
    OtMaxSets = 2
    TmPeriod = 8
    TmDelays = {0, 2, 10}
    TmLatency = 4
    TmCallTime = 2
    TmMaxTime = 22
    TmMaxCalls = 3
    CnLineSize = 2
    CnLines = 1
    CnCapacity = 3
    CnFrame = 3
    CnMaxKeys = 3
    CnMaxLogs = 2
    CnMaxFaults = 1
    CmLineCapacity = 12
    CmArgumentCapacity = 4
    CmRoutes <- Routes
    CmCommands <- Commands
    CmWidth = 4
    CmHigh = 6
    CmChoices <- Options
    CmYes <- YesWords
    CmNo <- NoWords
    CmFirst <- FirstLines
    CmLines <- Lines
    PkDigit = 2
    PkWord = 2
    PkBlockSize = 4
    PkDelta = 1
    PkPairs <- Pairs
    PkFixedPairs <- FixedPairs
    PkFragment = 2
    PkMaxStarts = 2
    PkDamage = {0, 1000}
    TgForever = 1023
    TgMillion = 12
    TgFactor = 4
    TgMargin = 1
    TgMinimum = 20
    TgByte = 4
    TgBurst = 2
    TgNarrow = 7
    TgLsi = 4
    TgTicks = 8
    TgDivisor = 1
    TgEarly = 3
    TgRates = {0, 3, 16, 64}
    TgChips <- Chips
    TgCounts <- Counts
    TgPeriods <- TickPeriods
    TgSequences <- ActionLists
    TgTimeouts <- DogTimeouts
    TgRequests <- Asked
    QuCapacity = 2
    LgMessageSize = 3
    LgLengths <- Lengths
    LgSubscribers <- Subscribers
    LgMaxWrites = 3
    TqMaxCalls = 6
    FdUsers = {"journal", "updater"}
    FdWords = 2
    FdPerBank = 1
    FdMaxOps = 2
INVARIANTS
    FdExclusive
    FdHonest
    CnTerminal
    CmDispatches
    PkImage
    TgExact
    QuOrdered
PROPERTIES
    OtKept
    TmKeepsTime
CHECK_DEADLOCK FALSE
