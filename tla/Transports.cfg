SPECIFICATION MCSpec
CONSTANTS
    Callers = {task}
    Programs <- Short
    Timeouts = {2}
    PauseTime = 1
    PollTime = 1
    PollLimit = 2
    Budget = 2
    AsyncReset = FALSE
    MaxTime = 3
    MaxRequests = 2
    SpMaxTotal = 5
    SpMaxActions = 2
    SpPioChunk = 3
    SpCapacity = 2
    SpThreshold = 2
    SpFifo = 2
    IcMaxTotal = 5
    IcMaxActions = 2
    IcChunkBytes = 2
    IcMaxHeld = 11
    BcClocks = 9
    EtDescs = 2
    EtSlots = 4
    EtSends = 2
    EtBuffer = 2
    EtMaxSize = 3
    EtMaxFrames = 2
    TcRing = 2
    TcQueue = 2
    TcMaxConnections = 2
    TcMaxBytes = 3
    TcRecords = {1, 2}
INVARIANT
    TcSessions
PROPERTIES
    DriversExact
    EtFrames
    TransfersEnd
CHECK_DEADLOCK FALSE
