SPECIFICATION MCSpec
CONSTANTS
    Callers = {task, other}
    Programs <- MCPrograms
    Timeouts = {1, 2}
    PauseTime = 1
    PollTime = 1
    PollLimit = 2
    Budget = 2
    AsyncReset = TRUE
    MaxTime = 2
    MaxRequests = 2
    BlBuses = 2
    BlDisplayBus = 2
    BlAdcBus = 2
    ScFirst = 8
    ScEnd = 10
    BlPresent <- Present
    DpPages = 2
    DpColumns = 1
    AdTimeout = 2
    AdPoll = 1
    AdRaws = {1, 65535}
    RgTables <- Tables
    ApModules = 2
    ApRoutes <- Routes
SYMMETRY Symmetry
INVARIANTS
    AnsweredTruly
    Contained
    NeverStalls
    ClientsOrderly
CHECK_DEADLOCK FALSE
