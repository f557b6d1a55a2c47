SPECIFICATION Spec
CONSTANTS
  NTasks = 1
  NModules = 2
  Period <- NoPeriod
  EventCapacity = 2
  TimerCapacity = 0
  LogCapacity = 1
  YieldLimit = 1
  Callbacks = {}
  Delays = {0}
  Forever = 4
  MaxTime = 2
  MaxGeneration = 1
  MaxPosts = 3
CHECK_DEADLOCK FALSE
INVARIANTS
  EventsConserved
  Quiescent
