SPECIFICATION Spec
CONSTANTS
  NTasks = 2
  NModules = 1
  Period <- MixedPeriods
  EventCapacity = 0
  TimerCapacity = 0
  LogCapacity = 0
  YieldLimit = 2
  Callbacks = {}
  Delays = {0, 1}
  Forever = 5
  MaxTime = 2
  MaxGeneration = 2
  MaxPosts = 0
CHECK_DEADLOCK FALSE
INVARIANTS
  NoReentry
  ProgressAccounting
