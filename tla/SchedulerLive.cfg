SPECIFICATION LiveSpec
CONSTANTS
  NTasks = 1
  NModules = 2
  Period <- NoPeriod
  EventCapacity = 1
  TimerCapacity = 1
  LogCapacity = 0
  YieldLimit = 1
  Callbacks = {c1}
  Delays = {1}
  Forever = 3
  MaxTime = 1
  MaxGeneration = 1
  MaxPosts = 1
CHECK_DEADLOCK FALSE
PROPERTIES
  StopTerminates
  WorkServed
