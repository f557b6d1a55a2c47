SPECIFICATION Spec
CONSTANTS
  NTasks = 1
  NModules = 1
  Period <- OnePeriodic
  EventCapacity = 0
  TimerCapacity = 2
  LogCapacity = 0
  YieldLimit = 1
  Callbacks = {c1, c2}
  Delays = {1, 4}
  Forever = 4
  MaxTime = 2
  MaxGeneration = 1
  MaxPosts = 0
CHECK_DEADLOCK FALSE
INVARIANTS
  TimersCovered
  NoLostWakeup
SYMMETRY CallbackSymmetry
