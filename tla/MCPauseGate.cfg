CONSTANTS
  w1 = w1
  w2 = w2
  Workers <- TwoWorkers
  Second = 2
  Minute = 1
  Headers <- SomeHeaders
  Half = 8
  MaxTimers = 2
  Horizon = 4
  NoTime = NoTime
SPECIFICATION FairSpec
INVARIANTS
  TypeOK
  PauseHasItsTimer
PROPERTIES
  PauseSpec
  HonoursRetryAfter
  PauseEnds
CHECK_DEADLOCK FALSE
