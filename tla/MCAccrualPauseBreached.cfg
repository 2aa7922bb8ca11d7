CONSTANTS
  o1 = o1
  o2 = o2
  w1 = w1
  w2 = w2
  Orders <- OneOrder
  Workers <- TwoWorkers
  BatchSize = 2
  MaxAttempts = 2
  AccrualStatuses <- FinalStatuses
SPECIFICATION Spec
PROPERTIES
  NoRequestInPause
CHECK_DEADLOCK FALSE
