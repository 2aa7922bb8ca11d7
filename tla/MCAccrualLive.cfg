CONSTANTS
  o1 = o1
  o2 = o2
  w1 = w1
  w2 = w2
  Orders <- TwoOrders
  Workers <- OneWorker
  BatchSize = 1
  MaxAttempts = 2
  AccrualStatuses <- FinalStatuses
SPECIFICATION FairSpec
PROPERTIES
  ShutdownCompletes
  EventuallyFinal
CHECK_DEADLOCK FALSE
