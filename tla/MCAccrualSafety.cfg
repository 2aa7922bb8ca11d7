CONSTANTS
  o1 = o1
  o2 = o2
  w1 = w1
  w2 = w2
  Orders <- TwoOrders
  Workers <- TwoWorkers
  BatchSize = 2
  MaxAttempts = 1
  AccrualStatuses <- TwoStatuses
SYMMETRY Symmetry
SPECIFICATION Spec
INVARIANTS
  TypeOK
  JobsFit
PROPERTIES
  SyncSpec
  PauseSpec
CHECK_DEADLOCK FALSE
