CONSTANTS
  o1 = o1
  Orders <- OneOrder
  AccrualStatuses <- ThreeStatuses
  MaxStops = 3
SPECIFICATION FairSpec
INVARIANTS
  TypeOK
  ServesCurrentSchema
  DrainedBeforeClosed
  AnsweredIsStored
PROPERTIES
  StatusAdvances
  StopEnds
  EventuallyRecorded
CHECK_DEADLOCK FALSE
