SPECIFICATION Spec
CONSTANTS
  Users <- TwoUsers
  Numbers <- OneNumber
  Amounts = {1, 2}
  NoRow = NoRow
  NoAccrual = NoAccrual
  Requests <- AllNames
  Request <- AllRequests
  Workloads <- OneByOne
  Absent = Absent
  BearerAlone = BearerAlone
  AccrualAnswers <- Paid
CHECK_DEADLOCK FALSE
INVARIANTS
  TypeOK
  SessionsNeedThePassword
  CodesAreTrue
  AcceptedOnce
  RefusalLeavesNothing
  ReadsShowWhatWasAnswered
  ListsOnlyGrow
  HistoryExplainsBalance
