SPECIFICATION Spec
CONSTANTS
  Users <- TwoUsers
  Numbers <- OneNumber
  Amounts = {1, 2}
  NoRow = NoRow
  NoAccrual = NoAccrual
  Requests <- AllNames
  Request <- AllRequests
  Workloads <- NoToken
  Absent = Absent
  BearerAlone = BearerAlone
  AccrualAnswers <- Paid
CHECK_DEADLOCK FALSE
INVARIANTS
  BearerIsAnswered
