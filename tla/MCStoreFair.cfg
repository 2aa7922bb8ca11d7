CONSTANTS
  u1 = u1
  u2 = u2
  n1 = n1
  n2 = n2
  NoRow = NoRow
  NoAccrual = NoAccrual
  MaxAttempts = 2
  Users <- FewUsers
  Numbers <- FewNumbers
  Amounts <- FewAmounts
  Withdraws <- FewWithdraws
  Applies <- FewApplies
  Uploads <- FewUploads
SPECIFICATION FairSpec
INVARIANTS
  CheckedBalanceStays
  NonNegative
PROPERTIES
  FinalIsForever
  EveryCallAnswers
CHECK_DEADLOCK FALSE
