CONSTANTS
  u1 = u1
  u2 = u2
  n1 = n1
  n2 = n2
  NoRow = NoRow
  NoAccrual = NoAccrual
  MaxAttempts = 2
  Users <- BalanceUsers
  Numbers <- BalanceNumbers
  Amounts <- BalanceAmounts
  Withdraws <- BalanceWithdraws
  Applies <- BalanceApplies
  Uploads <- BalanceUploads
SPECIFICATION Spec
INVARIANTS
  TypeOK
  Conservation
PROPERTIES
  LedgerSpec
  BalanceMovesWithItsRow
CHECK_DEADLOCK FALSE
