CONSTANTS
  u1 = u1
  u2 = u2
  n1 = n1
  n2 = n2
  NoRow = NoRow
  NoAccrual = NoAccrual
  MaxAttempts = 1
  Users <- TwoUsers
  Numbers <- UsersNumbers
  Amounts <- UsersAmounts
  Withdraws <- UsersWithdraws
  Applies <- UsersApplies
  Uploads <- UsersUploads
SPECIFICATION Spec
INVARIANTS
  AnswersAreTrue
CHECK_DEADLOCK FALSE
