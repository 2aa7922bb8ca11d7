CONSTANTS
  u1 = u1
  u2 = u2
  n1 = n1
  n2 = n2
  NoRow = NoRow
  NoAccrual = NoAccrual
  MaxAttempts = 2
  Users <- TwoUsers
  Numbers <- RaceNumbers
  Amounts <- RaceAmounts
  Withdraws <- NoCalls
  Applies <- NoCalls
  Uploads <- RaceUploads
SPECIFICATION Spec
INVARIANTS
  UploadIsDecided
CHECK_DEADLOCK FALSE
