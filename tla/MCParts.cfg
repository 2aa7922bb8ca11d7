CONSTANTS
  Malformed = Malformed
  Unset = Unset
  MaxText = 4
  MaxBookings = 4
  MaxSettings = 2
  MaxCalls = 4
  Bits = 4
  Fraction = 7
SPECIFICATION Spec
INVARIANTS
  LoopIsCheckDigit
  RoundingIsBounded
  StartIsUsable
  AnswerArrives
  StoredPasswordIsKnown
CHECK_DEADLOCK FALSE
