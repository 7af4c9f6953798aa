SPECIFICATION FairSpec
CONSTANTS
  Keys = {a, b}
  Requests <- Sets
  KekMax = 0
  MaxTries = 2
  MaxFails = 3
  MaxPurges = 0
  PageSize = 2
  EscrowOn = TRUE
  None = None
  a = a
  b = b
PROPERTIES
  EventuallySettled
CHECK_DEADLOCK FALSE
