SPECIFICATION Spec
CONSTANTS
  Keys = {a, b}
  Requests <- Sets
  KekMax = 0
  MaxTries = 1
  MaxFails = 1
  MaxPurges = 0
  PageSize = 2
  EscrowOn = FALSE
  None = None
  a = a
  b = b
INVARIANTS
  CommittedAccounted
CHECK_DEADLOCK FALSE
