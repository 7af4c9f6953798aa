SPECIFICATION Spec
CONSTANTS
  Keys = {a, b}
  Requests <- AllRequests
  KekMax = 1
  MaxTries = 2
  MaxFails = 2
  MaxPurges = 1
  PageSize = 2
  EscrowOn = FALSE
  None = None
  a = a
  b = b
INVARIANTS
  TypeOK
  IInv
  PointerResolves
  LedgerTellsTruth
  AttemptFirst
  AckedAccounted
  PendingIsArmed
  PinnedOnce
PROPERTIES
  LinearHistory
CHECK_DEADLOCK FALSE
