SPECIFICATION Spec
CONSTANTS
  Keys = {"m", "s"}
  Inline = {"s"}
  None = None
  Retry = 2
  AlertAfter = 2
  DrainMax = 1
  MaxUses = 2
  MaxFaults = 3
INVARIANTS TypeOK NameUsedOnceIsKept AlarmWhileRecords TriedInTime
PROPERTY Settles
CHECK_DEADLOCK FALSE
