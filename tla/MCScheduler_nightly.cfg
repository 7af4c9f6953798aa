SPECIFICATION Spec
CONSTANTS
  Blobs = {b1}
  None = None
  LastEpochs = 2
  Retention = 2
  DryRun = 1
  TaskMax = 1
  PageSize = 1
  MaxEpoch = 3
  States = {s}
  Contents = {c1, c2}
  NoState = NoState
  Day = 2
  Week = 4
  NightlyAt = 0
  WeeklyAt = 1
  MaxFaults = 1
SYMMETRY Symmetry
INVARIANTS TypeOK DoomedStayUnreferenced NothingKeptIsLost NextDueIsArmed ReplicatedOrAlerted
