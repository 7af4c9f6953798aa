SPECIFICATION Spec
CONSTANTS
  Handlers = {h1}
  IdemKeys = {k0, k1}
  RequestIds = {r1}
  Unkeyed = {}
  OldKey = k0
  Payloads = {1}
  Times = {1}
  AbandonedMax = 1
  RecentMax = 1
  ReadPage = 1
  LegacySuffixes <- SomeLegacy
  LateLegacy <- SomeLate
  MaxFails = 2
  MaxRows = 3
  None = None
  NoOne = NoOne
  l1 = l1
  l2 = l2
  l3 = l3
INVARIANTS
  TypeOK
  ChainInv
  EscrowHoldsChain
  ForeignRowsArePinned
  LedgerInv
PROPERTIES
  ImplementsLedger
