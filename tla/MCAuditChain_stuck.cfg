SPECIFICATION Spec
CONSTANTS
  Handlers = {h1}
  IdemKeys = {k1}
  RequestIds = {}
  Unkeyed = {}
  OldKey = k0
  Payloads = {1}
  Times = {1, 2}
  AbandonedMax = 4
  RecentMax = 1
  ReadPage = 1
  LegacySuffixes <- NoLegacy
  LateLegacy <- NoLate
  MaxFails = 5
  MaxRows = 3
  None = None
  NoOne = NoOne
  l1 = l1
  l2 = l2
  l3 = l3
INVARIANTS
  NeverStuck
