SPECIFICATION FairSpec
CONSTANTS
  Handlers = {h1, h2}
  IdemKeys = {k1, k2}
  RequestIds = {}
  Unkeyed = {}
  OldKey = k0
  Payloads = {1}
  Times = {1}
  AbandonedMax = 2
  RecentMax = 1
  ReadPage = 1
  LegacySuffixes <- TwoLegacy
  LateLegacy <- NoLate
  MaxFails = 2
  MaxRows = 3
  None = None
  NoOne = NoOne
  l1 = l1
  l2 = l2
  l3 = l3
PROPERTIES
  EventuallyAcked
