SPECIFICATION Spec
CONSTANTS
  Handlers = {h1, h2}
  IdemKeys = {k1}
  RequestIds = {r1}
  Unkeyed = {}
  OldKey = k0
  Payloads = {1, 2}
  Times = {1, 2}
  AbandonedMax = 2
  RecentMax = 1
  ReadPage = 1
  LegacySuffixes <- NoLegacy
  LateLegacy <- NoLate
  MaxFails = 2
  MaxRows = 3
  None = None
  NoOne = NoOne
  l1 = l1
  l2 = l2
  l3 = l3
SYMMETRY HandlersSymmetric
INVARIANTS
  HeadOnD1
  AtMostOnce
  AckedIsThere
  AbandonedNotForgotten
  NeverStuck
PROPERTIES
  HeadOnlyExtends
