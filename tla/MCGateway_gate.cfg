SPECIFICATION Spec
CONSTANTS
  Lower <- MCLower
  Topology = "primary"
  RootAdmins <- MCRootAdmins
  Handlers = {h1, h2}
  Isolates = {i1, i2}
  None = None
  Docs <- MCDocs
  FirstPolicies <- MCFirstPolicies
  CacheTTL = 1
  LoadMax = 1
  MaxVersion = 2
  MaxTime = 2
  Project <- MCProject
  Requests <- MCRequests
  MaxRequests = 2
  MaxFaults = 1
  j1 = j1
  Jtis = {j1}
  TokenTTL = 1
  Leeway = 0
  DenyMargin = 2
  KvLag = 1
SYMMETRY Symmetry
INVARIANTS TypeOK PointerResolves CacheIsRecent JustifiedByFreshPolicy RevokedStaysRevoked LearnedIsPlanned
PROPERTY ImplementsRegister
CHECK_DEADLOCK FALSE
