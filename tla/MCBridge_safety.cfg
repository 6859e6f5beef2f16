SPECIFICATION Spec
CONSTANTS
  Threads = {t1, t2}
  Addrs = {a1, a2}
  None = None
  HeaderLen = 2
  MaxRequestId = 4
  MaxSpawns = 3
  MaxCalls = 4
  MaxNoise = 2
  LowMemory = TRUE
SYMMETRY Symmetric
INVARIANTS
  TypeOK
  LiveHelperIsCurrent
  ArcIdentity
  HandlesResolve
  ReplyMatchesCall
  BrokenIsNotReused
PROPERTY OnlyDeadIsRetired
