SPECIFICATION Spec
CONSTANTS
  Threads = {t1, t2}
  Addrs = {a1, a2}
  None = None
  HeaderLen = 2
  MaxRequestId = 6
  MaxSpawns = 3
  MaxCalls = 5
  MaxNoise = 0
  LowMemory = FALSE
SYMMETRY Symmetric
INVARIANT ObjectsAreOwned
