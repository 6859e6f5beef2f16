SPECIFICATION Spec
CONSTANTS
  Threads = {t1, t2}
  Addrs = {a1, a2}
  None = None
  HeaderLen = 2
  MaxRequestId = 4
  MaxSpawns = 3
  MaxCalls = 3
  MaxNoise = 2
  LowMemory = FALSE
SYMMETRY Symmetric
INVARIANT CorruptIsDiscarded
