SPECIFICATION FairSpec
CONSTANTS
  Threads = {t1, t2}
  Addrs = {a1, a2}
  None = None
  HeaderLen = 2
  MaxRequestId = 4
  MaxSpawns = 3
  MaxCalls = 3
  MaxNoise = 1
  LowMemory = TRUE
PROPERTY CallReturns
