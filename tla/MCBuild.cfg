SPECIFICATION Spec
CONSTANTS
  ReleaseBase = 8
  Schemas <- MCSchemas
  None = None
  MaxEdits = 2
INVARIANTS
  ServedByPeer
  PairOnDisk
  WatchedUpToDate
