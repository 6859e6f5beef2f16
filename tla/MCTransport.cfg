SPECIFICATION FairSpec
CONSTANTS
  Capacity = 2
  ReadAhead = 2
  Stdio = 2
  MaxRequest = 3
  MaxReply = 3
  MaxStray = 3
  MaxCalls = 3
INVARIANTS
  TypeOK
  NoStandoff
  NothingLeft
PROPERTY
  CallReturns
CHECK_DEADLOCK FALSE
