SPECIFICATION FairSpec
CONSTANTS
  SizeMax = 15
  MaxFrame = 13
  Initial = 2
  Messages <- MCMessages
INVARIANTS
  CopyFits
  RefusesOnlyTooLong
PROPERTY
  AppendEnds
