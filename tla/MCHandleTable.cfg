SPECIFICATION Spec
CONSTANTS
  Objects = {v1, v2}
  Null = Null
  MaxId = 5
  SizeMax = 15
  SlotSize = 2
  InitialCapacity = 1
SYMMETRY Symmetric
INVARIANTS
  TypeOK
  WithinAllocation
  LiveIdsUnique
  DestroyedOnce
PROPERTY ImplementsStore
