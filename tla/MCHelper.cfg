SPECIFICATION FairSpec
CONSTANTS
  Objects = {v1}
  Null = Null
  MaxId = 2
  MaxRequests = 3
INVARIANTS
  TypeOK
  OneResponseEach
  RunsOnceIfValid
  BodiesWhole
  TextsReleased
  ObjectsAccounted
PROPERTY EndsWithInput
