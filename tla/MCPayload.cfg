SPECIFICATION Spec
CONSTANTS
  Frames <- SomeFrames
  Requested = {2}
  First = 1
  Segments = 2
  SegmentSize = 3
  StartUsed = 1
  Stream = 1
  CatalogueMax = 2
  Settle = 1
  HalfCal = 2
  Rate = 1
  MaxCommands = 3
  MaxEvents = 2
INVARIANTS
  TypeOK
  NoCollision
  StoreAgrees
  SpoiledAloneIsMarked
