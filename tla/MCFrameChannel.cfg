SPECIFICATION FairSpec
CONSTANTS
  Frames <- MCFrames
  Width <- MCWidth
  Height <- MCHeight
  Capacity = 2
  MaxTries = 2
  MaxEmits = 3
INVARIANTS
  SnapshotSound
PROPERTIES
  ImplementsRegister
  Delivered
