SPECIFICATION StreamFairSpec
CONSTANTS
  MaxMessages = 7
  Size <- MCSize
  Room = 3
PROPERTIES
  IsFifo
  Arrives
CHECK_DEADLOCK FALSE
