SPECIFICATION FairSpec
CONSTANTS
  Snap = {1, 2}
  NodeTab = {3}
  PhoneTab = {4}
  Workload = {{1, 2}, {3}, {4}}
  MaxEnds = 1
INVARIANTS
  OnlyOnce
  HandoffKept
PROPERTIES
  SnapshotHonest
  RequestSettled
  HandoffArrives
CHECK_DEADLOCK FALSE
