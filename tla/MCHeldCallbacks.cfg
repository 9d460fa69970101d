SPECIFICATION FairSpec
CONSTANTS
  Requests <- AllRequests
  Kind <- AllKind
  Key <- AllKey
  Keys = {"camera", "mic"}
  Blocked <- MCBlocked
  Limit <- MCLimit
  ShellLimit = 1
  None = None
INVARIANTS
  MapsSound
  ContinuedOnce
  YesOnlyWhenTold

  
CHECK_DEADLOCK FALSE
