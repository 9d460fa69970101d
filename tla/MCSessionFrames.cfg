SPECIFICATION FairSpec
CONSTANTS
  EventLimit = 2
  ControlLimit = 1
  MaxRecvPerPoll = 2
  MaxPaints = 3
  ExitOnSendFailure = FALSE

  
PROPERTIES
  NeverGoesBack
  CrashIsFinal
  FrameReachesScreen
  DeathIsNoticed
CHECK_DEADLOCK FALSE
