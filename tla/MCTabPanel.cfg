SPECIFICATION FairSpec
CONSTANTS
    Saved = 2
    WasFront = 1
    MaxNames = 3
    MaxActs = 3
    MaxEager = 8
    MaxPolls = 1
    PollEvery = 2
    Loud <- MCLoud
INVARIANTS
  StripSound
  ActiveIsShown
PROPERTIES
  ActiveStays
  
  QuietTabsArePolled
CHECK_DEADLOCK FALSE
