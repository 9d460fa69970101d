SPECIFICATION Spec
CONSTANTS
    Saved = 2
    WasFront = 1
    MaxNames = 3
    MaxActs = 2
    MaxEager = 8
    MaxPolls = 1
    PollEvery = 2
    Loud <- MCLoud
PROPERTIES
    StartupRestores
CHECK_DEADLOCK FALSE
