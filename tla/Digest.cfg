SPECIFICATION FairSpec
CONSTANTS
    Configs <- MCConfigs
    MaxStarts = 2
    PerHour = 2
    Start = 64
    End = 117
CHECK_DEADLOCK FALSE
INVARIANTS
    DigestOnce
    DigestSent
PROPERTY
    ShutdownEnds
