SPECIFICATION FairSpec
CONSTANTS
    Absorbing <- Nowhere
    MaxTries = 3
    MaxSignals = 1
    MaxRecords = 2
PROPERTIES
    ShutdownEnds
CHECK_DEADLOCK FALSE
