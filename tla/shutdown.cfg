SPECIFICATION FairSpec
CONSTANTS
    Absorbing <- InTheCall
    MaxTries = 3
    MaxSignals = 2
    MaxRecords = 2
INVARIANTS
    LeavesGroup
    NothingSkipped
    RunCloses
    LifecycleInv
PROPERTIES
    SignalEnds
    TriesEnd
CHECK_DEADLOCK FALSE
