SPECIFICATION FairSpec
CONSTANTS
    e1 = e1
    e2 = e2
    unfit = unfit
    garbage = garbage
    good = good
    nul = nul
    NoVerdict = NoVerdict
    Payloads <- OneEdit
    Edits <- OneEdit
    UnfitEdits <- None
    Verdicts <- GoodAndNul
    UnstorableVerdicts <- OnlyNul
    MaxRetryPasses = 1
    BreakerThreshold = 2
    MaxRaw = 2
    DlqCap = 20
    Budget <- CrashAndSweep
PROPERTIES
    EventuallySettled
    SweepEnds
    SweepAccounted
    CustodyKept
CHECK_DEADLOCK FALSE
