SPECIFICATION Spec
CONSTANTS
    e1 = e1
    e2 = e2
    unfit = unfit
    garbage = garbage
    good = good
    nul = nul
    NoVerdict = NoVerdict
    Payloads <- TwoEdits
    Edits <- TwoEdits
    UnfitEdits <- None
    Verdicts <- GoodAndNul
    UnstorableVerdicts <- OnlyNul
    MaxRetryPasses = 1
    BreakerThreshold = 2
    MaxRaw = 2
    DlqCap = 20
    Budget <- DropAndSweep
PROPERTIES
    SweepAccounted
CHECK_DEADLOCK FALSE
