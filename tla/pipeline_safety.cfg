SPECIFICATION Spec
CONSTANTS
    e1 = e1
    e2 = e2
    unfit = unfit
    garbage = garbage
    good = good
    nul = nul
    NoVerdict = NoVerdict
    Payloads <- FitAndUnfit
    Edits <- FitAndUnfit
    UnfitEdits <- OnlyUnfit
    Verdicts <- GoodAndNul
    UnstorableVerdicts <- OnlyNul
    MaxRetryPasses = 1
    BreakerThreshold = 1
    MaxRaw = 2
    DlqCap = 20
    Budget <- CrashDropAndSweep
INVARIANTS
    TypeOK
    NoLoss
    RowBeforeEnvelope
    AmplificationBounded
    MalformedForCause
    CauseInv
PROPERTIES
    NoDowngrade
    SweepSkipsForCause
CHECK_DEADLOCK FALSE
