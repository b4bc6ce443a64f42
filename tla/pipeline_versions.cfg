SPECIFICATION Spec
CONSTANTS
    e1 = e1
    e2 = e2
    unfit = unfit
    garbage = garbage
    good = good
    nul = nul
    NoVerdict = NoVerdict
    Payloads <- EveryPayload
    Edits <- FitAndUnfit
    UnfitEdits <- OnlyUnfit
    Verdicts <- OnlyGood
    UnstorableVerdicts <- None
    MaxRetryPasses = 2
    BreakerThreshold = 2
    MaxRaw = 1
    DlqCap = 20
    Budget <- CrashesAndUpgrade
INVARIANTS
    AttemptsBounded
    CustodyInv
    MalformedForCause
    PassesTaken
PROPERTIES
    CustodyKept
CHECK_DEADLOCK FALSE
