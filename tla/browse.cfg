SPECIFICATION Spec
CONSTANTS
    trivia = trivia
    NoVerdict = NoVerdict
    Any = Any
    NoStats = NoStats
    Edits <- TwoEdits
    UnfitEdits <- None
    Verdicts <- OneLabel
    UnstorableVerdicts <- None
    Stored <- TwoEdits
    PageSize = 1
    Skew = 0
    Modals = TRUE
    Overlap = TRUE
    MaxWrites = 1
    MaxKeys = 2
    MaxFailures = 1
INVARIANTS
    LatestWins
    FirstPageCurrent
PROPERTIES
    PollNeverJumps
