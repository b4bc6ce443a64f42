SPECIFICATION FairSpec
CONSTANTS
    trivia = trivia
    NoVerdict = NoVerdict
    Any = Any
    NoStats = NoStats
    Edits <- TwoEdits
    UnfitEdits <- None
    Verdicts <- OneLabel
    UnstorableVerdicts <- None
    Stored <- OneOfThem
    PageSize = 1
    Skew = 0
    Modals = FALSE
    Overlap = FALSE
    MaxWrites = 2
    MaxKeys = 1
    MaxFailures = 0
PROPERTIES
    NewEditsAppear
