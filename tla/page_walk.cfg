SPECIFICATION FairSpec
CONSTANTS
    trivia = trivia
    NoVerdict = NoVerdict
    Any = Any
    Edits <- AllEdits
    UnfitEdits <- None
    Verdicts <- OneLabel
    UnstorableVerdicts <- None
    Stored <- ThreeOfThem
    PageSize = 1
    Skew = 1
    MaxWrites = 2
INVARIANTS
    WalkExact
PROPERTIES
    WalkEnds
CHECK_DEADLOCK FALSE
