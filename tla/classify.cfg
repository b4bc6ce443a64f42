SPECIFICATION Spec
CONSTANTS
    vandalism = vandalism
    trivia = trivia
    MaxCallAttempts = 3
    BackoffBase = 1
    CallTimeout = 60
    Threshold = 6
    One = 10
    Labels <- TwoLabels
    OtherLabel = OtherLabel
    Unhashable = Unhashable
    Numbers <- Confidences
    NaN = NaN
    Huge = Huge
    NotNumber = NotNumber
    Absent = Absent
    NotAnObject = NotAnObject
    NoResult = NoResult
    Escape = Escape
INVARIANTS
    CallsBounded
    TimeBounded
    OutcomeEarned
    PassInv
PROPERTIES
    ContractKept
CHECK_DEADLOCK FALSE
