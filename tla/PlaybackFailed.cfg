SPECIFICATION Spec
CONSTANTS
    MaxResponses = 1
    Chunks = 1
    MaxAhead = 3
    MaxTrouble = 1
    User = {}
INVARIANTS
    FailureIsSurvived
CHECK_DEADLOCK FALSE
