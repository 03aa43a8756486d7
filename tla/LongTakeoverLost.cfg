SPECIFICATION FairSpec
CONSTANTS
    Turns = {t1, t2}
    Responses = {r1, r2}
    None = None
    MultiPart = TRUE
    Commands = {"turn.cancel"}
    MaxSamples = 1
PROPERTIES
    AcceptedTakeoverProcessed
CHECK_DEADLOCK FALSE
