SPECIFICATION FairSpec
CONSTANTS
    Streams = {1, 2, 3}
    None = None
    MaxAppends = 1
    MaxFrames = 1
    Calls = {"cancel"}
    Prefetch = FALSE
    Faults = {"deadline"}
INVARIANTS
    SlotsFit
PROPERTIES
    FinishedSettles
CHECK_DEADLOCK FALSE
