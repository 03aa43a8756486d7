SPECIFICATION Spec
CONSTANTS
    Streams = {1, 2, 3}
    None = None
    MaxAppends = 2
    MaxFrames = 1
    Calls = {"cancel"}
    Prefetch = FALSE
    Faults = {}
INVARIANTS
    EveryCommandAccepted
CHECK_DEADLOCK FALSE
