SPECIFICATION Spec
CONSTANTS
    Streams = {1, 2}
    None = None
    MaxAppends = 2
    MaxFrames = 1
    Calls = {"abort", "cancel", "close", "release"}
    Prefetch = TRUE
    Faults = {"adapter", "fence"}
INVARIANTS
    CompletionIsWhole
    OneSynthesis
PROPERTIES
    ImplementsPort
CHECK_DEADLOCK FALSE
