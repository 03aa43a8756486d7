SPECIFICATION Spec
CONSTANTS
    MaxSockets = 2
    MaxCommands = 4
    Keyed = {2, 4}
    Controls = {3}
    MaxQueued = 2
    MaxFrames = 2
    MaxHeld = 1
    MaxCuts = 1
    Stops = {"leave", "api", "expiry"}
    MaxUpsets = 1
INVARIANTS
    DeliveredOnce
    SoleOwner
    NeverSilentlyStuck
    AbandonedStops
CHECK_DEADLOCK FALSE
