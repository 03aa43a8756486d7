SPECIFICATION FairSpec
CONSTANTS
    Turns = {t1, t2}
    Responses = {r1, r2}
    None = None
    MultiPart = FALSE
    Commands = {"turn.cancel", "session.stop"}
    MaxSamples = 1
INVARIANTS
    TypeOK
    AcceptanceOwnsResponse
    TurnAnsweredOnce
    OnlyActiveIsAudible
    LedgerWithinStream
    ContextWasHeard
    ProvisionalOwnsActive
PROPERTIES
    CancelledIsFinal
    ProvisionalResolved
    AcceptedTakeoverProcessed
CHECK_DEADLOCK FALSE
