SPECIFICATION Spec
CONSTANTS
    Turns = {t1, t2}
    Responses = {r1, r2}
    None = None
    MultiPart = TRUE
    Commands = {"barge_in.confirm", "barge_in.reject", "turn.cancel", "session.stop"}
    MaxSamples = 1
SYMMETRY Symmetry
INVARIANTS
    PauseIsAnswered
CHECK_DEADLOCK FALSE
