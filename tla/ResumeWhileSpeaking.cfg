SPECIFICATION Spec
CONSTANTS
    Turns = {t1, t2, t3}
    Responses = {r1}
    None = None
    MultiPart = FALSE
    Commands = {}
    MaxSamples = 1
PROPERTIES
    NoResumeWhileSpeaking
CHECK_DEADLOCK FALSE
