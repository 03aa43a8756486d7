SPECIFICATION Spec
CONSTANTS
    UtLoud = 1
    UtQuiet = 1
    UtChunks = 2
    UtAcks = 1
    UtPending = 1
    UtFrames = 4
    UtUtterances = 2
    UtEpochs = 2
    UtTrouble = 1
    UtLine = 2
INVARIANT FreshCaptureIsHeard
CHECK_DEADLOCK FALSE
