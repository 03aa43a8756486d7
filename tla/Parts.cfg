SPECIFICATION PartsSpec
CONSTANTS
    MaxResponses = 2
    Chunks = 1
    MaxAhead = 2
    MaxTrouble = 2
    User = {"cancel", "pause", "stop"}
    PiAsked = 2
    PiDeltas = 2
    PiQueue = 1
    PiChildren = 2
    PiTrouble = 2
    RpKeys = {"a", "b"}
    RpClients = 3
    RpAsks = 5
    StSamples = 1
    StRuns = 2
    StTrouble = 1
    LvSessions = 2
    LvRuntimes = 2
    LvMics = 2
    LvTrouble = 1
    HlClients = 2
    HlStreams = 2
    HlAttempts = 2
    HlCommands = 4
    HlTrouble = 1
    UtLoud = 2
    UtQuiet = 1
    UtChunks = 2
    UtAcks = 1
    UtPending = 1
    UtFrames = 6
    UtUtterances = 2
    UtEpochs = 2
    UtTrouble = 2
    UtLine = 2
    QwCalls = 2
    QwOps = 3
    QwChunks = 2
    QwVoices = 2
    QwLimit = 2
    QwPipe = 2
    QwTrouble = 1
    VsEdits = 2
    VsDialogs = 1
    VsPolls = 2
    VsStarts = 2
    VsTrouble = 2
    CvVoices = 2
    CvLimit = 2
    CvJobs = 1
    CvTrouble = 1
    RcUtterances = 2
    RcPlaybacks = 1
    RcTrouble = 1
    RlLeases = 4
    RlOpens = 3
    RtTakes = 3
    RtTrouble = 1
INVARIANTS
    OneVoice
    CompletedWasHeard
    SettledAgree
    AnswerIsOwn
    NobodyIsForgotten
    ReadinessIsCurrent
    StoredTurnIsTrue
    MicrophoneIsOwned
    EngineIsOwned
    BrowserIsTold
    TranscriptIsOwn
    SpeakOfTheSame
    SpokenInOrder
    VoicesCanSpeak
    SentAsStored
    VoiceOfItsEngine
    VoicesAgree
    RecordedAsSpoken
    LeaseHolds
    MicIsReleased
CHECK_DEADLOCK FALSE
