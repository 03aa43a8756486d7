------------------------------ MODULE MCParts ------------------------------
(* Thirteen parts of the system that a run can check side by side.  No      *)
(* state of one of them is read by another: where they meet in the program  *)
(* (a transcript that becomes a turn, a voice that a session starts with),  *)
(* each module has the other end as an environment of its own.  A behaviour *)
(* is therefore a behaviour of one part, which the initial state chooses;   *)
(* the variables of the others keep the value Off.                          *)
EXTENDS BrowserPlayback

CONSTANTS
    PiAsked, PiDeltas, PiQueue, PiChildren, PiTrouble,
    RpKeys, RpClients, RpAsks,
    StSamples, StRuns, StTrouble,
    LvSessions, LvRuntimes, LvMics, LvTrouble,
    HlClients, HlStreams, HlAttempts, HlCommands, HlTrouble,
    UtLoud, UtQuiet, UtChunks, UtPending, UtAcks, UtFrames, UtUtterances, UtEpochs, UtTrouble, UtLine,
    QwCalls, QwOps, QwChunks, QwVoices, QwLimit, QwPipe, QwTrouble,
    VsEdits, VsDialogs, VsPolls, VsStarts, VsTrouble,
    CvVoices, CvLimit, CvJobs, CvTrouble,
    RcUtterances, RcPlaybacks, RcTrouble,
    RlLeases, RlOpens,
    RtTakes, RtTrouble

VARIABLES
    subject,        \* the part this behaviour is about
    pi, rp, st, lv, hl, ut, qw, vs, cv, rc, rl, rt

parts == <<subject, pi, rp, st, lv, hl, ut, qw, vs, cv, rc, rl, rt>>
Off == "off"

Pi == INSTANCE PiRequests
Rp == INSTANCE PiReadiness
St == INSTANCE StoredTurns
Lv == INSTANCE LiveSession
Hl == INSTANCE HostLive
Ut == INSTANCE Utterances
Qw == INSTANCE QwenSpeech
Vs == INSTANCE VoiceSettings
Cv == INSTANCE CustomVoices
Rc == INSTANCE Recordings
Rl == INSTANCE ResourceLeases
Rt == INSTANCE ReferenceTakes

\* The parts, and the variable of each; BrowserPlayback's are vars.
Subjects == {"playback", "pi", "rp", "st", "lv", "hl", "ut", "qw", "vs", "cv", "rc", "rl", "rt"}

PartsInit ==
    /\ subject \in Subjects /\ Init
    /\ IF subject = "pi" THEN Pi!Init ELSE pi = Off
    /\ IF subject = "rp" THEN Rp!Init ELSE rp = Off
    /\ IF subject = "st" THEN St!Init ELSE st = Off
    /\ IF subject = "lv" THEN Lv!Init ELSE lv = Off
    /\ IF subject = "hl" THEN Hl!Init ELSE hl = Off
    /\ IF subject = "ut" THEN Ut!Init ELSE ut = Off
    /\ IF subject = "qw" THEN Qw!Init ELSE qw = Off
    /\ IF subject = "vs" THEN Vs!Init ELSE vs = Off
    /\ IF subject = "cv" THEN Cv!Init ELSE cv = Off
    /\ IF subject = "rc" THEN Rc!Init ELSE rc = Off
    /\ IF subject = "rl" THEN Rl!Init ELSE rl = Off
    /\ IF subject = "rt" THEN Rt!Init ELSE rt = Off

PartsNext ==
    \/ subject = "playback" /\ Next /\ UNCHANGED parts
    \/ subject = "pi" /\ Pi!Next
       /\ UNCHANGED <<vars, subject, rp, st, lv, hl, ut, qw, vs, cv, rc, rl, rt>>
    \/ subject = "rp" /\ Rp!Next
       /\ UNCHANGED <<vars, subject, pi, st, lv, hl, ut, qw, vs, cv, rc, rl, rt>>
    \/ subject = "st" /\ St!Next
       /\ UNCHANGED <<vars, subject, pi, rp, lv, hl, ut, qw, vs, cv, rc, rl, rt>>
    \/ subject = "lv" /\ Lv!Next
       /\ UNCHANGED <<vars, subject, pi, rp, st, hl, ut, qw, vs, cv, rc, rl, rt>>
    \/ subject = "hl" /\ Hl!Next
       /\ UNCHANGED <<vars, subject, pi, rp, st, lv, ut, qw, vs, cv, rc, rl, rt>>
    \/ subject = "ut" /\ Ut!Next
       /\ UNCHANGED <<vars, subject, pi, rp, st, lv, hl, qw, vs, cv, rc, rl, rt>>
    \/ subject = "qw" /\ Qw!Next
       /\ UNCHANGED <<vars, subject, pi, rp, st, lv, hl, ut, vs, cv, rc, rl, rt>>
    \/ subject = "vs" /\ Vs!Next
       /\ UNCHANGED <<vars, subject, pi, rp, st, lv, hl, ut, qw, cv, rc, rl, rt>>
    \/ subject = "cv" /\ Cv!Next
       /\ UNCHANGED <<vars, subject, pi, rp, st, lv, hl, ut, qw, vs, rc, rl, rt>>
    \/ subject = "rc" /\ Rc!Next
       /\ UNCHANGED <<vars, subject, pi, rp, st, lv, hl, ut, qw, vs, cv, rl, rt>>
    \/ subject = "rl" /\ Rl!Next
       /\ UNCHANGED <<vars, subject, pi, rp, st, lv, hl, ut, qw, vs, cv, rc, rt>>
    \/ subject = "rt" /\ Rt!Next
       /\ UNCHANGED <<vars, subject, pi, rp, st, lv, hl, ut, qw, vs, cv, rc, rl>>

PartsSpec == PartsInit /\ [][PartsNext]_<<vars, parts>>

-----------------------------------------------------------------------------
\* No text of another request's answer reaches a request (PiClient.ts:318-351).
AnswerIsOwn == subject = "pi" => Pi!AnswerIsOwn

\* A client at rest has left nobody waiting, and a stream that ended without a
\* final text says that it failed (pi-process.ts:60-131, PiClient.ts:419-442).
NobodyIsForgotten == subject = "pi" => Pi!NobodyIsForgotten

\* Readiness is about the settings asked for, and at most one probe client lives
\* (readiness-probe.ts:48-52).
ReadinessIsCurrent == subject = "rp" => Rp!ReadinessIsCurrent

\* The stored turn is what happened, in every order of events and reports
\* (stable-turn-writer.ts:591-680).
StoredTurnIsTrue == subject = "st" => St!StoredTurnIsTrue

\* A microphone that is on is held by the running session that is stored as
\* active (live-runtime.ts:390-436, 465-498).
MicrophoneIsOwned == subject = "lv" => Lv!MicrophoneIsOwned

\* A begin that fails or is overtaken leaves no engine, orchestrator or child
\* without an owner (BrowserSession.ts:524-613, 736-738).
EngineIsOwned == subject = "hl" => Hl!EngineIsOwned

\* The phase and the notes the browser was told are the session's
\* (BrowserSession.ts:739, 750).
BrowserIsTold == subject = "hl" => Hl!BrowserIsTold

\* A stored transcript becomes a turn at most once, in the epoch it began in
\* (BrowserSession.ts:835-860).
TranscriptIsOwn == subject = "ut" => Ut!TranscriptIsOwn

\* Host and sidecar follow the same utterance (AudioClient.ts:1266-1342,
\* runtime.py:884-954).
SpeakOfTheSame == subject = "ut" => Ut!SpeakOfTheSame

\* One synthesis at a time; what is handed on is the text's frames in
\* order, and all of them when the synthesis ends well (adapter.py:498-635).
SpokenInOrder == subject = "qw" => Qw!SpokenInOrder

\* A custom voice in the catalogue has its clone model and its prompt
\* (adapter.py:394-417, qwen_worker.py:95-136).
VoicesCanSpeak == subject = "qw" => Qw!VoicesCanSpeak

\* A session is sent the settings the browser has stored for it
\* (App.tsx:311-330, 418-466, useSettings.ts:394-445).
SentAsStored == subject = "vs" => Vs!SentAsStored

\* No engine is given another engine's voice (settings-model.ts:1-3).
VoiceOfItsEngine == subject = "vs" => Vs!VoiceOfItsEngine

\* The sidecar has the voices the browser stores, none more, and gets back those
\* it lost (useSettings.ts:148-178, 318-329).
VoicesAgree == subject = "cv" => Cv!VoicesAgree

\* A recorded utterance keeps its turn, and the export tells the conversation as
\* it went (recorder.ts:144-161, 240-290; splice.ts:70-84).
RecordedAsSpoken == subject = "rc" => Rc!RecordedAsSpoken

\* Nobody uses closed stores and none stay open (resource-lifecycle.ts:12-53).
LeaseHolds == subject = "rl" => Rl!LeaseHolds

\* A take's microphone is on only while the section can stop it or it is ending
\* (recorder.ts:48, CustomVoiceSection.tsx:48-98).
MicIsReleased == subject = "rt" => Rt!MicIsReleased

=============================================================================
