# Podcaster: a TLA+ model of its voice conversation

Podcaster lets a user talk with a research assistant while a podcast is being
recorded. A browser captures speech and plays answers; a TypeScript host runs
the conversation; a Python sidecar does voice activity detection, speech
recognition and speech synthesis; a Pi process does the reasoning. This
directory models the parts of it that run concurrently: who may speak, when an
answer is interrupted, what was heard of it and what is kept of it, who owns a
socket, a microphone, an engine or a child process, and what happens when a
message, a receipt or a result comes late, twice or never.

Source paths below are relative to the repository root `src/`.

## 1. Inventory

| Component | Source | State it keeps | Operations | Module |
|---|---|---|---|---|
| Session orchestrator | `apps/host/src/session/SessionOrchestrator.ts` | phase, epoch, the active response, the pause (`provisional`), an accepted takeover, playback ledger, seen turns, bounded context | `start`, `handleSpeechStart/End`, `handleStableFinal`, playback reports, `confirm/rejectBargeIn`, `cancelCurrentTurn`, `stop`, two timers | `SessionOrchestrator` |
| Interruption classifier | `apps/host/src/session/InterruptionIntentClassifier.ts` | none | one verdict per transcript, lexical rules or a Pi request | a free choice |
| Text assemblers | `ReasoningSpeechAssembler.ts`, `ResearchPartAssembler.ts` | buffered text, released sentences | `push`, `finish` | none |
| Turn policy | `packages/policy/src/index.ts` | none | `decide` | a free choice |
| Browser session | `apps/host/src/server/BrowserSession.ts` | lifecycle, preparation, pending finals, persistence acknowledgements, held output, capture gate | `open`, `begin`, `rollback`, `stop`, planning controls, `attachSocket`, command handlers | `HostLive`, `Utterances`, `SessionConnection` |
| Browser gateway | `apps/host/src/server/app.ts` | sessions, their sockets, heartbeats, grace and expiry timers, the chain of commands | authentication, takeover, heartbeat, stop and expiry | `SessionConnection` |
| Audio client | `apps/host/src/sidecar/AudioClient.ts` | two admitted speeches, FIFO of waiting ones, per speech its promises, held-back audio and closures; connection; capture binding, the utterance it follows | `begin`, `append`, `finish`, `cancel`, `release`, `open`, `input`, `close`, the sidecar's messages | `SpeechAdmission`, `HostLive`, `Utterances` |
| Pi clients | `apps/host/src/pi/PiClient.ts`, `PiResearchClient.ts`, `pi-process.ts` | who owns the child, its commands, one event queue a request, the child's end | `request`, `abort`, timeouts, process exit, `shutdown` | `PiRequests` |
| Pi readiness | `apps/host/src/pi/readiness-probe.ts` | one probe client, its last answers, a snapshot | `probe`, reconcile, `shutdown` | `PiReadiness` |
| Voice relay of the host | `apps/host/src/sidecar/voice-enrollment.ts`, `voice-preview.ts` | one enrolment or removal, one preview | relay, timeout | `CustomVoices` |
| Audio sidecar | `services/audio/src/runtime.py`, `server.py`, `vad/endpointer.py` | VAD, utterances and their workers; at most two speech workers, one progressive slot, fences, cancellation tokens, status; voice catalogue | `stream.*`, `tts.*`, enrolment, the worker threads | `SpeechAdmission`, `Utterances`, `HostLive`, `CustomVoices` |
| Qwen engine | `services/audio/src/tts/qwen/adapter.py`, `tts/qwen_subprocess.py`, `tts/qwen_worker.py` | two threads with bounded queues, a pipe, an isolated worker, clone model and prompts | `synthesize`, cancel, `reset`, `close`, `enroll`, `remove` | `QwenSpeech` |
| Other engines | `services/audio/src/stt/*`, `tts/kokoro.py` | none shared | inference | none |
| Browser transport | `apps/web/src/session/websocket-transport.ts` | sockets, queued commands, watchdog, retries, output bindings | `connect`, `send`, `receive`, reconnect | `SessionConnection`, `BrowserPlayback` |
| Browser controller and player | `apps/web/src/session/controller.ts`, `audio/playback.ts`, `audio/playback-ledger.ts` | event queue, pauses, checkpoints, deferred resumes; sample ledgers | host events, local VAD, reports | `BrowserPlayback` |
| Live runtime and page | `apps/web/src/session/live-runtime.ts`, `audio/capture.ts`, `App.tsx` | the runtime of a session, its transport and microphone; which session runs | start, begin, recover, pause, end, reload | `LiveSession` |
| Stable turn storage | `apps/web/src/storage/stable-turn-writer.ts` | rows of sessions, turns, responses and playback accounting in IndexedDB | one transaction per event or report | `StoredTurns` |
| Local stores | `storage/resource-lifecycle.ts`, `hooks/useAppStorage.ts` | shared leases on open stores | acquire, release | `ResourceLeases` |
| Recording | `apps/web/src/recording/*`, `storage/recording-store.ts` | open slices, encoder queue, rows, trims | slice, encode, store, name the turn, export | `Recordings` |
| Settings and voices | `settings/*`, `hooks/useSettings.ts`, `hooks/useServiceStatuses.ts`, `storage/custom-voice-store.ts`, `voice-enrollment/*` | stored row, model in memory, drafts, catalogue, references, takes | load, reconcile, edit, save, enrol, restore, delete, record | `VoiceSettings`, `CustomVoices`, `ReferenceTakes` |
| Contracts; benchmarks, scripts, lint rules | `packages/contracts/*`, `benchmarks/*`, `scripts/*`, `tools/*` | none | generated validation; tooling | none |

How they interact:

- The **browser** sends audio frames, commands (`session.*`, `barge_in.*`,
  `turn.cancel`), playback reports (`paused`, `progress`, `stopped`) and
  persistence acknowledgements over one WebSocket. The host answers with
  numbered events and PCM. The socket may be replaced at any time.
- The **browser session** routes them: VAD events of the sidecar become
  `handleSpeechStart/End`; a stable final is sent to the browser, and only its
  persistence acknowledgement hands it to `handleStableFinal`.
- The **orchestrator** calls the Pi client (an async iterable per response),
  the speech output (a stream with two promises, `started` and `completion`)
  and the classifier (a promise), and emits events. All of these come back
  later, into state that may have moved on.
- The **audio client** multiplexes speech streams and one capture stream on one
  sidecar connection; the sidecar runs a worker thread per speech and per
  utterance, and the engine threads of its own.
- The **controller** queues the host's events and waits for IndexedDB before
  each takes effect, while audio, local speech and the user act at once.
- The **settings** are read at a session's start; readiness answers, polled
  every four seconds, change them in memory.

What makes it hard:

- *Late results.* A reasoning item, a speech promise, a verdict, a permission,
  a store or a timer can belong to something that no longer exists.
- *Crossing reports.* The browser's playback state lags the host's: receipts
  for a superseded response, checkpoints of an old pause, PCM before `started`.
- *Lost receipts and sockets.* An accepted takeover waits for a receipt that a
  timer stands in for; a half-open socket swallows output until a heartbeat.
- *Pauses.* While the user talks over an answer, it is paused on both sides;
  each of the many ways the pause can end must be told to the browser and must
  leave the next response alone.
- *Ownership.* A child, a microphone, an engine or a store is opened in one
  continuation and closed in another, and either may be overtaken.
- *Bounded resources.* Two speeches on one progressive slot, one Pi child,
  eight pending finals, bounded queues.

What correctness means, per component:

| Component | It is correct when |
|---|---|
| Orchestrator | one audible response; a pause belongs to it and is always answered to the browser and ended; a turn is answered at most once; cancelled means silent; what enters the context was heard |
| Audio client, sidecar | two slots fit one slot; every finished speech ends; one worker synthesizes; what completed was handed on whole; host and sidecar follow the same utterance |
| Browser session | a begin that fails or is overtaken leaves no engine behind; the browser knows the phase; a final is handled at most once, after it was stored, in its own epoch |
| Transport and gateway | a command is handled at most once, and overtaken only by a report or a planning control; one socket owns a session; the browser is never silently stuck; an abandoned conversation stops |
| Pi clients | an answer reaches its own request only; whoever waits is told; readiness is about the settings asked for |
| Controller and player | one audible part; *completed* was heard; browser and host end up agreeing on what plays |
| Page and runtime | a microphone that is on is held by the running, stored session |
| Storage, recording | rows say what happened, whatever order events and reports came in; stores are open exactly while leased |
| Settings and voices | a session is sent what is stored; no voice crosses engines; the sidecar has the voices the browser stores |
| Qwen engine | one synthesis at a time, its frames in order and all of them |

The hazards, each at its line, with the properties that would catch them, are
in `PROJECT.json`; those no property covers are in sections 3 and 5.

## 2. What is modelled

### `SessionOrchestrator`

The whole class, in both of its modes: concise answers and, with `MultiPart`,
the research loop of `runLongResponse`. JavaScript runs a handler to its next
`await` without interruption, so **one handler is one action**, and each
continuation is an action of its own.

| In the model | In the code |
|---|---|
| `phase`, `epoch`, `active`, `provisional`, `acceptance`, `timedOutEpoch`, `userSpeaking`, `seenTurns` | the fields of the same meaning |
| `responses[r]` | the `ActiveResponse` object of responseId `r`; it outlives being active, because loops and promises still hold it |
| `ledger[r]` | the playback ledger; a response opens one playback at most |
| `deciding[t]` | the `await` in `decideInterruption` for turn `t`, with the pause it was started for |
| `pi[r]` | where the `for await` loop over Pi stands |
| `speech[r]` | the response's speech stream: its two promises and its sample count |
| `utterance[t]` | environment: what capture did with turn `t` and the epoch it was bound to |
| `wire[r]` | the events emitted about `r`, in order: what the browser can know |

| Action | Code |
|---|---|
| `HandleSpeechStart`, `HandleSpeechEnd` | the VAD brackets |
| `HandleStableFinal` | `handleStableFinal` up to its first `await`: the guards, the timed-out epoch, the pending takeover, the pause, or the policy and the start of a response |
| `FinishDecision` | `decideInterruption` after the classifier answered, failed or timed out |
| `ProvisionalTimeout`, `AcceptanceTimeout` | the two timers |
| `PlaybackPaused`, `PlaybackProgress`, `PlaybackStopped` | the browser's reports |
| `ConfirmBargeIn`, `RejectBargeIn`, `CancelCurrentTurn`, `Stop`, `Start` | commands |
| `PiStaleItem`, `PiDelta`, `PiFinal`, `PiError`, `PiEnd` | an item, or the end, of the reasoning loop |
| `SidecarStarted`, `GeneratedSamples`, `TtsStarted`, `TtsEnded`, `TtsFailed` | the speech stream: the sidecar's report, `onGeneratedSamples`, the continuations of `started` and `completion` |

`Answer`, `ResolveProvisional`, `DecideInterruption`, `FailResponse` and
`FinalizeAcceptedTakeover` are the private methods these share. A method that
runs inside a handler is part of that handler's action.

What is abstracted: transcripts are opaque turns, so the posture, the lexical
tests and the classifier's verdict are free choices; texts, tool activity,
notices and the challenge cooldown are left out; the samples of a stream are
counted up to `MaxSamples`; of the bounded context only *which* answers entered
it is kept.

What is assumed of the environment: the VAD brackets utterances and never
overlaps two; a final is handed in after its utterance ended, and may be handed
in again (the public method allows it, and its `seenTurns` guard exists for
that); a browser reports on playbacks it was told of, with offsets inside the
samples that reached it, and reports *completed* only after `tts.ended` and the
last sample; an aborted Pi request ends by itself or delivers an item already
on its way; a cancelled speech stream reports nothing any more.

`MCSessionOrchestrator` adds the symmetry of turn and response identifiers,
which no definition tells apart.

### `SpeechAdmission`

How a speech becomes audio: the audio client and the sidecar, composed over the
websocket between them, a FIFO each way. Three kinds of process interleave: the
client, single-threaded, one handler a step; the server, one command at a time,
except that a `tts.open` may wait on a fence (`opening`) and every command
behind it waits too; and one worker thread per speech, whose steps are the code
between two points where another thread can observe it.

| In the model | In the code |
|---|---|
| `host` | `failed` and `closing` of the client: whether it still listens |
| `client[s]` | the `PendingTts` of speech `s` and what the closures of its stream hold (`appendSequence`), with how far its promises settled |
| `queued` | the FIFO of speeches that wait for a slot |
| `toSidecar`, `toHost` | commands and messages on the wire |
| `server` | the server's end of the connection |
| `opening` | the speech whose fence `open_tts` waits on |
| `runtime` | `SelectedAudioRuntime.status`, ready or failed |
| `slot` | `StreamState.tts_stream`, the one progressive slot |
| `worker[s]` | the `TtsTextStream` of `s` and where its thread stands in `work()` |
| `refused` | history: the speech whose command ended the connection |

| Action | Code |
|---|---|
| `Begin`, `BeginAborted`, `AppendSpeech`, `Finish`, `Cancel`, `Release`, `Close` | the calls of the stream the client hands out |
| `TtsStarted`, `HandleBinary`, `TtsEnded`, `TtsCancelled`, `SidecarFailure`, `ConnectionFailure` | what the client receives; each includes the check that ends in `protocolFailure`, and `Retire` includes the flush of the queue |
| `ServeOpen`, `ServeOpenTimeout`, `ServeAppend`, `ServeCommit`, `ServeCancel`, `Disconnect` | the server's command loop with `open_tts`, `append_tts`, `commit_tts`, `cancel_tts`, `close_stream` |
| `WorkerCancelled`, `PassFences`, `TakeChunk`, `Audio`, `EndSpeech`, `WorkerExit` | the worker thread: its fences, its chunks, its frames, its three ways out |
| `AdapterFails`, `ReportPoison`, `FenceTimeout` | an engine that raises, a fence not opened in ten seconds; the default model poisons the runtime, and reports it only after the lock is released; an optional one degrades |

What is abstracted: a speech has one part (no caller passes `partIndex`);
epochs, voices and stream ids are echoed and always match; text is counted in
chunks, its SHA-256 by how many were hashed, audio in frames. The 64 chunks of
audio the client may hold back are compared but never reached. The end of a
connection is one step on each side, without the closing handshake and without
what the server does between the two (it waits for its workers and poisons a
runtime that does not stop). The size of the thread pool and the back-pressure
of the server's outgoing queue are left out.

What is assumed of the caller (`MayBegin`): it begins a speech under a fresh
id, when the one before is cancelled or over or, with `Prefetch`, finished; it
does not finish a speech it never fed; it releases a speech once it started.

### `SpeechPort`

The abstract specification: what `SpeechOutputPort` promises the orchestrator
of each speech. `started` and `completion` settle once and in order; the audio
handed to the browser only grows, only while a speech is started, and never
after it completed or was rejected. `SpeechAdmission` reads its promises off
the client's records and implements it (`ImplementsPort`). The orchestrator's
model assumes of the speech output what this module states: a cancelled speech
reports nothing any more, and samples come before completion.

### `SessionConnection`

How a browser stays connected: the reconnecting transport, the gateway and the
part of `BrowserSession` that attaches a socket. Per socket a FIFO each way,
whose path may be cut at any moment; timers fire whenever they are armed.

| In the model | In the code |
|---|---|
| `browser`, `queue`, `made`, `greeted` | the transport's fields, `queuedCommands`, the closure's `authenticated` |
| `near`, `far`, `path` | the two ends of each socket, and whether anything gets through |
| `session`, `alive` | the gateway's `Session`, `heartbeatAlive` |
| `talk`, `held`, `chain` | the `BrowserSession`, its `outboundQueue`, `messageChain` |
| `talk.plan` | `planningPromise` and the attempt behind it: none, running, cancelled by a `session.begin` that waits for it, or over |
| `done`, `seen` | history: commands acted on, frames taken |

| Action | Code |
|---|---|
| `SocketOpens`, `SocketGone`, `BrowserReceive`, `WatchdogFires`, `RetryDue`, `SendCommand`, `RefuseHost`, `Disconnect` | the transport's handlers and timers |
| `HostAuthenticates`, `HostReceives`, `HostClosed`, `AuthTimeout`, `Heartbeat`, `Pong` | the message and close handlers of `app.ts`, its timers |
| `GraceEnds`, `StopSettles`, `ApiStop`, `Expire`, `Handle`, `PreparationEnds`, `EmitFrame` | the end of a conversation, the chain of commands, `runPlanning`, `sendFrame` |

Command 1 is `session.open`; a keyed command replaces a queued older report of
the same playback; a command of `Controls` is a `planning.cancel`, a
`planning.retry` or a `session.stop`, and which of them is left open. The
gateway takes such a command ahead of the chain (`app.ts:774-782`): a stop only
while a preparation runs, the other two always, which is what `Bypasses` says.
`HostReceives` then acts on it at once (`Steer`), while the commands sent before
it may still wait in the chain, behind a `session.begin` that waits for the
preparation. One browser uses one session; a second tab is left out.

### `BrowserPlayback`

What the browser makes of the host's events and audio. The transport checks an
event when it arrives; the controller queues it and works through its queue one
event at a time, waiting for IndexedDB before the event has any effect.

| In the model | In the code |
|---|---|
| `host` | what the orchestrator says and hears of a response: the environment, in the order its handlers emit |
| `down`, `up` | the socket |
| `transport` | output bindings, what was refused |
| `part[r]` | `PlaybackPart` of `r` with its ledger and receipt |
| `ctl` | the controller: queue, step within an event, pause, deferred resume, speaking, pausing, degraded |

| Action | Code |
|---|---|
| `HostStep` | one handler of the host with all it emits |
| `Arrive` | the transport's checks, `handleAudio`, the part of `handleEvent` that runs at once |
| `Take`, `Stored`, `Silenced`, `Checkpointed`, `Reported` (`ControllerStep`) | the continuations of one queued event |
| `Play`, `ReportStored` | a buffer source ends; a receipt was stored |
| `Cancel`, `Pause`, `PauseSettles`, `Leaves` | the user |

### `PiRequests`

A Pi client: requests and the readiness probe take turns at one child process.
The client is one record and its methods are operators on it; an action is a
callback with all it runs, the promises it settles included. Each child has its
own commands and its own answer: the listener of its output stays until it is
dead, so a child that was told to end is read beside its successor. The history
flag `beside` says that a prompt was sent while an earlier child was dying.

| Action | Code |
|---|---|
| `Pull`, `Cancel` | the consumer's `next()` and abort |
| `Acquire`, `Start`, `AskProbe`, `AcquireProbe`, `ProbeDone` | the lock, starting a child, the probe |
| `Delta`, `MessageEnd`, `Settled`, `Response`, `Garbage` | records of a child, bad ones included, until it is dead |
| `AbortSettled`, `RequestTimeout`, `CommandTimeout` | cancellation and timers |
| `Exit`, `Die`, `Survive`, `Shutdown` | the child's end, signals, the client's end |

### `PiReadiness`

The probe of the host: one client for the settings asked for last, retired
before the next is made; two failures in a row before *ready* is taken back; a
snapshot that expires. Actions: `Probe`, `Answer`, `Retired`, `Expires`,
`Shutdown`, `ShutdownGoesOn`.

### `StoredTurns`

What IndexedDB keeps of a session, a turn, its response and its accounting.
Events and reports come on two lanes, each a transaction that may fail or be
delivered again later; a pause and a reload cut both. Actions: `CreateDraft`,
`UpdateDraft`, `Begin`, `Pause`, `End`, `Reload` (the session's row);
`HostEvent`, `PlanEvent` (the host lane); `Hear`, `ReportProgress`,
`ReportPaused`, `ReportStopped` (the player); `Redeliver`. A plan is about the
topic the host was asked for or about one the draft was edited to since
(`about`, `planned`); an event about another topic than the stored plan's is
ignored, and a start keeps the draft's plan only if it is about its topic.

### `LiveSession`

The page around a conversation and the runtime that owns its transport and
microphone. An action is what an asynchronous handler does between two awaits.
`RuntimeStep` is the runtime's (begin, its three waits, recovery after a
reconnect, end, a failed start, a lost transport); the others are the page's:
`StartDraft`, `Continue`, `ComposeOpens`, `StartBegins`, `StartDone`,
`StartFailed`, `StartRolledBack`, `PressBegin`, `Stop`, `StopEnds`, `Leave`,
`Pause`, `PauseDone`, `MicLost`, `Reload`. Two history fields, `again` and
`overtaken`, name the orders the code does not handle (section 3, *Known
defects*), which `MicrophoneIsOwned` excepts.

### `HostLive`

How the host takes a conversation live and back: preparation, `session.begin`
with the engine it opens, rollback, the capture gate and stop, with the
connection half of the audio client and a sidecar that allows one stream.
Commands run one after the other, except the planning controls, the end of a
conversation whose browser is gone, and a rollback nobody waits for. Actions:
`Connect`, `Readiness`, `WaitUntilReady`, `StreamOpened`, `SocketClosed`,
`SidecarOpens`, `SidecarCloses`, `SidecarFails` (the client and the sidecar);
`Open`, `Begin`, `RollbackBegin`, `AudioStart`, `AudioStop`, `PlanningEnds`,
`PlanningControl`, `SessionStop`, `PisDown` (the session).

### `Utterances`

An utterance from the microphone to a turn: the sidecar's endpointer cuts it
out, a worker transcribes it, the audio client follows it, the browser session
binds it to an epoch and hands it to the orchestrator when it is stored.
Actions: `Capture`, `Rebind`, `SidecarReads`, `Worker`, `HostReads`,
`EpochMoves`, `Store`, `Acknowledge`. The session remembers its last
acknowledgements (`UtAcks`, of which one is checked); a repeated one that is no
longer remembered closes the socket. What is handled is recorded with the epoch
the session is in at that moment.

### `QwenSpeech`

The optional engine: the caller, the adapter's inference and output threads
with a bounded queue each, a pipe of bounded size, and the isolated worker that
answers one command after the other. Actions of the worker: `WorkerPrepares`,
`WorkerPreparesClone`, `WorkerPrompts`, `WorkerStreams`, `WorkerResets`,
`WorkerCloses`, `WorkerDies`; of the caller: `Synthesize`, `Cancel`, `Relay`,
`Fail`, `Join`, `JoinFailed`; of the threads: `InferOpens`, `InferReads`,
`InferPuts`, `OutputTakes`, `OutputGives`; of other threads that hold the
adapter's lock: `Prepare`, `Reset`, `Close`, `Enroll`, `Remove`, `Answer`. The
adapter's own refusal of a language (`adapter.py:487`) is left out: the runtime
has refused it before (`runtime.py:238-245`), and nothing else calls `synthesize_stream`
with a language.

### `VoiceSettings`, `CustomVoices`, `ReferenceTakes`

`VoiceSettings` is the stored row, the model in memory that every readiness
answer reconciles, the dialog's draft, and the settings a session is sent
(`Poll`, `OnReadiness`, `PollFails`, `StorageReady`, `Load`, `LoadFails`,
`CustomVoicesChange`, `OpenDialog`, `CloseDialog`, `TypeName`, `SelectModel`,
`PickVoice`, `Commit`, `Save`, `SaveFails`, `Start`, `Resume`; `QwenChanges` and
`Reload` are the environment's). What else the user may edit is one number.

`CustomVoices` is the browser's references, its restore loop and its requests,
the host's one slot with its timeout (after which the sidecar still works), and
the sidecar's prompts, which a restart loses (`Poll`, `OnModels`, `Listed`,
`SyncGoesOn`, `SaveVoice`, `StoreSaves`, `List`, `Enrolled`, `DeleteVoice`,
`StoreDeletes`, `RenameVoice`, `Preview`, `PreviewEnrolled`, `PreviewEnds`,
`DialogCloses`; `HostTakes`, `HostPreviews`, `HostTimesOut`; `SidecarEnrols`,
`SidecarRemoves`, `SidecarRestarts`, `QwenRetires`). The history field `races`
names voices whose enrolment and deletion were under way together.

`ReferenceTakes` is the section of the dialog that records a reference, with a
recorder and a microphone per take (`Mount`, `Consent`, `Start`, `Granted`,
`Refused`, `Stop`, `Stopped`, `Upload`, `Discard`, `Unmount`). `doubtful` names
takes that were still asking when another was started or the dialog closed.

### `Recordings`, `ResourceLeases`

`Recordings` slices the captured frames by the host's VAD events, encodes one
item at a time, stores rows and names their turns, before, while or after the
row is stored, and exports them (`OnCaptureAudio`, `SpeechStart`, `SpeechEnd`,
`Recover`, `TtsStarted`, `OnPlaybackAudio`, `PlaybackStopped`,
`ResponseFailed`, `Encoded`, `Put`, `TranscriptFinal`, `UpdateTurnId`, `Stop`,
`Released`, `Reload`, `ToggleTrim`, `DeleteRecording`). `missed` names the
utterances whose final came during the store.

`ResourceLeases` is the shared lease on the local stores (`Acquire`, `Opened`,
`Assign`, `Release`, `Microtask`, `OpenedUnused`).

### `MCParts`

The parts above, `SessionConnection` apart, hold no state another one reads:
where they meet in the program (a transcript that becomes a turn, a voice a
session starts with), each module has the other end as its environment.
`MCParts` checks them in one run: the initial state picks one part, `PartsNext`
is that part's `Next`, and each property is the part's own, under its choice.
It adds no behaviour; a part can be checked alone with its own `Spec` and the
constants of `Parts.cfg`.

## 3. The runs

Deadlock is not checked: a session may stop, and an idle one may stay idle.
(That something must happen is the business of the liveness properties.)

| Run | Instance | Question and answer |
|---|---|---|
| `concise_lifecycle` | `MCSessionOrchestrator`: 2 turns, 2 responses, cancel and stop, fairness | A response lives, is superseded, heard and ended as promised: types, the accepted takeover, one answer per turn, one audible response, the ledger, the context, nothing after cancellation, every pause ends and every accepted takeover is processed. Holds. |
| `long_lifecycle` | the same, multipart, every command | Every pause the browser was told of is answered. Holds. |
| `long_takeover_lost` | as above, fairness | An accepted takeover is lost (finding 1). |
| `resume_while_speaking` | 3 turns, 1 response, no commands | Playback resumes while the user speaks (finding 2). |
| `speech_takeovers` | `MCSpeechAdmission`: 3 speeches of 1 chunk, cancellation, an open that misses its deadline, fairness | The client's two slots fit the sidecar's two workers and its one slot (`SlotsFit`), and a finished speech settles. Holds. |
| `speech_audio` | 2 speeches of 2 chunks, every call, failing adapters, fences that time out | One worker synthesizes, a completed speech reached the browser whole, the port's promises are kept. Holds. |
| `speech_queue_refused` | 3 speeches of 2 chunks, cancellation | A speech fed in the queue is refused when it is fed again (finding 3). |
| `connection` | `MCSessionConnection`: 2 sockets, 4 commands (2 keyed, 1 control), 2 frames, a queue of 2, 1 held frame, and one upset: a cut, a refusal or one of the three ends | No command is acted on twice, none overtakes another but a report or a planning control, frames are seen once and in order, one socket owns the session and nothing is written to a doubtful one, the browser is never silently stuck, an abandoned conversation stops. Holds. |
| `parts` | `MCParts`: the thirteen other parts, bounds below | The properties of each part. Holds. |
| `playback_failed` | `MCBrowserPlayback`: 1 response | A response that fails before it is audible ends the session (finding 4). |
| `rebind_refused` | `Utterances`: 4 frames, 2 utterances | The sidecar refuses a fresh capture (finding 5). |
| `settings_edits_lost` | `VoiceSettings`: 2 edits, 1 dialog, 2 polls | A readiness answer throws away what the user typed (finding 6). |

What `parts` asks of each part, and its bounds:

| Part | Properties | Bounds |
|---|---|---|
| `BrowserPlayback` | `OneVoice`: one part is audible. `CompletedWasHeard`: *completed* means every chunk was played and the host's stream had ended. `SettledAgree`: at rest, what plays is what the host owns, and what is muted belongs to its open pause | 2 responses of 1 chunk, 2 utterances, failures or commands, 2 messages ahead |
| `PiRequests` | `AnswerIsOwn`: no text of another request, unless a prompt was sent beside a dying child. `NobodyIsForgotten`: at rest nobody waits, and a stream without a final says it failed | 2 requests and a probe, answers of 2 deltas, a queue of 1, 2 children, 2 troubles |
| `PiReadiness` | `ReadinessIsCurrent`: the answer is about the settings asked for; one live client | 2 settings, 3 clients, 5 calls |
| `StoredTurns` | `StoredTurnIsTrue`: extents, text, closed responses and plans are what happened | 1 sample, 2 runs, 1 trouble |
| `LiveSession` | `MicrophoneIsOwned` | 2 sessions, 2 runtimes, 2 microphones, 1 trouble |
| `HostLive` | `EngineIsOwned`, `BrowserIsTold` | 2 clients, 2 streams, 2 attempts, 4 commands, 1 failure |
| `Utterances` | `TranscriptIsOwn`: a transcript becomes a turn once, stored, and while the session is still in the epoch its speech began in. `SpeakOfTheSame`: host and sidecar follow the same utterance | 6 frames, 2 utterances, 2 epochs, 1 pending final, 1 remembered acknowledgement, 2 chunks, 2 troubles |
| `QwenSpeech` | `SpokenInOrder`, `VoicesCanSpeak` | 2 syntheses of 2 chunks, 3 other operations, 2 voices, a pipe of 2, 1 trouble |
| `VoiceSettings` | `SentAsStored`, `VoiceOfItsEngine` | 2 edits, 1 dialog, 2 polls, 2 starts, 2 troubles |
| `CustomVoices` | `VoicesAgree` | 2 references, 2 voices at most, 1 operation of the user beside the restore loop, 1 trouble |
| `Recordings` | `RecordedAsSpoken` | 2 utterances, 1 playback, 1 trouble |
| `ResourceLeases` | `LeaseHolds` | 4 leases, 3 opens |
| `ReferenceTakes` | `MicIsReleased` | 3 takes, 1 trouble |

Why these bounds are enough. Two turns and two responses are what superseding,
a takeover and its answer, and a late result of the old response under the new
one need. A pause can be opened by one turn, taken over by the speech of a
second, and met by a final of either. One sample tells nothing, something and
everything generated apart; the extents below it are enumerated. `epoch`,
`provisionals` and the logs are bounded by the turns and responses that can
raise them.

Three speeches are what the queue needs: two hold the slots and the third
waits. The protocol of the frames needs two speeches, one ending while the
other goes on, with two chunks each, so that one is chunked before and one after
the release. A speech with one chunk already tells *started* from *ended*, and
`MaxFrames` of one a frame from none; the sequence numbers are compared as they
are. When a fence times out, `_poison` cancels a worker before it reports the
failure; its `tts.cancelled` may come first, which the client takes for a broken
protocol. The session ends in either order, so nothing is claimed of which.

Two sockets are the old and the new; a third adds nothing the takeover tells
apart. Of everything that is replaced (children, runtimes, engines, takes,
captures, epochs) there are two or three: one that is on its way out, one that
took its place and, where a rule speaks of a retry, one more. The troubles are
single failures at any point; two of them where the code counts failures or
recovers from a first one.

Fairness (`FairSpec` of `SessionOrchestrator`): weak fairness of the two timers,
because the event loop fires an armed timer, and of `FinishDecision`, because
the classification races a 2.5 s timeout of its own (`decideInterruption`).
Nothing is assumed of the user, the browser, Pi or the sidecar: the liveness
properties hold although none of them ever does anything again.

`FairSpec` of `SpeechAdmission`: weak fairness of what the host receives, of the
server's command loop and of each worker, because an event loop runs what is
ready and a thread is scheduled, with adapters that return. Nothing obliges the
caller: `FinishedSettles` starts from its `finish`, not from a `release`.

The other modules state safety only. Where one of them is about progress
(`NeverSilentlyStuck`, `AbandonedStops`, `NobodyIsForgotten`, the restore of
`VoicesAgree`) it says that in every state without progress something is armed
or under way that will cause it, which needs no fairness.

### Findings

1. **An accepted takeover is lost in multipart mode** (`long_takeover_lost`).
   `session-orchestrator.test.ts:1876` promises to process an accepted takeover
   when its terminal receipt is lost. Accepting aborts the response, which ends
   the research client's queue; the end of `runLongResponse` (line 684) takes
   *no longer current* for *failed* and clears `active`. Then neither the
   receipt nor the timer finalizes the takeover, and later finals are dropped
   until the user speaks again or cancels. The concise loop returns instead.
   In multipart mode `AcceptanceOwnsResponse` and `CancelledIsFinal` fail for
   the same reason and are therefore claimed of the concise mode only.
2. **Playback resumes while the user speaks** (`resume_while_speaking`). The
   comments at lines 714 and 1124 say it never does. The final of an earlier
   utterance that arrives during a newer one is decided with `userSpeaking`
   true, and `resolveProvisional` resumes. The browser's controller
   (`controller.ts:148`) defers such a resolution, so the host relies on it.
3. **A speech fed while it was queued breaks the connection**
   (`speech_queue_refused`). The comments at `AudioClient.ts:885` and `:902` say
   that a queued speech is buffered and its commands replayed in order. They
   are, as sequences 0, 1, ..., but the counter its closure appends with stays
   at 0. The next `append` repeats a sequence, a `finish` commits the wrong
   count, the sidecar refuses either and closes the connection.
4. **A failed response ends the session** (`playback_failed`). The host sends
   `response.failed`, then `response.cancelled`, and calls the failure
   recoverable (`SessionOrchestrator.ts:1249`). The transport forgets the
   response on the first and takes the second for a protocol error.
   `websocket-transport.test.ts:878` tests it without the second event.
5. **A fresh capture is refused** (`rebind_refused`). `BrowserSession.ts:717`
   says that a fresh capture can always take ownership. The audio client sends
   `stream.reset`, which carries no capture number; the sidecar keeps the number
   of `stream.open` and refuses the frames, which ends the stream.
6. **Edits are lost in the settings dialog** (`settings_edits_lost`). With voice
   profiles in the readiness answer, which the end-to-end test removes, every
   poll makes a new object, and the dialog's effect resets the draft to the
   stored settings; `Save` then stores the old values.

### Known defects without a run

The models reach these too. Either no document speaks of them, or the property
that would show them is the exception a checked property names.

- *Conversation.* `playbackStopped` gives up a response without aborting its
  speech (`SessionOrchestrator.ts:896`); the recovery timer's epoch swallows a
  later final (1127); a resume is not checked again after its write
  (`controller.ts:353`), so a second provisional may leave the player audible;
  an output the browser ends by itself makes the PCM in flight a protocol error
  (`websocket-transport.ts:590`); PCM before the stored `tts.started` is dropped
  and the part never completes.
- *Connection.* A socket the watchdog abandons is never closed and may be
  admitted (`websocket-transport.ts:370`); the one handshake timer is cleared by
  whichever socket closes (141); after the grace stop a browser gets a fresh
  conversation that was never opened and retries forever (`app.ts:832`).
- *Pi.* A request that fails before its prompt is answered, or by a full queue,
  gives the ownership up before its child is dead. The exit of that child then
  fails the request of the new one (`pi-process.ts:201`), and its late text is
  taken for the new one's (`pi-process.ts:195`, `PiClient.ts:359`), which
  `AnswerIsOwn` excepts: `SerializedOwnership`, which
  `docs/decisions/007-multi-part-responses.md:104` promises, does not hold.
- *Live session.* `beginLive` looks at nothing again after its waits
  (`live-runtime.ts:322`); the card with Begin stays after going live
  (`SessionScreen.tsx:310`); `start` does not look at what `stop` and `pause`
  are doing (`App.tsx:604`). Each can leave a microphone on.
- *Host.* A rollback of `audio.stop` reports *prelive* over a later begin
  (`BrowserSession.ts:750`); a failed audio connection closes the socket with
  every recovering `audio.start`; an acknowledgement of a stale epoch closes it.
- *Storage.* A pause that ends by its timer leaves a response shown as paused
  after a reload though it was heard (`stable-turn-writer.ts:683`,
  `CompletedIsShown`).
- *Recording.* A final that comes while the row is being stored leaves a row
  without a turn (`recorder.ts:147`).
- *Qwen.* After a cancelled synthesis over the isolated worker, the frames left
  in the pipe are the first of the next one (`qwen_subprocess.py:218`), which
  `test_qwen3.py:273` rules out for the backend in the same process; a voice
  enrolled after the last one was removed fails, because the worker keeps its
  clone model (`qwen_worker.py:98`).
- *Voices.* A deletion that meets an enrolment leaves a voice in the sidecar; a
  deletion fails with the sidecar although `docs/decisions/009` has the row go
  first; the fallback to Kokoro stays in memory, and a save stores it.
- *Takes.* A second click on *Record reference*, or closing the dialog, while
  the browser asks for permission leaves a microphone on.

## 4. What is proved

TLC checks every property below on a small instance; TLAPS proves it for every
value of the constants, from the assumption that is named. A theorem of a part
of `MCParts` is one of `PartsSpec`, the specification the run checks.

| Module | Theorems |
| --- | --- |
| `SessionOrchestratorProofs` | `TypeCorrect`, `PauseOwnership`, `AnsweredOnce`, `TakeoverOwned` |
| `SessionPlaybackProofs` | `LedgerBounded`, `DeliveryNeverUndone`, `OneAudible`, `OnlyHeardIsContext`, `PauseAnswered`, `CancelledSaysNoMore` |
| `SpeechAdmissionProofs` | `Serialized`, `KeepsPromises`, `CompletedInFull` |
| `SessionConnectionProofs` | `ConnectionTypes`, `NeverStuck`, `OneOwner`, `AbandonedConversationStops`, `OnceAndInOrder` |
| `BrowserPlaybackProofs` | `OneIsAudible`, `CompletedHeard` |
| `BrowserPartsProofs` | `LeasesHold`, `MicReleased`, `StoredIsSent`, `VoiceKeepsToItsEngine`, `TurnIsTrue`, `VoicesStayAgreed` |
| `HostPartsProofs` | `ReadinessCurrent`, `TranscriptOwned` |
| `HostLiveProofs` | `EngineOwned`, `BrowserTold` |

### The conversation

For every set of turns and responses, every number of samples, every set of
commands and both modes: `TypeCorrect` (`[]TypeOK`), `PauseOwnership`
(`[]ProvisionalOwnsActive`), `AnsweredOnce` (`[]TurnAnsweredOnce`),
`LedgerBounded` (`[]LedgerWithinStream`), `DeliveryNeverUndone`
(`DeliveryMonotone`), `OneAudible` (`[]OnlyActiveIsAudible`),
`OnlyHeardIsContext` (`[]ContextWasHeard`) and `PauseAnswered`
(`[]PauseIsAnswered`); in concise mode also `TakeoverOwned`
(`[]AcceptanceOwnsResponse`) and `CancelledSaysNoMore` (`CancelledIsFinal`).

The argument. `TypeOK` is not inductive: `FinalizeAcceptedTakeover` starts a
response for `acceptance.turn`, which must be a turn and not *undefined*.
`TypeInv` adds that an acceptance that names a response names a turn; each
action group has a lemma, and each shared helper one that the group lemmas
cite.

`ProvisionalOwnsActive` is not inductive either. `PauseInv` adds what a step
needs to know of the state before it: without a pause its record is clean; an
active response is one of the current epoch, or one that waits for an accepted
takeover; a pending takeover and a pause exclude each other; the phase
`playing` means that the active response is announced, not cancelled and not
terminal, because `handleSpeechStart` opens a pause on the strength of the
phase alone; a stopped session has no active response; a responseId that was
not minted yet has neither playback nor ledger. The theorem also shows that
some guards of the code can never fail: a pause whose response is not the
active one (`decideInterruption`, `resolveProvisional`) does not exist.

`LedgerWithinStream` needs `LedgerInv`: the samples a response counted are
samples of its stream; the ledger is untouched until the handler of `started`
runs; a response names its playback only when the ledger is open; a responseId
not minted yet has no stream. Every step outside the speech output either
leaves a stream alone or opens the one of a new response (`StreamsKept`), and
changes a ledger only as a playback report does (`Delivered`); one lemma carries
both over the invariant and shows the action property on the way.
`OnlyActiveIsAudible` then needs one fact about every action (`Handover`): who
stops being active is aborted in the same step, or that step is its terminal
receipt.

`TurnAnsweredOnce` rests on what may still be answered without a new final: the
turn being classified, the one that waits for the checkpoint, and the one whose
takeover was accepted. `TurnInv` says that these are seen and unanswered
(`AwaitedIsUnanswered`), and that answered turns are seen ones until `stop()`
forgets them (`AnsweredIsSeen`), after which nothing is answered. It includes
`PauseInv`, because a verdict finds its turn only in a pause that still exists.
`AcceptanceOwnsResponse` adds `TakeoverHeld`, which says the same without the
abort and the turn, and `TimedOutIsPast`; what keeps it is that no code but
the takeover's own runs for an aborted response (`TakeoverIsAlone`). That is
where `~MultiPart` is used, and only there: the end of `runLongResponse`'s loop
fails a response that is no longer current, which is what `long_takeover_lost`
shows.

`ContextWasHeard` needs to know that nothing touches a response after it entered
the context. `ContextInv` says of each response (`Settled`) that its reasoning
loop is over once its text is complete, so that no failure can come, and that
the ledger of the response being given is open while it plays and complete once
its stream has ended, so that the extent the browser reports in full is all
there was. Every step leaves all responses but one as they are (`Kept`).

`PauseIsAnswered` is about the log of what the browser was told. A pause is
*open* in it when the announcement has no answer after it; only an announcement
opens one, and every handler that drops the pause - a verdict, a timer, a
command, a receipt, a failure - appends the answer as the last word in the same
step. So the log of a response is open only while the pause is its own
(`FailPause`, `PauseUntouched` and `PauseBegins` carry this over the helpers).

`CancelledIsFinal` needs to know which responses are ever aborted: `FinalInv`
adds to `PauseInv` that only one that answers a turn is (`CancelledWasGiven`), so
that a response that is started anew was not aborted before. Each handler then has its
last word about an aborted response (`LastWord`). It holds with
`MultiPart = FALSE`, which is the run that checks it: in multipart mode the end
of `runLongResponse` reports the failure of a response that a takeover
cancelled.

The assumption used is `ConstantsOK`: `None` is no turn, no response and no
number, `MultiPart` is Boolean, `MaxSamples` is a natural number.

### The speech output

For every set of speeches, every number of chunks and frames, every set of
calls and every set of faults: `Serialized` (`[]OneSynthesis`), `KeepsPromises`
(`ImplementsPort`, the refinement of `SpeechPort`) and `CompletedInFull`
(`[]CompletionIsWhole`).

`OneSynthesis` says nothing of a worker that still waits, so it is not
inductive. `FencesOrder` adds it: of two waiting workers one is a fence of the
other, and an active worker is a fence of every one that waits. A worker that
passes its fences is then alone, because another active one would be among
them; a new worker takes all live ones for fences; every other step leaves the
fences alone and moves a worker onward (`Onward`), which can only help.

The refinement rests on `PortInv`. `Orderly` says of each record of the client
that a speech that was not cut off has not completed, and that its start is
resolved exactly when the sidecar announced it. `Queueing` says that the queue
holds each waiting speech once. `Wires` says that the sidecar has never heard
of a speech that is not begun or still waits, so that what it reports is never
about one in the queue: without it, the end of a speech could be the end of the
one that takes its slot in the same step. Each action then changes one record as
the port allows (`Moved`) and leaves the others as the port sees them (`Quiet`),
or fails them all (`FailAllKept`); `OneMoved`, `SomeDropped` and `AllQuiet` turn
that into a step of the port. The sidecar's own steps are stutters.

`CompletionIsWhole` compares two ends of the wire. `WholeInv` says that the
frames the client counts are the ones it was sent, that a `tts.ended` on its
way counts what its worker generated and that worker is over, and that a speech
is opened at the sidecar once, so that no later worker of the same name makes
the count another's.

The assumption used is `SpeechConstantsOK`: speeches are natural numbers, the
bounds are positive.

### The connection

For every number of sockets, commands, frames and cuts,
`SessionConnectionProofs` proves the types, `NeverSilentlyStuck`, `SoleOwner`,
`AbandonedStops` and `DeliveredOnce`, from `ConnectionConstantsOK`. The
invariant comes in layers, each of which includes the one before:

- `TransportInv`: the browser is ready to go on, it queues only while it is not
  connected, and the sockets that exist are those it opened;
- `AdmissionInv`: the gateway counts the one socket it admitted, and the
  conversation writes to that one while its pings are answered;
- `GreetedInv`: only a socket that was admitted is greeted, a command is sent
  only on a greeted one, and none that is still a member was greeted before a
  later socket was;
- `CommandsInv`: from the oldest to the newest, commands are done, in the chain,
  on the wire of the member, and in the queue; a report may overtake only in the
  place of an older one, and a planning control those in the chain;
- `FramesInv`: the same of the frames: seen, on the way, held; and they are of
  the one conversation that command 1 opened.

`SoleOwner` and `AbandonedStops` need the second, `DeliveredOnce` all of them.

### The player

For every number of responses, chunks, queued messages and commands,
`BrowserPlaybackProofs` proves `OneVoice` and `CompletedWasHeard`. `PlaybackInv`
has, beside the types, `Announcements` (a response is announced once, and has no
player before its announcement is worked off), `Voices` (only the active
response has a live player, and one whose report is being stored has stopped)
and `Counts` (every end that is on its way, queued or being worked off tells the
number of chunks that were sent of a stream that is over, and all of them have
come when the browser takes it up; so a player that played its total played
everything).

### The parts

A step of `PartsSpec` is a step of the part that was chosen (`StepOfPart`), so
each invariant is about one part's record and says `Off` of the others.

- *Leases* (`LeaseInv`): what is opening or open is the one open that is shared
  (`OneShared`), what a holder was given was not closed since and what it
  assigned is open (`HeldIsAlive`), the references are some holder's
  (`RefIsHeld`), and while nobody holds a lease the close of what is pending is
  scheduled or waited for (`CloseIsComing`). Closing then happens only when
  nobody holds anything, which is why the references cannot name what was
  closed: the last release took them away.
- *Takes* (`TakeInv`): a take that is not doubtful is the one its section waits
  for while it asks (`AskingIsOwned`) and shows while it records
  (`RecordingIsOwned`), and no other asks beside it (`AsksAlone`): an answer to
  another take, which would change what the section shows, cannot come between.
- *Readiness* (`ReadinessInv`, from `RpClients \in Nat`): the answers of a probe
  are of its own settings, and one client lives.
- *Start and stop of a conversation* (`HlInv`, from `HlClients, HlAttempts \in
  Nat`): the engine that is connected is the one the session has, and the command
  under way is about it (`HlOwned`); a stream is opened for the command that waits
  for it (`HlOpening`); a preparation runs only before a session is live, and its
  notes are the ones that were shown (`HlPrepared`); once the stop is past the
  engine, none is connected and nothing is prepared (`HlStops`); and the phase
  told last is the session's, unless a rollback overlapped (`HlPhased`).
- *Utterances* (`UtInv`, from `UtUtterances, UtLoud \in Nat`): an utterance is
  announced once and before anything else is said of it (`UtStarted`), its
  transcript is said once and by the worker that is done with it
  (`UtTranscribed`), what is stored waits for the browser or was acknowledged
  (`UtKeeps`), what waits was not acknowledged and waits once (`UtWaits`), and
  what was handled was acknowledged, while the session was in the epoch it began
  in (`UtHandles`): an entry waits under the epoch of its speech, and is taken
  only when the session's is the same. What the sidecar and its worker
  may do in one step is summed up once (`UtMoveKeeps`).
- *Settings* (`VsInv`, nothing assumed of the bounds): in every place a voice can
  be - memory, row, draft, what is being written, what a session froze, what was
  sent - it is of its own engine (`VsOwned`); no catalogue is shown of an engine
  that was not reported (`VsShown`); and memory agrees with the row until
  something excuses it, such as the fallback (`VsStored`).
- *Stored turns* (`StInv`, from `StSamples \in Nat`): what the receipt says was
  delivered is what the turn says (`StDelivered`), its text and number are those
  of the last final (`StSaid`), nothing is delivered to a session that does not
  run and what ended says why (`StEnded`), whatever was redelivered.
- *Voices* (`CvInv`, from `CvJobs \in Nat`): what is about to be enrolled is
  stored, or its race with the deletion is noted; a voice whose removal was
  answered is gone; page and store differ only while somebody is about to list;
  what was said of the sidecar is true until something overtakes it; and at rest
  nothing is missing or the last attempt failed.

### Model-checked only

The liveness properties and everything that is `ENABLED` (beyond the prover).
`DeliveryMonotone` is the other way round: it is proved, and no run repeats it.
Of the safety properties,

- `SlotsFit` holds only of the instance without the faults `fence` and
  `adapter`: its invariant must follow the whole sequence of commands on the
  wire;
- `SettledAgree` compares the browser with the host's own account of what it
  sent, over every order in which the two may still be on the wire;
- `AnswerIsOwn` and `NobodyIsForgotten` (the Pi clients), `MicrophoneIsOwned`,
  `RecordedAsSpoken` and `SpeakOfTheSame`: the last one is about which message
  follows which in the stream, a grammar rather than a relation of two states.
- `SpokenInOrder` and `VoicesCanSpeak` (the Qwen engine).

## 5. What is not modelled, and the plan

Not modelled for good: the STT and TTS engines (numeric inference), sample
mixing and encoding, process supervision beyond the children's lives, the
validation and framing of the contracts, the rendering of the user interface,
the archive writer, benchmarks, scripts and lint rules. Left out of a modelled
part, each in the note of its component: a second tab on the same session, tool
activity, the scores of the policy and of the classifier, how an assembler cuts
a sentence.

Planned, most important first:

1. `Conversation`: `SessionOrchestrator` composed with `SpeechAdmission` through
   `SpeechPort`, so that the caller's side of the port is the code's and not an
   assumption; in particular the response `playbackStopped` gives up without
   cancelling its speech.
2. `SessionOrchestrator` composed with `BrowserPlayback` over the wire, in
   place of the host's side that `BrowserPlayback` summarises.
3. `ResponseLifecycle`: the abstract life of a response (announced, audible,
   over), refined by `SessionOrchestrator`.
4. Pure algorithms against reference definitions: the policy's `decide`, the
   splice plan, the assemblers.
5. Theorems: `SlotsFit`, `AnswerIsOwn`, `SettledAgree` and the step part of
   item 3.
