-------------------------- MODULE SpeechAdmission --------------------------
(***************************************************************************)
(* How a speech becomes audio: the host's AudioClient (apps/host/src/      *)
(* sidecar/AudioClient.ts) admits at most two speeches to the sidecar and  *)
(* queues the rest; the sidecar (services/audio/src/server.py, runtime.py) *)
(* gives each admitted speech a worker thread that waits for its           *)
(* predecessors, synthesizes, and reports how it ended.                    *)
(*                                                                         *)
(* The parties meet on one websocket, a FIFO each way.  The client is      *)
(* single-threaded; the server handles one command at a time, though       *)
(* tts.open may wait; workers run in threads of their own, and a step of a *)
(* worker here is the code between two points another thread can observe.  *)
(*                                                                         *)
(* A speech is one responseId (no caller at this commit passes partIndex). *)
(* Epochs, voices and output stream ids are echoed and always match; text  *)
(* is counted in appended chunks, its SHA-256 by how many were hashed, and *)
(* audio in frames.  The thread pool's bound, shared with the transcriber, *)
(* and the back-pressure of the server's outgoing queue are left out.      *)
(***************************************************************************)
EXTENDS Integers, FiniteSets, SequencesExt

CONSTANTS
    Streams,        \* responseIds, numbered in the order they are minted
    None,           \* `undefined', None
    MaxAppends,     \* bound on the chunks of text of one speech
    MaxFrames,      \* bound on the frames of audio of one chunk
    Calls,          \* what the caller does in this instance besides speaking
    Prefetch,       \* may the caller begin a speech once the last is committed
    Faults          \* what goes wrong in this instance: adapters, fences, deadlines

ASSUME SpeechConstantsOK ==
    /\ Streams \subseteq Nat
    /\ None \notin Streams
    /\ MaxAppends \in Nat \ {0}
    /\ MaxFrames \in Nat \ {0}
    /\ Calls \subseteq {"abort", "cancel", "close", "release"}
    /\ Prefetch \in BOOLEAN
    /\ Faults \subseteq {"adapter", "fence", "deadline"}

VARIABLES
    host,           \* AudioClient.failed, closing: whether it still listens
    client,         \* per speech: its PendingTts and what its closures hold
    queued,         \* AudioClient.queued
    toSidecar,      \* commands on the wire
    toHost,         \* messages on the wire
    server,         \* the server's end of the connection
    opening,        \* the speech whose fence a tts.open waits on
    runtime,        \* SelectedAudioRuntime.status
    slot,           \* StreamState.tts_stream
    worker,         \* per speech: its TtsTextStream and where its worker stands
    refused         \* the speech whose command the sidecar refused

vars == <<host, client, queued, toSidecar, toHost, server, opening, runtime,
          slot, worker, refused>>

clientVars == <<host, client, queued>>
sidecarVars == <<server, opening, runtime, slot, worker, refused>>

MAX_ADMITTED_TTS == 2
MAX_BUFFERED_OUTPUT_CHUNKS == 64
WorkerBound == 2        \* len(state.tts) < 2 in open_tts

(* The fields of a PendingTts before begin() creates it.                   *)
Unbegun ==
    [stage |-> "unused",        \* unused, queued, admitted, gone
     cutoff |-> FALSE,          \* cancelled, or failed by failAll
     fed |-> 0,                 \* chunks appended, all of them hashed
     finished |-> FALSE,        \* finish() was called
     appendSequence |-> 0,      \* the closure's counter
     buffered |-> 0,            \* bufferedAppends
     sidecarStarted |-> FALSE,  \* and playbackId is known
     received |-> 0,            \* receivedSamples, expectedSequence
     released |-> FALSE,
     held |-> 0,                \* chunks of audio not yet released
     sunk |-> 0,                \* frames given to binarySink
     start |-> "pending",       \* the promises: pending, resolved, rejected
     completion |-> "pending"]

(* A TtsTextStream before open_tts creates it.                             *)
Unopened ==
    [stage |-> "none",          \* none, fenced, listening, synthesizing,
                                \* poisoning, terminal, done
     cancelled |-> FALSE,       \* CancellationToken
     chunks |-> 0,
     next |-> 0,                \* next_sequence; as many chunks are hashed
     committed |-> FALSE,
     started |-> FALSE,
     generated |-> 0,           \* generated_samples, output_sequence
     left |-> 0,                \* frames the adapter still has for this chunk
     fences |-> {}]             \* prior_fences

Init ==
    /\ host = "open"
    /\ client = [s \in Streams |-> Unbegun]
    /\ queued = <<>>
    /\ toSidecar = <<>>
    /\ toHost = <<>>
    /\ server = "open"
    /\ opening = None
    /\ runtime = "ready"
    /\ slot = None
    /\ worker = [s \in Streams |-> Unopened]
    /\ refused = None

Pending(s) == client[s].stage \in {"queued", "admitted"}

(* The speeches that hold a slot.  Mutant: a cancelled one gives its slot  *)
(* back at once.                                                           *)
MutantAdmitted == {s \in Streams : client[s].stage = "admitted" /\ ~client[s].cutoff}

Admitted == {s \in Streams : client[s].stage = "admitted"}

(* state.tts and state.tts_done: a worker leaves them as its last act.     *)
Live == {s \in Streams :
            worker[s].stage \in {"fenced", "listening", "synthesizing", "poisoning",
                                 "terminal"}}

(* Insertion order of state.tts_done: every live speech that was there     *)
(* first is a fence of those after it.                                     *)
Oldest == CHOOSE s \in Live : \A t \in Live \ {s} : s \in worker[t].fences

-----------------------------------------------------------------------------
(* AudioClient                                                             *)

Open(s) == [type |-> "tts.open", speech |-> s, sequence |-> 0, hashed |-> 0]
AppendText(s, n) == [type |-> "tts.append", speech |-> s, sequence |-> n, hashed |-> 0]
Commit(s, n, h) == [type |-> "tts.commit", speech |-> s, sequence |-> n, hashed |-> h]
CancelTts(s) == [type |-> "tts.cancel", speech |-> s, sequence |-> 0, hashed |-> 0]

Send(messages) ==
    toSidecar' = IF server = "open" THEN toSidecar \o messages ELSE toSidecar

(* rejectPending: each promise that has not settled is rejected.           *)
RejectPending(c) ==
    [c EXCEPT !.cutoff = TRUE, !.held = 0,
              !.start = IF @ = "pending" THEN "rejected" ELSE @,
              !.completion = IF @ = "pending" THEN "rejected" ELSE @]

(* failAll: every pending speech is rejected and forgotten.                *)
FailAll ==
    /\ client' = [s \in Streams |->
                    IF Pending(s)
                    THEN [RejectPending(client[s]) EXCEPT !.stage = "gone"]
                    ELSE client[s]]
    /\ queued' = <<>>

(* What the orchestrator keeps to when it begins a speech, each under a    *)
(* fresh id: the one before is cancelled or over.  Decision 007 lets a     *)
(* committed one be followed.                                              *)
MayBegin(s) ==
    /\ client[s].stage = "unused"
    /\ \A t \in Streams :
        /\ t < s => client[t].stage # "unused"
        /\ Pending(t) => client[t].cutoff \/ (Prefetch /\ client[t].finished)

Begin(s) ==
    /\ host = "open"
    /\ MayBegin(s)
    /\ \/ /\ Cardinality(Admitted) < MAX_ADMITTED_TTS
          /\ client' = [client EXCEPT ![s].stage = "admitted"]
          /\ Send(<<Open(s)>>)
          /\ UNCHANGED queued
       \/ /\ Cardinality(Admitted) >= MAX_ADMITTED_TTS
          /\ client' = [client EXCEPT ![s].stage = "queued"]
          /\ queued' = Append(queued, s)
          /\ UNCHANGED toSidecar
    /\ UNCHANGED <<host, toHost, sidecarVars>>

(* begin() with a signal that is aborted already.                          *)
BeginAborted(s) ==
    /\ "abort" \in Calls
    /\ host = "open"
    /\ MayBegin(s)
    /\ client' = [client EXCEPT ![s] = [RejectPending(@) EXCEPT !.stage = "gone"]]
    /\ UNCHANGED <<host, queued, toSidecar, toHost, sidecarVars>>

AppendSpeech(s) ==
    /\ Pending(s) /\ ~client[s].cutoff /\ ~client[s].finished
    /\ client[s].fed < MaxAppends
    /\ \/ /\ client[s].stage = "queued"
          /\ client' = [client EXCEPT ![s].fed = @ + 1, ![s].buffered = @ + 1]
          /\ UNCHANGED toSidecar
       \/ /\ client[s].stage = "admitted"
          /\ client' = [client EXCEPT ![s].fed = @ + 1, ![s].appendSequence = @ + 1]
          /\ Send(<<AppendText(s, client[s].appendSequence)>>)
    /\ UNCHANGED <<host, queued, toHost, sidecarVars>>

(* The orchestrator never finishes a speech it has not fed.                *)
Finish(s) ==
    /\ Pending(s) /\ ~client[s].cutoff /\ ~client[s].finished
    /\ client[s].fed > 0
    /\ client' = [client EXCEPT ![s].finished = TRUE]
    /\ IF client[s].stage = "queued"
       THEN UNCHANGED toSidecar
       ELSE Send(<<Commit(s, client[s].appendSequence, client[s].fed)>>)
    /\ UNCHANGED <<host, queued, toHost, sidecarVars>>

(* cancel(), also called when the signal aborts.  An admitted speech keeps *)
(* its slot until the sidecar reports it terminal; a queued one is always  *)
(* in the queue (see SlotsFit), whence removeQueued() takes it.            *)
Cancel(s) ==
    /\ "cancel" \in Calls
    /\ Pending(s) /\ ~client[s].cutoff
    /\ \/ /\ client[s].stage = "queued"
          /\ client' = [client EXCEPT ![s] = [RejectPending(@) EXCEPT !.stage = "gone"]]
          /\ \E i \in 1..Len(queued) :
                queued[i] = s /\ queued' = RemoveAt(queued, i)
          /\ UNCHANGED toSidecar
       \/ /\ client[s].stage = "admitted"
          /\ client' = [client EXCEPT ![s] = RejectPending(@)]
          /\ Send(<<CancelTts(s)>>)
          /\ UNCHANGED queued
    /\ UNCHANGED <<host, toHost, sidecarVars>>

(* release(): the caller calls it once `started' has resolved.             *)
Release(s) ==
    /\ "release" \in Calls
    /\ Pending(s) /\ client[s].sidecarStarted
    /\ ~client[s].cutoff /\ ~client[s].released
    /\ client' = [client EXCEPT ![s].released = TRUE, ![s].held = 0,
                                ![s].sunk = @ + client[s].held]
    /\ UNCHANGED <<host, queued, toSidecar, toHost, sidecarVars>>

(* close(): stream.close and the closing handshake reach the server as one *)
(* end of the connection.                                                  *)
Close ==
    /\ "close" \in Calls
    /\ host = "open"
    /\ host' = "closed"
    /\ FailAll
    /\ toHost' = <<>>
    /\ UNCHANGED <<toSidecar, sidecarVars>>

(* flushQueue(): what a queued speech has to say when a slot frees.        *)
Backlog(s) ==
    <<Open(s)>>
    \o [i \in 1..client[s].buffered |-> AppendText(s, i - 1)]
    \o IF client[s].finished
       THEN <<Commit(s, client[s].buffered, client[s].fed)>>
       ELSE <<>>

(* Mutant: the queue is not flushed.                                       *)
MutantRetire(s, retired) ==
    /\ client' = [client EXCEPT ![s] = retired]
    /\ UNCHANGED <<queued, toSidecar>>

(* The speech at the head of the wire is over for the sidecar: its slot    *)
(* goes to the head of the queue.  Only one frees at a time, so the loop   *)
(* of flushQueue() runs once at most.                                      *)
Retire(s, retired) ==
    IF queued = <<>>
    THEN /\ client' = [client EXCEPT ![s] = retired]
         /\ UNCHANGED <<queued, toSidecar>>
    ELSE /\ client' = [client EXCEPT ![s] = retired, ![Head(queued)].stage = "admitted"]
         /\ queued' = Tail(queued)
         /\ Send(Backlog(Head(queued)))

(* protocolFailure(): the sidecar broke the protocol; the socket is closed.*)
ProtocolFailure ==
    /\ host' = "protocol_failure"
    /\ FailAll
    /\ toHost' = <<>>
    /\ UNCHANGED toSidecar

Receiving(type) ==
    /\ host = "open"
    /\ toHost # <<>>
    /\ Head(toHost).type = type

TtsStarted ==
    /\ Receiving("tts.started")
    /\ LET s == Head(toHost).speech IN
        IF Pending(s) /\ ~client[s].sidecarStarted
        THEN /\ client' = [client EXCEPT ![s].sidecarStarted = TRUE,
                                         ![s].start = IF client[s].cutoff THEN @ ELSE "resolved"]
             /\ toHost' = Tail(toHost)
             /\ UNCHANGED <<host, queued, toSidecar>>
        ELSE ProtocolFailure
    /\ UNCHANGED sidecarVars

(* Mutant: a frame of a speech that is cut off is passed on.               *)
MutantTakenFrame(c) ==
    [c EXCEPT !.received = @ + 1,
              !.sunk = IF c.released THEN @ + 1 ELSE @,
              !.held = IF ~c.released THEN @ + 1 ELSE @]

(* handleBinary(): a frame of a speech that is cut off is counted, and     *)
(* dropped; before the release it is held back.                            *)
TakenFrame(c) ==
    [c EXCEPT !.received = @ + 1,
              !.sunk = IF ~c.cutoff /\ c.released THEN @ + 1 ELSE @,
              !.held = IF ~c.cutoff /\ ~c.released THEN @ + 1 ELSE @]

HandleBinary ==
    /\ Receiving("frame")
    /\ LET s == Head(toHost).speech IN
        IF /\ Pending(s) /\ client[s].sidecarStarted
           /\ Head(toHost).count = client[s].received
           /\ TakenFrame(client[s]).held <= MAX_BUFFERED_OUTPUT_CHUNKS
        THEN /\ client' = [client EXCEPT ![s] = TakenFrame(@)]
             /\ toHost' = Tail(toHost)
             /\ UNCHANGED <<host, queued, toSidecar>>
        ELSE ProtocolFailure
    /\ UNCHANGED sidecarVars

(* Mutant: what was held back is dropped with the speech.                  *)
MutantCompleted(c) ==
    [c EXCEPT !.stage = "gone", !.completion = "resolved", !.held = 0]

(* ttsEnded(): a speech that was not released yet is flushed first.        *)
Completed(c) ==
    [c EXCEPT !.stage = "gone", !.completion = "resolved",
              !.sunk = @ + c.held, !.held = 0]

TtsEnded ==
    /\ Receiving("tts.ended")
    /\ LET s == Head(toHost).speech
           c == client[s]
       IN  IF /\ Pending(s) /\ c.sidecarStarted
              /\ Head(toHost).count > 0 /\ Head(toHost).count = c.received
           THEN /\ Retire(s, IF c.cutoff THEN [c EXCEPT !.stage = "gone"] ELSE Completed(c))
                /\ toHost' = Tail(toHost)
                /\ UNCHANGED host
           ELSE ProtocolFailure
    /\ UNCHANGED sidecarVars

TtsCancelled ==
    /\ Receiving("tts.cancelled")
    /\ LET s == Head(toHost).speech IN
        IF Pending(s) /\ client[s].cutoff
        THEN /\ Retire(s, [client[s] EXCEPT !.stage = "gone"])
             /\ toHost' = Tail(toHost)
             /\ UNCHANGED host
        ELSE ProtocolFailure
    /\ UNCHANGED sidecarVars

(* sidecar.failure, recoverable or not.                                    *)
SidecarFailure ==
    /\ Receiving("sidecar.failure")
    /\ host' = "sidecar_failure"
    /\ FailAll
    /\ toHost' = <<>>
    /\ UNCHANGED <<toSidecar, sidecarVars>>

(* The server closed the connection.  Messages it had queued may be lost.  *)
ConnectionFailure ==
    /\ host = "open"
    /\ server = "closed"
    /\ host' = "sidecar_failure"
    /\ FailAll
    /\ toHost' = <<>>
    /\ UNCHANGED <<toSidecar, sidecarVars>>

-----------------------------------------------------------------------------
(* The sidecar: one command at a time                                      *)

(* enqueue() in server.py: nothing leaves once the connection failed.      *)
Emit(type, s, n) ==
    toHost' = IF server = "open" /\ host = "open"
              THEN Append(toHost, [type |-> type, speech |-> s, count |-> n])
              ELSE toHost

CancelLive == [s \in Streams |->
                IF s \in Live THEN [worker[s] EXCEPT !.cancelled = TRUE] ELSE worker[s]]

Serving(type) ==
    /\ server = "open"
    /\ toSidecar # <<>>
    /\ Head(toSidecar).type = type

(* The fence a tts.open waits on, if it waits, has opened.                 *)
FenceOpened == \A s \in Streams : opening = s => worker[s].stage = "done"

(* What open_tts() looks at under the runtime's lock before it admits s.   *)
Refusable(s) ==
    \/ runtime = "failed"
    \/ \E t \in Streams : slot = t /\ ~worker[t].cancelled
    \/ s \in Live

Served == toSidecar' = Tail(toSidecar)

(* A ValueError or RuntimeError ends the connection, and with it the       *)
(* stream: close_stream() cancels every token.                             *)
EndConnection ==
    /\ server' = "closed"
    /\ toSidecar' = <<>>
    /\ opening' = None
    /\ worker' = CancelLive
    /\ UNCHANGED <<clientVars, toHost, runtime, slot>>

Refuse(s) == refused' = s /\ EndConnection

(* open_tts() holds the runtime's lock for one round of its loop.  With    *)
(* two speeches live it waits for the fence of the older, then looks again.*)
ServeOpen ==
    /\ Serving("tts.open")
    /\ FenceOpened
    /\ LET s == Head(toSidecar).speech IN
        \/ Refusable(s) /\ Refuse(s)
        \/ /\ ~Refusable(s)
           /\ \/ /\ Cardinality(Live) < WorkerBound
                 /\ worker' = [worker EXCEPT ![s] =
                                [Unopened EXCEPT !.stage = "fenced", !.fences = Live]]
                 /\ slot' = s
                 /\ opening' = None
                 /\ Served
              \/ /\ Cardinality(Live) >= WorkerBound
                 /\ opening' = Oldest
                 /\ UNCHANGED <<worker, slot, toSidecar>>
           /\ UNCHANGED <<clientVars, toHost, server, runtime, refused>>

(* The deadline of open_tts passes before the older worker terminalizes.   *)
ServeOpenTimeout ==
    /\ "deadline" \in Faults
    /\ Serving("tts.open")
    /\ opening # None
    /\ EndConnection
    /\ UNCHANGED refused

ServeAppend ==
    /\ Serving("tts.append")
    /\ LET m == Head(toSidecar)
           s == m.speech
       IN  IF /\ runtime # "failed" /\ slot = s
              /\ ~worker[s].committed /\ m.sequence = worker[s].next
           THEN /\ worker' = [worker EXCEPT ![s].chunks = @ + 1, ![s].next = @ + 1]
                /\ Served
                /\ UNCHANGED <<clientVars, toHost, server, opening, runtime, slot, refused>>
           ELSE Refuse(s)

ServeCommit ==
    /\ Serving("tts.commit")
    /\ LET m == Head(toSidecar)
           s == m.speech
       IN  IF /\ runtime # "failed" /\ slot = s /\ ~worker[s].committed
              /\ m.sequence = worker[s].next /\ m.hashed = worker[s].next
           THEN /\ worker' = [worker EXCEPT ![s].committed = TRUE]
                /\ slot' = None
                /\ Served
                /\ UNCHANGED <<clientVars, toHost, server, opening, runtime, refused>>
           ELSE Refuse(s)

(* A speech that is no longer live has nothing to cancel.                  *)
ServeCancel ==
    /\ Serving("tts.cancel")
    /\ LET s == Head(toSidecar).speech IN
        worker' = IF s \in Live THEN [worker EXCEPT ![s].cancelled = TRUE] ELSE worker
    /\ Served
    /\ UNCHANGED <<clientVars, toHost, server, opening, runtime, slot, refused>>

(* The host closed the connection.                                         *)
Disconnect ==
    /\ server = "open"
    /\ host # "open"
    /\ FenceOpened
    /\ server' = "closed"
    /\ toSidecar' = <<>>
    /\ opening' = None
    /\ worker' = CancelLive
    /\ UNCHANGED <<clientVars, toHost, runtime, slot, refused>>

-----------------------------------------------------------------------------
(* The sidecar: work(), one thread per speech                              *)

Terminal(s) == worker' = [worker EXCEPT ![s].stage = "terminal"]

(* A worker that finds its token cancelled reports tts.cancelled; the      *)
(* first look comes after the fences, and a dead stream cancels it.        *)
WorkerCancelled(s) ==
    /\ \/ /\ worker[s].stage = "fenced"
          /\ \A t \in worker[s].fences : worker[t].stage = "done"
          /\ worker[s].cancelled \/ runtime = "failed" \/ server = "closed"
       \/ /\ worker[s].stage \in {"listening", "synthesizing"}
          /\ worker[s].cancelled
    /\ Emit("tts.cancelled", s, 0)
    /\ worker' = [worker EXCEPT ![s].cancelled = TRUE, ![s].stage = "terminal"]
    /\ UNCHANGED <<clientVars, toSidecar, server, opening, runtime, slot, refused>>

(* Mutant: the predecessors are not waited for.                            *)
MutantPassFences(s) ==
    /\ worker[s].stage = "fenced"
    /\ ~worker[s].cancelled /\ runtime # "failed" /\ server = "open"
    /\ worker' = [worker EXCEPT ![s].stage = "listening"]
    /\ UNCHANGED <<clientVars, toSidecar, toHost, server, opening, runtime, slot, refused>>

PassFences(s) ==
    /\ worker[s].stage = "fenced"
    /\ \A t \in worker[s].fences : worker[t].stage = "done"
    /\ ~worker[s].cancelled /\ runtime # "failed" /\ server = "open"
    /\ worker' = [worker EXCEPT ![s].stage = "listening"]
    /\ UNCHANGED <<clientVars, toSidecar, toHost, server, opening, runtime, slot, refused>>

(* The first chunk is announced by tts.started.                            *)
TakeChunk(s) ==
    /\ worker[s].stage = "listening"
    /\ ~worker[s].cancelled
    /\ worker[s].chunks > 0
    /\ \E frames \in 1..MaxFrames :
        worker' = [worker EXCEPT ![s].stage = "synthesizing", ![s].started = TRUE,
                                 ![s].chunks = @ - 1, ![s].left = frames]
    /\ IF worker[s].started THEN UNCHANGED toHost ELSE Emit("tts.started", s, 0)
    /\ UNCHANGED <<clientVars, toSidecar, server, opening, runtime, slot, refused>>

(* audio(): the adapter hands over a frame, and returns after the last.    *)
Audio(s) ==
    /\ worker[s].stage = "synthesizing"
    /\ ~worker[s].cancelled
    /\ Emit("frame", s, worker[s].generated)
    /\ worker' = [worker EXCEPT ![s].generated = @ + 1, ![s].left = @ - 1,
                                ![s].stage = IF worker[s].left = 1 THEN "listening" ELSE @]
    /\ UNCHANGED <<clientVars, toSidecar, server, opening, runtime, slot, refused>>

EndSpeech(s) ==
    /\ worker[s].stage = "listening"
    /\ ~worker[s].cancelled
    /\ worker[s].chunks = 0 /\ worker[s].committed
    /\ Emit("tts.ended", s, worker[s].generated)
    /\ Terminal(s)
    /\ UNCHANGED <<clientVars, toSidecar, server, opening, runtime, slot, refused>>

(* _poison(): the default model failed, and everything with it.  The lock  *)
(* is released before the failure is reported.                             *)
Poison(s) ==
    /\ runtime' = "failed"
    /\ worker' = [CancelLive EXCEPT ![s].stage = "poisoning"]
    /\ UNCHANGED toHost

ReportPoison(s) ==
    /\ worker[s].stage = "poisoning"
    /\ Emit("sidecar.failure", s, 0)
    /\ Terminal(s)
    /\ UNCHANGED <<clientVars, toSidecar, server, opening, runtime, slot, refused>>

(* _degrade_optional_tts(): an optional model is retired instead; the      *)
(* runtime's status stays what it is.                                      *)
Degrade(s) ==
    /\ Emit("sidecar.failure", s, 0)
    /\ Terminal(s)
    /\ UNCHANGED runtime

AdapterFails(s) ==
    /\ "adapter" \in Faults
    /\ worker[s].stage = "synthesizing"
    /\ ~worker[s].cancelled
    /\ Poison(s) \/ Degrade(s)
    /\ UNCHANGED <<clientVars, toSidecar, server, opening, slot, refused>>

(* fence.wait(timeout=10) gives up on a predecessor.                       *)
FenceTimeout(s) ==
    /\ "fence" \in Faults
    /\ worker[s].stage = "fenced"
    /\ \E t \in worker[s].fences : worker[t].stage # "done"
    /\ \/ /\ worker[s].cancelled
          /\ Emit("tts.cancelled", s, 0)
          /\ Terminal(s)
          /\ UNCHANGED runtime
       \/ /\ ~worker[s].cancelled
          /\ Poison(s) \/ Degrade(s)
    /\ UNCHANGED <<clientVars, toSidecar, server, opening, slot, refused>>

(* The finally block: leave state.tts, free the slot, open the fence.      *)
WorkerExit(s) ==
    /\ worker[s].stage = "terminal"
    /\ worker' = [worker EXCEPT ![s].stage = "done"]
    /\ slot' = IF slot = s THEN None ELSE slot
    /\ UNCHANGED <<clientVars, toSidecar, toHost, server, opening, runtime, refused>>

-----------------------------------------------------------------------------
Caller(s) ==
    \/ Begin(s) \/ BeginAborted(s) \/ AppendSpeech(s) \/ Finish(s) \/ Cancel(s)
    \/ Release(s)

HostReceives ==
    \/ TtsStarted \/ HandleBinary \/ TtsEnded \/ TtsCancelled \/ SidecarFailure
    \/ ConnectionFailure

Serve == ServeOpen \/ ServeAppend \/ ServeCommit \/ ServeCancel \/ Disconnect

Work(s) ==
    \/ WorkerCancelled(s) \/ PassFences(s) \/ TakeChunk(s) \/ Audio(s)
    \/ EndSpeech(s) \/ ReportPoison(s) \/ WorkerExit(s)

Fault(s) == AdapterFails(s) \/ FenceTimeout(s)

Next ==
    \/ \E s \in Streams : Caller(s) \/ Work(s) \/ Fault(s)
    \/ Close \/ HostReceives \/ Serve \/ ServeOpenTimeout

Spec == Init /\ [][Next]_vars

(* The event loops of the host and of the server run, and so does every    *)
(* worker thread: an adapter call returns.  Nothing obliges the caller.    *)
FairSpec ==
    /\ Spec
    /\ WF_vars(HostReceives)
    /\ WF_vars(Serve)
    /\ \A s \in Streams : WF_vars(Work(s))

-----------------------------------------------------------------------------
(* Properties                                                              *)

(* The state the records above describe.                                   *)
TypeOK ==
    /\ host \in {"open", "protocol_failure", "sidecar_failure", "closed"}
    /\ client \in [Streams ->
        [stage : {"unused", "queued", "admitted", "gone"}, cutoff : BOOLEAN,
         fed : Nat, finished : BOOLEAN, appendSequence : Nat, buffered : Nat,
         sidecarStarted : BOOLEAN, received : Nat, released : BOOLEAN,
         held : Nat, sunk : Nat,
         start : {"pending", "resolved", "rejected"},
         completion : {"pending", "resolved", "rejected"}]]
    /\ queued \in Seq(Streams)
    /\ toSidecar \in Seq([type : {"tts.open", "tts.append", "tts.commit", "tts.cancel"},
                          speech : Streams, sequence : Nat, hashed : Nat])
    /\ toHost \in Seq([type : {"tts.started", "frame", "tts.ended", "tts.cancelled",
                               "sidecar.failure"},
                       speech : Streams, count : Nat])
    /\ server \in {"open", "closed"}
    /\ opening \in Streams \cup {None}
    /\ runtime \in {"ready", "failed"}
    /\ slot \in Streams \cup {None}
    /\ worker \in [Streams ->
        [stage : {"none", "fenced", "listening", "synthesizing", "poisoning",
                  "terminal", "done"},
         cancelled : BOOLEAN, chunks : Nat, next : Nat, committed : BOOLEAN,
         started : BOOLEAN, generated : Nat, left : Nat, fences : SUBSET Streams]]
    /\ refused \in Streams \cup {None}

(* The fences serialize synthesis: at most one worker is past its own,     *)
(* though two are live, whichever of them is cancelled, fails or gives up. *)
OneSynthesis ==
    \A s, t \in Streams :
        /\ worker[s].stage \in {"listening", "synthesizing"}
        /\ worker[t].stage \in {"listening", "synthesizing"}
        => s = t

(* The two slots of the client fit the one slot of the sidecar, whatever   *)
(* cancellations, ends and successors cross.  A speech waits in the queue  *)
(* only while both are taken, so none is forgotten there when one frees.   *)
(* tts.open, which blocks the command loop of the server, cancellations    *)
(* included, only ever waits for a worker that has reported its end.  And  *)
(* while adapters work the sidecar refuses a command only of a speech that *)
(* was fed while it was queued.                                            *)
SlotsFit ==
    /\ queued # <<>> => Cardinality(Admitted) = MAX_ADMITTED_TTS
    /\ \A s \in Streams :
        client[s].stage = "queued" <=> \E i \in 1..Len(queued) : queued[i] = s
    /\ opening # None => worker[opening].stage \in {"terminal", "done"}
    /\ refused # None => client[refused].buffered > 0

(* A speech that completed reached the browser whole: every frame its      *)
(* worker generated, whether or not the caller had released it.            *)
CompletionIsWhole ==
    \A s \in Streams :
        client[s].completion = "resolved" =>
            client[s].sunk = worker[s].generated /\ client[s].held = 0

(* A speech the caller has finished settles: it completes or is rejected.  *)
FinishedSettles ==
    \A s \in Streams : client[s].finished ~> client[s].completion # "pending"

(* AudioClient.ts:885-887 has the queue hold a speech's text until a slot  *)
(* frees and send it on then: no command of a speech is ever refused.      *)
EveryCommandAccepted == refused = None

(* The promises of the port, as its callers see them.                      *)
promise ==
    [s \in Streams |->
        CASE client[s].stage = "unused" -> "unused"
          [] client[s].completion = "resolved" -> "completed"
          [] client[s].completion = "rejected" -> "rejected"
          [] client[s].completion = "pending" /\ client[s].start = "resolved" -> "started"
          [] OTHER -> "requested"]

Port == INSTANCE SpeechPort WITH promise <- promise,
                                 sunk <- [s \in Streams |-> client[s].sunk]

(* The client and the sidecar together keep the promises of the port.      *)
ImplementsPort == Port!Spec
=============================================================================
