------------------------------ MODULE Utterances ------------------------------
(***************************************************************************)
(* An utterance on its way from the microphone to a turn: the sidecar cuts  *)
(* it out of the capture (vad/endpointer.py, runtime.py), a worker          *)
(* transcribes it, the audio client follows (sidecar/AudioClient.ts), the   *)
(* browser session binds it to an epoch and hands the transcript to the     *)
(* orchestrator once the browser has stored it (server/BrowserSession.ts).  *)
(*                                                                         *)
(* Host and sidecar talk over one socket, in order: `down` to the sidecar,  *)
(* `up` to the host.  What a worker emits it emits under the lock.          *)
(***************************************************************************)
EXTENDS Integers, Sequences, FiniteSets, SequencesExt

CONSTANTS
    UtLoud,         \* speech_start_frames
    UtQuiet,        \* speech_end_frames
    UtChunks,       \* MAX_STT_CHUNKS; a frame is a chunk
    UtPending,      \* MAX_PENDING_FINALS
    UtAcks,         \* MAX_COMPLETED_PERSISTENCE_ACKS
    UtFrames,       \* bound on the frames captured
    UtUtterances,   \* bound on the utterances found
    UtEpochs,       \* bound on the epochs of the session
    UtTrouble,      \* bound on rebinds, crashes of a worker and failed stores
    UtLine          \* bound on the messages on their way

Us == 1..UtUtterances
None == 0

VARIABLE ut

\* an utterance at the sidecar
Utterance == [epoch |-> None, ended |-> FALSE, cancelled |-> FALSE, chunks |-> 0,
              worker |-> "none", partials |-> 0]

Init ==
    ut = [capture |-> 1, packed |-> 0, frames |-> 0, down |-> <<>>, up |-> <<>>,
          \* sidecar
          expected |-> 0, speaking |-> FALSE, loud |-> 0, quiet |-> 0,
          current |-> None, made |-> 0, utterance |-> [u \in Us |-> Utterance],
          fault |-> "none",
          \* audio client
          heard |-> None, bound |-> None, ended |-> FALSE, partial |-> 0, failed |-> FALSE,
          \* browser session and orchestrator
          epoch |-> 1, pending |-> <<>>, handled |-> <<>>, acked |-> {}, closed |-> FALSE,
          lost |-> {}, began |-> [u \in Us |-> None],
          \* browser
          stored |-> [u \in Us |-> "no"], rebound |-> FALSE, trouble |-> 0]

Running(t) == t.fault = "none"
HostUp(t) == ~t.failed /\ ~t.closed

-----------------------------------------------------------------------------
(* The sidecar.                                                            *)

\* _poison and the refusal of a message: sidecar.failure, and the socket closes
Fault(t, why) ==
    [t EXCEPT !.fault = why, !.up = Append(@, [t |-> "failure"]),
              !.utterance = [u \in Us |-> [@[u] EXCEPT !.cancelled = TRUE]]]

\* DeterministicEndpointer.accept
Endpointer(t, loud) ==
    IF loud
    THEN LET n == IF t.loud < UtLoud THEN t.loud + 1 ELSE t.loud
             starts == ~t.speaking /\ n >= UtLoud
         IN [next |-> [t EXCEPT !.loud = n, !.quiet = 0, !.speaking = @ \/ starts],
             says |-> IF starts THEN "start" ELSE "nothing"]
    ELSE LET n == IF t.speaking THEN t.quiet + 1 ELSE t.quiet
             ends == t.speaking /\ n >= UtQuiet
         IN [next |-> [t EXCEPT !.loud = 0, !.quiet = IF ends THEN 0 ELSE n,
                                !.speaking = @ /\ ~ends],
             says |-> IF ends THEN "end" ELSE "nothing"]

\* DeterministicEndpointer.reset
Quiet(t) == [t EXCEPT !.speaking = FALSE, !.loud = 0, !.quiet = 0]

\* _maybe_start_stt
MaybeStart(t, u) ==
    IF t.utterance[u].epoch # None /\ t.utterance[u].worker = "none"
    THEN [t EXCEPT !.utterance[u].worker = "running"] ELSE t

\* _feed_stt
Feed(t, u) ==
    IF t.utterance[u].chunks = UtChunks THEN Fault(t, "overflow")
    ELSE [t EXCEPT !.utterance[u].chunks = @ + 1]

\* mutant: speech that starts while the last one is transcribed is not ignored
MutantStarts(t) ==
    LET u == t.made + 1 IN
    Feed([t EXCEPT !.made = u, !.current = u, !.up = Append(@, [t |-> "start", u |-> u])], u)

\* accept_audio, speech_start
Starts(t) ==
    IF t.current # None THEN Quiet(t)      \* the last one is still being transcribed
    ELSE LET u == t.made + 1 IN
         Feed([t EXCEPT !.made = u, !.current = u,
                        !.up = Append(@, [t |-> "start", u |-> u])], u)

\* accept_audio, speech_end, _end_stt
Ends(t) ==
    LET u == t.current IN
    IF u = None \/ t.utterance[u].ended THEN t
    ELSE MaybeStart([t EXCEPT !.utterance[u].ended = TRUE,
                              !.up = Append(@, [t |-> "end", u |-> u])], u)

\* accept_audio: the stream of a capture is the one it was opened with
Frame(t, m) ==
    IF m.capture # 1 THEN Fault(t, "capture")
    ELSE IF m.seq # t.expected THEN Fault(t, "sequence")
    ELSE LET e == Endpointer([t EXCEPT !.expected = @ + 1], m.loud)
             fed == IF e.says # "start" /\ t.current # None /\ ~t.utterance[t.current].ended
                    THEN Feed(e.next, t.current) ELSE e.next
         IN IF e.says = "start" THEN Starts(fed)
            ELSE IF e.says = "end" /\ Running(fed) THEN Ends(fed) ELSE fed

\* bind_epoch
Bind(t, m) ==
    IF t.current = None \/ t.current # m.u \/ t.utterance[m.u].epoch # None THEN Fault(t, "bind")
    ELSE MaybeStart([t EXCEPT !.utterance[m.u].epoch = m.epoch], m.u)

\* reset_stream
Reset(t) ==
    LET g == Quiet([t EXCEPT !.expected = 0, !.current = None]) IN
    IF t.current = None THEN g ELSE [g EXCEPT !.utterance[t.current].cancelled = TRUE]

SidecarReads ==
    /\ Running(ut) /\ ut.down # <<>>
    /\ LET m == Head(ut.down)
           t == [ut EXCEPT !.down = Tail(@)]
       IN /\ m.t = "frame" => ut.made < UtUtterances \/ ut.current # None \/ ut.loud + 1 < UtLoud
          /\ ut' = CASE m.t = "frame" -> Frame(t, m)
                     [] m.t = "bind" -> Bind(t, m)
                     [] m.t = "reset" -> Reset(t)

\* the worker of an utterance: takes a chunk, says what it has, or is done, or fails
Worker(u) ==
    LET me == ut.utterance[u]
        t == [ut EXCEPT !.utterance[u].chunks = @ - 1]
        owned == ~me.cancelled /\ ut.current = u /\ Running(ut)
        done == [ut EXCEPT !.utterance[u].worker = "done"]
    IN
    /\ me.worker = "running" /\ Len(ut.up) < UtLine
    /\ \/ me.cancelled /\ ut' = done
       \/ /\ ~me.cancelled /\ me.chunks > 0
          /\ \/ ut' = t
             \/ /\ owned /\ me.partials = 0
                /\ ut' = [t EXCEPT !.utterance[u].partials = 1,
                                   !.up = Append(@, [t |-> "partial", u |-> u, epoch |-> me.epoch,
                                                     seq |-> me.partials])]
       \/ /\ ~me.cancelled /\ me.chunks = 0 /\ me.ended
          /\ ut' = IF ~owned THEN done
                   ELSE [done EXCEPT !.current = None,
                                     !.up = Append(@, [t |-> "final", u |-> u, epoch |-> me.epoch])]
       \/ /\ ~me.cancelled /\ ut.trouble < UtTrouble /\ Running(ut)
          /\ ut' = Fault([done EXCEPT !.trouble = @ + 1], "poisoned")

-----------------------------------------------------------------------------
(* The audio client and the browser session.                               *)

\* protocolFailure
Refuse(t) == [t EXCEPT !.failed = TRUE]

\* speechStart, bindEpoch; the orchestrator may move to the next epoch
SpeechStart(t, m) ==
    IF t.heard # None THEN {Refuse(t)}
    ELSE {[t EXCEPT !.epoch = e, !.heard = m.u, !.bound = e, !.ended = FALSE, !.partial = 0,
                    !.began[m.u] = e,
                    !.down = Append(@, [t |-> "bind", u |-> m.u, epoch |-> e])]
          : e \in {t.epoch, t.epoch + 1} \cap 1..UtEpochs}

SpeechEnd(t, m) ==
    IF t.heard # m.u \/ t.ended THEN Refuse(t) ELSE [t EXCEPT !.ended = TRUE]

SttPartial(t, m) ==
    IF t.heard # m.u \/ t.bound # m.epoch \/ t.partial # m.seq THEN Refuse(t)
    ELSE [t EXCEPT !.partial = @ + 1]

\* BrowserSession.final: to the browser, and kept until it is stored
Final(t, m) ==
    IF m.epoch # t.epoch \/ Len(t.pending) >= UtPending
    THEN [t EXCEPT !.lost = @ \cup {m.u}]
    ELSE [t EXCEPT !.pending = Append(@, [u |-> m.u, epoch |-> m.epoch, failed |-> FALSE]),
                   !.stored[m.u] = "told"]

SttFinal(t, m) ==
    IF t.heard # m.u \/ ~t.ended \/ t.bound # m.epoch THEN Refuse(t)
    ELSE [Final(t, m) EXCEPT !.heard = None, !.bound = None]

HostReads ==
    /\ ut.up # <<>> /\ HostUp(ut) /\ Len(ut.down) < UtLine
    /\ LET m == Head(ut.up)
           t == [ut EXCEPT !.up = Tail(@)]
       IN ut' \in CASE m.t = "start" -> SpeechStart(t, m)
                    [] m.t = "end" -> {SpeechEnd(t, m)}
                    [] m.t = "partial" -> {SttPartial(t, m)}
                    [] m.t = "final" -> {SttFinal(t, m)}
                    [] m.t = "failure" -> {Refuse(t)}

\* a response is cancelled, taken over or ends: the orchestrator moves on
EpochMoves ==
    /\ ut.epoch < UtEpochs /\ HostUp(ut)
    /\ ut' = [ut EXCEPT !.epoch = @ + 1]

\* input: a frame of the browser's capture
Capture ==
    /\ ut.frames < UtFrames /\ HostUp(ut) /\ Len(ut.down) < UtLine
    /\ \E loud \in BOOLEAN :
          ut' = [ut EXCEPT !.frames = @ + 1, !.packed = @ + 1,
                           !.down = Append(@, [t |-> "frame", loud |-> loud, seq |-> ut.packed,
                                               capture |-> ut.capture])]

\* audio.start, open: a fresh capture with a fresh packer takes the stream over
Rebind ==
    /\ ut.trouble < UtTrouble /\ HostUp(ut) /\ Len(ut.down) < UtLine
    /\ ut' = [ut EXCEPT !.trouble = @ + 1, !.rebound = TRUE, !.capture = @ + 1, !.packed = 0,
                        !.heard = None, !.bound = None,
                        !.down = Append(@, [t |-> "reset"])]

\* the browser stores the turn, or cannot, or not yet
Store(u) ==
    /\ \/ ut.stored[u] = "told" \/ ut.stored[u] = "failed"
    /\ \/ ut' = [ut EXCEPT !.stored[u] = "stored"]
       \/ ut.stored[u] = "told" /\ ut.trouble < UtTrouble
          /\ ut' = [ut EXCEPT !.stored[u] = "failed", !.trouble = @ + 1]

At(u) == SelectInSeq(ut.pending, LAMBDA p : p.u = u)

\* completedPersistenceAcks: the turns last taken, the oldest forgotten first
Remembered(u) ==
    \E i \in DOMAIN ut.handled : i + UtAcks > Len(ut.handled) /\ ut.handled[i].u = u

\* the turn goes to the orchestrator, in the epoch the session is in
Taken(u) ==
    [ut EXCEPT !.pending = RemoveAt(@, At(u)), !.acked = @ \cup {u},
               !.handled = Append(@, [u |-> u, epoch |-> ut.epoch])]

\* mutant: the transcript of an epoch that is over is not refused
MutantPersisted(u) ==
    IF Remembered(u) THEN ut
    ELSE IF At(u) = 0 THEN [ut EXCEPT !.closed = TRUE] ELSE Taken(u)

\* persisted: what was acknowledged before is acknowledged again without effect,
\* as long as it is remembered; what is not known, and the transcript of an epoch
\* that is over, closes the socket
Persisted(u) ==
    IF Remembered(u) THEN ut
    ELSE IF At(u) = 0 \/ ut.pending[At(u)].epoch # ut.epoch THEN [ut EXCEPT !.closed = TRUE]
    ELSE Taken(u)

\* persistenceFailed: told once
PersistenceFailed(u) ==
    LET i == At(u) IN
    IF i = 0 \/ ut.pending[i].epoch # ut.epoch THEN [ut EXCEPT !.closed = TRUE]
    ELSE [ut EXCEPT !.pending[i].failed = TRUE]

Acknowledge(u) ==
    /\ ~ut.closed
    /\ \/ ut.stored[u] = "stored" /\ ut' = Persisted(u)
       \/ ut.stored[u] = "failed" /\ ut' = PersistenceFailed(u)

Next ==
    \/ Capture \/ Rebind \/ SidecarReads \/ HostReads \/ EpochMoves
    \/ \E u \in Us : Worker(u) \/ Store(u) \/ Acknowledge(u)

Spec == Init /\ [][Next]_ut

-----------------------------------------------------------------------------
\* A transcript becomes a turn at most once, only after the browser stored it,
\* in the epoch its speech began in, and that epoch is not over: however late the
\* worker, the store or a repeated acknowledgement is (BrowserSession.ts:835-860).
\* A transcript the session does not take is one it refused or still holds.
TranscriptIsOwn ==
    /\ \A i \in DOMAIN ut.handled :
          /\ ut.stored[ut.handled[i].u] = "stored"
          /\ ut.handled[i].epoch = ut.began[ut.handled[i].u]
          /\ \A j \in DOMAIN ut.handled : ut.handled[j].u = ut.handled[i].u => i = j
    /\ \A i \in DOMAIN ut.pending :
          /\ ut.pending[i].u \notin ut.lost \cup ut.acked
          /\ \A j \in DOMAIN ut.pending : ut.pending[j].u = ut.pending[i].u => i = j
    /\ \A u \in Us : ut.stored[u] # "no" => At(u) # 0 \/ u \in ut.acked

\* Host and sidecar follow the same utterance: as long as no fresh capture took
\* the stream over, neither refuses what the other one says, whatever the pace of
\* the worker; only its crash, or an utterance that outgrows the queue, ends the
\* stream (AudioClient.ts:1266-1342, runtime.py:884-954).
SpeakOfTheSame ==
    ~ut.rebound =>
        /\ ut.fault \in {"none", "poisoned", "overflow"}
        /\ ut.failed => ut.fault # "none"
        /\ ut.heard # None /\ Running(ut) =>
              \/ ut.current = ut.heard
              \/ \E i \in DOMAIN ut.up : ut.up[i].t = "final" /\ ut.up[i].u = ut.heard

\* "Rebinding through AudioClient is safe and resets the sidecar VAD boundary, so
\* a fresh browser capture stream can always take ownership"
\* (BrowserSession.ts:717-719): the sidecar does not refuse the frames of a
\* capture the host has bound.
FreshCaptureIsHeard == ut.fault # "capture"
=============================================================================
