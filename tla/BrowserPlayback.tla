--------------------------- MODULE BrowserPlayback ---------------------------
(***************************************************************************)
(* How a browser plays what the host says: the output checks of the        *)
(* transport (websocket-transport.ts), the event queue of the session      *)
(* controller (controller.ts), and the player of one response              *)
(* (audio/playback.ts, playback-ledger.ts).  The host is what              *)
(* SessionOrchestrator.ts tells and hears of a response; a module of its   *)
(* own models what makes it decide.                                        *)
(*                                                                         *)
(* The two directions of the socket are FIFOs.  Audio is counted in        *)
(* chunks.  The transport checks an event when it arrives; the controller  *)
(* then queues it and works through its queue one event at a time, waiting *)
(* for IndexedDB before an event has any effect, while audio, speech and   *)
(* the user act on it between two of its steps.                            *)
(***************************************************************************)
EXTENDS Integers, FiniteSets, SequencesExt

CONSTANTS
    MaxResponses,   \* bound on the responses of the session
    Chunks,         \* audio chunks of one response
    MaxTrouble,     \* bound on utterances, failures and commands of the user
    MaxAhead,       \* bound on the messages the browser has not worked off
    User            \* what the user does: a subset of {"cancel", "pause", "stop"}

ASSUME PlaybackConstantsOK ==
    /\ {MaxResponses, Chunks, MaxAhead} \subseteq Nat \ {0} /\ MaxTrouble \in Nat
    /\ User \subseteq {"cancel", "pause", "stop"}

Responses == 1..MaxResponses
None == 0

VARIABLES
    host,       \* the orchestrator and the speech stream it feeds
    down,       \* events and audio on their way to the browser
    up,         \* reports and commands on their way to the host
    transport,  \* the output bindings of the transport
    part,       \* per response, its player
    ctl,        \* the controller
    trouble     \* utterances, failures and commands so far

vars == <<host, down, up, transport, part, ctl, trouble>>

Idle == [type |-> "none", r |-> None, epoch |-> 0, at |-> 0, safe |-> FALSE]
NoPause == [r |-> None, at |-> -1, ready |-> FALSE]

Init ==
    /\ host = [epoch |-> 0, active |-> None, made |-> 0, stage |-> "none",
               stream |-> None, epochOf |-> [r \in Responses |-> 0],
               sent |-> [r \in Responses |-> 0],
               closed |-> [r \in Responses |-> FALSE],
               pause |-> "none", at |-> 0, pending |-> FALSE,
               speaking |-> FALSE, utterances |-> 0]
    /\ down = <<>> /\ up = <<>>
    /\ transport = [latest |-> None, refused |-> "",
                    bound |-> [r \in Responses |-> "none"],
                    got |-> [r \in Responses |-> 0]]
    /\ part = [r \in Responses |->
                 [player |-> "none", buffer |-> {}, played |-> 0, total |-> -1,
                  speechPause |-> -1, report |-> "none", reason |-> ""]]
    /\ ctl = [epoch |-> 0, active |-> None, queue |-> <<>>, event |-> Idle,
              step |-> "idle", provisional |-> NoPause, deferred |-> Idle,
              speaking |-> FALSE, cancelling |-> None, pausing |-> "no",
              stopped |-> FALSE, degraded |-> FALSE]
    /\ trouble = 0

Trouble == trouble < MaxTrouble /\ trouble' = trouble + 1

-----------------------------------------------------------------------------
(* The host.  Each step sends the events its handler emits, in order.      *)

Event(h, type, r) ==
    [type |-> type, r |-> r, epoch |-> h.epoch, at |-> h.at, safe |-> FALSE]
Safe(e) == [e EXCEPT !.safe = TRUE]

\* advanceEpochAndCancel; cancelResponse tells the browser only once
Cancelled(h) ==
    [h EXCEPT !.epoch = @ + 1, !.active = None, !.stage = "none",
              !.stream = None, !.pause = "none", !.pending = FALSE]
CancelEvents(h) ==
    IF h.active = None \/ h.pending THEN <<>>
    ELSE <<Event(Cancelled(h), "response.cancelled", h.active)>>

HostSends(h, events) ==
    /\ transport.refused = "" /\ ~ctl.stopped
    /\ Len(down) + Len(ctl.queue) + Len(events) <= MaxAhead
    /\ host' = h
    /\ down' = down \o events
    /\ UNCHANGED <<transport, part, ctl>>

Start ==
    LET r == host.made + 1
        h == [host EXCEPT !.made = r, !.active = r, !.stage = "reasoning",
                          !.stream = r, !.epochOf[r] = host.epoch]
    IN /\ r \in Responses /\ host.active = None
       /\ HostSends(h, <<Event(h, "reasoning.started", r)>>)
       /\ UNCHANGED <<up, trouble>>

\* a stable final that no pause was waiting for supersedes the response
Supersede ==
    /\ host.active # None /\ host.pause = "none" /\ ~host.pending
    /\ Trouble
    /\ HostSends(Cancelled(host), CancelEvents(host))
    /\ UNCHANGED up

\* beginProvisionalBargeIn
Paused(h) == [h EXCEPT !.pause = "open", !.at = -1]

Started ==
    LET r == host.active
        h == [host EXCEPT !.stage = "playing"]
        started == Event(h, "tts.started", r)
    IN /\ host.stage = "reasoning"
       /\ IF host.speaking
          THEN HostSends(Paused(h),
                   <<started, Event(h, "barge_in.provisional", r)>>)
          ELSE HostSends(h, <<started>>)
       /\ UNCHANGED <<up, trouble>>

\* the speech stream goes on until it is cancelled, whatever became of the
\* response it belongs to
Stream ==
    LET r == host.stream IN
    /\ r # None
    /\ host.stage = "playing" \/ host.active # r
    /\ host.sent[r] < Chunks
    /\ HostSends([host EXCEPT !.sent[r] = @ + 1],
                 <<Event(host, "audio", r)>>)
    /\ UNCHANGED <<up, trouble>>

Ended ==
    LET r == host.stream IN
    /\ r # None /\ host.sent[r] > 0 /\ host.active = r
    /\ host.stage = "playing" /\ ~host.pending /\ ~host.closed[r]
    /\ HostSends([host EXCEPT !.stream = None, !.stage = "ended"],
                 <<[Event(host, "tts.ended", r) EXCEPT !.at = host.sent[r]]>>)
    /\ UNCHANGED <<up, trouble>>

\* failResponse: response.failed, then response.cancelled
Fail ==
    LET r == host.active
        after == IF host.pause = "none"
                 THEN [Cancelled(host) EXCEPT !.epoch = host.epoch]
                 ELSE Cancelled(host)
    IN /\ host.stage \in {"reasoning", "playing"} /\ ~host.pending
       /\ Trouble
       /\ HostSends(after,
              <<Event(host, "response.failed", r),
                Event(host, "response.cancelled", r)>>
              \o IF host.pause = "none" THEN <<>>
                 ELSE <<Event(after, "barge_in.rejected", r)>>)
       /\ UNCHANGED up

\* handleSpeechStart, then BrowserSession sends vad.speech_start
SpeechStart ==
    LET spoken == [host EXCEPT !.speaking = TRUE, !.utterances = @ + 1]
        h == IF host.pending THEN Cancelled(spoken)
             ELSE IF host.stage \in {"playing", "ended"} /\ host.pause = "none"
             THEN Paused(spoken) ELSE spoken
    IN /\ ~host.speaking /\ Trouble
       /\ HostSends(h,
              (IF h.pause = host.pause THEN <<>>
               ELSE IF host.pending THEN <<>>
               ELSE <<Event(h, "barge_in.provisional", h.active)>>)
              \o <<Event(h, "vad.speech_start", None)>>)
       /\ UNCHANGED up

SpeechEnd ==
    /\ host.speaking
    /\ HostSends([host EXCEPT !.speaking = FALSE],
                 <<Event(host, "vad.speech_end", None)>>)
    /\ UNCHANGED <<up, trouble>>

\* decideInterruption, of a final that may be older than what is being said
Heard == host.utterances > 1 \/ ~host.speaking

Accept ==
    /\ host.pause = "checked" /\ Heard
    /\ HostSends([host EXCEPT !.pause = "none", !.pending = TRUE, !.stream = None],
                 <<Event(host, "interruption.accept", host.active),
                   Event(host, "response.cancelled", host.active)>>)
    /\ UNCHANGED <<up, trouble>>

Resume ==
    /\ host.pause = "checked" /\ Heard
    /\ HostSends([host EXCEPT !.pause = "none"],
                 <<Safe(Event(host, "interruption.resume", host.active)),
                      Safe(Event(host, "barge_in.rejected", host.active))>>)
    /\ UNCHANGED <<up, trouble>>

\* the recovery timer of a pause; it never fires while the user speaks
Timeout ==
    /\ host.pause # "none" /\ ~host.speaking
    /\ IF host.pause = "checked"
       THEN HostSends([host EXCEPT !.pause = "none"],
                <<Safe(Event(host, "barge_in.timed_out", host.active))>>)
       ELSE HostSends(Cancelled(host), CancelEvents(host)
                \o <<Event(Cancelled(host), "barge_in.timed_out", host.active)>>)
    /\ UNCHANGED <<up, trouble>>

\* finalizeAcceptedTakeover, by the receipt or by its timer
Taken(h) ==
    [h |-> Cancelled(h),
     events |-> <<Event(Cancelled(h), "barge_in.confirmed", h.active)>>]

AcceptTimeout ==
    /\ host.pending
    /\ HostSends(Taken(host).h, Taken(host).events)
    /\ UNCHANGED <<up, trouble>>

\* playbackStopped, for the host's ledger of r
StoppedBy(h, r) ==
    LET g == [h EXCEPT !.closed[r] = TRUE] IN
    IF h.closed[r] THEN [h |-> h, events |-> <<>>]
    ELSE IF h.pending /\ h.active = r THEN Taken(g)
    ELSE IF h.epochOf[r] = h.epoch /\ h.active = r
    THEN [h |-> [g EXCEPT !.active = None, !.stage = "none", !.pause = "none"],
          events |-> IF h.pause = "none" THEN <<>>
                     ELSE <<Event(h, "barge_in.rejected", r)>>]
    ELSE [h |-> g, events |-> <<>>]

HostHears ==
    /\ up # <<>> /\ up' = Tail(up)
    /\ LET m == Head(up)
           cancel == Cancelled(host)
       IN CASE m.type = "playback.paused" ->
                 HostSends(IF /\ host.pause # "none" /\ host.active = m.r
                              /\ ~host.closed[m.r]
                           THEN [host EXCEPT !.pause = "checked", !.at = m.at]
                           ELSE host, <<>>)
            [] m.type = "playback.stopped" ->
                 LET s == StoppedBy(host, m.r) IN HostSends(s.h, s.events)
            [] m.type = "turn.cancel" ->
                 HostSends(IF host.active = None THEN host ELSE cancel,
                     CancelEvents(host)
                     \o IF host.pause = "none" THEN <<>>
                        ELSE <<Event(cancel, "barge_in.confirmed", host.active)>>)
    /\ UNCHANGED trouble

HostStep ==
    \/ Start \/ Supersede \/ Started \/ Stream \/ Ended \/ Fail \/ SpeechStart
    \/ SpeechEnd \/ Accept \/ Resume \/ Timeout \/ AcceptTimeout \/ HostHears

-----------------------------------------------------------------------------
(* The player of a response.                                               *)

Live(p) == p.player \in {"audible", "muted"}

\* what can be scheduled: the chunks up to the first gap
Scheduled(p) == Cardinality({k \in p.buffer : 0..k \subseteq p.buffer})

\* stop(): the first stop decides the reason and starts the report
Stop(p, why) ==
    IF Live(p) THEN [p EXCEPT !.player = "stopped", !.report = "storing",
                              !.reason = why]
    ELSE p

\* mutant: complete whatever the host still has to say
MutantCompleteIfReady(p) == IF p.played >= p.total THEN Stop(p, "completed") ELSE p

CompleteIfReady(p) ==
    IF p.total >= 0 /\ p.played >= p.total THEN Stop(p, "completed") ELSE p

Mute(p) == IF Live(p) THEN [p EXCEPT !.player = "muted"] ELSE p
Unmute(p) == IF Live(p) THEN [p EXCEPT !.player = "audible"] ELSE p

\* pauseForSpeech keeps the position for the provisional pause to come
MuteForSpeech(p) == IF Live(p) THEN [Mute(p) EXCEPT !.speechPause = p.played] ELSE p

\* a buffer source ends
Play(r) ==
    LET p == part[r] IN
    /\ p.player = "audible" /\ p.played < Scheduled(p)
    /\ part' = [part EXCEPT ![r] = CompleteIfReady([p EXCEPT !.played = @ + 1])]
    /\ UNCHANGED <<host, down, up, transport, ctl, trouble>>

-----------------------------------------------------------------------------
(* Arrival: the transport's checks, then what cannot wait for the queue.   *)

Refusal(e) ==
    LET r == e.r IN
    CASE e.type = "tts.started" /\ (e.epoch # ctl.epoch \/ r # transport.latest)
           -> "started"
      [] e.type = "response.failed" /\ r # transport.latest -> "failed"
      [] e.type = "response.cancelled" /\ r # transport.latest
           /\ transport.bound[r] = "none" -> "cancelled"
      [] e.type = "tts.ended" /\ (transport.bound[r] = "none"
           \/ e.at # transport.got[r]) -> "ended"
      [] e.type = "audio" /\ transport.bound[r] # "live" -> "audio"
      [] OTHER -> ""

\* a response that ends, or is superseded, takes its binding with it
Unbound(S) == [r \in Responses |->
    IF r \in S /\ transport.bound[r] = "live" THEN "terminal"
                                              ELSE transport.bound[r]]
Checked(e) ==
    LET r == e.r IN
    CASE e.type = "reasoning.started" ->
           [transport EXCEPT !.latest = r, !.bound =
                IF transport.latest = None THEN @ ELSE Unbound(Responses)]
      [] e.type = "tts.started" -> [transport EXCEPT !.bound[r] = "live"]
      [] e.type = "audio" -> [transport EXCEPT !.got[r] = @ + 1]
      [] e.type = "tts.ended" ->
           [transport EXCEPT !.latest = None, !.bound = Unbound({r})]
      [] e.type \in {"response.failed", "response.cancelled"} ->
           [transport EXCEPT !.bound = Unbound({r}),
                             !.latest = IF @ = r THEN None ELSE @]
      [] OTHER -> transport

\* the parts when the active one, if there is one, becomes p
Playing == part[ctl.active]
Active(p) == IF ctl.active = None THEN part ELSE [part EXCEPT ![ctl.active] = p]

\* handleTransportFailure
Refuse(why) ==
    /\ transport' = [transport EXCEPT !.refused = why]
    /\ IF ctl.pausing = "no"
       THEN /\ part' = Active(Stop(Playing, "failed"))
            /\ ctl' = [ctl EXCEPT !.provisional = NoPause, !.degraded = TRUE]
       ELSE UNCHANGED <<part, ctl>>

\* handleAudio: a part that does not exist yet misses the chunk
HearAudio(e) ==
    LET r == e.r IN
    /\ part' = IF Live(part[r]) /\ ctl.pausing = "no"
               THEN [part EXCEPT ![r].buffer = @ \cup {transport.got[r]}]
               ELSE part
    /\ UNCHANGED ctl

\* handleEvent: speech mutes at once, then every event waits its turn
Observe(e) ==
    LET now == ctl.pausing = "no" /\ e.epoch >= ctl.epoch
        c == [ctl EXCEPT !.queue = Append(@, e)]
    IN CASE now /\ e.type = "vad.speech_start" ->
              /\ ctl' = [c EXCEPT !.speaking = TRUE]
              /\ part' = Active(MuteForSpeech(Playing))
         [] now /\ e.type = "vad.speech_end" ->
              /\ ctl' = [c EXCEPT !.speaking = FALSE]
              /\ UNCHANGED part
         [] OTHER -> ctl' = c /\ UNCHANGED part

Arrive ==
    /\ down # <<>> /\ transport.refused = "" /\ ~ctl.stopped
    /\ down' = Tail(down)
    /\ LET e == Head(down) IN
       IF Refusal(e) # "" THEN Refuse(Refusal(e))
       ELSE /\ transport' = Checked(e)
            /\ IF e.type = "audio" THEN HearAudio(e) ELSE Observe(e)
    /\ UNCHANGED <<host, up, trouble>>

-----------------------------------------------------------------------------
(* processEvent, one event at a time.                                      *)

Resolutions == {"interruption.accept", "interruption.resume",
                "barge_in.confirmed", "barge_in.rejected", "barge_in.timed_out"}
Decisions == {"interruption.accept", "interruption.resume"}

Matches(e) == ctl.provisional.r # None /\ ctl.active = ctl.provisional.r
              /\ e.r = ctl.provisional.r

\* mutant: an event of the epoch at hand counts as stale, too
MutantIgnored(e) ==
    \/ ctl.pausing # "no"
    \/ e.epoch < ctl.epoch
    \/ e.type \in Resolutions \cup {"response.cancelled"} /\ ~Matches(e)
    \/ /\ e.type \in Resolutions /\ ~(e.safe /\ ctl.speaking)
       /\ \/ ~ctl.provisional.ready
          \/ e.type \in Decisions /\ e.at # ctl.provisional.at

\* what becomes of an event, or of a resume that speech had deferred
Ignored(e) ==
    \/ ctl.pausing # "no"
    \/ e.epoch < ctl.epoch
    \/ e.type \in Resolutions /\ ~Matches(e)
    \/ /\ e.type \in Resolutions /\ ~(e.safe /\ ctl.speaking)
       /\ \/ ~ctl.provisional.ready
          \/ e.type \in Decisions /\ e.at # ctl.provisional.at

Dispatch(c, e) ==
    IF Ignored(e) THEN [c EXCEPT !.step = "idle"]
    ELSE IF e.safe /\ c.speaking THEN [c EXCEPT !.step = "idle", !.deferred = e]
    ELSE [c EXCEPT !.step = "storing", !.event = e]

Take ==
    /\ ctl.step = "idle" /\ ctl.queue # <<>> /\ ~ctl.stopped
    /\ ctl' = Dispatch([ctl EXCEPT !.queue = Tail(@)], Head(ctl.queue))
    /\ UNCHANGED <<host, down, up, transport, part, trouble>>

\* mutant: the report is awaited, but the player plays on
MutantTerminalize(c, why) == UNCHANGED part /\ ctl' = [c EXCEPT !.step = "reporting"]

\* terminalize, then wait for the report
Terminalize(c, why) ==
    /\ part' = Active(Stop(Playing, why))
    /\ ctl' = [c EXCEPT !.step = "reporting"]
Leave(c) == UNCHANGED part /\ ctl' = [c EXCEPT !.step = "idle"]

\* a new player starts audible, or muted while the user speaks
Create(c, r) ==
    LET fresh == [part[r] EXCEPT !.player = "audible"] IN
    /\ part' = [part EXCEPT ![r] = IF c.speaking THEN MuteForSpeech(fresh)
                                                 ELSE fresh]
    /\ ctl' = [c EXCEPT !.active = r, !.step = "idle"]

\* the rewind of a resume replays what was heard: the extent stays
ResumePlayer(c) ==
    /\ part' = Active(Unmute(Playing))
    /\ ctl' = [c EXCEPT !.step = "idle"]

Effect(c, e) ==
    LET bare == [c EXCEPT !.provisional = NoPause]
        other == c.active \notin {None, e.r} /\ Live(part[c.active])
    IN
    CASE e.type = "vad.speech_end" ->
           /\ UNCHANGED part
           /\ ctl' = IF c.deferred = Idle THEN [c EXCEPT !.step = "idle"]
                     ELSE Dispatch([c EXCEPT !.deferred = Idle], c.deferred)
      [] e.type = "reasoning.started" ->
           IF other THEN Terminalize(c, "cancelled") ELSE Leave(c)
      [] e.type = "tts.started" ->
           IF other THEN Terminalize(c, "cancelled") ELSE Create(c, e.r)
      [] e.type = "tts.ended" ->
           /\ part' = IF Live(part[e.r])
                      THEN [part EXCEPT ![e.r] =
                              CompleteIfReady([@ EXCEPT !.total = e.at])]
                      ELSE part
           /\ ctl' = [c EXCEPT !.step = "idle"]
      [] e.type \in {"response.failed", "response.cancelled"} ->
           IF c.active = e.r
           THEN Terminalize(bare, IF e.type = "response.failed" THEN "failed"
                                                             ELSE "cancelled")
           ELSE Leave(bare)
      [] e.type = "barge_in.provisional" /\ c.active = e.r /\ e.r # None ->
           LET held == part[e.r].speechPause IN
           /\ part' = [part EXCEPT ![e.r] =
                  IF held >= 0 THEN [@ EXCEPT !.speechPause = -1] ELSE Mute(@)]
           /\ ctl' = [c EXCEPT !.provisional = [r |-> e.r, at |-> held,
                                                ready |-> FALSE],
                               !.step = "pausing"]
      [] e.type \in Resolutions /\ Matches(e) ->
           LET live == Live(part[c.active])
               safe == /\ e.safe
                       /\ \/ e.type \in Decisions
                          \/ live /\ host.epochOf[c.active] = e.epoch
           IN IF ~safe THEN Terminalize(bare, "cancelled")
              ELSE IF e.type \in Decisions \/ ~c.speaking THEN ResumePlayer(bare)
              ELSE Leave([bare EXCEPT !.deferred = Idle])
      [] OTHER -> Leave(c)

\* the write failed: the event has no effect, and the session is degraded
Degraded(c) == [c EXCEPT !.degraded = TRUE]

Stored ==
    /\ ctl.step = "storing" /\ ~ctl.stopped
    /\ \/ /\ Effect([ctl EXCEPT !.epoch = ctl.event.epoch], ctl.event)
          /\ UNCHANGED trouble
       \/ /\ Trouble
          /\ Leave(Degraded(ctl))
    /\ UNCHANGED <<host, down, up, transport>>

\* the player has stopped rendering: its position is the checkpoint
Silenced ==
    LET r == ctl.provisional.r IN
    /\ ctl.step = "pausing" /\ ~ctl.stopped
    /\ IF r = None \/ ctl.active # r \/ ~Live(part[r])
       THEN ctl' = [ctl EXCEPT !.step = "idle"]
       ELSE ctl' = [ctl EXCEPT !.step = "checkpointing", !.provisional.at =
                        IF @ >= 0 THEN @ ELSE part[r].played]
    /\ UNCHANGED <<host, down, up, transport, part, trouble>>

\* the checkpoint is stored before the host hears of it
Checkpointed ==
    LET pause == ctl.provisional
        send == [type |-> "playback.paused", r |-> ctl.event.r, at |-> pause.at]
    IN
    /\ ctl.step = "checkpointing" /\ ~ctl.stopped
    /\ \/ /\ up' = IF transport.refused = "" THEN Append(up, send) ELSE up
          /\ ctl' = [ctl EXCEPT !.step = "idle", !.provisional.ready = (pause.r # None)]
          /\ UNCHANGED <<part, trouble>>
       \/ /\ Trouble
          /\ Terminalize(Degraded([ctl EXCEPT !.provisional = NoPause]), "failed")
          /\ UNCHANGED up
    /\ UNCHANGED <<host, down, transport>>

\* the terminal receipt of r: stored, then sent, then the part gives way
ReportStored(r) ==
    LET c == IF ctl.cancelling = r
             THEN [ctl EXCEPT !.provisional = NoPause, !.cancelling = None]
             ELSE ctl
    IN
    /\ part[r].report = "storing" /\ ~ctl.stopped
    /\ part' = [part EXCEPT ![r].report = "done"]
    /\ \/ /\ transport' = [transport EXCEPT !.bound = Unbound({r})]
          /\ up' = IF transport.refused # "" THEN up
                   ELSE Append(up, [type |-> "playback.stopped", r |-> r,
                                    at |-> part[r].played])
          /\ ctl' = IF ctl.active = r THEN [c EXCEPT !.active = None] ELSE c
          /\ UNCHANGED trouble
       \/ /\ Trouble
          /\ ctl' = Degraded(c)
          /\ UNCHANGED <<transport, up>>
    /\ UNCHANGED <<host, down>>

\* the event that waited for a report goes on
Reported ==
    /\ ctl.step = "reporting" /\ ~ctl.stopped
    /\ \A r \in Responses : part[r].report # "storing"
    /\ IF ctl.event.type = "tts.started" THEN Create(ctl, ctl.event.r)
                                         ELSE Leave(ctl)
    /\ UNCHANGED <<host, down, up, transport, trouble>>

ControllerStep == Take \/ Stored \/ Silenced \/ Checkpointed \/ Reported

-----------------------------------------------------------------------------
(* What the user does; none of it waits for the queue.                     *)

\* cancelAssistant
Cancel ==
    /\ "cancel" \in User /\ ctl.active # None /\ ctl.pausing = "no"
    /\ ~ctl.stopped /\ transport.refused = "" /\ ctl.cancelling = None
    /\ LET quiet == [ctl EXCEPT !.speaking = FALSE, !.deferred = Idle] IN
       IF Live(part[ctl.active])
       THEN ctl' = [quiet EXCEPT !.cancelling = ctl.active]
       ELSE ctl' = [quiet EXCEPT !.provisional = NoPause]
    /\ part' = Active(Stop(Playing, "cancelled"))
    /\ up' = Append(up, [type |-> "turn.cancel", r |-> None, at |-> 0])
    /\ Trouble
    /\ UNCHANGED <<host, down, transport>>

\* pause(): a barrier, the snapshot, and the end of the session if it held
Pause ==
    /\ "pause" \in User /\ ctl.pausing = "no" /\ ~ctl.stopped
    /\ ctl' = [ctl EXCEPT !.pausing =
                   IF ctl.active # None /\ Live(part[ctl.active]) THEN "muted"
                                                                  ELSE "silent"]
    /\ part' = Active(Mute(Playing))
    /\ Trouble
    /\ UNCHANGED <<host, down, up, transport>>

PauseSettles ==
    /\ ctl.pausing # "no" /\ ctl.step = "idle" /\ ~ctl.stopped
    /\ \/ /\ ctl' = [ctl EXCEPT !.pausing = "no", !.stopped = TRUE]
          /\ part' = Active(Stop(Playing, "stopped"))
          /\ UNCHANGED trouble
       \/ /\ Trouble
          /\ ctl' = Degraded([ctl EXCEPT !.pausing = "no"])
          /\ part' = IF ctl.pausing = "muted" THEN Active(Unmute(Playing)) ELSE part
    /\ UNCHANGED <<host, down, up, transport>>

Leaves ==
    /\ "stop" \in User /\ ctl.pausing = "no" /\ ~ctl.stopped
    /\ ctl' = [ctl EXCEPT !.stopped = TRUE, !.speaking = FALSE, !.deferred = Idle]
    /\ part' = Active(Stop(Playing, "stopped"))
    /\ Trouble
    /\ UNCHANGED <<host, down, up, transport>>

Next ==
    \/ HostStep \/ Arrive \/ ControllerStep \/ Cancel \/ Pause \/ PauseSettles
    \/ Leaves
    \/ \E r \in Responses : Play(r) \/ ReportStored(r)

Spec == Init /\ [][Next]_vars

-----------------------------------------------------------------------------
\* Types, and a player never plays past what it could schedule.
TypeOK ==
    /\ host.active \in Responses \cup {None} /\ host.pause \in {"none", "open", "checked"}
    /\ transport.bound \in [Responses -> {"none", "live", "terminal"}]
    /\ ctl.step \in {"idle", "storing", "pausing", "checkpointing", "reporting"}
    /\ ctl.active \in Responses \cup {None}
    /\ \A r \in Responses : part[r].played \in 0..Scheduled(part[r])

\* At most one response is audible: a new part is created only when the report
\* of the one before it is stored (controller.ts, terminalize, then
\* createPlayback), however cancellations, pauses and the user interleave.
OneVoice == \A r, q \in Responses :
    part[r].player = "audible" /\ part[q].player = "audible" => r = q

\* A player reports "completed" only when the host sent nothing that was not
\* heard: tts.ended may come before the last buffer source ends, and a
\* chunk may be lost (playback.ts, completeIfReady and handleSourceEnded).
CompletedWasHeard == \A r \in Responses : part[r].reason = "completed" =>
    part[r].played = host.sent[r] /\ host.stream # r

Resting ==
    /\ down = <<>> /\ up = <<>> /\ ctl.queue = <<>> /\ ctl.step = "idle"
    /\ ctl.pausing = "no" /\ ~ctl.degraded /\ ~ctl.stopped

\* Once both sides have heard everything, what the browser still plays is
\* the response the host still owns: no cancellation, failure, takeover or
\* supersession leaves a player behind that nobody will stop.  And when the user
\* is silent, a muted player belongs to a pause of the host with its checkpoint,
\* which a decision or the recovery timer ends: a resume that speech deferred
\* is not lost (controller.ts, deferredSafeResolution).
SettledAgree == Resting =>
    \A r \in Responses :
        /\ Live(part[r]) => host.active = r
        /\ part[r].player = "muted" /\ ~ctl.speaking =>
              host.active = r /\ host.pause = "checked"

\* A response that fails costs the session nothing else: the host sends the
\* failure as recoverable, with "Continue listening.", and the transport's
\* test "accepts response.failed followed by the generic failure without
\* disconnecting" says so.  But the transport forgets the response on
\* response.failed, and takes the response.cancelled that the host sends
\* after it for a protocol error.
FailureIsSurvived == transport.refused # "cancelled"
=============================================================================
