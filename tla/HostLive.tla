------------------------------- MODULE HostLive -------------------------------
(***************************************************************************)
(* How the host takes a conversation live and back (server/BrowserSession  *)
(* .ts): preparation, session.begin, the audio engine it opens, rollback   *)
(* and stop, with the connection half of the audio client                  *)
(* (sidecar/AudioClient.ts) and the sidecar that allows one capture stream *)
(* (runtime.py).                                                           *)
(*                                                                         *)
(* Commands are handled one after the other, except the planning controls, *)
(* the end of a conversation whose browser is gone, and what a handler     *)
(* leaves running.  An action is one turn of the event loop: it runs to the *)
(* next await that really waits.                                           *)
(***************************************************************************)
EXTENDS Integers, FiniteSets

CONSTANTS
    HlClients,      \* bound on the audio clients made
    HlStreams,      \* capture streams the browser numbers
    HlAttempts,     \* bound on the preparation attempts
    HlCommands,     \* bound on the commands handled
    HlTrouble       \* bound on the failures of the sidecar

Clients == 1..HlClients
Streams == 1..HlStreams
None == 0
Saved == HlAttempts + 1      \* the notes of an earlier session

VARIABLE hl

\* an audio client and its stream at the sidecar
Client == [conn |-> "none", ready |-> "unseen", sent |-> FALSE, opened |-> FALSE,
           failed |-> FALSE, closing |-> FALSE, side |-> "none"]

Idle == [at |-> "idle", client |-> None, stream |-> None]

Init ==
    hl = [open |-> FALSE, client |-> [c \in Clients |-> Client], made |-> 0,
          audio |-> None, orch |-> None, context |-> None, capture |-> None,
          begun |-> None, live |-> FALSE, cmd |-> Idle, rolling |-> {},
          plan |-> [run |-> None, aborted |-> FALSE, made |-> 0, state |-> "none",
                    notes |-> None, told |-> None, asked |-> FALSE],
          phase |-> "none", overlap |-> FALSE, stop |-> "no", stopped |-> FALSE,
          pis |-> "none", commands |-> 0, trouble |-> 0]

\* emitSessionPhase, emitPlanningState, the orchestrator's session.state
Tell(h, phase) == IF h.stopped THEN h ELSE [h EXCEPT !.phase = phase]

-----------------------------------------------------------------------------
(* The audio client.                                                       *)

Connection(h, c) == h.client[c].conn \in {"connecting", "up"}

\* close: the socket is let go of at once and is gone within half a second
CloseClient(h, c) ==
    [h EXCEPT !.client[c].closing = TRUE, !.client[c].opened = FALSE,
              !.client[c].sent = FALSE,
              !.client[c].conn = IF Connection(h, c) THEN "closing" ELSE @]

\* close returns without waiting when there is no socket, or not any more
ClosesAtOnce(h, c) == c = None \/ ~Connection(h, c)

\* begin, catch: the end of the rollback of a failed begin
Retryable(h) ==
    Tell([h EXCEPT !.audio = None, !.orch = None, !.cmd = Idle], "prelive")

\* mutant: the failed begin lets go of its engine without closing it
MutantCatch(h) == Retryable([h EXCEPT !.capture = None, !.begun = None])

\* begin, catch
Catch(h) ==
    LET g == [h EXCEPT !.capture = None, !.begun = None] IN
    IF ClosesAtOnce(g, g.audio) THEN Retryable(g)
    ELSE [CloseClient(g, g.audio) EXCEPT !.cmd = [@ EXCEPT !.at = "catch"]]

\* connectionFailure, sidecarFailureMessage, protocolFailure, failAll: who waits
\* for the connection or the stream fails with it
Failed(h, c) ==
    LET g == [h EXCEPT !.client[c].failed = TRUE, !.client[c].ready = "failed",
                       !.client[c].conn = "down"] IN
    IF h.cmd.client = c /\ h.cmd.at \in {"connect", "opened"} THEN Catch(g) ELSE g

Connect ==
    \E c \in Clients :
       /\ hl.client[c].conn = "connecting"
       /\ \/ hl' = [hl EXCEPT !.client[c].conn = "up",
                              !.cmd.at = IF hl.cmd.client = c /\ @ = "connect" THEN "ready" ELSE @]
          \/ /\ hl.trouble < HlTrouble
             /\ hl' = Failed([hl EXCEPT !.trouble = @ + 1], c)

\* readinessSnapshot: once, before the stream; a selection the catalog does not
\* have fails the client
Readiness ==
    \E c \in Clients, r \in {"starting", "ready", "failed", "mismatch"} :
       /\ hl.client[c].conn = "up" /\ hl.client[c].ready = "unseen" /\ ~hl.client[c].failed
       /\ r \in {"failed", "mismatch"} => hl.trouble < HlTrouble
       /\ LET h == [hl EXCEPT !.trouble = IF r \in {"failed", "mismatch"} THEN @ + 1 ELSE @] IN
          hl' = IF r = "mismatch" THEN Failed(h, c) ELSE [h EXCEPT !.client[c].ready = r]

\* open, once the sidecar is ready
SendOpen(h, c) ==
    IF h.client[c].closing \/ h.client[c].conn # "up" THEN Catch(h)
    ELSE [h EXCEPT !.client[c].sent = TRUE, !.client[c].side = "opening", !.cmd.at = "opened"]

\* waitUntilReady: polls the health of a sidecar that is starting, for a while
WaitUntilReady ==
    LET c == hl.cmd.client IN
    /\ hl.cmd.at = "ready"
    /\ LET me == hl.client[c] IN
       \/ /\ me.ready = "starting"
          /\ hl' = [hl EXCEPT !.client[c].ready = "ready"]
       \/ /\ me.ready # "ready" \/ me.failed
          /\ me.failed \/ me.closing \/ me.ready = "failed" \/ hl.trouble < HlTrouble
          /\ hl' = Catch([hl EXCEPT !.trouble = IF me.failed \/ me.closing \/ me.ready = "failed"
                                                THEN @ ELSE @ + 1])
       \/ /\ me.ready = "ready" /\ ~me.failed
          /\ hl' = SendOpen(hl, c)

\* open_stream at the sidecar: one capture stream
SidecarOpens ==
    \E c \in Clients :
       /\ hl.client[c].side = "opening"
       /\ IF \E d \in Clients \ {c} : hl.client[d].side \in {"open", "told"}
          THEN LET h == [hl EXCEPT !.client[c].side = "gone"] IN
               hl' = IF h.client[c].closing \/ h.client[c].conn # "up" THEN h ELSE Failed(h, c)
          ELSE hl' = [hl EXCEPT !.client[c].side = "open"]

\* streamOpenedMessage, and begin to its end
Opened(h, c) ==
    LET g == [h EXCEPT !.client[c].opened = TRUE] IN
    IF g.stopped
    THEN [CloseClient(g, c) EXCEPT !.cmd.at = "abandon"]
    ELSE Tell([g EXCEPT !.capture = h.cmd.stream, !.begun = h.cmd.stream,
                        !.live = TRUE, !.cmd = Idle], "live")

StreamOpened ==
    \E c \in Clients :
       /\ hl.client[c].side = "open"
       /\ LET h == [hl EXCEPT !.client[c].side = "told"] IN
          hl' = IF h.client[c].closing \/ h.client[c].conn # "up" THEN h ELSE Opened(h, c)

\* close_stream, once the socket is closed and the workers are done
SidecarCloses ==
    \E c \in Clients :
       /\ hl.client[c].side \in {"open", "told"} /\ ~Connection(hl, c)
       /\ hl' = [hl EXCEPT !.client[c].side = "gone"]

\* the sidecar fails or its connection is lost
SidecarFails ==
    \E c \in Clients :
       /\ hl.client[c].conn = "up" /\ hl.trouble < HlTrouble
       /\ hl' = Failed([hl EXCEPT !.trouble = @ + 1], c)

-----------------------------------------------------------------------------
(* Rollback and stop.                                                      *)

\* rollbackLiveToPrelive, its end: it does not look at what came after it
RolledBack(h) ==
    Tell([h EXCEPT !.overlap = @ \/ (~h.stopped /\ (h.orch # None \/ h.plan.run # None))],
         "prelive")

\* rollbackLiveToPrelive; the handler of audio.stop does not wait for it
Rollback(h, waits) ==
    LET a == h.audio
        told == IF h.orch # None THEN Tell(h, "stopped") ELSE h
        g == [told EXCEPT !.capture = None, !.begun = None, !.live = FALSE,
                          !.orch = None, !.audio = None]
    IN IF ClosesAtOnce(h, a) THEN RolledBack(g)
       ELSE [CloseClient(g, a) EXCEPT
                !.rolling = @ \cup {a},
                !.cmd = IF waits THEN [at |-> "rollback", client |-> a, stream |-> None] ELSE @]

\* stop, after the preparation: engine, then the Pi clients
StopEngine(h) ==
    IF ClosesAtOnce(h, h.audio) THEN [h EXCEPT !.stop = "pis"]
    ELSE LET g == [CloseClient(h, h.audio) EXCEPT !.stop = "audio"] IN
         IF h.cmd.at = "opened" THEN Catch(g) ELSE g

\* stop
Stop(h) ==
    IF h.stopped THEN h
    ELSE LET g == [h EXCEPT !.stopped = TRUE,
                            !.plan.aborted = IF h.plan.run # None THEN TRUE ELSE @]
         IN IF g.plan.run # None THEN [g EXCEPT !.stop = "planning"] ELSE StopEngine(g)

\* the socket of a closed client is gone; whoever waited for it goes on
SocketClosed ==
    \E c \in Clients :
       /\ hl.client[c].conn = "closing"
       /\ LET h0 == [hl EXCEPT !.client[c].conn = "down"]
              h1 == IF h0.stop = "audio" /\ h0.audio \in {c, None}
                    THEN [h0 EXCEPT !.stop = "pis"] ELSE h0
              h2 == IF c \in h1.rolling
                    THEN RolledBack([h1 EXCEPT !.rolling = @ \ {c}]) ELSE h1
              mine == h2.cmd.client = c
          IN hl' = IF ~mine THEN h2
                   ELSE IF h2.cmd.at = "rollback" THEN [h2 EXCEPT !.cmd = Idle]
                   ELSE IF h2.cmd.at = "catch" THEN Retryable(h2)
                   ELSE IF h2.cmd.at = "abandon"
                   THEN [h2 EXCEPT !.cmd = Idle, !.audio = None, !.orch = None]
                   ELSE IF h2.cmd.at = "connect" THEN Catch(h2)
                   ELSE h2

PisDown ==
    /\ hl.stop = "pis"
    /\ hl' = [hl EXCEPT !.stop = "done", !.pis = IF @ = "alive" THEN "down" ELSE @]

-----------------------------------------------------------------------------
(* Preparation.                                                            *)

\* runPlanning, to its first item
Plan(h) ==
    LET n == h.plan.made + 1 IN
    Tell([h EXCEPT !.plan.run = n, !.plan.made = n, !.plan.aborted = FALSE,
                   !.plan.state = "running"], "preparing")

\* begin, from the cancelled preparation on
StartLive(h, s) ==
    LET c == h.made + 1 IN
    Tell([h EXCEPT !.made = c, !.audio = c, !.orch = c, !.context = h.plan.notes,
                   !.client[c].conn = "connecting",
                   !.cmd = [at |-> "connect", client |-> c, stream |-> s]], "starting_live")

\* mutant: an attempt that was cancelled leaves the notes it had got
MutantEnded(h, result) ==
    IF h.plan.aborted
    THEN Tell([h EXCEPT !.plan.run = None, !.plan.state = "cancelled",
                        !.plan.notes = h.plan.run], "prelive")
    ELSE Tell([h EXCEPT !.plan.run = None, !.plan.state = result,
                        !.plan.notes = IF result = "ready" THEN h.plan.run ELSE None,
                        !.plan.told = IF result = "ready" THEN h.plan.run ELSE None], "prelive")

\* runPlanning, to its end: its notes are announced, or there are none
Ended(h, result) ==
    LET r == IF h.plan.aborted \/ h.stopped THEN "cancelled" ELSE result
        notes == IF r = "ready" THEN h.plan.run ELSE None
    IN Tell([h EXCEPT !.plan.run = None, !.plan.state = r, !.plan.notes = notes,
                      !.plan.told = notes], "prelive")

\* the attempt ends; begin and stop wait for it
PlanningEnds ==
    \E result \in {"ready", "failed"} :
       /\ hl.plan.run # None
       /\ LET h == Ended(hl, result)
              g == IF h.cmd.at # "planning" THEN h
                   ELSE IF h.stopped THEN [h EXCEPT !.cmd = Idle]
                   ELSE StartLive(h, h.cmd.stream)
          IN hl' = IF h.stop = "planning" THEN StopEngine(g) ELSE g

\* planning.cancel and planning.retry overtake the commands that wait
PlanningControl ==
    /\ hl.open /\ ~hl.stopped /\ hl.commands < HlCommands
    /\ LET h == [hl EXCEPT !.commands = @ + 1] IN
       \/ /\ hl.plan.run # None /\ ~hl.plan.aborted
          /\ hl' = [h EXCEPT !.plan.aborted = TRUE]
       \/ /\ hl.plan.asked /\ hl.orch = None /\ hl.plan.run = None /\ hl.plan.made < HlAttempts
          /\ hl' = Plan(h)

-----------------------------------------------------------------------------
(* The commands.                                                           *)

Open ==
    /\ ~hl.open /\ ~hl.stopped
    /\ LET h == [hl EXCEPT !.open = TRUE, !.pis = "alive"] IN
       \/ hl' = Tell(h, "prelive")
       \/ \E notes \in {None, Saved} :
             hl' = Tell([h EXCEPT !.plan.asked = TRUE, !.plan.notes = notes,
                                  !.plan.told = notes], "prelive")
       \/ hl' = Plan([h EXCEPT !.plan.asked = TRUE])

Handled == hl.open /\ ~hl.stopped /\ hl.cmd.at = "idle" /\ hl.commands < HlCommands

\* begin: idempotent while live, refused when not back at the start
Begin(s) ==
    /\ Handled /\ (hl.orch # None \/ hl.made < HlClients)
    /\ LET h == [hl EXCEPT !.commands = @ + 1] IN
       IF h.orch # None THEN hl' = h
       ELSE IF h.plan.run # None
       THEN hl' = [h EXCEPT !.plan.aborted = TRUE,
                            !.cmd = [at |-> "planning", client |-> None, stream |-> s]]
       ELSE hl' = StartLive(h, s)

\* startAudio: a fresh capture takes the stream over; on a failed engine the
\* capture is refused
AudioStart(s) ==
    /\ Handled
    /\ LET h == [hl EXCEPT !.commands = @ + 1] IN
       hl' = IF h.orch = None \/ h.capture = s THEN h
             ELSE IF h.client[h.audio].opened /\ ~h.client[h.audio].failed
             THEN [h EXCEPT !.capture = s]
             ELSE [h EXCEPT !.capture = None]

AudioStop(s) ==
    /\ Handled /\ hl.orch # None /\ hl.capture = s
    /\ hl' = Rollback([hl EXCEPT !.commands = @ + 1], FALSE)

RollbackBegin ==
    /\ Handled /\ hl.made > 0
    /\ hl' = Rollback([hl EXCEPT !.commands = @ + 1], TRUE)

\* session.stop, and the end of a conversation whose browser is gone
SessionStop == ~hl.stopped /\ hl' = Stop(hl)

Next ==
    \/ Connect \/ Readiness \/ WaitUntilReady \/ StreamOpened \/ SocketClosed
    \/ SidecarOpens \/ SidecarCloses \/ SidecarFails
    \/ PlanningEnds \/ PlanningControl \/ Open
    \/ \E s \in Streams : Begin(s) \/ AudioStart(s) \/ AudioStop(s)
    \/ RollbackBegin \/ SessionStop \/ PisDown

Spec == Init /\ [][Next]_hl

-----------------------------------------------------------------------------
\* A begin that failed or was rolled back is a real, retryable return to the
\* start (BrowserSession.ts:524-526, 736-738): whatever failed, whoever stopped
\* the conversation meanwhile, no engine is left that nobody owns, a live session
\* has the orchestrator and the engine of the same begin, and one that is not has
\* neither.  A stopped conversation leaves no engine, attempt or child behind.
EngineIsOwned ==
    /\ \A c \in Clients : Connection(hl, c) => c = hl.audio
    /\ hl.live /\ ~hl.stopped =>
         /\ hl.orch # None /\ hl.orch = hl.audio
         /\ hl.client[hl.audio].opened \/ hl.client[hl.audio].failed
         /\ hl.begun # None \/ hl.client[hl.audio].failed
    /\ ~hl.live /\ hl.cmd.at = "idle" /\ ~hl.stopped =>
         hl.audio = None /\ hl.orch = None /\ hl.capture = None /\ hl.begun = None
    /\ hl.stop = "done" =>
         /\ \A c \in Clients : ~Connection(hl, c)
         /\ hl.plan.run = None /\ hl.pis # "alive"

\* The browser knows where the session is: the notes that join the conversation
\* are the ones it was shown, and at rest the phase it was told last is the phase
\* the session is in -- except that a rollback the handler of audio.stop does not
\* wait for reports "prelive" over the begin or the preparation that came after it
\* (BrowserSession.ts:739, 750).
BrowserIsTold ==
    /\ hl.plan.notes = hl.plan.told
    /\ hl.orch # None => hl.context = hl.plan.told
    /\ hl.open /\ ~hl.stopped /\ hl.cmd.at = "idle" /\ hl.rolling = {} /\ ~hl.overlap =>
         hl.phase = IF hl.live THEN "live"
                    ELSE IF hl.plan.run # None THEN "preparing" ELSE "prelive"
=============================================================================
