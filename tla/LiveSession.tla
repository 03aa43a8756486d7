----------------------------- MODULE LiveSession -----------------------------
(***************************************************************************)
(* The page around a conversation: what App.tsx does to start, resume,     *)
(* pause and end a session, and the runtime of each session                *)
(* (session/live-runtime.ts) that owns its transport, its recording and    *)
(* its microphone (audio/capture.ts).                                      *)
(*                                                                         *)
(* The handlers of the page are asynchronous functions: an action is what  *)
(* one of them does between two awaits, and anything may happen while it   *)
(* waits.  The host is what it answers to session.begin and audio.start.   *)
(* again and overtaken are history: Begin was pressed while a microphone   *)
(* was on; a runtime ended or lost its transport while a begin was waiting,   *)
(* or was composed while another was being ended or paused.                *)
(***************************************************************************)
EXTENDS Integers, FiniteSets

CONSTANTS
    LvSessions,     \* sessions stored on this device
    LvRuntimes,     \* bound on the runtimes composed
    LvMics,         \* bound on the microphones opened
    LvTrouble       \* bound on failures, lost sockets and reloads

VARIABLE lv

Sessions == 1..LvSessions
Runtimes == 1..LvRuntimes
None == 0

Blank ==
    [of |-> None, stage |-> "none", stopped |-> FALSE, released |-> FALSE, late |-> FALSE,
     capture |-> None, link |-> "none", pend |-> "none", subs |-> FALSE,
     begin |-> "idle", recover |-> "idle", end |-> "idle", drop |-> "idle",
     again |-> FALSE, overtaken |-> FALSE]

NoStart == [at |-> "idle", of |-> None, rt |-> None, begins |-> FALSE, recovers |-> FALSE]
NoStop == [at |-> "idle", of |-> None, rt |-> None, ok |-> TRUE, next |-> None]
NoPause == [at |-> "idle", rt |-> None]

Init ==
    lv = [rt |-> [r \in Runtimes |-> Blank], row |-> [s \in Sessions |-> "draft"],
          card |-> [s \in Sessions |-> FALSE],
          ref |-> None, cur |-> None, cap |-> TRUE, action |-> "idle",
          stopped |-> FALSE, paused |-> FALSE,
          go |-> NoStart, halt |-> NoStop, hold |-> NoPause,
          on |-> {}, opened |-> 0, trouble |-> 0]

TroubleLeft == lv.trouble < LvTrouble
Troubled(l) == [l EXCEPT !.trouble = @ + 1]
Unused == {r \in Runtimes : lv.rt[r].stage = "none"}

-----------------------------------------------------------------------------
(* The runtime of one session.                                             *)

\* the handle's stop() ends the tracks before it waits for the audio context
Released(l, r) ==
    [l EXCEPT !.on = {m \in @ : m.n # l.rt[r].capture}, !.rt[r].capture = None]

\* generation is counted on: a recovery under way is of an earlier one now
Superseded(l, r) == [l EXCEPT !.rt[r].late = l.rt[r].recover # "idle"]

\* a begin that is not refused goes on, whatever ends under it
Overtaken(l, r) ==
    IF l.rt[r].begin # "idle" THEN [l EXCEPT !.rt[r].overtaken = TRUE] ELSE l

\* beginLive's catch; the start that called it sees the failure
BeginFails(l, r) ==
    LET undone == [Released(l, r) EXCEPT !.rt[r].begin = "idle"]
    IN IF l.go.at = "begin" /\ l.go.rt = r THEN [undone EXCEPT !.go.at = "failed"] ELSE undone

\* beginLive: joined while one is under way, refused once the runtime ended
BeginLive(l, r) ==
    LET me == l.rt[r]
        asked == [l EXCEPT !.rt[r].again = @ \/ me.capture # None \/ me.recover # "idle",
                           !.rt[r].begin = "host", !.rt[r].pend = "begin"]
    IN IF me.begin # "idle" THEN l
       ELSE IF me.stopped \/ me.stage # "open"
       THEN IF l.go.at = "begin" /\ l.go.rt = r THEN [l EXCEPT !.go.at = "failed"] ELSE l
       ELSE IF me.pend # "none" \/ me.link # "up"
       THEN BeginFails([asked EXCEPT !.rt[r].pend = me.pend], r)
       ELSE asked

\* session.state with an audio engine that is ready settles whoever waits
HostReady(r) ==
    /\ lv.rt[r].pend # "none" /\ lv.rt[r].link = "up"
    /\ lv' = IF lv.rt[r].pend = "begin"
             THEN [lv EXCEPT !.rt[r].pend = "none", !.rt[r].begin = "activate"]
             ELSE [lv EXCEPT !.rt[r].pend = "none", !.rt[r].recover = "mic"]

\* a rejected wait for the host
Rejected(l, r) ==
    CASE l.rt[r].pend = "begin" -> BeginFails([l EXCEPT !.rt[r].pend = "none"], r)
      [] l.rt[r].pend = "recover" -> [l EXCEPT !.rt[r].pend = "none", !.rt[r].recover = "idle"]
      [] OTHER -> l

HostFailed(r) ==
    /\ TroubleLeft /\ lv.rt[r].pend # "none" /\ lv.rt[r].link = "up"
    /\ lv' = Troubled(Rejected(lv, r))

\* the row becomes active, whatever it had become meanwhile
Activate(r) ==
    /\ lv.rt[r].begin = "activate"
    /\ \/ lv' = [lv EXCEPT !.rt[r].begin = "mic", !.row[lv.rt[r].of] = "active"]
       \/ TroubleLeft /\ lv' = Troubled(BeginFails(lv, r))

Opened(l, r) ==
    [l EXCEPT !.on = @ \union {[n |-> l.opened + 1, of |-> r]}, !.opened = @ + 1]

\* makeCapture within beginLive: nothing is looked at again once it is there
BeginMic(r) ==
    /\ lv.rt[r].begin = "mic" /\ lv.opened < LvMics
    /\ \/ LET l == [Opened(lv, r) EXCEPT !.rt[r].capture = lv.opened + 1,
                        !.rt[r].begin = "idle", !.rt[r].subs = TRUE]
          IN lv' = IF l.go.at = "begin" /\ l.go.rt = r THEN [l EXCEPT !.go.at = "done"] ELSE l
       \/ TroubleLeft /\ lv' = Troubled(BeginFails(lv, r))

\* recoverCapture, up to the wait for the old capture
Recover(r) ==
    /\ TroubleLeft /\ lv.rt[r].link = "up"
    /\ LET me == lv.rt[r] IN
       lv' = Troubled(IF ~me.subs \/ me.recover # "idle" \/ me.stopped THEN lv
                      ELSE [Released(lv, r) EXCEPT !.rt[r].late = FALSE,
                                !.rt[r].again = @ \/ me.begin # "idle", !.rt[r].recover = "old"])

\* startAudio, which has one place for whoever waits
RecoverAsks(r) ==
    /\ lv.rt[r].recover = "old"
    /\ LET me == lv.rt[r] IN
       lv' = IF me.stopped \/ me.pend # "none" \/ me.link # "up"
             THEN [lv EXCEPT !.rt[r].recover = "idle"]
             ELSE [lv EXCEPT !.rt[r].recover = "host", !.rt[r].pend = "recover"]

\* mutant: what came too late is kept
MutantRecoverMic(r) ==
    /\ lv.rt[r].recover = "mic" /\ lv.opened < LvMics
    /\ lv' = [Opened(lv, r) EXCEPT !.rt[r].recover = "idle",
                 !.rt[r].capture = IF lv.rt[r].stopped THEN None ELSE lv.opened + 1]

\* a microphone that came too late is given back
RecoverMic(r) ==
    /\ lv.rt[r].recover = "mic" /\ lv.opened < LvMics
    /\ LET kept == ~lv.rt[r].late /\ ~lv.rt[r].stopped
       IN \/ lv' = IF kept
                   THEN [Opened(lv, r) EXCEPT !.rt[r].recover = "idle",
                             !.rt[r].capture = lv.opened + 1]
                   ELSE [lv EXCEPT !.rt[r].recover = "idle", !.opened = @ + 1]
          \/ TroubleLeft /\ lv' = Troubled([lv EXCEPT !.rt[r].recover = "idle"])

\* the transport gives up: waits are rejected, then its listeners run
LinkFails(r) ==
    /\ TroubleLeft /\ lv.rt[r].link = "up"
    /\ LET l == Rejected([lv EXCEPT !.rt[r].link = "failed"], r)
           heard == Released(Superseded(l, r), r)
       IN lv' = Troubled(Overtaken(IF lv.rt[r].released THEN l ELSE heard, r))

\* a track that ends stops its capture; the runtime keeps the handle
MicLost ==
    /\ TroubleLeft
    /\ \E m \in lv.on : lv' = Troubled([lv EXCEPT !.on = @ \ {m}])

-----------------------------------------------------------------------------
(* Its ends.                                                               *)

\* controller.pause, up to the checkpoint
PauseCheckpoint(r) ==
    /\ lv.rt[r].end = "pausing"
    /\ LET s == lv.rt[r].of
           holds == lv.row[s] \in {"active", "paused"}
       IN \/ /\ holds
             /\ lv' = Overtaken([lv EXCEPT !.row[s] = "paused", !.rt[r].end = "checkpointed",
                                           !.rt[r].link = "closed"], r)
          \/ /\ ~holds \/ TroubleLeft
             /\ LET l == [lv EXCEPT !.rt[r].end = "idle", !.hold = NoPause, !.action = "idle"]
                IN lv' = IF holds THEN Troubled(l) ELSE l

\* releaseLiveResources
PauseReleases(r) ==
    /\ lv.rt[r].end = "checkpointed"
    /\ LET l == Released(Superseded([lv EXCEPT !.rt[r].stopped = TRUE], r), r)
       IN lv' = [l EXCEPT !.rt[r].end = "idle", !.rt[r].released = TRUE, !.rt[r].subs = FALSE,
                          !.hold.at = "host"]

\* stop, up to the wait for the capture; nothing if it has ended
StopRuntime(l, r) ==
    IF l.rt[r].stopped THEN [l EXCEPT !.halt.at = "row"]
    ELSE Overtaken(Released([l EXCEPT !.rt[r].stopped = TRUE, !.rt[r].end = "stopping"], r), r)

\* controller.stop, then the recording and what is subscribed
RuntimeStops(r) ==
    /\ lv.rt[r].end = "stopping"
    /\ LET ended == [lv EXCEPT !.row[lv.rt[r].of] = "stopped", !.rt[r].end = "recording",
                               !.rt[r].link = "closed"]
       IN \/ lv' = ended
          \/ TroubleLeft /\ lv' = Troubled([ended EXCEPT !.row = lv.row])

RuntimeStopped(r) ==
    /\ lv.rt[r].end = "recording"
    /\ lv' = [lv EXCEPT !.rt[r].end = "idle", !.rt[r].released = TRUE, !.rt[r].subs = FALSE,
                        !.halt.at = IF lv.halt.rt = r THEN "row" ELSE @]

\* dispose, and what controller.pause leaves of the row
Dispose(l, r) ==
    Overtaken(Released(Superseded([l EXCEPT !.rt[r].stopped = TRUE,
                                            !.rt[r].drop = "disposing"], r), r), r)

RuntimeDisposed(r) ==
    /\ lv.rt[r].drop = "disposing"
    /\ LET s == lv.rt[r].of
           pauses == lv.rt[r].link \in {"up", "failed"} /\ lv.row[s] \in {"active", "paused"}
       IN \E row \in IF pauses THEN {lv.row[s], "paused"} ELSE {lv.row[s]} :
            lv' = [lv EXCEPT !.row[s] = row, !.rt[r].drop = "idle", !.rt[r].link = "closed",
                             !.rt[r].released = TRUE, !.rt[r].subs = FALSE, !.go.at = "row"]

-----------------------------------------------------------------------------
(* Starting: start(), and the recovery of the session a reload interrupted. *)

Compose(l, s, begins, recovers) ==
    LET r == CHOOSE u \in Unused : \A v \in Unused : u <= v
    IN [l EXCEPT !.go = [NoStart EXCEPT !.at = "compose", !.of = s, !.rt = r,
                                        !.begins = begins, !.recovers = recovers],
                 !.rt[r] = [Blank EXCEPT !.of = s, !.stage = "opening",
                                           !.overtaken = l.halt.at # "idle" \/ l.hold.at # "idle"],
                 !.stopped = IF recovers THEN @ ELSE FALSE, !.paused = FALSE]

\* the page of a draft, which let go of another session (Leave) or ended it,
\* unless an end or a pause was under way; drafts are numbered as they are opened
StartDraft(s) ==
    /\ \A q \in 1..s - 1 : lv.row[q] # "draft" \/ \E r \in Runtimes : lv.rt[r].of = q
    /\ lv.row[s] = "draft" /\ lv.cap /\ lv.go.at = "idle" /\ Unused # {}
    /\ lv.cur # s /\ (lv.cur = None \/ lv.action # "idle")
    /\ \E planned \in BOOLEAN :
         lv' = Compose([lv EXCEPT !.card[s] = planned], s, ~planned, FALSE)

\* composeSession: the runtime opens, or has disposed of itself
ComposeOpens ==
    /\ lv.go.at = "compose"
    /\ LET r == lv.go.rt
           open == [lv EXCEPT !.rt[r].stage = "open", !.rt[r].link = "up",
                              !.ref = r, !.cap = TRUE, !.cur = lv.go.of, !.stopped = FALSE,
                              !.go.at = IF lv.go.begins THEN "begins" ELSE "done"]
           dropped == [lv EXCEPT !.rt[r].stage = "dropped", !.rt[r].stopped = TRUE,
                                 !.rt[r].released = TRUE, !.go.at = "failed"]
       IN lv' = open \/ (TroubleLeft /\ lv' = Troubled(dropped))

\* runtimeRef.current?.beginLive()
StartBegins ==
    /\ lv.go.at = "begins"
    /\ lv' = IF lv.ref = None THEN [lv EXCEPT !.go.at = "done"]
             ELSE BeginLive([lv EXCEPT !.go.at = "begin", !.go.rt = lv.ref], lv.ref)

StartDone ==
    /\ lv.go.at = "done"
    /\ lv' = [lv EXCEPT !.go = NoStart, !.action = IF @ = "resuming" THEN "idle" ELSE @]

\* the catch: whatever runtime the page refers to now is disposed
StartFailed ==
    /\ lv.go.at = "failed"
    /\ LET l == [lv EXCEPT !.stopped = IF lv.go.recovers THEN @ ELSE TRUE]
           r == lv.ref
       IN lv' = IF r = None \/ lv.rt[r].drop # "idle" THEN [l EXCEPT !.go.at = "row"]
                ELSE Dispose([l EXCEPT !.go.at = "dispose"], r)

\* the row of the session is paused, and the host released
StartRolledBack ==
    /\ lv.go.at = "row"
    /\ LET s == lv.go.of
           back == [lv EXCEPT !.ref = None, !.cap = FALSE, !.go = NoStart,
                              !.action = IF @ = "resuming" THEN "idle" ELSE @]
           Row(st) == [back EXCEPT !.row[s] = st, !.paused = (st = "paused")]
       IN \/ lv' = Row(IF lv.row[s] = "active" THEN "paused" ELSE lv.row[s])
          \/ TroubleLeft /\ lv.row[s] = "active" /\ lv' = Troubled(Row("active"))

\* the button of the preparation's card, which stays after going live
PressBegin ==
    /\ lv.cur # None /\ lv.ref # None /\ lv.card[lv.cur]
    /\ lv' = BeginLive(lv, lv.ref)

-----------------------------------------------------------------------------
(* Ending, pausing and resuming.                                           *)

StopSession(l, then) ==
    LET r == l.ref
        begun == [l EXCEPT !.action = "ending", !.stopped = TRUE, !.paused = FALSE,
                           !.halt = [NoStop EXCEPT !.at = "runtime", !.of = l.cur, !.rt = r,
                                                   !.next = then]]
    IN IF r = None THEN [begun EXCEPT !.halt.at = "row"] ELSE StopRuntime(begun, r)

Stop == lv.action = "idle" /\ lv.cur # None /\ lv' = StopSession(lv, None)

\* endSession, the host, and what the page shows
Resume(l, s) ==
    LET begins == IF l.card[s] THEN BOOLEAN ELSE {TRUE}
    IN {Compose([l EXCEPT !.action = "resuming", !.cap = TRUE], s, b, FALSE) : b \in begins}

StopEnds ==
    /\ lv.halt.at = "row"
    /\ LET s == lv.halt.of
           done == [lv EXCEPT !.ref = None, !.halt = NoStop, !.action = "idle"]
           gone == [done EXCEPT !.row[s] = "stopped", !.cap = FALSE, !.cur = None]
           kept == [done EXCEPT !.row[s] = IF @ = "active" THEN "paused" ELSE @,
                                !.stopped = TRUE, !.paused = TRUE]
           goesOn == lv.halt.next # None /\ lv.go.at = "idle" /\ Unused # {}
       IN \/ IF goesOn THEN lv' \in Resume(gone, lv.halt.next) ELSE lv' = gone
          \/ TroubleLeft /\ lv' = Troubled(kept)

\* leaving a stopped session's page
Leave ==
    /\ lv.cur # None /\ lv.stopped
    /\ lv' = [lv EXCEPT !.cur = None]

Pause ==
    /\ lv.action = "idle" /\ lv.cur # None /\ ~lv.paused /\ lv.ref # None
    /\ ~lv.rt[lv.ref].stopped
    /\ lv' = [lv EXCEPT !.action = "pausing", !.hold = [at |-> "runtime", rt |-> lv.ref],
                        !.rt[lv.ref].end = "pausing"]

\* the host is told, whether or not it answers
PauseDone ==
    /\ lv.hold.at = "host"
    /\ lv' = [lv EXCEPT !.stopped = TRUE, !.paused = TRUE, !.cap = FALSE, !.hold = NoPause,
                        !.action = "idle"]

\* another session that still runs is ended first
Continue(s) ==
    /\ lv.action = "idle" /\ lv.row[s] \in {"paused", "stopped", "active"} /\ lv.go.at = "idle"
    /\ lv.cur = s => lv.paused
    /\ Unused # {}
    /\ IF lv.cur \notin {None, s} /\ ~lv.stopped
       THEN lv' = StopSession(lv, s) ELSE lv' \in Resume(lv, s)

\* the page is loaded anew at the session it showed
Reload ==
    /\ TroubleLeft /\ lv.cur # None
    /\ LET s == lv.cur
           l == Troubled([lv EXCEPT !.rt = [r \in Runtimes |-> IF lv.rt[r].stage = "none" THEN Blank
                                             ELSE [Blank EXCEPT !.stage = "dropped", !.stopped = TRUE]],
                    !.ref = None, !.cur = None, !.cap = FALSE, !.action = "idle", !.stopped = FALSE,
                    !.paused = FALSE, !.go = NoStart, !.halt = NoStop, !.hold = NoPause, !.on = {}])
       IN lv' = IF lv.row[s] = "active" /\ Unused # {} THEN Compose(l, s, FALSE, TRUE) ELSE l

RuntimeStep(r) ==
    \/ HostReady(r) \/ HostFailed(r) \/ Activate(r) \/ BeginMic(r)
    \/ Recover(r) \/ RecoverAsks(r) \/ RecoverMic(r) \/ LinkFails(r)
    \/ PauseCheckpoint(r) \/ PauseReleases(r) \/ RuntimeStops(r) \/ RuntimeStopped(r)
    \/ RuntimeDisposed(r)

Next ==
    \/ \E r \in Runtimes : RuntimeStep(r)
    \/ \E s \in Sessions : StartDraft(s) \/ Continue(s)
    \/ ComposeOpens \/ StartBegins \/ StartDone \/ StartFailed \/ StartRolledBack
    \/ PressBegin \/ Stop \/ StopEnds \/ Leave \/ Pause \/ PauseDone \/ MicLost \/ Reload

Spec == Init /\ [][Next]_lv

-----------------------------------------------------------------------------
AtRest(r) ==
    LET me == lv.rt[r]
    IN me.begin = "idle" /\ me.recover = "idle" /\ me.end = "idle" /\ me.drop = "idle"

\* When nothing is under way in a runtime, the only microphone it has on is the
\* one it holds and can stop, it has none once it ended or lost its transport,
\* and what it hears is of a session that is stored as active: over every order
\* of begins, recoveries after a reconnect, failures, pauses, ends and failed
\* starts, a microphone that arrives too late included (live-runtime.ts:390-436,
\* 465-498).  Excepted are the two orders the code does not handle, which the
\* history fields name.
MicrophoneIsOwned ==
    \A r \in Runtimes :
       LET mine == {m \in lv.on : m.of = r}
       IN AtRest(r) /\ ~lv.rt[r].again /\ ~lv.rt[r].overtaken =>
            /\ \A m \in mine : m.n = lv.rt[r].capture
            /\ lv.rt[r].stopped \/ lv.rt[r].link # "up" => mine = {}
            /\ mine # {} => lv.row[lv.rt[r].of] = "active"
=============================================================================
