----------------------------- MODULE StoredTurns -----------------------------
(***************************************************************************)
(* What a browser keeps of a session in IndexedDB                          *)
(* (storage/stable-turn-writer.ts): the session's row, a turn with its     *)
(* response, and the accounting of that response's playback.               *)
(*                                                                         *)
(* Events of the host and reports of the player come on two lanes, each in *)
(* its order and neither in order with the other; each is one transaction, *)
(* which may fail, and any of them may be delivered again, later.  A pause *)
(* and a reload of the page can cut both lanes at any point.               *)
(*                                                                         *)
(* The response belongs to the first run; later runs have others.  Two     *)
(* turns suffice: one that is answered, and the final that interrupts its  *)
(* response, of which only what it does to the first is kept.              *)
(***************************************************************************)
EXTENDS Integers, FiniteSets, Sequences

CONSTANTS
    StSamples,      \* samples the response generates
    StRuns,         \* bound on the times the session is begun
    StTrouble       \* bound on failed writes, redeliveries and reloads

VARIABLE st

None == 0
Asked == 1
Edited == 2

\* the events of the host lane, and what each of them comes after and
\* excludes
Plans == {"plan.planning", "plan.ready", "plan.failed"}
Finals == {"final1", "final2"}
HostEvents == Finals \union
    {"transcript.final", "reasoning.started", "reasoning.delta", "tts.started",
     "tts.ended", "response.cancelled", "response.failed", "decision.resume",
     "decision.accept", "barge_in.confirmed"}
After(e) ==
    CASE e = "reasoning.started" -> {"transcript.final"}
      [] e = "reasoning.delta" -> {"reasoning.started"}
      [] e \in {"final1", "response.failed"} -> {"reasoning.delta"}
      [] e \in {"final2", "tts.started"} -> {"final1"}
      [] e = "response.cancelled" -> {"tts.started"}
      [] e = "tts.ended" -> {"tts.started", "final2"}
      [] e \in {"decision.resume", "decision.accept"} -> {"playback.paused"}
      [] e = "barge_in.confirmed" -> {"decision.accept"}
      [] e \in {"plan.ready", "plan.failed"} -> {"plan.planning"}
      [] OTHER -> {}
Instead(e) ==
    CASE e \in {"response.cancelled", "response.failed", "tts.ended"} ->
           {"response.cancelled", "response.failed", "tts.ended"}
      [] e \in {"decision.resume", "decision.accept"} -> {"decision.resume", "decision.accept"}
      [] e \in {"plan.ready", "plan.failed"} -> {"plan.ready", "plan.failed"}
      [] OTHER -> {e}

BlankTurn ==
    [exists |-> FALSE, text |-> FALSE, response |-> FALSE, assistant |-> "",
     final |-> 0, playback |-> FALSE, generated |-> 0, pending |-> 0,
     delivered |-> 0, reason |-> "", interrupted |-> FALSE, paused |-> -1,
     continuation |-> "none", failed |-> FALSE]

NoAccount == [pendingMax |-> 0, terminal |-> FALSE, final |-> 0, reason |-> ""]

Init ==
    st = [session |-> "none", activeSession |-> FALSE, plan |-> "none", kept |-> FALSE,
          \* topic and depth of what the draft is to prepare and of the stored plan:
          \* Asked is what the host was asked to plan, None that there is no plan
          about |-> Asked, planned |-> None,
          turn |-> BlankTurn, account |-> NoAccount, applied |-> {},
          handed |-> {}, played |-> 0, receipt |-> "", live |-> FALSE, lane |-> FALSE, runs |-> 0,
          trouble |-> 0]

TroubleLeft == st.trouble < StTrouble
Larger(a, b) == IF a > b THEN a ELSE b
Smaller(a, b) == IF a < b THEN a ELSE b

-----------------------------------------------------------------------------
(* The session's row.                                                      *)

CreateDraft ==
    /\ st.session = "none"
    /\ st' = [st EXCEPT !.session = "draft"]

\* only a draft is edited, and a plan that is there stays; an edit before the
\* host was asked for a plan tells nothing apart
UpdateDraft ==
    /\ st.session = "draft" /\ "plan.planning" \in st.handed
    /\ st' = [st EXCEPT !.about = Edited]

\* a running session keeps its plan, and a draft one about what the start asks
\* for; any other is replaced by the one the start is about to make, or by none,
\* and only a new session or a draft is started with one (App.tsx:445-450)
Begin ==
    /\ ~st.live /\ st.runs < StRuns
    /\ \E given \in {"none", "planning"} :
         LET runs == st.session \in {"active", "paused"}
             keep == runs \/ (st.session = "draft" /\ given = "planning" /\ st.planned = st.about)
             plan == IF keep THEN st.plan ELSE given
         IN /\ given = "planning" => st.session \in {"none", "draft"}
            /\ st' = [st EXCEPT !.session = "active", !.activeSession = TRUE, !.live = TRUE,
                                !.lane = (st.runs = 0), !.runs = @ + 1, !.plan = plan,
                                !.planned = IF keep THEN @ ELSE IF given = "none" THEN None ELSE st.about,
                                !.about = Asked, !.kept = (plan = "ready")]

\* a response without a terminal receipt will not go on by itself
Closed(t, checkpointed) ==
    IF (t.assistant # "" \/ (t.response /\ ~t.failed) \/ t.playback \/ checkpointed)
       /\ t.reason = ""
    THEN [t EXCEPT !.reason = "stopped", !.interrupted = TRUE,
                   !.continuation = "discarded"]
    ELSE t

Checkpointed(t, offset) ==
    LET pending == Larger(t.pending, offset) IN
    [t EXCEPT !.paused = Larger(@, offset), !.pending = pending,
              !.delivered = IF t.generated > 0 THEN Smaller(pending, t.generated) ELSE @]

\* pauseSession, with the position of the player that is still live
Paused(s) ==
    LET t == s.turn
        live == s.receipt = "" /\ t.playback
    IN [s EXCEPT !.session = "paused", !.activeSession = TRUE,
                 !.turn = IF t.exists
                          THEN Closed(IF live THEN Checkpointed(t, s.played) ELSE t, live)
                          ELSE t]

\* the host is dropped before the snapshot; the player reports its end after it
Pause ==
    /\ st.live /\ st.session = "active"
    /\ st' = [Paused(st) EXCEPT !.live = FALSE, !.lane = FALSE]

End ==
    /\ st.session # "none"
    /\ st' = [st EXCEPT !.session = "stopped", !.activeSession = FALSE, !.live = FALSE,
                     !.lane = FALSE]

\* the page is reloaded: nothing of the run reports any more
Reload ==
    /\ st.live /\ TroubleLeft
    /\ st' = [st EXCEPT !.live = FALSE, !.lane = FALSE, !.receipt = IF @ = "" THEN "lost" ELSE @,
                        !.trouble = @ + 1]

-----------------------------------------------------------------------------
(* The accounting of the playback.                                         *)

MergeDelivered(t, offset) ==
    LET pending == Larger(t.pending, offset) IN
    [t EXCEPT !.pending = pending,
              !.delivered = IF t.generated > 0
                            THEN Larger(@, Smaller(pending, t.generated)) ELSE @]

ApplyTerminal(t, a) ==
    [t EXCEPT !.pending = a.final,
              !.delivered = IF t.generated > 0 THEN Smaller(a.final, t.generated) ELSE 0,
              !.reason = IF @ = "" THEN a.reason ELSE @,
              !.interrupted = @ \/ a.reason # "completed"]

Reconcile(t, a) ==
    IF a.terminal THEN ApplyTerminal(t, a) ELSE MergeDelivered(t, a.pendingMax)

-----------------------------------------------------------------------------
(* apply.                                                                  *)

\* session.state: a plan that is ready is not replaced by a late event, nor one
\* by an event about another topic
Planned(s, e) ==
    IF s.plan = "ready" \/ s.planned = Edited THEN s
    ELSE [s EXCEPT !.plan = CASE e = "plan.planning" -> "planning"
                              [] e = "plan.ready" -> "ready"
                              [] OTHER -> "failed",
                   !.planned = Asked, !.kept = (e = "plan.ready")]

Spoken(t, e) ==
    CASE e = "transcript.final" -> [t EXCEPT !.text = TRUE]
      [] e = "reasoning.started" -> [t EXCEPT !.response = TRUE]
      [] e = "reasoning.delta" -> IF t.final > 0 THEN t
                                  ELSE [t EXCEPT !.response = TRUE, !.assistant = e]
      [] e \in Finals ->
           LET at == IF e = "final1" THEN 1 ELSE 2 IN
           IF at < t.final THEN [t EXCEPT !.response = TRUE]
           ELSE [t EXCEPT !.response = TRUE, !.final = at, !.assistant = e]
      [] e = "response.cancelled" ->
           [t EXCEPT !.interrupted = TRUE, !.continuation = "discarded",
                     !.reason = IF @ = "" THEN "stopped" ELSE @]
      [] e = "response.failed" ->
           [t EXCEPT !.interrupted = TRUE, !.failed = TRUE,
                     !.reason = IF @ = "" THEN "failed" ELSE @]

\* mutant: the generated extent is noted, the receipt not looked at again
MutantVoiced(s, t, e) ==
    CASE e = "tts.started" -> Reconcile([t EXCEPT !.playback = TRUE], s.account)
      [] e = "tts.ended" -> [t EXCEPT !.generated = Larger(@, StSamples)]
      [] e = "playback.paused" ->
           [t EXCEPT !.paused = Larger(@, s.played), !.continuation = "paused"]
      [] OTHER -> [t EXCEPT !.interrupted = TRUE, !.continuation = "discarded"]

\* events that name the response, not the turn
Voiced(s, t, e) ==
    CASE e = "tts.started" -> Reconcile([t EXCEPT !.playback = TRUE], s.account)
      [] e = "tts.ended" ->
           Reconcile([t EXCEPT !.generated = Larger(@, StSamples)], s.account)
      [] e = "playback.paused" ->
           [t EXCEPT !.paused = Larger(@, s.played), !.continuation = "paused"]
      [] e = "barge_in.confirmed" ->
           [t EXCEPT !.interrupted = TRUE, !.continuation = "discarded"]

\* the final of the other turn, and what it decides about this response
Decided(s, e) ==
    LET resume == e = "decision.resume" IN
    IF ~s.turn.response THEN s
    ELSE [s EXCEPT !.turn.continuation = IF resume THEN "resumed" ELSE "discarded",
                   !.turn.interrupted = @ \/ ~resume]

Progress(s, offset) ==
    IF s.account.terminal THEN s
    ELSE [s EXCEPT !.account.pendingMax = Larger(@, offset),
                   !.turn = IF @.playback THEN MergeDelivered(@, offset) ELSE @]

\* the first receipt stands
Stopped(s, offset, reason) ==
    LET a == IF s.account.terminal THEN s.account
             ELSE [pendingMax |-> offset, terminal |-> TRUE, final |-> offset, reason |-> reason]
    IN [s EXCEPT !.account = a,
                 !.turn = IF @.playback THEN ApplyTerminal(@, a) ELSE @]

Applied(s, e) ==
    IF e \in s.applied THEN s
    ELSE LET r == [s EXCEPT !.applied = @ \union {e}] IN
         CASE e \in Plans -> Planned(r, e)
           [] e \in {"decision.resume", "decision.accept"} -> Decided(r, e)
           [] e = "playback.progress" -> Progress(r, r.played)
           [] e = "playback.stopped" -> Stopped(r, r.played, r.receipt)
           [] e \in {"tts.started", "tts.ended", "barge_in.confirmed", "playback.paused"} ->
                IF r.turn.response THEN [r EXCEPT !.turn = Voiced(r, @, e)] ELSE r
           [] OTHER -> [r EXCEPT !.turn = Spoken([@ EXCEPT !.exists = TRUE], e)]

\* guard: a transaction that fails changes nothing, and nobody tries again
Delivered(s, e) ==
    {Applied(s, e)} \union (IF TroubleLeft THEN {[s EXCEPT !.trouble = @ + 1]} ELSE {})

-----------------------------------------------------------------------------
(* What is delivered.                                                      *)

HostEvent(e) ==
    /\ st.lane /\ Instead(e) \intersect st.handed = {} /\ After(e) \subseteq st.handed
    /\ "response.cancelled" \notin st.handed
    /\ st' \in Delivered([st EXCEPT !.handed = @ \union {e}], e)

\* the plan is made before the conversation begins; only an old event comes later
PlanEvent(e) ==
    /\ st.live \/ st.session = "draft"
    /\ Instead(e) \intersect st.handed = {} /\ After(e) \subseteq st.handed
    /\ st.handed \subseteq Plans
    /\ st' \in Delivered([st EXCEPT !.handed = @ \union {e}], e)

\* the player counts what was heard
Hear ==
    /\ st.lane /\ "tts.started" \in st.handed /\ st.receipt = "" /\ st.played < StSamples
    /\ st' = [st EXCEPT !.played = @ + 1]

ReportProgress ==
    /\ st.lane /\ st.played > 0 /\ st.receipt = ""
    /\ "playback.progress" \notin st.handed
    /\ st' \in Delivered([st EXCEPT !.handed = @ \union {"playback.progress"}], "playback.progress")

ReportPaused ==
    /\ st.lane /\ "tts.started" \in st.handed /\ st.receipt = ""
    /\ "playback.paused" \notin st.handed
    /\ st' \in Delivered([st EXCEPT !.handed = @ \union {"playback.paused"}], "playback.paused")

\* the one receipt of the player; a pause of the session ends it, too
ReportStopped ==
    /\ "tts.started" \in st.handed /\ st.receipt = ""
    /\ \E reason \in IF st.lane THEN {"completed", "cancelled", "failed"} ELSE {"stopped"} :
         /\ reason = "completed" => "tts.ended" \in st.handed /\ st.played = StSamples
         /\ st' \in Delivered([st EXCEPT !.receipt = reason,
                                         !.handed = @ \union {"playback.stopped"}],
                              "playback.stopped")

\* an event is delivered once more, however late, lost the first time or not
Redeliver(e) ==
    /\ st.lane /\ e \in st.handed \ {"playback.progress", "playback.paused"} /\ TroubleLeft
    /\ st' = Applied([st EXCEPT !.trouble = @ + 1], e)

Next ==
    \/ CreateDraft \/ UpdateDraft \/ Begin \/ Pause \/ End \/ Reload
    \/ \E e \in HostEvents : HostEvent(e)
    \/ \E e \in Plans : PlanEvent(e)
    \/ Hear \/ ReportProgress \/ ReportPaused \/ ReportStopped
    \/ \E e \in HostEvents \union Plans \union {"playback.stopped"} : Redeliver(e)

Spec == Init /\ [][Next]_st

-----------------------------------------------------------------------------
\* What the next session and the archive read is what happened, in whatever
\* order the host's events and the player's reports were stored and whichever
\* of them were lost or repeated.  Of a response with a receipt, exactly what
\* the receipt says was delivered (stable-turn-writer.ts:649-680).  The text is
\* the last final's, never an older one's or a delta's (591-632).  A paused
\* session has no response left that could seem to go on (458-472).  And a plan
\* that was stored as ready is there until the session is started anew (539).
StoredTurnIsTrue ==
    LET t == st.turn IN
    /\ st.account.terminal /\ t.playback =>
         t.delivered = IF t.generated = 0 THEN 0 ELSE Smaller(st.account.final, t.generated)
    /\ "final2" \in st.applied => t.assistant = "final2"
    /\ st.applied \intersect Finals = {"final1"} => t.assistant = "final1"
    /\ st.session = "paused" /\ t.response => t.reason # ""
    /\ st.kept => st.plan = "ready"

\* A response that was heard to its end is shown as completed after a reload
\* (session-archive.ts:93-97).
CompletedIsShown ==
    st.account.terminal /\ st.account.reason = "completed" /\ st.turn.playback
       => st.turn.continuation # "paused"
=============================================================================
