------------------------ MODULE SessionOrchestrator ------------------------
(***************************************************************************)
(* The turn-taking core of the host: apps/host/src/session/                *)
(* SessionOrchestrator.ts.  One orchestrator owns the conversation of one  *)
(* session: it decides which user turn gets a response, runs the response  *)
(* through the Pi client and the speech output, pauses it when the user    *)
(* talks over it, and decides whether that was a takeover.                 *)
(*                                                                         *)
(* The code is single-threaded JavaScript, so a handler runs to its next   *)
(* `await' without interruption.  Each handler is one action, and the code *)
(* after an await is an action of its own (FinishDecision, the Pi loop,    *)
(* the promises of the speech output, the two timers).                     *)
(*                                                                         *)
(* A response's only playback is named by its responseId: the orchestrator *)
(* never opens a second one.  Transcripts are opaque turns; the posture,   *)
(* the lexical tests on a transcript and the classifier's verdict are      *)
(* choices, as is each sample count below MaxSamples.                      *)
(***************************************************************************)
EXTENDS Naturals, Sequences, FiniteSets

CONSTANTS
    Turns,          \* turnIds: one per utterance the VAD reports
    Responses,      \* responseIds that idFactory may mint
    None,           \* `undefined'
    MultiPart,      \* options.multiPartEnabled with a research client
    Commands,       \* the commands the browser sends in this instance
    MaxSamples      \* bound on the samples one speech stream produces

ASSUME ConstantsOK ==
    /\ None \notin Turns \cup Responses \cup Nat
    /\ MultiPart \in BOOLEAN
    /\ Commands \subseteq {"barge_in.confirm", "barge_in.reject", "turn.cancel",
                           "session.stop"}
    /\ MaxSamples \in Nat

VARIABLES
    phase,          \* this.phase
    epoch,          \* this.epoch
    active,         \* this.active: the responseId, or None
    provisional,    \* this.provisional: the pause that awaits a decision
    acceptance,     \* this.acceptancePendingTerminal
    timedOutEpoch,  \* this.timedOutInterruptionEpoch
    userSpeaking,   \* this.userSpeaking
    seenTurns,      \* this.seenTurns
    responses,      \* every ActiveResponse object, by responseId
    ledger,         \* this.playback, by the response that plays
    context,        \* responses whose text entered this.context
    provisionals,   \* how many ProvisionalState objects were created
    deciding,       \* per turn: the provisional its classification awaits, 0: none
    pi,             \* per response: where its reasoning loop stands
    speech,         \* per response: its SpeechOutputStream
    utterance,      \* per turn: what capture did with it, and its bound epoch
    wire            \* per response: the events emitted about it, in order

vars == <<phase, epoch, active, provisional, acceptance, timedOutEpoch,
          userSpeaking, seenTurns, responses, ledger, context, provisionals,
          deciding, pi, speech, utterance, wire>>

Phases == {"idle", "listening", "deciding", "reasoning", "playing",
           "echo_provisional", "interruption_deciding",
           "acceptance_pending_terminal", "stopped"}

(* The HostEvents of a response's life that the browser acts on; a barge_in *)
(* result with resumable: true is told from the final one.                  *)
Events == {"reasoning.started", "reasoning.final", "tts.started", "tts.ended",
           "response.failed", "response.cancelled", "interruption.decision",
           "barge_in.provisional", "barge_in.confirmed", "barge_in.rejected",
           "barge_in.timed_out", "barge_in.rejected.resumable",
           "barge_in.timed_out.resumable"}

NoProvisional == [response |-> None, outputEpoch |-> 0, id |-> 0,
                  echoRecovered |-> FALSE, checkpoint |-> FALSE,
                  timer |-> FALSE, turn |-> None, pendingTurn |-> None]

NoAcceptance == [response |-> None, outputEpoch |-> 0, turn |-> None,
                 timer |-> FALSE]

Unused == [turn |-> None, epoch |-> 0, cancelled |-> FALSE,
           playback |-> FALSE, text |-> FALSE, generated |-> 0,
           phaseBefore |-> "idle"]

NoLedger == [known |-> FALSE, generated |-> 0, delivered |-> 0,
             terminal |-> FALSE]

Silent == [stream |-> "none", fed |-> FALSE, finished |-> FALSE,
           cancelled |-> FALSE, samples |-> 0]

Init ==
    /\ phase = "idle"
    /\ epoch = 0
    /\ active = None
    /\ provisional = NoProvisional
    /\ acceptance = NoAcceptance
    /\ timedOutEpoch = None
    /\ userSpeaking = FALSE
    /\ seenTurns = {}
    /\ responses = [r \in Responses |-> Unused]
    /\ ledger = [r \in Responses |-> NoLedger]
    /\ context = {}
    /\ provisionals = 0
    /\ deciding = [t \in Turns |-> 0]
    /\ pi = [r \in Responses |-> "idle"]
    /\ speech = [r \in Responses |-> Silent]
    /\ utterance = [t \in Turns |-> [stage |-> "none", epoch |-> 0]]
    /\ wire = [r \in Responses |-> <<>>]

-----------------------------------------------------------------------------
(* Private helpers of the class.                                            *)

Emit(w, r, events) == [w EXCEPT ![r] = @ \o events]

(* Mutant: the abort signal is not looked at.                               *)
MutantIsCurrent(r) == phase # "stopped" /\ active = r /\ responses[r].epoch = epoch

IsCurrent(r) ==
    /\ phase # "stopped"
    /\ active = r
    /\ responses[r].epoch = epoch
    /\ ~responses[r].cancelled

(* Mutant: the active response is given up without being aborted.           *)
MutantCancelledResponses == responses

(* cancelResponse(active): idempotent, emits response.cancelled once.       *)
CancelledResponses ==
    [r \in Responses |-> IF r = active
                         THEN [responses[r] EXCEPT !.cancelled = TRUE]
                         ELSE responses[r]]
CancelledSpeech ==
    [r \in Responses |-> IF r = active
                         THEN [speech[r] EXCEPT !.cancelled = TRUE]
                         ELSE speech[r]]
CancelledWire(w) ==
    [r \in Responses |-> IF r = active /\ ~responses[r].cancelled
                         THEN Append(w[r], "response.cancelled")
                         ELSE w[r]]

CancelActive == responses' = CancelledResponses /\ speech' = CancelledSpeech

AdvanceEpochAndCancel ==
    /\ epoch' = epoch + 1
    /\ active' = None
    /\ CancelActive

(* Ending response r takes its pause with it, and tells the browser so.     *)
(* Mutants: the pause is kept; the browser is not told.                     *)
MutantWithoutPause(r) == provisional

WithoutPause(r) ==
    IF provisional.response = r THEN NoProvisional ELSE provisional

MutantWirePauseOver(r, w) == w

WirePauseOver(r, w) ==
    IF provisional.response = r THEN Emit(w, r, <<"barge_in.rejected">>) ELSE w

(* failResponse(r) over the speech streams sp: response.failed, then the    *)
(* cancellation unless it already happened, then clearActive(r).            *)
FailResponse(r, sp) ==
    LET failed == Emit(wire, r, IF responses[r].cancelled
                                THEN <<"response.failed">>
                                ELSE <<"response.failed", "response.cancelled">>)
    IN  /\ responses' = [responses EXCEPT ![r].cancelled = TRUE]
        /\ speech' = [sp EXCEPT ![r].cancelled = TRUE]
        /\ \/ /\ active # r
              /\ wire' = failed
              /\ UNCHANGED <<phase, epoch, active, provisional>>
           \/ /\ active = r
              /\ active' = None
              /\ phase' = "listening"
              /\ provisional' = WithoutPause(r)
              /\ epoch' = IF provisional.response = r THEN epoch + 1 ELSE epoch
              /\ wire' = WirePauseOver(r, failed)

(* beginProvisionalBargeIn(r).  Both callers run while the user speaks and  *)
(* with the phase "playing", so the recovery timer is not armed here.       *)
BeginProvisionalBargeIn(r) ==
    /\ provisional' = [NoProvisional EXCEPT !.response = r,
                                            !.outputEpoch = responses[r].epoch,
                                            !.id = provisionals + 1]
    /\ provisionals' = provisionals + 1
    /\ phase' = "echo_provisional"

SafeToResume(p, result) ==
    /\ active # None
    /\ active = p.response
    /\ responses[active].epoch = p.outputEpoch
    /\ epoch = p.outputEpoch
    /\ responses[active].phaseBefore = "playing"
    /\ p.checkpoint
    /\ ledger[active].known
    /\ ~ledger[active].terminal
    /\ p.echoRecovered \/ result = "barge_in.timed_out"

(* Mutant: the browser is sent an event it does not know.                   *)
MutantResumable(result) == "barge_in.resumed"

Resumable(result) == IF result = "barge_in.timed_out"
                     THEN "barge_in.timed_out.resumable"
                     ELSE "barge_in.rejected.resumable"

(* resolveProvisional(result) of provisional p, after the events `before'   *)
(* were emitted: resume the playback when that is safe, else give it up.    *)
ResolveProvisional(p, result, before) ==
    /\ provisional' = NoProvisional
    /\ \/ /\ SafeToResume(p, result)
          /\ phase' = "playing"
          /\ wire' = Emit(wire, p.response, Append(before, Resumable(result)))
          /\ UNCHANGED <<epoch, active, responses, speech>>
       \/ /\ ~SafeToResume(p, result)
          /\ AdvanceEpochAndCancel
          /\ phase' = "listening"
          /\ wire' = Emit(CancelledWire(Emit(wire, p.response, before)),
                          p.response, <<result>>)

(* The speech stream of a new response; in multipart mode it is fed with    *)
(* the acknowledgement at once.                                             *)
NewStream == [Silent EXCEPT !.stream = "open", !.fed = MultiPart]

(* A response to turn t at epoch e: the previous one, if any, is cancelled. *)
Answer(t, e, w) ==
    \E r \in Responses :
        /\ responses[r].turn = None
        /\ active' = r
        /\ epoch' = e
        /\ phase' = "reasoning"
        /\ responses' = [CancelledResponses EXCEPT
                           ![r] = [Unused EXCEPT !.turn = t, !.epoch = e]]
        /\ speech' = [CancelledSpeech EXCEPT ![r] = NewStream]
        /\ pi' = [pi EXCEPT ![r] = "streaming"]
        /\ wire' = [w EXCEPT ![r] = <<"reasoning.started">>]

-----------------------------------------------------------------------------
(* Stable finals and the interruption decision.                             *)

(* The policy's verdict on a turn that interrupts nothing: silence leaves   *)
(* an in-flight response alone, anything else supersedes it.  transcriptOnly *)
(* sessions always take the first branch.                                   *)
RunPolicy(t) ==
    \/ /\ phase' = IF active = None THEN "listening" ELSE phase
       /\ UNCHANGED <<epoch, active, responses, speech, pi, wire>>
    \/ Answer(t, IF active = None THEN epoch ELSE epoch + 1, CancelledWire(wire))

(* decideInterruption(t) up to its await, on provisional p.  A transcript   *)
(* without lexical content is never classified and resumes at once.         *)
DecideInterruption(p, t) ==
    \/ /\ active # p.response
       /\ provisional' = p
       /\ UNCHANGED <<phase, epoch, active, responses, speech, deciding, wire>>
    \/ /\ active = p.response
       /\ ~p.checkpoint
       /\ provisional' = [p EXCEPT !.turn = t, !.pendingTurn = t]
       /\ phase' = "interruption_deciding"
       /\ UNCHANGED <<epoch, active, responses, speech, deciding, wire>>
    \/ /\ active = p.response
       /\ p.checkpoint
       /\ provisional' = [p EXCEPT !.turn = t, !.pendingTurn = None, !.timer = FALSE]
       /\ phase' = "interruption_deciding"
       /\ deciding' = [deciding EXCEPT ![t] = p.id]
       /\ UNCHANGED <<epoch, active, responses, speech, wire>>
    \/ /\ active = p.response
       /\ p.checkpoint
       /\ ResolveProvisional([p EXCEPT !.echoRecovered = TRUE],
                             "barge_in.rejected", <<"interruption.decision">>)
       /\ UNCHANGED deciding

(* The first guard of handleStableFinal.  Mutant: seenTurns is not asked.   *)
MutantIgnoredFinal(t) == utterance[t].epoch # epoch \/ phase = "stopped"

IgnoredFinal(t) ==
    utterance[t].epoch # epoch \/ phase = "stopped" \/ t \in seenTurns

(* handleStableFinal(turn): the browser acknowledged that it persisted the  *)
(* final.  The same final may be handed in again.                           *)
HandleStableFinal(t) ==
    /\ utterance[t].stage \in {"ended", "delivered"}
    /\ utterance' = [utterance EXCEPT ![t].stage = "delivered"]
    /\ UNCHANGED <<acceptance, userSpeaking, ledger, context, provisionals>>
    /\ \/ /\ IgnoredFinal(t)
          /\ UNCHANGED <<phase, epoch, active, provisional, timedOutEpoch,
                         seenTurns, responses, deciding, pi, speech, wire>>
       \/ /\ ~IgnoredFinal(t)
          /\ seenTurns' = seenTurns \cup {t}
          /\ \/ /\ timedOutEpoch = epoch
                /\ timedOutEpoch' = None
                /\ UNCHANGED <<phase, epoch, active, provisional, responses,
                               deciding, pi, speech, wire>>
             \/ /\ timedOutEpoch # epoch
                /\ UNCHANGED timedOutEpoch
                /\ \/ /\ acceptance.response # None
                      /\ UNCHANGED <<phase, epoch, active, provisional,
                                     responses, deciding, pi, speech, wire>>
                   \/ /\ acceptance.response = None
                      /\ provisional.response # None
                      /\ DecideInterruption(provisional, t)
                      /\ UNCHANGED pi
                   \/ /\ acceptance.response = None
                      /\ provisional.response = None
                      /\ RunPolicy(t)
                      /\ UNCHANGED <<provisional, deciding>>

(* decideInterruption after its await: the classifier answered, failed or   *)
(* timed out.  A provisional that was replaced, or that newer speech took   *)
(* over, makes the verdict stale.                                           *)
Stale(t) == provisional.id # deciding[t] \/ provisional.turn # t

(* Mutant: no timer stands in for a lost terminal receipt.                  *)
MutantAcceptTakeover(t) ==
    /\ provisional' = NoProvisional
    /\ acceptance' = [response |-> provisional.response,
                      outputEpoch |-> provisional.outputEpoch,
                      turn |-> t, timer |-> FALSE]
    /\ CancelActive
    /\ wire' = CancelledWire(Emit(wire, active, <<"interruption.decision">>))
    /\ phase' = "acceptance_pending_terminal"
    /\ UNCHANGED <<epoch, active>>

AcceptTakeover(t) ==
    /\ provisional' = NoProvisional
    /\ acceptance' = [response |-> provisional.response,
                      outputEpoch |-> provisional.outputEpoch,
                      turn |-> t, timer |-> TRUE]
    /\ CancelActive
    /\ wire' = CancelledWire(Emit(wire, active, <<"interruption.decision">>))
    /\ phase' = "acceptance_pending_terminal"
    /\ UNCHANGED <<epoch, active>>

FinishDecision(t) ==
    /\ deciding[t] # 0
    /\ deciding' = [deciding EXCEPT ![t] = 0]
    /\ UNCHANGED <<timedOutEpoch, userSpeaking, seenTurns, ledger, context,
                   provisionals, pi, utterance>>
    /\ \/ /\ Stale(t)
          /\ UNCHANGED <<phase, epoch, active, provisional, acceptance,
                         responses, speech, wire>>
       \/ /\ ~Stale(t)
          /\ active # provisional.response
          /\ ResolveProvisional(provisional, "barge_in.rejected", <<>>)
          /\ UNCHANGED acceptance
       \/ /\ ~Stale(t)
          /\ active = provisional.response
          /\ \/ /\ ResolveProvisional([provisional EXCEPT !.echoRecovered = TRUE],
                                      "barge_in.rejected",
                                      <<"interruption.decision">>)
                /\ UNCHANGED acceptance
             \/ AcceptTakeover(t)

(* finalizeAcceptedTakeover: the interrupting turn becomes an ordinary one  *)
(* of the next epoch.  It is already among the seen turns, and no pause or  *)
(* timed-out epoch can be current (see AcceptanceOwnsResponse).             *)
FinalizeAcceptedTakeover ==
    LET w == Emit(CancelledWire(wire), acceptance.response, <<"barge_in.confirmed">>)
    IN  /\ acceptance' = NoAcceptance
        /\ \/ /\ AdvanceEpochAndCancel
              /\ phase' = "listening"
              /\ wire' = w
              /\ UNCHANGED pi
           \/ Answer(acceptance.turn, epoch + 1, w)

(* The timer of acceptancePendingTerminal: the receipt was lost.            *)
AcceptanceTimeout ==
    /\ acceptance.timer
    /\ \/ /\ active = acceptance.response
          /\ FinalizeAcceptedTakeover
       \/ /\ active # acceptance.response
          /\ acceptance' = [acceptance EXCEPT !.timer = FALSE]
          /\ UNCHANGED <<phase, epoch, active, responses, speech, pi, wire>>
    /\ UNCHANGED <<provisional, timedOutEpoch, userSpeaking, seenTurns, ledger,
                   context, provisionals, deciding, utterance>>

(* The recovery timer of the provisional state.                             *)
ProvisionalTimeout ==
    /\ provisional.timer
    /\ \/ /\ userSpeaking
          /\ provisional' = [provisional EXCEPT !.timer = FALSE]
          /\ UNCHANGED <<phase, epoch, active, timedOutEpoch, responses, speech, wire>>
       \/ /\ ~userSpeaking
          /\ timedOutEpoch' = provisional.outputEpoch
          /\ ResolveProvisional(provisional, "barge_in.timed_out", <<>>)
    /\ UNCHANGED <<acceptance, userSpeaking, seenTurns, ledger, context,
                   provisionals, deciding, pi, utterance>>

-----------------------------------------------------------------------------
(* Capture: the VAD brackets each utterance.                                *)

(* start()                                                                  *)
Start ==
    /\ phase = "idle"
    /\ phase' = "listening"
    /\ UNCHANGED <<epoch, active, provisional, acceptance, timedOutEpoch,
                   userSpeaking, seenTurns, responses, ledger, context,
                   provisionals, deciding, pi, speech, utterance, wire>>

(* handleSpeechStart(): the epoch it returns is the one the utterance's     *)
(* transcript will carry.                                                   *)
HandleSpeechStart(t) ==
    /\ phase \notin {"idle", "stopped"}
    /\ utterance[t].stage = "none"
    /\ \A u \in Turns : utterance[u].stage # "speaking"
    /\ userSpeaking' = TRUE
    /\ timedOutEpoch' = None
    /\ UNCHANGED <<seenTurns, ledger, context, deciding, pi>>
    /\ \/ /\ acceptance.response # None
          /\ acceptance' = NoAcceptance
          /\ AdvanceEpochAndCancel
          /\ wire' = CancelledWire(wire)
          /\ phase' = "listening"
          /\ UNCHANGED <<provisional, provisionals>>
       \/ /\ acceptance.response = None
          /\ active # None /\ provisional.response = active
          /\ provisional' = [provisional EXCEPT !.timer = FALSE, !.turn = None,
                                                !.pendingTurn = None]
          /\ phase' = "echo_provisional"
          /\ UNCHANGED <<epoch, active, acceptance, responses, provisionals,
                         speech, wire>>
       \/ /\ acceptance.response = None
          /\ active # None /\ provisional.response = None /\ phase = "playing"
          /\ BeginProvisionalBargeIn(active)
          /\ responses' = [responses EXCEPT ![active].phaseBefore = "playing"]
          /\ wire' = Emit(wire, active, <<"barge_in.provisional">>)
          /\ UNCHANGED <<epoch, active, acceptance, speech>>
       \/ /\ acceptance.response = None
          /\ \/ active = None
             \/ /\ provisional.response # active
                /\ phase # "playing" \/ provisional.response # None
          /\ UNCHANGED <<phase, epoch, active, provisional, acceptance,
                         responses, provisionals, speech, wire>>
    /\ utterance' = [utterance EXCEPT ![t] = [stage |-> "speaking", epoch |-> epoch']]

(* scheduleProvisionalTimeout(this.provisional).  Mutant: it is not armed   *)
(* again when the user stops.                                               *)
MutantScheduleProvisionalTimeout == provisional

ScheduleProvisionalTimeout == [provisional EXCEPT !.timer = TRUE]

(* handleSpeechEnd(): arms the recovery timer of a pause, or shows that a   *)
(* transcript is awaited.                                                   *)
HandleSpeechEnd(t) ==
    /\ phase # "stopped"
    /\ utterance[t].stage = "speaking"
    /\ utterance' = [utterance EXCEPT ![t].stage = "ended"]
    /\ userSpeaking' = FALSE
    /\ \/ /\ provisional.response # None
          /\ provisional' = ScheduleProvisionalTimeout
          /\ UNCHANGED phase
       \/ /\ provisional.response = None
          /\ phase' = IF active = None /\ phase = "listening" THEN "deciding" ELSE phase
          /\ UNCHANGED provisional
    /\ UNCHANGED <<epoch, active, acceptance, timedOutEpoch, seenTurns, responses,
                   ledger, context, provisionals, deciding, pi, speech, wire>>

-----------------------------------------------------------------------------
(* Playback reports from the browser.  It reports on playbacks it was told  *)
(* of, with offsets inside the samples that reached it; a report whose      *)
(* guards fail changes nothing and is no step here.                         *)

(* Mutant: a report may pass the generated extent.                          *)
MutantReportableBeyond(r, offset, generated) ==
    ledger[r].known /\ ~ledger[r].terminal /\ offset <= generated

Reportable(r, offset, generated) ==
    /\ ledger[r].known
    /\ ~ledger[r].terminal
    /\ generated <= ledger[r].generated
    /\ offset <= generated

(* playbackPaused(input): the checkpoint of a pause the browser was told of. *)
PlaybackPaused(r, offset, generated) ==
    /\ Reportable(r, offset, generated)
    /\ active = r
    /\ provisional.response = r
    /\ provisional.outputEpoch = responses[r].epoch
    /\ responses[r].playback
    /\ offset >= ledger[r].delivered
    /\ ledger' = [ledger EXCEPT ![r].delivered = offset]
    /\ LET p == [provisional EXCEPT !.checkpoint = TRUE]
       IN  \/ /\ provisional.pendingTurn = None
              /\ provisional' = p
              /\ UNCHANGED <<phase, epoch, active, responses, speech, deciding, wire>>
           \/ /\ provisional.pendingTurn # None
              /\ DecideInterruption([p EXCEPT !.pendingTurn = None],
                                    provisional.pendingTurn)
    /\ UNCHANGED <<acceptance, timedOutEpoch, userSpeaking, seenTurns, context,
                   provisionals, pi, utterance>>

(* playbackProgress(input): only the current epoch's playback advances.     *)
PlaybackProgress(r, offset, generated) ==
    /\ Reportable(r, offset, generated)
    /\ responses[r].epoch = epoch
    /\ offset > ledger[r].delivered
    /\ ledger' = [ledger EXCEPT ![r].delivered = offset]
    /\ UNCHANGED <<phase, epoch, active, provisional, acceptance, timedOutEpoch,
                   userSpeaking, seenTurns, responses, context, provisionals,
                   deciding, pi, speech, utterance, wire>>

(* The condition for the assistant text to enter the context.  Mutant: any  *)
(* terminal receipt will do.                                                *)
MutantHeardInFull(r, offset, completed) == responses[r].text

HeardInFull(r, offset, completed) ==
    completed /\ offset = ledger[r].generated /\ responses[r].text

(* playbackStopped(input): the terminal receipt.  The browser reports       *)
(* "completed" once it was told of tts.ended and played every sample; any   *)
(* other reason can come at any moment.                                     *)
PlaybackStopped(r, offset, completed) ==
    /\ ledger[r].known
    /\ ~ledger[r].terminal
    /\ offset <= ledger[r].generated
    /\ completed => speech[r].stream = "ended" /\ offset = ledger[r].generated
    /\ ledger' = [ledger EXCEPT ![r].terminal = TRUE,
                                ![r].delivered = IF offset > @ THEN offset ELSE @]
    /\ UNCHANGED <<timedOutEpoch, userSpeaking, seenTurns, provisionals,
                   deciding, utterance>>
    /\ \/ /\ acceptance.response = r /\ active = r
          /\ FinalizeAcceptedTakeover
          /\ UNCHANGED <<provisional, context>>
       \/ /\ ~(acceptance.response = r /\ active = r)
          /\ responses[r].epoch = epoch /\ active = r /\ phase # "stopped"
          /\ context' = IF HeardInFull(r, offset, completed)
                        THEN context \cup {r} ELSE context
          /\ provisional' = WithoutPause(r)
          /\ wire' = WirePauseOver(r, wire)
          /\ active' = None
          /\ phase' = "listening"
          /\ UNCHANGED <<epoch, acceptance, responses, pi, speech>>
       \/ /\ ~(acceptance.response = r /\ active = r)
          /\ ~(responses[r].epoch = epoch /\ active = r /\ phase # "stopped")
          /\ UNCHANGED <<phase, epoch, active, provisional, acceptance,
                         responses, context, pi, speech, wire>>

-----------------------------------------------------------------------------
(* Commands of the user and the browser.                                    *)

(* The events of giving up the pause, if there is one, as `result'.         *)
WireGivingUpPause(result) ==
    IF provisional.response = None THEN CancelledWire(wire)
    ELSE Emit(CancelledWire(wire), provisional.response, <<result>>)

(* confirmBargeIn() and rejectBargeIn(), reached through resolveBarge with   *)
(* the active response and the current epoch.                               *)
ConfirmBargeIn ==
    /\ "barge_in.confirm" \in Commands
    /\ provisional.response # None
    /\ active # None
    /\ AdvanceEpochAndCancel
    /\ provisional' = NoProvisional
    /\ phase' = "listening"
    /\ wire' = WireGivingUpPause("barge_in.confirmed")
    /\ UNCHANGED <<acceptance, timedOutEpoch, userSpeaking, seenTurns, ledger,
                   context, provisionals, deciding, pi, utterance>>

RejectBargeIn ==
    /\ "barge_in.reject" \in Commands
    /\ provisional.response # None
    /\ active # None
    /\ ResolveProvisional([provisional EXCEPT !.echoRecovered = TRUE],
                          "barge_in.rejected", <<>>)
    /\ UNCHANGED <<acceptance, timedOutEpoch, userSpeaking, seenTurns, ledger,
                   context, provisionals, deciding, pi, utterance>>

(* cancelCurrentTurn()                                                      *)
CancelCurrentTurn ==
    /\ "turn.cancel" \in Commands
    /\ phase # "stopped"
    /\ acceptance' = NoAcceptance
    /\ provisional' = NoProvisional
    /\ \/ /\ active # None \/ provisional.response # None
          /\ AdvanceEpochAndCancel
       \/ /\ active = None /\ provisional.response = None
          /\ UNCHANGED <<epoch, active, responses, speech>>
    /\ wire' = WireGivingUpPause("barge_in.confirmed")
    /\ phase' = "listening"
    /\ UNCHANGED <<timedOutEpoch, userSpeaking, seenTurns, ledger, context,
                   provisionals, deciding, pi, utterance>>

(* stop()                                                                   *)
Stop ==
    /\ "session.stop" \in Commands
    /\ phase # "stopped"
    /\ acceptance' = NoAcceptance
    /\ provisional' = NoProvisional
    /\ AdvanceEpochAndCancel
    /\ wire' = WireGivingUpPause("barge_in.rejected")
    /\ userSpeaking' = FALSE
    /\ context' = {}
    /\ seenTurns' = {}
    /\ phase' = "stopped"
    /\ UNCHANGED <<timedOutEpoch, ledger, provisionals, deciding, pi, utterance>>

-----------------------------------------------------------------------------
(* The reasoning loop of a response: `for await' over the Pi client.  An    *)
(* aborted request ends without an item, or after one already on its way.   *)

PiUnchanged == UNCHANGED <<acceptance, timedOutEpoch, userSpeaking, seenTurns,
                           ledger, context, provisionals, deciding, utterance>>

Looping(r) == pi[r] \in {"streaming", "final", "duplicate"}

(* An item for a response that is no longer current leaves the loop.        *)
PiStaleItem(r) ==
    /\ Looping(r)
    /\ ~IsCurrent(r)
    /\ pi' = [pi EXCEPT ![r] = "done"]
    /\ PiUnchanged
    /\ UNCHANGED <<phase, epoch, active, provisional, responses, speech, wire>>

(* A delta that completes a sentence feeds the speech stream.               *)
PiDelta(r) ==
    /\ Looping(r)
    /\ IsCurrent(r)
    /\ speech' = [speech EXCEPT ![r].fed = TRUE]
    /\ PiUnchanged
    /\ UNCHANGED <<phase, epoch, active, provisional, responses, pi, wire>>

(* The final item; a second one is fatal: at once in multipart mode, after  *)
(* the loop in concise mode.                                                *)
PiFinal(r) ==
    /\ Looping(r)
    /\ IsCurrent(r)
    /\ PiUnchanged
    /\ \/ /\ pi[r] = "streaming"
          /\ pi' = [pi EXCEPT ![r] = "final"]
          /\ UNCHANGED <<phase, epoch, active, provisional, responses, speech, wire>>
       \/ /\ pi[r] # "streaming" /\ ~MultiPart
          /\ pi' = [pi EXCEPT ![r] = "duplicate"]
          /\ UNCHANGED <<phase, epoch, active, provisional, responses, speech, wire>>
       \/ /\ pi[r] # "streaming" /\ MultiPart
          /\ pi' = [pi EXCEPT ![r] = "done"]
          /\ FailResponse(r, speech)

(* An error item, or an exception from the assembler or the stream.         *)
PiError(r) ==
    /\ Looping(r)
    /\ IsCurrent(r)
    /\ pi' = [pi EXCEPT ![r] = "done"]
    /\ FailResponse(r, speech)
    /\ PiUnchanged

(* reasoning.final and finish(): the rest of the text is fed and committed. *)
FinishReasoning(r) ==
    /\ responses' = [responses EXCEPT ![r].text = TRUE]
    /\ speech' = [speech EXCEPT ![r].fed = TRUE, ![r].finished = TRUE]
    /\ wire' = Emit(wire, r, <<"reasoning.final">>)
    /\ UNCHANGED <<phase, epoch, active, provisional>>

(* The end of the loop in runLongResponse: a response that is no longer     *)
(* current takes the same branch as one without a final.                    *)
LongEnd(r) ==
    \/ (~IsCurrent(r) \/ pi[r] # "final") /\ FailResponse(r, speech)
    \/ IsCurrent(r) /\ pi[r] = "final" /\ FinishReasoning(r)

(* The end of the loop in handleStableFinal.  A missing, duplicate or       *)
(* invalid final text fails the response.                                   *)
ConciseEnd(r) ==
    \/ /\ ~IsCurrent(r)
       /\ UNCHANGED <<phase, epoch, active, provisional, responses, speech, wire>>
    \/ IsCurrent(r) /\ FailResponse(r, speech)
    \/ IsCurrent(r) /\ pi[r] = "final" /\ FinishReasoning(r)

PiEnd(r) ==
    /\ Looping(r)
    /\ pi' = [pi EXCEPT ![r] = "done"]
    /\ IF MultiPart THEN LongEnd(r) ELSE ConciseEnd(r)
    /\ PiUnchanged

-----------------------------------------------------------------------------
(* The speech output.  The sidecar opens a fed stream, sends samples, and   *)
(* ends it once committed; a cancelled stream reports nothing any more.     *)

SpeechUnchanged == UNCHANGED <<acceptance, timedOutEpoch, userSpeaking,
                               seenTurns, context, deciding, pi, utterance>>

(* The sidecar's tts.started is in; the promise `started' will resolve.     *)
SidecarStarted(r) ==
    /\ speech[r].stream = "open" /\ speech[r].fed /\ ~speech[r].cancelled
    /\ speech' = [speech EXCEPT ![r].stream = "starting"]
    /\ SpeechUnchanged
    /\ UNCHANGED <<phase, epoch, active, provisional, responses, ledger,
                   provisionals, wire>>

(* A PCM chunk: onGeneratedSamples, before the chunk goes to the browser.   *)
(* It may overtake the handler of `started'.                                *)
GeneratedSamples(r) ==
    /\ speech[r].stream \in {"starting", "playing"} /\ ~speech[r].cancelled
    /\ speech[r].samples < MaxSamples
    /\ LET total == speech[r].samples + 1
       IN  /\ speech' = [speech EXCEPT ![r].samples = total]
           /\ responses' = [responses EXCEPT ![r].generated = total]
           /\ ledger' = IF responses[r].playback /\ ~ledger[r].terminal
                        THEN [ledger EXCEPT ![r].generated = total] ELSE ledger
    /\ SpeechUnchanged
    /\ UNCHANGED <<phase, epoch, active, provisional, provisionals, wire>>

(* The handler of `started': the response becomes audible, under a pause    *)
(* when the user is already talking.                                        *)
TtsStarted(r) ==
    /\ speech[r].stream = "starting" /\ ~speech[r].cancelled
    /\ speech' = [speech EXCEPT ![r].stream = "playing"]
    /\ SpeechUnchanged
    /\ \/ /\ ~IsCurrent(r)
          /\ UNCHANGED <<phase, epoch, active, provisional, responses, ledger,
                         provisionals, wire>>
       \/ /\ IsCurrent(r)
          /\ ledger' = [ledger EXCEPT ![r] =
                          [NoLedger EXCEPT !.known = TRUE,
                                           !.generated = responses[r].generated]]
          /\ UNCHANGED <<epoch, active>>
          /\ \/ /\ provisional.response = r
                /\ responses' = [responses EXCEPT ![r].playback = TRUE,
                                                  ![r].phaseBefore = "playing"]
                /\ phase' = "echo_provisional"
                /\ wire' = Emit(wire, r, <<"tts.started">>)
                /\ UNCHANGED <<provisional, provisionals>>
             \/ /\ provisional.response # r /\ userSpeaking
                /\ provisional.response = None
                /\ responses' = [responses EXCEPT ![r].playback = TRUE,
                                                  ![r].phaseBefore = "playing"]
                /\ BeginProvisionalBargeIn(r)
                /\ wire' = Emit(wire, r, <<"tts.started", "barge_in.provisional">>)
             \/ /\ provisional.response # r
                /\ ~userSpeaking \/ provisional.response # None
                /\ responses' = [responses EXCEPT ![r].playback = TRUE]
                /\ phase' = "playing"
                /\ wire' = Emit(wire, r, <<"tts.started">>)
                /\ UNCHANGED <<provisional, provisionals>>

(* The promise `completion': the committed stream ended remotely.           *)
TtsEnded(r) ==
    /\ speech[r].stream = "playing" /\ speech[r].finished /\ ~speech[r].cancelled
    /\ speech[r].samples > 0
    /\ speech' = [speech EXCEPT ![r].stream = "ended"]
    /\ \/ /\ IsCurrent(r) /\ ledger[r].known /\ ~ledger[r].terminal
          /\ ledger' = [ledger EXCEPT ![r].generated = speech[r].samples]
          /\ wire' = Emit(wire, r, <<"tts.ended">>)
       \/ /\ ~(IsCurrent(r) /\ ledger[r].known /\ ~ledger[r].terminal)
          /\ UNCHANGED <<ledger, wire>>
    /\ SpeechUnchanged
    /\ UNCHANGED <<phase, epoch, active, provisional, responses, provisionals>>

(* Either promise rejects, or carries an invalid rate or extent.            *)
TtsFailed(r) ==
    /\ speech[r].stream \in {"open", "starting", "playing"} /\ ~speech[r].cancelled
    /\ LET failed == [speech EXCEPT ![r].stream = "failed"]
       IN  \/ IsCurrent(r) /\ FailResponse(r, failed)
           \/ /\ ~IsCurrent(r)
              /\ speech' = failed
              /\ UNCHANGED <<phase, epoch, active, provisional, responses, wire>>
    /\ SpeechUnchanged
    /\ UNCHANGED <<ledger, provisionals>>

-----------------------------------------------------------------------------
Capture == \E t \in Turns : HandleSpeechStart(t) \/ HandleSpeechEnd(t)

Finals == \E t \in Turns : HandleStableFinal(t) \/ FinishDecision(t)

Timers == AcceptanceTimeout \/ ProvisionalTimeout

Browser ==
    \E r \in Responses : \E offset \in 0..MaxSamples :
        \/ \E generated \in 0..MaxSamples :
              PlaybackPaused(r, offset, generated) \/ PlaybackProgress(r, offset, generated)
        \/ \E completed \in BOOLEAN : PlaybackStopped(r, offset, completed)

Control == Start \/ ConfirmBargeIn \/ RejectBargeIn \/ CancelCurrentTurn \/ Stop

Reasoning == \E r \in Responses :
    PiStaleItem(r) \/ PiDelta(r) \/ PiFinal(r) \/ PiError(r) \/ PiEnd(r)

SpeechOutput == \E r \in Responses :
    \/ SidecarStarted(r) \/ GeneratedSamples(r) \/ TtsStarted(r)
    \/ TtsEnded(r) \/ TtsFailed(r)

Next == \/ Capture \/ Finals \/ Timers \/ Browser \/ Control
        \/ Reasoning \/ SpeechOutput

Spec == Init /\ [][Next]_vars

(* The timers of the event loop fire, and the classification ends: it races *)
(* its own timeout.  Nothing is assumed of the user, the browser, Pi or the *)
(* sidecar.                                                                 *)
FairSpec ==
    /\ Spec
    /\ WF_vars(ProvisionalTimeout)
    /\ WF_vars(AcceptanceTimeout)
    /\ \A t \in Turns : WF_vars(FinishDecision(t))

-----------------------------------------------------------------------------
ResponseRecord ==
    [turn: Turns \cup {None}, epoch: Nat, cancelled: BOOLEAN, playback: BOOLEAN,
     text: BOOLEAN, generated: Nat, phaseBefore: Phases]

LedgerRecord ==
    [known: BOOLEAN, generated: Nat, delivered: Nat, terminal: BOOLEAN]

StreamRecord ==
    [stream: {"none", "open", "starting", "playing", "ended", "failed"},
     fed: BOOLEAN, finished: BOOLEAN, cancelled: BOOLEAN, samples: Nat]

ProvisionalRecord ==
    [response: Responses \cup {None}, outputEpoch: Nat, id: Nat,
     echoRecovered: BOOLEAN, checkpoint: BOOLEAN, timer: BOOLEAN,
     turn: Turns \cup {None}, pendingTurn: Turns \cup {None}]

AcceptanceRecord ==
    [response: Responses \cup {None}, outputEpoch: Nat, turn: Turns \cup {None},
     timer: BOOLEAN]

Logs == [Responses -> Seq(Events)]

(* Every variable holds what the fields of the class may hold.              *)
TypeOK ==
    /\ phase \in Phases
    /\ epoch \in Nat
    /\ active \in Responses \cup {None}
    /\ provisional \in ProvisionalRecord
    /\ acceptance \in AcceptanceRecord
    /\ timedOutEpoch \in Nat \cup {None}
    /\ userSpeaking \in BOOLEAN
    /\ seenTurns \subseteq Turns
    /\ responses \in [Responses -> ResponseRecord]
    /\ ledger \in [Responses -> LedgerRecord]
    /\ context \subseteq Responses
    /\ provisionals \in Nat
    /\ deciding \in [Turns -> Nat]
    /\ pi \in [Responses -> {"idle", "streaming", "final", "duplicate", "done"}]
    /\ speech \in [Responses -> StreamRecord]
    /\ utterance \in [Turns -> [stage: {"none", "speaking", "ended", "delivered"},
                                epoch: Nat]]
    /\ wire \in Logs

(* A pause belongs to the response that is being given, in the current      *)
(* epoch, and that response is audible: announced, neither cancelled nor    *)
(* stopped.  (beginProvisionalBargeIn to resolveProvisional; every handler  *)
(* that ends a response must drop its pause in the same turn of the loop.)  *)
ProvisionalOwnsActive ==
    provisional.response # None =>
        /\ active = provisional.response
        /\ provisional.outputEpoch = epoch
        /\ responses[active].epoch = epoch
        /\ ~responses[active].cancelled
        /\ responses[active].playback
        /\ ledger[active].known /\ ~ledger[active].terminal
        /\ phase \in {"echo_provisional", "interruption_deciding"}
        /\ acceptance.response = None

(* While an accepted takeover waits for the terminal receipt, the response  *)
(* it interrupted is still the active one, is cancelled, and the timer that *)
(* stands in for a lost receipt is armed.                                   *)
AcceptanceOwnsResponse ==
    acceptance.response # None =>
        /\ active = acceptance.response
        /\ responses[active].cancelled
        /\ acceptance.outputEpoch = epoch
        /\ acceptance.timer
        /\ acceptance.turn \in seenTurns
        /\ timedOutEpoch # epoch + 1
        /\ phase = "acceptance_pending_terminal"

(* The pause announced to the browser for r, and not yet taken back.        *)
PauseOpen(r) ==
    \E i \in 1..Len(wire[r]) :
        /\ wire[r][i] = "barge_in.provisional"
        /\ \A j \in i + 1..Len(wire[r]) :
              wire[r][j] \notin {"barge_in.confirmed", "barge_in.rejected",
                                 "barge_in.timed_out", "response.cancelled",
                                 "barge_in.rejected.resumable",
                                 "barge_in.timed_out.resumable"}

(* The browser stays paused only for a pause the host still has to decide:  *)
(* no handler forgets to answer a barge_in.provisional.                     *)
PauseIsAnswered ==
    \A r \in Responses : PauseOpen(r) => provisional.response = r

(* A turn is answered by one response at most, although an accepted         *)
(* takeover is taken out of seenTurns and handled a second time.            *)
TurnAnsweredOnce ==
    \A r, s \in Responses :
        r # s /\ responses[r].turn # None => responses[r].turn # responses[s].turn

(* Two responses are never audible together: one that is not active has     *)
(* been cancelled, or the browser reported the end of its playback.         *)
OnlyActiveIsAudible ==
    \A r \in Responses :
        responses[r].turn # None /\ r # active =>
            responses[r].cancelled \/ ledger[r].terminal

(* The delivered extent never passes what was generated, and both stay      *)
(* within the samples of the stream.                                        *)
LedgerWithinStream ==
    \A r \in Responses :
        /\ ledger[r].delivered <= ledger[r].generated
        /\ ledger[r].generated <= speech[r].samples

(* Assistant text enters the context only when the browser played all of it *)
(* to the end and nobody cancelled it.                                      *)
ContextWasHeard ==
    \A r \in context :
        /\ ledger[r].terminal
        /\ ledger[r].delivered = speech[r].samples
        /\ speech[r].stream = "ended"
        /\ ~responses[r].cancelled

(* The delivered extent of a playback never goes back, and its terminal     *)
(* receipt is the last word on it.                                          *)
DeliveryStep ==
    \A r \in Responses :
        /\ ledger'[r].delivered >= ledger[r].delivered
        /\ ledger[r].terminal => ledger'[r] = ledger[r]

DeliveryMonotone == [][DeliveryStep]_vars

(* Once the browser was told that a response is cancelled, it hears of that *)
(* response again only to close the pause it was in.                        *)
CancelledIsFinal ==
    [][\A r \in Responses :
          responses[r].cancelled =>
              wire'[r] \in {wire[r], Append(wire[r], "barge_in.confirmed")}]_vars

(* The answer does not resume while the user is speaking.                   *)
NoResumeWhileSpeaking ==
    [][phase # "playing" /\ phase' = "playing" => ~userSpeaking]_vars

(* A pause the user no longer talks over is decided, or the user speaks     *)
(* again.                                                                   *)
ProvisionalResolved ==
    \A i \in 1..Cardinality(Turns) + Cardinality(Responses) :
        (provisional.id = i /\ ~userSpeaking)
            ~> (provisional.id # i \/ userSpeaking)

(* An accepted takeover does not wait for ever for its receipt.             *)
AcceptedTakeoverProcessed ==
    \A t \in Turns : (acceptance.turn = t) ~> (acceptance.turn # t)
=============================================================================
