---------------------- MODULE SessionOrchestratorProofs ----------------------
(* Theorems of SessionOrchestrator, for every number of turns, responses    *)
(* and samples.                                                             *)
EXTENDS SessionOrchestrator, SequenceTheorems, TLAPS

(* Appending events of a response's life to the log of one response keeps   *)
(* the log well typed.                                                      *)
LEMMA EmitType ==
    ASSUME NEW w \in Logs, NEW r, NEW es \in Seq(Events)
    PROVE  Emit(w, r, es) \in Logs
  <1>1. ASSUME r \in Responses PROVE w[r] \o es \in Seq(Events)
    BY <1>1, ConcatProperties DEF Logs
  <1> QED BY <1>1 DEF Emit, Logs

(* The effects of cancelResponse are well typed.                            *)
LEMMA CancelledType ==
    ASSUME TypeOK
    PROVE  /\ CancelledResponses \in [Responses -> ResponseRecord]
           /\ CancelledSpeech \in [Responses -> StreamRecord]
           /\ \A w \in Logs : CancelledWire(w) \in Logs
  <1>1. CancelledResponses \in [Responses -> ResponseRecord]
    <2>1. \A x \in ResponseRecord : [x EXCEPT !.cancelled = TRUE] \in ResponseRecord
      BY DEF ResponseRecord
    <2> QED BY <2>1 DEF TypeOK, CancelledResponses
  <1>2. CancelledSpeech \in [Responses -> StreamRecord]
    <2>1. \A x \in StreamRecord : [x EXCEPT !.cancelled = TRUE] \in StreamRecord
      BY DEF StreamRecord
    <2> QED BY <2>1 DEF TypeOK, CancelledSpeech
  <1>3. ASSUME NEW w \in Logs
        PROVE  CancelledWire(w) \in Logs
    <2>1. \A r \in Responses : Append(w[r], "response.cancelled") \in Seq(Events)
      BY AppendProperties DEF Logs, Events
    <2> QED BY <2>1 DEF CancelledWire, Logs
  <1> QED BY <1>1, <1>2, <1>3

-----------------------------------------------------------------------------
(* The helpers that several actions share, one lemma each.                  *)

(* advanceEpochAndCancel keeps what it assigns well typed.                  *)
LEMMA AdvanceType ==
    ASSUME TypeOK, AdvanceEpochAndCancel
    PROVE  /\ epoch' \in Nat
           /\ active' \in Responses \cup {None}
           /\ responses' \in [Responses -> ResponseRecord]
           /\ speech' \in [Responses -> StreamRecord]
  BY CancelledType DEF TypeOK, AdvanceEpochAndCancel, CancelActive

(* failResponse keeps what it assigns well typed.                           *)
LEMMA FailType ==
    ASSUME TypeOK, NEW r \in Responses, NEW sp \in [Responses -> StreamRecord],
           FailResponse(r, sp)
    PROVE  /\ phase' \in Phases
           /\ epoch' \in Nat
           /\ active' \in Responses \cup {None}
           /\ provisional' \in ProvisionalRecord
           /\ responses' \in [Responses -> ResponseRecord]
           /\ speech' \in [Responses -> StreamRecord]
           /\ wire' \in Logs
  <1> DEFINE failed == Emit(wire, r, IF responses[r].cancelled
                                     THEN <<"response.failed">>
                                     ELSE <<"response.failed", "response.cancelled">>)
  <1>1. failed \in Logs
    <2>1. /\ <<"response.failed">> \in Seq(Events)
          /\ <<"response.failed", "response.cancelled">> \in Seq(Events)
      BY DEF Events
    <2> HIDE DEF failed
    <2> QED BY <2>1, EmitType DEF TypeOK, failed
  <1>2. WirePauseOver(r, failed) \in Logs
    <2>1. <<"barge_in.rejected">> \in Seq(Events)
      BY DEF Events
    <2> HIDE DEF failed
    <2> QED BY <1>1, <2>1, EmitType DEF WirePauseOver
  <1>3. responses' \in [Responses -> ResponseRecord]
    <2>1. \A x \in ResponseRecord : [x EXCEPT !.cancelled = TRUE] \in ResponseRecord
      BY DEF ResponseRecord
    <2> QED BY <2>1 DEF TypeOK, FailResponse
  <1>4. speech' \in [Responses -> StreamRecord]
    <2>1. \A x \in StreamRecord : [x EXCEPT !.cancelled = TRUE] \in StreamRecord
      BY DEF StreamRecord
    <2> QED BY <2>1 DEF FailResponse
  <1>5. WithoutPause(r) \in ProvisionalRecord
    BY DEF TypeOK, WithoutPause, NoProvisional, ProvisionalRecord
  <1>6. wire' \in {failed, WirePauseOver(r, failed)}
    BY DEF FailResponse
  <1>7. /\ phase' \in Phases
        /\ epoch' \in Nat
        /\ active' \in Responses \cup {None}
        /\ provisional' \in ProvisionalRecord
    BY <1>5 DEF TypeOK, FailResponse, Phases
  <1> HIDE DEF failed
  <1> QED BY <1>1, <1>2, <1>3, <1>4, <1>6, <1>7

(* resolveProvisional keeps what it assigns well typed.                     *)
LEMMA ResolveType ==
    ASSUME TypeOK, NEW p \in ProvisionalRecord,
           NEW result \in {"barge_in.rejected", "barge_in.timed_out"},
           NEW before \in Seq(Events), ResolveProvisional(p, result, before)
    PROVE  /\ phase' \in Phases
           /\ epoch' \in Nat
           /\ active' \in Responses \cup {None}
           /\ provisional' \in ProvisionalRecord
           /\ responses' \in [Responses -> ResponseRecord]
           /\ speech' \in [Responses -> StreamRecord]
           /\ wire' \in Logs
  <1>1. provisional' \in ProvisionalRecord
    BY DEF ResolveProvisional, NoProvisional, ProvisionalRecord
  <1>2. /\ <<result>> \in Seq(Events)
        /\ Append(before, Resumable(result)) \in Seq(Events)
    BY AppendProperties DEF Resumable, Events
  <1>3. CASE SafeToResume(p, result)
    <2>1. phase' = "playing" /\ UNCHANGED <<epoch, active, responses, speech>>
      BY <1>3 DEF ResolveProvisional
    <2>2. wire' = Emit(wire, p.response, Append(before, Resumable(result)))
      BY <1>3 DEF ResolveProvisional
    <2>3. wire' \in Logs
      BY <1>2, <2>2, EmitType DEF TypeOK
    <2> QED BY <1>1, <2>1, <2>3 DEF TypeOK, Phases
  <1>4. CASE ~SafeToResume(p, result)
    <2>1. AdvanceEpochAndCancel /\ phase' = "listening"
      BY <1>4 DEF ResolveProvisional
    <2>2. Emit(wire, p.response, before) \in Logs
      BY EmitType DEF TypeOK
    <2>3. CancelledWire(Emit(wire, p.response, before)) \in Logs
      BY <2>2, CancelledType
    <2>4. wire' = Emit(CancelledWire(Emit(wire, p.response, before)),
                       p.response, <<result>>)
      BY <1>4 DEF ResolveProvisional
    <2>5. wire' \in Logs
      BY <1>2, <2>3, <2>4, EmitType
    <2> QED BY <1>1, <2>1, <2>5, AdvanceType DEF Phases
  <1> QED BY <1>3, <1>4

(* The start of a response keeps what it assigns well typed.                *)
LEMMA AnswerType ==
    ASSUME TypeOK, NEW t \in Turns, NEW e \in Nat, NEW w \in Logs, Answer(t, e, w)
    PROVE  /\ phase' \in Phases
           /\ epoch' \in Nat
           /\ active' \in Responses
           /\ responses' \in [Responses -> ResponseRecord]
           /\ speech' \in [Responses -> StreamRecord]
           /\ pi' \in [Responses -> {"idle", "streaming", "final", "duplicate", "done"}]
           /\ wire' \in Logs
  <1>1. PICK r \in Responses :
          /\ active' = r
          /\ epoch' = e
          /\ phase' = "reasoning"
          /\ responses' = [CancelledResponses EXCEPT
                             ![r] = [Unused EXCEPT !.turn = t, !.epoch = e]]
          /\ speech' = [CancelledSpeech EXCEPT ![r] = NewStream]
          /\ pi' = [pi EXCEPT ![r] = "streaming"]
          /\ wire' = [w EXCEPT ![r] = <<"reasoning.started">>]
    BY Zenon DEF Answer
  <1>2. [Unused EXCEPT !.turn = t, !.epoch = e] \in ResponseRecord
    BY DEF Unused, ResponseRecord, Phases
  <1>3. NewStream \in StreamRecord
    BY ConstantsOK DEF NewStream, Silent, StreamRecord
  <1>4. <<"reasoning.started">> \in Seq(Events)
    BY DEF Events
  <1>5. responses' \in [Responses -> ResponseRecord]
    BY <1>1, <1>2, CancelledType
  <1>6. speech' \in [Responses -> StreamRecord]
    BY <1>1, <1>3, CancelledType
  <1>7. wire' \in Logs
    BY <1>1, <1>4 DEF Logs
  <1> QED BY <1>1, <1>5, <1>6, <1>7 DEF TypeOK, Phases

(* finalizeAcceptedTakeover keeps what it assigns well typed.               *)
LEMMA FinalizeType ==
    ASSUME TypeOK, acceptance.turn \in Turns, FinalizeAcceptedTakeover
    PROVE  /\ phase' \in Phases
           /\ epoch' \in Nat
           /\ active' \in Responses \cup {None}
           /\ acceptance' \in AcceptanceRecord
           /\ responses' \in [Responses -> ResponseRecord]
           /\ speech' \in [Responses -> StreamRecord]
           /\ pi' \in [Responses -> {"idle", "streaming", "final", "duplicate", "done"}]
           /\ wire' \in Logs
  <1> DEFINE w == Emit(CancelledWire(wire), acceptance.response,
                       <<"barge_in.confirmed">>)
  <1>1. w \in Logs
    <2>1. <<"barge_in.confirmed">> \in Seq(Events)
      BY DEF Events
    <2> QED BY <2>1, EmitType, CancelledType DEF TypeOK
  <1>2. acceptance' \in AcceptanceRecord
    BY DEF FinalizeAcceptedTakeover, NoAcceptance, AcceptanceRecord
  <1>3. \/ AdvanceEpochAndCancel /\ phase' = "listening" /\ wire' = w /\ UNCHANGED pi
        \/ Answer(acceptance.turn, epoch + 1, w)
    BY DEF FinalizeAcceptedTakeover
  <1> HIDE DEF w
  <1>4. CASE AdvanceEpochAndCancel /\ phase' = "listening" /\ wire' = w /\ UNCHANGED pi
    BY <1>1, <1>2, <1>4, AdvanceType DEF TypeOK, Phases
  <1>5. CASE Answer(acceptance.turn, epoch + 1, w)
    <2>1. epoch + 1 \in Nat
      BY DEF TypeOK
    <2> QED BY <1>1, <1>2, <1>5, <2>1, AnswerType
  <1> QED BY <1>3, <1>4, <1>5

(* decideInterruption keeps what it assigns well typed.                     *)
LEMMA DecideType ==
    ASSUME TypeOK, NEW p \in ProvisionalRecord, NEW t \in Turns,
           DecideInterruption(p, t)
    PROVE  /\ phase' \in Phases
           /\ epoch' \in Nat
           /\ active' \in Responses \cup {None}
           /\ provisional' \in ProvisionalRecord
           /\ responses' \in [Responses -> ResponseRecord]
           /\ speech' \in [Responses -> StreamRecord]
           /\ deciding' \in [Turns -> Nat]
           /\ wire' \in Logs
  <1>1. /\ [p EXCEPT !.turn = t, !.pendingTurn = t] \in ProvisionalRecord
        /\ [p EXCEPT !.turn = t, !.pendingTurn = None, !.timer = FALSE]
             \in ProvisionalRecord
        /\ [p EXCEPT !.echoRecovered = TRUE] \in ProvisionalRecord
        /\ p.id \in Nat
    BY DEF ProvisionalRecord
  <1>2. <<"interruption.decision">> \in Seq(Events)
    BY DEF Events
  <1>3. CASE ResolveProvisional([p EXCEPT !.echoRecovered = TRUE],
                                "barge_in.rejected", <<"interruption.decision">>)
             /\ UNCHANGED deciding
    BY <1>1, <1>2, <1>3, ResolveType DEF TypeOK
  <1>4. CASE ~(ResolveProvisional([p EXCEPT !.echoRecovered = TRUE],
                                  "barge_in.rejected", <<"interruption.decision">>)
               /\ UNCHANGED deciding)
    BY <1>1, <1>4 DEF DecideInterruption, TypeOK, Phases
  <1> QED BY <1>3, <1>4

-----------------------------------------------------------------------------
(* Type correctness.  An accepted takeover must also name the turn that     *)
(* took over, for finalizeAcceptedTakeover answers that turn.               *)
TypeInv ==
    /\ TypeOK
    /\ acceptance.response # None \/ acceptance.timer => acceptance.turn \in Turns

(* The reports, commands and promises that only assign a few fields.        *)
LEMMA CaptureType == TypeInv /\ Capture => TypeInv'
  <1> SUFFICES ASSUME TypeInv, Capture PROVE TypeInv'
    OBVIOUS
  <1> USE DEF TypeInv
  <1>1. ASSUME NEW t \in Turns, HandleSpeechStart(t) PROVE TypeInv'
    <2>1. /\ epoch' \in Nat
          /\ active' \in Responses \cup {None}
          /\ responses' \in [Responses -> ResponseRecord]
          /\ speech' \in [Responses -> StreamRecord]
          /\ phase' \in Phases
          /\ acceptance' \in {acceptance, NoAcceptance}
          /\ provisional' \in ProvisionalRecord
          /\ provisionals' \in Nat
          /\ wire' \in Logs
      <3>1. CASE acceptance.response # None
        BY <1>1, <3>1, AdvanceType, CancelledType DEF HandleSpeechStart, TypeOK, Phases
      <3>2. CASE /\ acceptance.response = None
                 /\ active # None /\ provisional.response = active
        BY <1>1, <3>2 DEF HandleSpeechStart, TypeOK, Phases, ProvisionalRecord
      <3>3. CASE /\ acceptance.response = None
                 /\ active # None /\ provisional.response = None /\ phase = "playing"
        <4>1. /\ \A x \in ResponseRecord :
                    /\ [x EXCEPT !.phaseBefore = "playing"] \in ResponseRecord
                    /\ x.epoch \in Nat
              /\ <<"barge_in.provisional">> \in Seq(Events)
          BY DEF ResponseRecord, Phases, Events
        <4>2. /\ responses' = [responses EXCEPT ![active].phaseBefore = "playing"]
              /\ wire' = Emit(wire, active, <<"barge_in.provisional">>)
              /\ BeginProvisionalBargeIn(active)
              /\ UNCHANGED <<epoch, active, acceptance, speech>>
          BY <1>1, <3>3 DEF HandleSpeechStart
        <4>3. responses' \in [Responses -> ResponseRecord]
          BY <4>1, <4>2 DEF TypeOK
        <4>4. wire' \in Logs
          BY <4>1, <4>2, EmitType DEF TypeOK
        <4>5. /\ provisional' \in ProvisionalRecord
              /\ provisionals' \in Nat
              /\ phase' \in Phases
          <5>1. active \in Responses /\ responses[active].epoch \in Nat
            BY <3>3, <4>1 DEF TypeOK
          <5>2. provisionals + 1 \in Nat
            BY DEF TypeOK
          <5>3. provisional' \in ProvisionalRecord
            BY <4>2, <5>1, <5>2
               DEF BeginProvisionalBargeIn, NoProvisional, ProvisionalRecord
          <5> QED BY <4>2, <5>2, <5>3 DEF BeginProvisionalBargeIn, Phases
        <4> QED BY <4>2, <4>3, <4>4, <4>5 DEF TypeOK
      <3>4. CASE /\ acceptance.response = None
                 /\ \/ active = None
                    \/ /\ provisional.response # active
                       /\ phase # "playing" \/ provisional.response # None
        BY <1>1, <3>4 DEF HandleSpeechStart, TypeOK
      <3> QED BY <3>1, <3>2, <3>3, <3>4
    <2>2. /\ userSpeaking' \in BOOLEAN
          /\ timedOutEpoch' \in Nat \cup {None}
          /\ UNCHANGED <<seenTurns, ledger, context, deciding, pi>>
          /\ utterance' \in [Turns -> [stage: {"none", "speaking", "ended", "delivered"},
                                       epoch: Nat]]
      BY <1>1, <2>1 DEF HandleSpeechStart, TypeOK
    <2>3. /\ acceptance' \in AcceptanceRecord
          /\ acceptance'.response # None \/ acceptance'.timer => acceptance'.turn \in Turns
      <3>1. CASE acceptance' = acceptance
        BY <3>1 DEF TypeOK
      <3>2. CASE acceptance' = NoAcceptance
        BY <3>2 DEF NoAcceptance, AcceptanceRecord
      <3> QED BY <2>1, <3>1, <3>2
    <2> QED BY <2>1, <2>2, <2>3 DEF TypeOK
  <1>2. ASSUME NEW t \in Turns, HandleSpeechEnd(t) PROVE TypeInv'
    <2>1. provisional' \in ProvisionalRecord
      BY <1>2 DEF HandleSpeechEnd, TypeOK, ScheduleProvisionalTimeout, ProvisionalRecord
    <2>2. utterance' \in [Turns -> [stage: {"none", "speaking", "ended", "delivered"},
                                    epoch: Nat]]
      BY <1>2 DEF HandleSpeechEnd, TypeOK
    <2> QED BY <1>2, <2>1, <2>2 DEF HandleSpeechEnd, TypeOK, Phases
  <1> QED BY <1>1, <1>2 DEF Capture

(* Stable finals and the continuations of their classification.             *)
LEMMA FinalsType == TypeInv /\ Finals => TypeInv'
  <1> SUFFICES ASSUME TypeInv, Finals PROVE TypeInv'
    OBVIOUS
  <1> USE DEF TypeInv
  <1>1. ASSUME NEW t \in Turns, HandleStableFinal(t) PROVE TypeInv'
    <2>1. utterance' \in [Turns -> [stage: {"none", "speaking", "ended", "delivered"},
                                    epoch: Nat]]
      BY <1>1 DEF HandleStableFinal, TypeOK
    <2>2. UNCHANGED <<acceptance, userSpeaking, ledger, context, provisionals>>
      BY <1>1 DEF HandleStableFinal
    <2>3. seenTurns' \subseteq Turns /\ timedOutEpoch' \in Nat \cup {None}
      BY <1>1 DEF HandleStableFinal, TypeOK
    <2>4. \/ UNCHANGED <<phase, epoch, active, provisional, responses, deciding, pi,
                         speech, wire>>
          \/ /\ provisional.response # None
             /\ DecideInterruption(provisional, t)
             /\ UNCHANGED pi
          \/ RunPolicy(t) /\ UNCHANGED <<provisional, deciding>>
      BY <1>1 DEF HandleStableFinal
    <2>5. CASE UNCHANGED <<phase, epoch, active, provisional, responses, deciding, pi,
                           speech, wire>>
      BY <2>1, <2>2, <2>3, <2>5 DEF TypeOK
    <2>6. CASE DecideInterruption(provisional, t) /\ UNCHANGED pi
      <3>1. provisional \in ProvisionalRecord
        BY DEF TypeOK
      <3> QED BY <2>1, <2>2, <2>3, <2>6, <3>1, DecideType DEF TypeOK
    <2>7. CASE RunPolicy(t) /\ UNCHANGED <<provisional, deciding>>
      <3>1. CASE /\ phase' = IF active = None THEN "listening" ELSE phase
                 /\ UNCHANGED <<epoch, active, responses, speech, pi, wire>>
        BY <2>1, <2>2, <2>3, <2>7, <3>1 DEF TypeOK, Phases
      <3>2. CASE Answer(t, IF active = None THEN epoch ELSE epoch + 1,
                        CancelledWire(wire))
        <4>1. /\ (IF active = None THEN epoch ELSE epoch + 1) \in Nat
              /\ CancelledWire(wire) \in Logs
          BY CancelledType DEF TypeOK
        <4> QED BY <2>1, <2>2, <2>3, <2>7, <3>2, <4>1, AnswerType DEF TypeOK
      <3> QED BY <2>7, <3>1, <3>2 DEF RunPolicy
    <2> QED BY <2>4, <2>5, <2>6, <2>7
  <1>2. ASSUME NEW t \in Turns, FinishDecision(t) PROVE TypeInv'
    <2>1. /\ deciding' \in [Turns -> Nat]
          /\ UNCHANGED <<timedOutEpoch, userSpeaking, seenTurns, ledger, context,
                         provisionals, pi, utterance>>
      BY <1>2 DEF FinishDecision, TypeOK
    <2>2. /\ provisional \in ProvisionalRecord
          /\ [provisional EXCEPT !.echoRecovered = TRUE] \in ProvisionalRecord
      BY DEF TypeOK, ProvisionalRecord
    <2>3. /\ <<>> \in Seq(Events)
          /\ <<"interruption.decision">> \in Seq(Events)
      BY DEF Events
    <2>4. CASE UNCHANGED <<phase, epoch, active, provisional, acceptance,
                           responses, speech, wire>>
      BY <2>1, <2>4 DEF TypeOK
    <2>5. CASE /\ ResolveProvisional(provisional, "barge_in.rejected", <<>>)
               /\ UNCHANGED acceptance
      BY <2>1, <2>2, <2>3, <2>5, ResolveType DEF TypeOK
    <2>6. CASE /\ ResolveProvisional([provisional EXCEPT !.echoRecovered = TRUE],
                                     "barge_in.rejected", <<"interruption.decision">>)
               /\ UNCHANGED acceptance
      BY <2>1, <2>2, <2>3, <2>6, ResolveType DEF TypeOK
    <2>7. CASE AcceptTakeover(t)
      <3>1. /\ provisional' \in ProvisionalRecord
            /\ acceptance' \in AcceptanceRecord
            /\ acceptance'.turn \in Turns
        BY <2>2, <2>7 DEF AcceptTakeover, NoProvisional, ProvisionalRecord, AcceptanceRecord
      <3>2. Emit(wire, active, <<"interruption.decision">>) \in Logs
        BY <2>3, EmitType DEF TypeOK
      <3>3. wire' \in Logs
        BY <2>7, <3>2, CancelledType DEF AcceptTakeover
      <3>4. /\ responses' \in [Responses -> ResponseRecord]
            /\ speech' \in [Responses -> StreamRecord]
        BY <2>7, CancelledType DEF AcceptTakeover, CancelActive
      <3>5. phase' \in Phases /\ UNCHANGED <<epoch, active>>
        BY <2>7 DEF AcceptTakeover, Phases
      <3> QED BY <2>1, <3>1, <3>3, <3>4, <3>5 DEF TypeOK
    <2> QED BY <1>2, <2>4, <2>5, <2>6, <2>7 DEF FinishDecision
  <1> QED BY <1>1, <1>2 DEF Finals

(* The recovery timer of a pause and the timer of an accepted takeover.     *)
LEMMA TimersType == TypeInv /\ Timers => TypeInv'
  <1> SUFFICES ASSUME TypeInv, Timers PROVE TypeInv'
    OBVIOUS
  <1> USE DEF TypeInv
  <1>1. CASE AcceptanceTimeout
    <2>1. UNCHANGED <<provisional, timedOutEpoch, userSpeaking, seenTurns, ledger,
                      context, provisionals, deciding, utterance>>
      BY <1>1 DEF AcceptanceTimeout
    <2>2. CASE FinalizeAcceptedTakeover
      <3>1. acceptance.turn \in Turns
        BY <1>1 DEF AcceptanceTimeout
      <3>2. acceptance' = NoAcceptance
        BY <2>2 DEF FinalizeAcceptedTakeover
      <3>3. ~(acceptance'.response # None \/ acceptance'.timer)
        BY <3>2 DEF NoAcceptance
      <3> QED BY <2>1, <2>2, <3>1, <3>3, FinalizeType DEF TypeOK
    <2>3. CASE /\ acceptance' = [acceptance EXCEPT !.timer = FALSE]
               /\ UNCHANGED <<phase, epoch, active, responses, speech, pi, wire>>
      <3>1. /\ acceptance' \in AcceptanceRecord
            /\ acceptance'.turn = acceptance.turn
        BY <2>3 DEF TypeOK, AcceptanceRecord
      <3> QED BY <1>1, <2>1, <2>3, <3>1 DEF TypeOK, AcceptanceTimeout
    <2> QED BY <1>1, <2>2, <2>3 DEF AcceptanceTimeout
  <1>2. CASE ProvisionalTimeout
    <2>1. UNCHANGED <<acceptance, userSpeaking, seenTurns, ledger, context,
                      provisionals, deciding, pi, utterance>>
      BY <1>2 DEF ProvisionalTimeout
    <2>2. CASE /\ provisional' = [provisional EXCEPT !.timer = FALSE]
               /\ UNCHANGED <<phase, epoch, active, timedOutEpoch, responses, speech, wire>>
      <3>1. provisional' \in ProvisionalRecord
        BY <2>2 DEF TypeOK, ProvisionalRecord
      <3> QED BY <2>1, <2>2, <3>1 DEF TypeOK
    <2>3. CASE /\ timedOutEpoch' = provisional.outputEpoch
               /\ ResolveProvisional(provisional, "barge_in.timed_out", <<>>)
      <3>1. provisional \in ProvisionalRecord /\ <<>> \in Seq(Events)
        BY DEF TypeOK
      <3>2. timedOutEpoch' \in Nat
        BY <2>3, <3>1 DEF ProvisionalRecord
      <3> QED BY <2>1, <2>3, <3>1, <3>2, ResolveType DEF TypeOK
    <2> QED BY <1>2, <2>2, <2>3 DEF ProvisionalTimeout
  <1> QED BY <1>1, <1>2 DEF Timers

(* The browser's playback reports.                                          *)
LEMMA BrowserType == TypeInv /\ Browser => TypeInv'
  <1> SUFFICES ASSUME TypeInv, Browser PROVE TypeInv'
    OBVIOUS
  <1> USE DEF TypeInv
  <1>1. 0..MaxSamples \subseteq Nat
    BY ConstantsOK
  <1>2. ASSUME NEW r \in Responses, NEW offset \in Nat, NEW generated \in Nat,
               PlaybackPaused(r, offset, generated)
        PROVE  TypeInv'
    <2>1. /\ UNCHANGED <<acceptance, timedOutEpoch, userSpeaking, seenTurns, context,
                         provisionals, pi, utterance>>
          /\ ledger' = [ledger EXCEPT ![r].delivered = offset]
      BY <1>2 DEF PlaybackPaused
    <2>2. ledger' \in [Responses -> LedgerRecord]
      <3>1. \A x \in LedgerRecord : [x EXCEPT !.delivered = offset] \in LedgerRecord
        BY DEF LedgerRecord
      <3> QED BY <2>1, <3>1 DEF TypeOK
    <2>3. /\ [provisional EXCEPT !.checkpoint = TRUE] \in ProvisionalRecord
          /\ [[provisional EXCEPT !.checkpoint = TRUE] EXCEPT !.pendingTurn = None]
               \in ProvisionalRecord
          /\ provisional.pendingTurn \in Turns \cup {None}
      BY DEF TypeOK, ProvisionalRecord
    <2>4. CASE /\ provisional' = [provisional EXCEPT !.checkpoint = TRUE]
               /\ UNCHANGED <<phase, epoch, active, responses, speech, deciding, wire>>
      BY <2>1, <2>2, <2>3, <2>4 DEF TypeOK
    <2>5. CASE /\ provisional.pendingTurn # None
               /\ DecideInterruption([[provisional EXCEPT !.checkpoint = TRUE]
                                         EXCEPT !.pendingTurn = None],
                                     provisional.pendingTurn)
      <3>1. provisional.pendingTurn \in Turns
        BY <2>3, <2>5
      <3> QED BY <2>1, <2>2, <2>3, <2>5, <3>1, DecideType DEF TypeOK
    <2> QED BY <1>2, <2>4, <2>5 DEF PlaybackPaused
  <1>3. ASSUME NEW r \in Responses, NEW offset \in Nat, NEW generated \in Nat,
               PlaybackProgress(r, offset, generated)
        PROVE  TypeInv'
    <2>1. \A x \in LedgerRecord : [x EXCEPT !.delivered = offset] \in LedgerRecord
      BY DEF LedgerRecord
    <2>2. ledger' \in [Responses -> LedgerRecord]
      BY <1>3, <2>1 DEF TypeOK, PlaybackProgress
    <2> QED BY <1>3, <2>2 DEF TypeOK, PlaybackProgress
  <1>4. ASSUME NEW r \in Responses, NEW offset \in Nat, NEW completed \in BOOLEAN,
               PlaybackStopped(r, offset, completed)
        PROVE  TypeInv'
    <2>1. UNCHANGED <<timedOutEpoch, userSpeaking, seenTurns, provisionals,
                      deciding, utterance>>
      BY <1>4 DEF PlaybackStopped
    <2>2. ledger' \in [Responses -> LedgerRecord]
      <3>1. \A x \in LedgerRecord :
              [x EXCEPT !.terminal = TRUE,
                        !.delivered = IF offset > @ THEN offset ELSE @] \in LedgerRecord
        BY DEF LedgerRecord
      <3> QED BY <1>4, <3>1 DEF TypeOK, PlaybackStopped
    <2>3. CASE /\ acceptance.response = r /\ active = r
               /\ FinalizeAcceptedTakeover
               /\ UNCHANGED <<provisional, context>>
      <3>1. acceptance.turn \in Turns
        BY <2>3, ConstantsOK
      <3>2. acceptance' = NoAcceptance
        BY <2>3 DEF FinalizeAcceptedTakeover
      <3>3. ~(acceptance'.response # None \/ acceptance'.timer)
        BY <3>2 DEF NoAcceptance
      <3> QED BY <2>1, <2>2, <2>3, <3>1, <3>3, FinalizeType DEF TypeOK
    <2>4. CASE /\ context' = IF HeardInFull(r, offset, completed)
                             THEN context \cup {r} ELSE context
               /\ provisional' = WithoutPause(r)
               /\ wire' = WirePauseOver(r, wire)
               /\ active' = None
               /\ phase' = "listening"
               /\ UNCHANGED <<epoch, acceptance, responses, pi, speech>>
      <3>1. provisional' \in ProvisionalRecord
        BY <2>4 DEF TypeOK, WithoutPause, NoProvisional, ProvisionalRecord
      <3>2. <<"barge_in.rejected">> \in Seq(Events)
        BY DEF Events
      <3>3. wire' \in Logs
        BY <2>4, <3>2, EmitType DEF TypeOK, WirePauseOver
      <3> QED BY <2>1, <2>2, <2>4, <3>1, <3>3 DEF TypeOK, Phases
    <2>5. CASE UNCHANGED <<phase, epoch, active, provisional, acceptance,
                           responses, context, pi, speech, wire>>
      BY <2>1, <2>2, <2>5 DEF TypeOK
    <2> QED BY <1>4, <2>3, <2>4, <2>5 DEF PlaybackStopped
  <1> QED BY <1>1, <1>2, <1>3, <1>4 DEF Browser

(* start(), stop() and the commands of the user.                            *)
LEMMA ControlType == TypeInv /\ Control => TypeInv'
  <1> SUFFICES ASSUME TypeInv, Control PROVE TypeInv'
    OBVIOUS
  <1> USE DEF TypeInv
  <1>1. /\ NoProvisional \in ProvisionalRecord
        /\ NoAcceptance \in AcceptanceRecord
        /\ ~(NoAcceptance.response # None \/ NoAcceptance.timer)
    BY DEF NoProvisional, ProvisionalRecord, NoAcceptance, AcceptanceRecord
  <1>2. \A result \in {"barge_in.confirmed", "barge_in.rejected"} :
          WireGivingUpPause(result) \in Logs
    <2> TAKE result \in {"barge_in.confirmed", "barge_in.rejected"}
    <2>1. CancelledWire(wire) \in Logs
      BY CancelledType DEF TypeOK
    <2>2. <<result>> \in Seq(Events)
      BY DEF Events
    <2> QED BY <2>1, <2>2, EmitType DEF WireGivingUpPause
  <1>3. CASE Start
    BY <1>3 DEF Start, TypeOK, Phases
  <1>4. CASE ConfirmBargeIn
    <2>1. wire' \in Logs
      BY <1>2, <1>4 DEF ConfirmBargeIn
    <2> QED BY <1>1, <1>4, <2>1, AdvanceType DEF ConfirmBargeIn, TypeOK, Phases
  <1>5. CASE RejectBargeIn
    <2>1. [provisional EXCEPT !.echoRecovered = TRUE] \in ProvisionalRecord
      BY DEF TypeOK, ProvisionalRecord
    <2>2. ResolveProvisional([provisional EXCEPT !.echoRecovered = TRUE],
                             "barge_in.rejected", <<>>)
      BY <1>5 DEF RejectBargeIn
    <2>3. <<>> \in Seq(Events)
      OBVIOUS
    <2> QED BY <1>5, <2>1, <2>2, <2>3, ResolveType DEF RejectBargeIn, TypeOK
  <1>6. CASE CancelCurrentTurn
    <2>1. wire' \in Logs
      BY <1>2, <1>6 DEF CancelCurrentTurn
    <2>2. /\ epoch' \in Nat
          /\ active' \in Responses \cup {None}
          /\ responses' \in [Responses -> ResponseRecord]
          /\ speech' \in [Responses -> StreamRecord]
      BY <1>6, AdvanceType DEF CancelCurrentTurn, TypeOK
    <2> QED BY <1>1, <1>6, <2>1, <2>2 DEF CancelCurrentTurn, TypeOK, Phases
  <1>7. CASE Stop
    <2>1. wire' \in Logs
      BY <1>2, <1>7 DEF Stop
    <2> QED BY <1>1, <1>7, <2>1, AdvanceType DEF Stop, TypeOK, Phases
  <1> QED BY <1>3, <1>4, <1>5, <1>6, <1>7 DEF Control

(* The items and the end of the reasoning loop.                             *)
LEMMA ReasoningType == TypeInv /\ Reasoning => TypeInv'
  <1> SUFFICES ASSUME TypeInv, NEW r \in Responses,
                      \/ PiStaleItem(r) \/ PiDelta(r) \/ PiFinal(r)
                      \/ PiError(r) \/ PiEnd(r)
               PROVE  TypeInv'
    BY DEF Reasoning
  <1> USE DEF TypeInv
  <1>1. PiUnchanged
    BY DEF PiStaleItem, PiDelta, PiFinal, PiError, PiEnd
  <1>2. pi' \in [Responses -> {"idle", "streaming", "final", "duplicate", "done"}]
    BY DEF PiStaleItem, PiDelta, PiFinal, PiError, PiEnd, TypeOK
  <1>3. CASE UNCHANGED <<phase, epoch, active, provisional, responses, speech, wire>>
    BY <1>1, <1>2, <1>3 DEF PiUnchanged, TypeOK
  <1>4. CASE PiDelta(r)
    <2>1. \A x \in StreamRecord : [x EXCEPT !.fed = TRUE] \in StreamRecord
      BY DEF StreamRecord
    <2>2. speech' \in [Responses -> StreamRecord]
      BY <1>4, <2>1 DEF PiDelta, TypeOK
    <2> QED BY <1>1, <1>2, <1>4, <2>2 DEF PiDelta, PiUnchanged, TypeOK
  <1>5. CASE FailResponse(r, speech)
    <2>1. speech \in [Responses -> StreamRecord]
      BY DEF TypeOK
    <2> QED BY <1>1, <1>2, <1>5, <2>1, FailType DEF PiUnchanged, TypeOK
  <1>6. CASE FinishReasoning(r)
    <2>1. \A x \in ResponseRecord : [x EXCEPT !.text = TRUE] \in ResponseRecord
      BY DEF ResponseRecord
    <2>2. speech' \in [Responses -> StreamRecord]
      <3>1. \A x \in StreamRecord :
              [x EXCEPT !.fed = TRUE, !.finished = TRUE] \in StreamRecord
        BY DEF StreamRecord
      <3> QED BY <1>6, <3>1 DEF FinishReasoning, TypeOK
    <2>3. responses' \in [Responses -> ResponseRecord]
      BY <1>6, <2>1 DEF FinishReasoning, TypeOK
    <2>4. wire' = Emit(wire, r, <<"reasoning.final">>)
      BY <1>6 DEF FinishReasoning
    <2>5. wire' \in Logs
      <3>1. <<"reasoning.final">> \in Seq(Events)
        BY DEF Events
      <3> QED BY <2>4, <3>1, EmitType DEF TypeOK
    <2> QED BY <1>1, <1>2, <1>6, <2>2, <2>3, <2>5 DEF FinishReasoning, PiUnchanged, TypeOK
  <1>7. CASE ~PiDelta(r)
    BY <1>3, <1>5, <1>6, <1>7
       DEF PiStaleItem, PiFinal, PiError, PiEnd, LongEnd, ConciseEnd
  <1> QED BY <1>4, <1>7

(* The promises and the samples of a response's speech stream.              *)
LEMMA SpeechOutputType == TypeInv /\ SpeechOutput => TypeInv'
  <1> SUFFICES ASSUME TypeInv, NEW r \in Responses,
                      \/ SidecarStarted(r) \/ GeneratedSamples(r) \/ TtsStarted(r)
                      \/ TtsEnded(r) \/ TtsFailed(r)
               PROVE  TypeInv'
    BY DEF SpeechOutput
  <1> USE DEF TypeInv
  <1>1. \A x \in StreamRecord :
          /\ \A s \in {"starting", "playing", "ended", "failed"} :
                [x EXCEPT !.stream = s] \in StreamRecord
          /\ [x EXCEPT !.samples = x.samples + 1] \in StreamRecord
    BY DEF StreamRecord
  <1>2. \A x \in ResponseRecord :
          /\ [x EXCEPT !.playback = TRUE] \in ResponseRecord
          /\ [x EXCEPT !.playback = TRUE, !.phaseBefore = "playing"] \in ResponseRecord
          /\ \A n \in Nat : [x EXCEPT !.generated = n] \in ResponseRecord
    BY DEF ResponseRecord, Phases
  <1>3. \A x \in LedgerRecord : \A n \in Nat : [x EXCEPT !.generated = n] \in LedgerRecord
    BY DEF LedgerRecord
  <1>0. /\ speech[r].samples \in Nat
        /\ responses[r].generated \in Nat
        /\ responses[r].epoch \in Nat
    <2>1. speech[r] \in StreamRecord /\ responses[r] \in ResponseRecord
      BY DEF TypeOK
    <2> QED BY <2>1 DEF StreamRecord, ResponseRecord
  <1>4. SpeechUnchanged
    BY DEF SidecarStarted, GeneratedSamples, TtsStarted, TtsEnded, TtsFailed
  <1>5. CASE SidecarStarted(r)
    <2>1. speech' \in [Responses -> StreamRecord]
      BY <1>1, <1>5 DEF SidecarStarted, TypeOK
    <2> QED BY <1>4, <1>5, <2>1 DEF SidecarStarted, SpeechUnchanged, TypeOK
  <1>6. CASE GeneratedSamples(r)
    <2> DEFINE total == speech[r].samples + 1
    <2>1. total \in Nat
      BY <1>0
    <2>2. speech' \in [Responses -> StreamRecord]
      BY <1>1, <1>6 DEF GeneratedSamples, TypeOK
    <2>3. /\ responses' = [responses EXCEPT ![r].generated = total]
          /\ ledger' \in {ledger, [ledger EXCEPT ![r].generated = total]}
      BY <1>6 DEF GeneratedSamples
    <2> HIDE DEF total
    <2>4. responses' \in [Responses -> ResponseRecord]
      BY <1>2, <2>1, <2>3 DEF TypeOK
    <2>5. ledger' \in [Responses -> LedgerRecord]
      BY <1>3, <2>1, <2>3 DEF TypeOK
    <2> QED BY <1>4, <1>6, <2>2, <2>4, <2>5 DEF GeneratedSamples, SpeechUnchanged, TypeOK
  <1>7. CASE TtsStarted(r)
    <2>1. speech' \in [Responses -> StreamRecord]
      BY <1>1, <1>7 DEF TtsStarted, TypeOK
    <2>2. CASE ~IsCurrent(r)
      BY <1>4, <1>7, <2>1, <2>2 DEF TtsStarted, SpeechUnchanged, TypeOK
    <2>3. CASE IsCurrent(r)
      <3>1. ledger' \in [Responses -> LedgerRecord]
        <4>1. responses[r].generated \in Nat
          BY <1>0
        <4>2. [NoLedger EXCEPT !.known = TRUE, !.generated = responses[r].generated]
                \in LedgerRecord
          BY <4>1 DEF NoLedger, LedgerRecord
        <4> QED BY <1>7, <2>3, <4>2 DEF TtsStarted, TypeOK
      <3>2. responses' \in [Responses -> ResponseRecord]
        <4>1. responses' \in
                {[responses EXCEPT ![r].playback = TRUE],
                 [responses EXCEPT ![r].playback = TRUE, ![r].phaseBefore = "playing"]}
          BY <1>7, <2>3 DEF TtsStarted
        <4>2. [responses EXCEPT ![r].playback = TRUE] \in [Responses -> ResponseRecord]
          BY <1>2 DEF TypeOK
        <4>3. [responses EXCEPT ![r].playback = TRUE, ![r].phaseBefore = "playing"]
                \in [Responses -> ResponseRecord]
          BY <1>2 DEF TypeOK
        <4> QED BY <4>1, <4>2, <4>3
      <3>3. wire' \in Logs
        <4>1. /\ <<"tts.started">> \in Seq(Events)
              /\ <<"tts.started", "barge_in.provisional">> \in Seq(Events)
          BY DEF Events
        <4>2. wire' \in {Emit(wire, r, <<"tts.started">>),
                         Emit(wire, r, <<"tts.started", "barge_in.provisional">>)}
          BY <1>7, <2>3 DEF TtsStarted
        <4>3. /\ Emit(wire, r, <<"tts.started">>) \in Logs
              /\ Emit(wire, r, <<"tts.started", "barge_in.provisional">>) \in Logs
          BY <4>1, EmitType DEF TypeOK
        <4> QED BY <4>2, <4>3
      <3>4. provisional' \in ProvisionalRecord /\ provisionals' \in Nat
        <4>1. responses[r].epoch \in Nat /\ provisionals + 1 \in Nat
          BY <1>0 DEF TypeOK
        <4>2. CASE BeginProvisionalBargeIn(r)
          BY <4>1, <4>2 DEF BeginProvisionalBargeIn, NoProvisional, ProvisionalRecord
        <4>3. CASE UNCHANGED <<provisional, provisionals>>
          BY <4>3 DEF TypeOK
        <4> QED BY <1>7, <2>3, <4>2, <4>3 DEF TtsStarted
      <3>5. phase' \in Phases /\ UNCHANGED <<epoch, active>>
        BY <1>7, <2>3 DEF TtsStarted, BeginProvisionalBargeIn, Phases
      <3> QED BY <1>4, <2>1, <3>1, <3>2, <3>3, <3>4, <3>5 DEF SpeechUnchanged, TypeOK
    <2> QED BY <2>2, <2>3
  <1>8. CASE TtsEnded(r)
    <2>1. speech' \in [Responses -> StreamRecord]
      BY <1>1, <1>8 DEF TtsEnded, TypeOK
    <2>2. speech[r].samples \in Nat
      BY <1>0
    <2>3. /\ ledger' \in {ledger, [ledger EXCEPT ![r].generated = speech[r].samples]}
          /\ wire' \in {wire, Emit(wire, r, <<"tts.ended">>)}
      BY <1>8 DEF TtsEnded
    <2>4. ledger' \in [Responses -> LedgerRecord]
      BY <1>3, <2>2, <2>3 DEF TypeOK
    <2>5. <<"tts.ended">> \in Seq(Events)
      BY DEF Events
    <2>6. wire' \in Logs
      <3>1. wire \in Logs /\ Emit(wire, r, <<"tts.ended">>) \in Logs
        BY <2>5, EmitType DEF TypeOK
      <3> QED BY <2>3, <3>1
    <2> QED BY <1>4, <1>8, <2>1, <2>4, <2>6 DEF TtsEnded, SpeechUnchanged, TypeOK
  <1>9. CASE TtsFailed(r)
    <2> DEFINE failed == [speech EXCEPT ![r].stream = "failed"]
    <2>1. failed \in [Responses -> StreamRecord]
      BY <1>1 DEF TypeOK
    <2>2. /\ \/ FailResponse(r, failed)
             \/ /\ speech' = failed
                /\ UNCHANGED <<phase, epoch, active, provisional, responses, wire>>
          /\ UNCHANGED <<ledger, provisionals>>
      BY <1>9 DEF TtsFailed
    <2> HIDE DEF failed
    <2> QED BY <1>4, <2>1, <2>2, FailType DEF SpeechUnchanged, TypeOK
  <1> QED BY <1>5, <1>6, <1>7, <1>8, <1>9

(* A new orchestrator is well typed.                                        *)
LEMMA InitType == Init => TypeInv
  <1> SUFFICES ASSUME Init PROVE TypeInv
    OBVIOUS
  <1>1. /\ NoProvisional \in ProvisionalRecord
        /\ NoAcceptance \in AcceptanceRecord
        /\ ~(NoAcceptance.response # None \/ NoAcceptance.timer)
        /\ Unused \in ResponseRecord
        /\ NoLedger \in LedgerRecord
        /\ Silent \in StreamRecord
        /\ <<>> \in Seq(Events)
    BY DEF NoProvisional, ProvisionalRecord, NoAcceptance, AcceptanceRecord, Unused,
           ResponseRecord, NoLedger, LedgerRecord, Silent, StreamRecord, Phases
  <1> QED BY <1>1 DEF Init, TypeInv, TypeOK, Phases, Logs

(* A step that changes nothing keeps the type invariant.                    *)
LEMMA UnchangedType == TypeInv /\ UNCHANGED vars => TypeInv'
  BY DEF vars, TypeInv, TypeOK

(* Every behaviour keeps every field of the orchestrator well typed; in     *)
(* particular an accepted takeover always has a turn to answer.             *)
THEOREM TypeCorrect == Spec => []TypeOK
  <1>1. TypeInv /\ [Next]_vars => TypeInv'
    BY UnchangedType, CaptureType, FinalsType, TimersType, BrowserType, ControlType,
       ReasoningType, SpeechOutputType DEF Next
  <1>2. TypeInv => TypeOK
    BY DEF TypeInv
  <1> QED BY InitType, <1>1, <1>2, PTL DEF Spec

-----------------------------------------------------------------------------
(* Who owns a pause.  ProvisionalOwnsActive is not inductive: that no       *)
(* handler leaves a pause behind rests on what the active response, the     *)
(* phase and the accepted takeover are at the moment it runs.               *)

(* Without a pause nothing of it is left: no identity a late verdict could  *)
(* match, no timer, no turn to classify.                                    *)
NoPauseIsClean ==
    provisional.response = None =>
        provisional.id = 0 /\ ~provisional.timer /\ provisional.pendingTurn = None

(* The active response answers a turn in the current epoch, its playback is *)
(* not over, and only an accepted takeover keeps it once it is cancelled.   *)
ActiveIsCurrent ==
    active # None =>
        /\ responses[active].turn # None
        /\ responses[active].epoch = epoch
        /\ ~ledger[active].terminal
        /\ responses[active].cancelled => acceptance.response = active

(* An accepted takeover ended the pause it came from and aborted the active *)
(* response, if that one is still there.                                    *)
AcceptanceEndsPause ==
    /\ acceptance.response # None =>
         /\ provisional.response = None
         /\ active # None => active = acceptance.response /\ responses[active].cancelled
    /\ acceptance.response = None => ~acceptance.timer

PlayingIsAudible ==
    phase = "playing" =>
        /\ active # None
        /\ responses[active].playback
        /\ ~responses[active].cancelled
        /\ ledger[active].known

StoppedIsInactive == phase = "stopped" => active = None

UnusedIsUnplayed ==
    \A r \in Responses :
        responses[r].turn = None => ~ledger[r].known /\ ~ledger[r].terminal

PauseInv ==
    /\ TypeInv
    /\ ProvisionalOwnsActive
    /\ NoPauseIsClean
    /\ ActiveIsCurrent
    /\ AcceptanceEndsPause
    /\ PlayingIsAudible
    /\ StoppedIsInactive
    /\ UnusedIsUnplayed

(* cancelResponse changes nothing of a response but its abort signal.       *)
LEMMA CancelledFacts ==
    ASSUME TypeOK, NEW r \in Responses
    PROVE  /\ CancelledResponses[r].turn = responses[r].turn
           /\ CancelledResponses[r].epoch = responses[r].epoch
           /\ CancelledResponses[r].playback = responses[r].playback
           /\ CancelledResponses[r].cancelled = (responses[r].cancelled \/ r = active)
  <1>1. responses[r] \in ResponseRecord
    BY DEF TypeOK
  <1> QED BY <1>1 DEF CancelledResponses, ResponseRecord

(* The response that Answer starts is a fresh one.                          *)
LEMMA AnswerFacts ==
    ASSUME TypeOK, NEW t \in Turns, NEW e \in Nat, NEW w, Answer(t, e, w)
    PROVE  /\ active' \in Responses
           /\ responses[active'].turn = None
           /\ responses'[active'].turn = t
           /\ responses'[active'].epoch = e
           /\ ~responses'[active'].cancelled
           /\ \A s \in Responses \ {active'} : responses'[s].turn = responses[s].turn
           /\ epoch' = e
           /\ phase' = "reasoning"
  <1>1. PICK r \in Responses :
          /\ responses[r].turn = None
          /\ active' = r
          /\ epoch' = e
          /\ phase' = "reasoning"
          /\ responses' = [CancelledResponses EXCEPT
                             ![r] = [Unused EXCEPT !.turn = t, !.epoch = e]]
    BY Zenon DEF Answer
  <1>2. CancelledResponses \in [Responses -> ResponseRecord]
    BY CancelledType
  <1>3. responses'[r] = [Unused EXCEPT !.turn = t, !.epoch = e]
    BY <1>1, <1>2
  <1>4. \A s \in Responses \ {r} : responses'[s].turn = responses[s].turn
    BY <1>1, <1>2, CancelledFacts
  <1>5. /\ responses'[r].turn = t
        /\ responses'[r].epoch = e
        /\ ~responses'[r].cancelled
    BY <1>3 DEF Unused
  <1> QED BY <1>1, <1>4, <1>5

(* What an action leaves behind when it starts a response, gives up the     *)
(* active one, or touches neither: the invariant.                           *)
SamePlaybacks ==
    \A r \in Responses : /\ ledger'[r].known = ledger[r].known
                         /\ ledger'[r].terminal = ledger[r].terminal

SameResponses ==
    \A r \in Responses : /\ responses'[r].turn = responses[r].turn
                         /\ responses'[r].epoch = responses[r].epoch
                         /\ responses'[r].playback = responses[r].playback
                         /\ responses'[r].cancelled = responses[r].cancelled

(* A response started without a pause or a takeover keeps the invariant.    *)
LEMMA AnswerKeeps ==
    ASSUME PauseInv, TypeInv', NEW t \in Turns, NEW e \in Nat, NEW w, Answer(t, e, w),
           \A r \in Responses : responses[r].turn = None => UNCHANGED ledger[r],
           provisional'.response = None, NoPauseIsClean',
           acceptance'.response = None, ~acceptance'.timer
    PROVE  PauseInv'
  <1> USE ConstantsOK DEF PauseInv
  <1>1. TypeOK
    BY DEF TypeInv
  <1>2. ActiveIsCurrent'
    BY <1>1, AnswerFacts DEF ActiveIsCurrent, UnusedIsUnplayed
  <1>3. UnusedIsUnplayed'
    <2>1. t # None /\ active' \in Responses /\ responses'[active'].turn = t
      BY <1>1, AnswerFacts
    <2>2. \A s \in Responses \ {active'} : responses'[s].turn = responses[s].turn
      BY <1>1, AnswerFacts
    <2> QED BY <2>1, <2>2 DEF UnusedIsUnplayed
  <1>4. PlayingIsAudible' /\ StoppedIsInactive'
    BY <1>1, AnswerFacts DEF PlayingIsAudible, StoppedIsInactive
  <1>5. ProvisionalOwnsActive' /\ AcceptanceEndsPause'
    BY DEF ProvisionalOwnsActive, AcceptanceEndsPause
  <1> QED BY <1>2, <1>3, <1>4, <1>5

(* A handler that leaves no active response and no pause keeps it.          *)
LEMMA InactiveKeeps ==
    ASSUME TypeInv', UnusedIsUnplayed', active' = None, phase' # "playing",
           provisional'.response = None, NoPauseIsClean',
           acceptance'.response = None => ~acceptance'.timer
    PROVE  PauseInv'
  BY DEF PauseInv, ProvisionalOwnsActive, ActiveIsCurrent, AcceptanceEndsPause,
         PlayingIsAudible, StoppedIsInactive

(* A handler that touches no pause and no response's life keeps it.         *)
LEMMA FrameKeeps ==
    ASSUME PauseInv, TypeInv', UNCHANGED <<phase, epoch, active, provisional, acceptance>>,
           SameResponses, SamePlaybacks
    PROVE  PauseInv'
  <1>1. active \in Responses \cup {None}
    BY DEF PauseInv, TypeInv, TypeOK
  <1>2. UnusedIsUnplayed' /\ StoppedIsInactive' /\ NoPauseIsClean'
    BY DEF PauseInv, UnusedIsUnplayed, StoppedIsInactive, NoPauseIsClean,
           SameResponses, SamePlaybacks
  <1>3. ActiveIsCurrent' /\ PlayingIsAudible' /\ AcceptanceEndsPause'
    BY <1>1 DEF PauseInv, ActiveIsCurrent, PlayingIsAudible, AcceptanceEndsPause,
                SameResponses, SamePlaybacks
  <1>4. ProvisionalOwnsActive'
    <2>1. active # None => active \in Responses
      BY <1>1
    <2>2. provisional.response # None => active # None
      BY DEF PauseInv, ProvisionalOwnsActive
    <2> QED BY <2>1, <2>2 DEF PauseInv, ProvisionalOwnsActive, SameResponses, SamePlaybacks
  <1> QED BY <1>2, <1>3, <1>4 DEF PauseInv

(* advanceEpochAndCancel changes neither which responses were used nor      *)
(* their playbacks.                                                         *)
LEMMA AdvanceFacts ==
    ASSUME TypeOK, AdvanceEpochAndCancel
    PROVE  /\ active' = None
           /\ \A r \in Responses : responses'[r].turn = responses[r].turn
  BY CancelledFacts DEF AdvanceEpochAndCancel, CancelActive

(* resolveProvisional ends the pause: the response is audible again, or no  *)
(* response is active.                                                      *)
LEMMA ResolveKeeps ==
    ASSUME PauseInv, TypeInv', provisional.response # None, NEW p, NEW result, NEW before,
           p.response = provisional.response, ResolveProvisional(p, result, before),
           UNCHANGED acceptance, SamePlaybacks
    PROVE  PauseInv'
  <1>1. provisional'.response = None /\ NoPauseIsClean'
    BY DEF ResolveProvisional, NoProvisional, NoPauseIsClean
  <1>2. acceptance'.response = None /\ ~acceptance'.timer
    BY DEF PauseInv, ProvisionalOwnsActive, AcceptanceEndsPause
  <1>3. CASE SafeToResume(p, result)
    <2>1. phase' = "playing" /\ UNCHANGED <<epoch, active, responses>>
      BY <1>3 DEF ResolveProvisional
    <2>2. active \in Responses
      BY <1>3 DEF SafeToResume, PauseInv, TypeInv, TypeOK
    <2>3. /\ responses[active].playback
          /\ ~responses[active].cancelled
          /\ ledger[active].known
          /\ ~ledger[active].terminal
          /\ responses[active].epoch = epoch
      BY DEF PauseInv, ProvisionalOwnsActive
    <2>4. responses[active].turn # None
      BY <2>2, <1>3 DEF PauseInv, ActiveIsCurrent, SafeToResume
    <2>5. UnusedIsUnplayed'
      BY <2>1 DEF PauseInv, UnusedIsUnplayed, SamePlaybacks
    <2> QED BY <1>1, <1>2, <2>1, <2>2, <2>3, <2>4, <2>5
            DEF PauseInv, ProvisionalOwnsActive, ActiveIsCurrent, AcceptanceEndsPause,
                PlayingIsAudible, StoppedIsInactive, SamePlaybacks
  <1>4. CASE ~SafeToResume(p, result)
    <2>1. AdvanceEpochAndCancel /\ phase' = "listening"
      BY <1>4 DEF ResolveProvisional
    <2>2. UnusedIsUnplayed'
      BY <2>1, AdvanceFacts DEF PauseInv, TypeInv, UnusedIsUnplayed, SamePlaybacks
    <2>3. active' = None
      BY <2>1 DEF AdvanceEpochAndCancel
    <2> QED BY <1>1, <1>2, <2>1, <2>2, <2>3, InactiveKeeps
  <1> QED BY <1>3, <1>4

(* failResponse takes the pause of the active response with it.             *)
LEMMA FailKeeps ==
    ASSUME PauseInv, TypeInv', NEW r \in Responses, NEW sp, FailResponse(r, sp),
           UNCHANGED <<ledger, acceptance>>
    PROVE  PauseInv'
  <1>1. \A s \in Responses :
          /\ responses'[s].turn = responses[s].turn
          /\ s # r => responses'[s] = responses[s]
    <2>1. \A s \in Responses : responses[s] \in ResponseRecord
      BY DEF PauseInv, TypeInv, TypeOK
    <2> QED BY <2>1 DEF PauseInv, TypeInv, TypeOK, FailResponse, ResponseRecord
  <1>2. UnusedIsUnplayed'
    BY <1>1 DEF PauseInv, UnusedIsUnplayed
  <1>3. CASE active # r
    <2>1. UNCHANGED <<phase, epoch, active, provisional>>
      BY <1>3 DEF FailResponse
    <2>2. active # None => active \in Responses /\ responses'[active] = responses[active]
      BY <1>1, <1>3 DEF PauseInv, TypeInv, TypeOK
    <2>3. provisional.response # None => active # None
      BY ConstantsOK DEF PauseInv, ProvisionalOwnsActive, TypeInv, TypeOK
    <2>4. ActiveIsCurrent' /\ PlayingIsAudible' /\ AcceptanceEndsPause'
      BY <2>1, <2>2 DEF PauseInv, ActiveIsCurrent, PlayingIsAudible, AcceptanceEndsPause
    <2>5. ProvisionalOwnsActive'
      BY <2>1, <2>2, <2>3 DEF PauseInv, ProvisionalOwnsActive
    <2>6. StoppedIsInactive' /\ NoPauseIsClean'
      BY <2>1 DEF PauseInv, StoppedIsInactive, NoPauseIsClean
    <2> QED BY <1>2, <2>4, <2>5, <2>6 DEF PauseInv
  <1>4. CASE active = r
    <2>1. active' = None /\ phase' = "listening" /\ provisional' = WithoutPause(r)
      BY <1>4 DEF FailResponse
    <2>2. provisional.response # r => provisional.response = None
      BY <1>4 DEF PauseInv, ProvisionalOwnsActive
    <2>3. provisional'.response = None /\ NoPauseIsClean'
      BY <2>1, <2>2 DEF PauseInv, NoPauseIsClean, WithoutPause, NoProvisional
    <2>4. acceptance'.response = None => ~acceptance'.timer
      BY DEF PauseInv, AcceptanceEndsPause
    <2> QED BY <1>2, <2>1, <2>3, <2>4, InactiveKeeps
  <1> QED BY <1>3, <1>4

(* finalizeAcceptedTakeover leaves no pause, no takeover and no response    *)
(* but the one that answers it.                                             *)
LEMMA FinalizeKeeps ==
    ASSUME PauseInv, TypeInv', acceptance.response # None, FinalizeAcceptedTakeover,
           UNCHANGED provisional,
           \A r \in Responses : responses[r].turn = None => UNCHANGED ledger[r]
    PROVE  PauseInv'
  <1>1. provisional'.response = None /\ NoPauseIsClean'
    BY DEF PauseInv, AcceptanceEndsPause, NoPauseIsClean
  <1>2. acceptance'.response = None /\ ~acceptance'.timer
    BY DEF FinalizeAcceptedTakeover, NoAcceptance
  <1>3. CASE AdvanceEpochAndCancel /\ phase' = "listening"
    <2>1. active' = None
      BY <1>3 DEF AdvanceEpochAndCancel
    <2>2. UnusedIsUnplayed'
      BY <1>3, AdvanceFacts DEF PauseInv, TypeInv, UnusedIsUnplayed
    <2> QED BY <1>1, <1>2, <1>3, <2>1, <2>2, InactiveKeeps
  <1>4. ASSUME NEW w, Answer(acceptance.turn, epoch + 1, w) PROVE PauseInv'
    <2>1. acceptance.turn \in Turns /\ epoch + 1 \in Nat
      BY DEF PauseInv, TypeInv, TypeOK
    <2> QED BY <1>1, <1>2, <1>4, <2>1, AnswerKeeps
  <1> QED BY <1>3, <1>4 DEF FinalizeAcceptedTakeover

(* decideInterruption keeps the pause of the active response, or resolves it. *)
LEMMA DecideKeeps ==
    ASSUME PauseInv, TypeInv', NEW p \in ProvisionalRecord, NEW t,
           provisional.response # None,
           p.response = provisional.response, p.outputEpoch = provisional.outputEpoch,
           DecideInterruption(p, t), UNCHANGED acceptance, SamePlaybacks
    PROVE  PauseInv'
  <1>1. active = p.response /\ active \in Responses
    BY ConstantsOK DEF PauseInv, ProvisionalOwnsActive, TypeInv, TypeOK
  <1>2. CASE ResolveProvisional([p EXCEPT !.echoRecovered = TRUE],
                                "barge_in.rejected", <<"interruption.decision">>)
    <2>1. [p EXCEPT !.echoRecovered = TRUE].response = provisional.response
      BY DEF ProvisionalRecord
    <2> QED BY <1>2, <2>1, ResolveKeeps
  <1>3. CASE /\ phase' = "interruption_deciding"
             /\ UNCHANGED <<epoch, active, responses>>
             /\ provisional' \in {[p EXCEPT !.turn = t, !.pendingTurn = t],
                                  [p EXCEPT !.turn = t, !.pendingTurn = None,
                                            !.timer = FALSE]}
    <2>1. /\ provisional'.response = provisional.response
          /\ provisional'.outputEpoch = provisional.outputEpoch
      BY <1>3 DEF ProvisionalRecord
    <2>2. ProvisionalOwnsActive'
      BY <1>1, <1>3, <2>1 DEF PauseInv, ProvisionalOwnsActive, SamePlaybacks
    <2>3. NoPauseIsClean' /\ AcceptanceEndsPause' /\ PlayingIsAudible'
      BY <1>3, <2>1
         DEF PauseInv, NoPauseIsClean, AcceptanceEndsPause, PlayingIsAudible
    <2>4. ActiveIsCurrent' /\ StoppedIsInactive' /\ UnusedIsUnplayed'
      BY <1>1, <1>3 DEF PauseInv, ActiveIsCurrent, StoppedIsInactive, UnusedIsUnplayed,
                        SamePlaybacks
    <2> QED BY <2>2, <2>3, <2>4 DEF PauseInv
  <1> QED BY <1>1, <1>2, <1>3 DEF DecideInterruption

(* beginProvisionalBargeIn gives the pause to the active response.          *)
LEMMA BeginKeeps ==
    ASSUME PauseInv, TypeInv', active \in Responses, BeginProvisionalBargeIn(active),
           UNCHANGED <<epoch, active, acceptance>>,
           acceptance.response = None, ~responses'[active].cancelled,
           responses'[active].playback, ledger'[active].known, ~ledger'[active].terminal,
           \A r \in Responses : /\ responses'[r].turn = responses[r].turn
                                /\ responses'[r].epoch = responses[r].epoch,
           UnusedIsUnplayed'
    PROVE  PauseInv'
  <1>1. /\ provisional'.response = active
        /\ provisional'.outputEpoch = responses[active].epoch
        /\ phase' = "echo_provisional"
    BY DEF BeginProvisionalBargeIn, NoProvisional
  <1>2. /\ responses[active].epoch = epoch
        /\ responses[active].turn # None
    BY ConstantsOK DEF PauseInv, ActiveIsCurrent
  <1>3. active # None
    BY ConstantsOK
  <1>4. ProvisionalOwnsActive'
    BY <1>1, <1>2 DEF ProvisionalOwnsActive
  <1>5. NoPauseIsClean' /\ PlayingIsAudible' /\ StoppedIsInactive'
    BY <1>1, <1>3 DEF NoPauseIsClean, PlayingIsAudible, StoppedIsInactive
  <1>6. ActiveIsCurrent' /\ AcceptanceEndsPause'
    BY <1>2 DEF PauseInv, ActiveIsCurrent, AcceptanceEndsPause
  <1> QED BY <1>4, <1>5, <1>6 DEF PauseInv

(* The groups of actions.                                                   *)
LEMMA CapturePause == PauseInv /\ Capture => PauseInv'
  <1> SUFFICES ASSUME PauseInv, Capture PROVE PauseInv'
    OBVIOUS
  <1>1. TypeInv'
    BY CaptureType DEF PauseInv
  <1>2. TypeOK
    BY DEF PauseInv, TypeInv
  <1>3. ASSUME NEW t \in Turns, HandleSpeechStart(t) PROVE PauseInv'
    <2>1. UNCHANGED ledger
      BY <1>3 DEF HandleSpeechStart
    <2>2. CASE acceptance.response # None
      <3>1. /\ AdvanceEpochAndCancel
            /\ phase' = "listening"
            /\ acceptance' = NoAcceptance
            /\ UNCHANGED provisional
        BY <1>3, <2>2 DEF HandleSpeechStart
      <3>2. UnusedIsUnplayed' /\ active' = None
        BY <1>2, <2>1, <3>1, AdvanceFacts DEF PauseInv, UnusedIsUnplayed
      <3>3. provisional'.response = None /\ NoPauseIsClean'
        BY <2>2, <3>1 DEF PauseInv, AcceptanceEndsPause, NoPauseIsClean
      <3>4. ~acceptance'.timer
        BY <3>1 DEF NoAcceptance
      <3> QED BY <1>1, <3>1, <3>2, <3>3, <3>4, InactiveKeeps
    <2>3. CASE /\ acceptance.response = None
               /\ active # None /\ provisional.response = active
      <3>1. /\ provisional' = [provisional EXCEPT !.timer = FALSE, !.turn = None,
                                                  !.pendingTurn = None]
            /\ phase' = "echo_provisional"
            /\ UNCHANGED <<epoch, active, acceptance, responses>>
        BY <1>3, <2>3 DEF HandleSpeechStart
      <3>2. /\ provisional'.response = provisional.response
            /\ provisional'.outputEpoch = provisional.outputEpoch
        BY <1>2, <3>1 DEF TypeOK, ProvisionalRecord
      <3> QED BY <1>1, <2>1, <2>3, <3>1, <3>2
              DEF PauseInv, ProvisionalOwnsActive, NoPauseIsClean, ActiveIsCurrent,
                  AcceptanceEndsPause, PlayingIsAudible, StoppedIsInactive, UnusedIsUnplayed
    <2>4. CASE /\ acceptance.response = None
               /\ active # None /\ provisional.response = None /\ phase = "playing"
      <3>1. /\ BeginProvisionalBargeIn(active)
            /\ responses' = [responses EXCEPT ![active].phaseBefore = "playing"]
            /\ UNCHANGED <<epoch, active, acceptance>>
        BY <1>3, <2>4 DEF HandleSpeechStart
      <3>2. active \in Responses
        BY <1>2, <2>4 DEF TypeOK
      <3>3. SameResponses
        <4>1. \A r \in Responses : responses[r] \in ResponseRecord
          BY <1>2 DEF TypeOK
        <4> QED BY <1>2, <3>1, <4>1 DEF SameResponses, TypeOK, ResponseRecord
      <3>4. /\ ~responses[active].cancelled
            /\ responses[active].playback
            /\ ledger[active].known
            /\ ~ledger[active].terminal
        BY <2>4 DEF PauseInv, PlayingIsAudible, ActiveIsCurrent
      <3>5. UnusedIsUnplayed'
        BY <2>1, <3>3 DEF PauseInv, UnusedIsUnplayed, SameResponses
      <3> QED BY <1>1, <2>1, <2>4, <3>1, <3>2, <3>3, <3>4, <3>5, BeginKeeps
              DEF SameResponses
    <2>5. CASE /\ acceptance.response = None
               /\ \/ active = None
                  \/ /\ provisional.response # active
                     /\ phase # "playing" \/ provisional.response # None
      <3>1. UNCHANGED <<phase, epoch, active, provisional, acceptance, responses>>
        BY <1>3, <2>5 DEF HandleSpeechStart
      <3> QED BY <1>1, <2>1, <3>1, FrameKeeps DEF SameResponses, SamePlaybacks
    <2> QED BY <2>2, <2>3, <2>4, <2>5
  <1>4. ASSUME NEW t \in Turns, HandleSpeechEnd(t) PROVE PauseInv'
    <2>1. UNCHANGED <<epoch, active, acceptance, responses, ledger>>
      BY <1>4 DEF HandleSpeechEnd
    <2>2. CASE provisional.response # None
      <3>1. UNCHANGED phase /\ provisional' = [provisional EXCEPT !.timer = TRUE]
        BY <1>4, <2>2 DEF HandleSpeechEnd, ScheduleProvisionalTimeout
      <3>2. /\ provisional'.response = provisional.response
            /\ provisional'.outputEpoch = provisional.outputEpoch
        BY <1>2, <3>1 DEF TypeOK, ProvisionalRecord
      <3> QED BY <1>1, <2>1, <2>2, <3>1, <3>2
              DEF PauseInv, ProvisionalOwnsActive, NoPauseIsClean, ActiveIsCurrent,
                  AcceptanceEndsPause, PlayingIsAudible, StoppedIsInactive, UnusedIsUnplayed
    <2>3. CASE provisional.response = None
      <3>1. UNCHANGED provisional /\ phase' \in {phase, "deciding"} /\ phase # "stopped"
        BY <1>4, <2>3 DEF HandleSpeechEnd
      <3> QED BY <1>1, <2>1, <2>3, <3>1
              DEF PauseInv, ProvisionalOwnsActive, NoPauseIsClean, ActiveIsCurrent,
                  AcceptanceEndsPause, PlayingIsAudible, StoppedIsInactive, UnusedIsUnplayed
    <2> QED BY <2>2, <2>3
  <1> QED BY <1>3, <1>4 DEF Capture

(* A stable final, or its verdict, leaves no pause without its response.    *)
LEMMA FinalsPause == PauseInv /\ Finals => PauseInv'
  <1> SUFFICES ASSUME PauseInv, Finals PROVE PauseInv'
    OBVIOUS
  <1>1. TypeInv'
    BY FinalsType DEF PauseInv
  <1>2. TypeOK /\ provisional \in ProvisionalRecord
    BY DEF PauseInv, TypeInv, TypeOK
  <1>3. ASSUME NEW t \in Turns, HandleStableFinal(t) PROVE PauseInv'
    <2>1. UNCHANGED <<acceptance, ledger>>
      BY <1>3 DEF HandleStableFinal
    <2>2. \/ UNCHANGED <<phase, epoch, active, provisional, responses>>
          \/ provisional.response # None /\ DecideInterruption(provisional, t)
          \/ /\ acceptance.response = None
             /\ provisional.response = None
             /\ RunPolicy(t)
             /\ UNCHANGED provisional
      BY <1>3 DEF HandleStableFinal
    <2>3. CASE UNCHANGED <<phase, epoch, active, provisional, responses>>
      BY <1>1, <2>1, <2>3, FrameKeeps DEF SameResponses, SamePlaybacks
    <2>4. CASE provisional.response # None /\ DecideInterruption(provisional, t)
      BY <1>1, <1>2, <2>1, <2>4, DecideKeeps DEF SamePlaybacks
    <2>5. CASE /\ acceptance.response = None
               /\ provisional.response = None
               /\ RunPolicy(t)
               /\ UNCHANGED provisional
      <3>1. NoPauseIsClean' /\ acceptance'.response = None /\ ~acceptance'.timer
        BY <2>1, <2>5 DEF PauseInv, NoPauseIsClean, AcceptanceEndsPause
      <3>2. CASE /\ phase' = IF active = None THEN "listening" ELSE phase
                 /\ UNCHANGED <<epoch, active, responses>>
        BY <1>1, <2>1, <2>5, <3>2
           DEF PauseInv, ProvisionalOwnsActive, NoPauseIsClean, ActiveIsCurrent,
               AcceptanceEndsPause, PlayingIsAudible, StoppedIsInactive, UnusedIsUnplayed
      <3>3. CASE Answer(t, IF active = None THEN epoch ELSE epoch + 1,
                        CancelledWire(wire))
        <4>1. (IF active = None THEN epoch ELSE epoch + 1) \in Nat
          BY <1>2 DEF TypeOK
        <4> QED BY <1>1, <2>1, <2>5, <3>1, <3>3, <4>1, AnswerKeeps
      <3> QED BY <2>5, <3>2, <3>3 DEF RunPolicy
    <2> QED BY <2>2, <2>3, <2>4, <2>5
  <1>4. ASSUME NEW t \in Turns, FinishDecision(t) PROVE PauseInv'
    <2>1. UNCHANGED ledger
      BY <1>4 DEF FinishDecision
    <2>2. CASE UNCHANGED <<phase, epoch, active, provisional, acceptance, responses>>
      BY <1>1, <2>1, <2>2, FrameKeeps DEF SameResponses, SamePlaybacks
    <2>3. CASE ~Stale(t)
      <3>1. provisional.response # None
        BY <1>4, <2>3 DEF FinishDecision, Stale, PauseInv, NoPauseIsClean
      <3>2. active = provisional.response /\ active \in Responses
        BY <1>2, <3>1 DEF PauseInv, ProvisionalOwnsActive, TypeOK
      <3>3. CASE /\ ResolveProvisional([provisional EXCEPT !.echoRecovered = TRUE],
                                       "barge_in.rejected", <<"interruption.decision">>)
                 /\ UNCHANGED acceptance
        <4>1. [provisional EXCEPT !.echoRecovered = TRUE].response = provisional.response
          BY <1>2 DEF ProvisionalRecord
        <4> QED BY <1>1, <2>1, <3>1, <3>3, <4>1, ResolveKeeps DEF SamePlaybacks
      <3>4. CASE AcceptTakeover(t)
        <4>1. /\ provisional' = NoProvisional
              /\ acceptance'.response = active
              /\ responses' = CancelledResponses
              /\ phase' = "acceptance_pending_terminal"
              /\ UNCHANGED <<epoch, active>>
          BY <3>2, <3>4 DEF AcceptTakeover, CancelActive
        <4>2. /\ responses'[active].cancelled
              /\ \A r \in Responses : /\ responses'[r].turn = responses[r].turn
                                      /\ responses'[r].epoch = responses[r].epoch
          BY <1>2, <3>2, <4>1, CancelledFacts
        <4>3. provisional'.response = None /\ NoPauseIsClean'
          BY <4>1 DEF NoProvisional, NoPauseIsClean
        <4>4. acceptance'.response # None
          BY <3>1, <3>2, <4>1
        <4>5. UnusedIsUnplayed'
          BY <2>1, <4>2 DEF PauseInv, UnusedIsUnplayed
        <4> QED BY <1>1, <2>1, <3>2, <4>1, <4>2, <4>3, <4>4, <4>5
                DEF PauseInv, ProvisionalOwnsActive, ActiveIsCurrent, AcceptanceEndsPause,
                    PlayingIsAudible, StoppedIsInactive
      <3> QED BY <1>4, <2>3, <3>2, <3>3, <3>4 DEF FinishDecision
    <2> QED BY <1>4, <2>2, <2>3 DEF FinishDecision
  <1> QED BY <1>3, <1>4 DEF Finals

(* Nor does a timer.                                                        *)
LEMMA TimersPause == PauseInv /\ Timers => PauseInv'
  <1> SUFFICES ASSUME PauseInv, Timers PROVE PauseInv'
    OBVIOUS
  <1>1. TypeInv'
    BY TimersType DEF PauseInv
  <1>2. CASE AcceptanceTimeout
    <2>1. UNCHANGED <<provisional, ledger>>
      BY <1>2 DEF AcceptanceTimeout
    <2>2. acceptance.response # None
      BY <1>2 DEF AcceptanceTimeout, PauseInv, AcceptanceEndsPause
    <2>3. CASE FinalizeAcceptedTakeover
      BY <1>1, <2>1, <2>2, <2>3, FinalizeKeeps
    <2>4. CASE /\ acceptance' = [acceptance EXCEPT !.timer = FALSE]
               /\ UNCHANGED <<phase, epoch, active, responses>>
      <3>1. acceptance'.response = acceptance.response
        BY <2>4 DEF PauseInv, TypeInv, TypeOK, AcceptanceRecord
      <3> QED BY <1>1, <2>1, <2>2, <2>4, <3>1
              DEF PauseInv, ProvisionalOwnsActive, NoPauseIsClean, ActiveIsCurrent,
                  AcceptanceEndsPause, PlayingIsAudible, StoppedIsInactive, UnusedIsUnplayed
    <2> QED BY <1>2, <2>3, <2>4 DEF AcceptanceTimeout
  <1>3. CASE ProvisionalTimeout
    <2>1. UNCHANGED <<acceptance, ledger>>
      BY <1>3 DEF ProvisionalTimeout
    <2>2. provisional.response # None
      BY <1>3 DEF ProvisionalTimeout, PauseInv, NoPauseIsClean
    <2>3. CASE /\ provisional' = [provisional EXCEPT !.timer = FALSE]
               /\ UNCHANGED <<phase, epoch, active, responses>>
      <3>1. /\ provisional'.response = provisional.response
            /\ provisional'.outputEpoch = provisional.outputEpoch
        BY <2>3 DEF PauseInv, TypeInv, TypeOK, ProvisionalRecord
      <3> QED BY <1>1, <2>1, <2>2, <2>3, <3>1
              DEF PauseInv, ProvisionalOwnsActive, NoPauseIsClean, ActiveIsCurrent,
                  AcceptanceEndsPause, PlayingIsAudible, StoppedIsInactive, UnusedIsUnplayed
    <2>4. CASE ResolveProvisional(provisional, "barge_in.timed_out", <<>>)
      BY <1>1, <2>1, <2>2, <2>4, ResolveKeeps DEF SamePlaybacks
    <2> QED BY <1>3, <2>3, <2>4 DEF ProvisionalTimeout
  <1> QED BY <1>2, <1>3 DEF Timers

(* Nor does a playback report: a terminal receipt ends the pause as well.   *)
LEMMA BrowserPause == PauseInv /\ Browser => PauseInv'
  <1> SUFFICES ASSUME PauseInv, Browser PROVE PauseInv'
    OBVIOUS
  <1>1. TypeInv'
    BY BrowserType DEF PauseInv
  <1>2. TypeOK /\ provisional \in ProvisionalRecord
    BY DEF PauseInv, TypeInv, TypeOK
  <1>3. \A r \in Responses : ledger[r] \in LedgerRecord
    BY <1>2 DEF TypeOK
  <1>4. ASSUME NEW r \in Responses, NEW offset, ledger' = [ledger EXCEPT ![r].delivered = offset]
        PROVE  SamePlaybacks
    BY <1>2, <1>3, <1>4 DEF SamePlaybacks, TypeOK, LedgerRecord
  <1>5. ASSUME NEW r \in Responses, NEW offset, NEW generated,
               PlaybackPaused(r, offset, generated)
        PROVE  PauseInv'
    <2>1. UNCHANGED acceptance /\ SamePlaybacks
      BY <1>4, <1>5 DEF PlaybackPaused
    <2>2. provisional.response # None
      BY <1>5, ConstantsOK DEF PlaybackPaused
    <2>3. CASE /\ provisional' = [provisional EXCEPT !.checkpoint = TRUE]
               /\ UNCHANGED <<phase, epoch, active, responses>>
      <3>1. /\ provisional'.response = provisional.response
            /\ provisional'.outputEpoch = provisional.outputEpoch
        BY <1>2, <2>3 DEF ProvisionalRecord
      <3>2. active \in Responses /\ active = provisional.response
        BY <2>2, <1>2 DEF PauseInv, ProvisionalOwnsActive, TypeOK
      <3>3. ProvisionalOwnsActive'
        BY <2>1, <2>3, <3>1, <3>2 DEF PauseInv, ProvisionalOwnsActive, SamePlaybacks
      <3> QED BY <1>1, <2>1, <2>2, <2>3, <3>1, <3>2, <3>3
              DEF PauseInv, NoPauseIsClean, ActiveIsCurrent, AcceptanceEndsPause,
                  PlayingIsAudible, StoppedIsInactive, UnusedIsUnplayed, SamePlaybacks
    <2>4. ASSUME DecideInterruption([[provisional EXCEPT !.checkpoint = TRUE]
                                       EXCEPT !.pendingTurn = None],
                                    provisional.pendingTurn)
          PROVE  PauseInv'
      <3> DEFINE p == [[provisional EXCEPT !.checkpoint = TRUE] EXCEPT !.pendingTurn = None]
      <3>1. /\ p \in ProvisionalRecord
            /\ p.response = provisional.response
            /\ p.outputEpoch = provisional.outputEpoch
        BY <1>2 DEF ProvisionalRecord
      <3>2. DecideInterruption(p, provisional.pendingTurn)
        BY <2>4
      <3> HIDE DEF p
      <3> QED BY <1>1, <2>1, <2>2, <3>1, <3>2, DecideKeeps
    <2> QED BY <1>5, <2>3, <2>4 DEF PlaybackPaused
  <1>6. ASSUME NEW r \in Responses, NEW offset, NEW generated,
               PlaybackProgress(r, offset, generated)
        PROVE  PauseInv'
    <2>1. UNCHANGED <<phase, epoch, active, provisional, acceptance, responses>>
          /\ SamePlaybacks
      BY <1>4, <1>6 DEF PlaybackProgress
    <2> QED BY <1>1, <2>1, FrameKeeps DEF SameResponses
  <1>7. ASSUME NEW r \in Responses, NEW offset, NEW completed,
               PlaybackStopped(r, offset, completed)
        PROVE  PauseInv'
    <2>1. /\ ledger[r].known
          /\ ledger' = [ledger EXCEPT ![r].terminal = TRUE,
                                      ![r].delivered = IF offset > @ THEN offset ELSE @]
          /\ UNCHANGED <<seenTurns, provisionals>>
      BY <1>7 DEF PlaybackStopped
    <2>2. /\ \A s \in Responses : ledger'[s].known = ledger[s].known
          /\ \A s \in Responses \ {r} : ledger'[s] = ledger[s]
      BY <1>2, <1>3, <2>1 DEF TypeOK, LedgerRecord
    <2>3. responses[r].turn # None
      BY <2>1 DEF PauseInv, UnusedIsUnplayed
    <2>4. CASE /\ acceptance.response = r /\ active = r
               /\ FinalizeAcceptedTakeover
               /\ UNCHANGED provisional
      BY <1>1, <2>2, <2>3, <2>4, FinalizeKeeps, ConstantsOK
    <2>5. CASE /\ responses[r].epoch = epoch /\ active = r
               /\ provisional' = WithoutPause(r)
               /\ active' = None
               /\ phase' = "listening"
               /\ UNCHANGED <<epoch, acceptance, responses>>
      <3>1. provisional.response # r => provisional.response = None
        BY <2>5 DEF PauseInv, ProvisionalOwnsActive
      <3>2. provisional'.response = None /\ NoPauseIsClean'
        BY <2>5, <3>1 DEF PauseInv, NoPauseIsClean, WithoutPause, NoProvisional
      <3>3. UnusedIsUnplayed'
        BY <2>2, <2>3, <2>5 DEF PauseInv, UnusedIsUnplayed
      <3>4. acceptance'.response = None => ~acceptance'.timer
        BY <2>5 DEF PauseInv, AcceptanceEndsPause
      <3> QED BY <1>1, <2>5, <3>2, <3>3, <3>4, InactiveKeeps
    <2>6. CASE /\ ~(responses[r].epoch = epoch /\ active = r /\ phase # "stopped")
               /\ UNCHANGED <<phase, epoch, active, provisional, acceptance, responses>>
      <3>1. active # r
        BY <2>6, ConstantsOK DEF PauseInv, ActiveIsCurrent, StoppedIsInactive
      <3>2. active # None => active \in Responses \ {r}
        BY <1>2, <3>1 DEF TypeOK
      <3>3. UnusedIsUnplayed'
        BY <2>2, <2>3, <2>6 DEF PauseInv, UnusedIsUnplayed
      <3>4. provisional.response # None => active # None
        BY <1>2, ConstantsOK DEF PauseInv, ProvisionalOwnsActive, TypeOK
      <3>5. ProvisionalOwnsActive'
        BY <2>2, <2>6, <3>2, <3>4 DEF PauseInv, ProvisionalOwnsActive
      <3> QED BY <1>1, <2>2, <2>6, <3>2, <3>3, <3>5
              DEF PauseInv, NoPauseIsClean, ActiveIsCurrent, AcceptanceEndsPause,
                  PlayingIsAudible, StoppedIsInactive
    <2> QED BY <1>7, <2>4, <2>5, <2>6 DEF PlaybackStopped
  <1> QED BY <1>5, <1>6, <1>7 DEF Browser

(* Nor does a command.                                                      *)
LEMMA ControlPause == PauseInv /\ Control => PauseInv'
  <1> SUFFICES ASSUME PauseInv, Control PROVE PauseInv'
    OBVIOUS
  <1>1. TypeInv'
    BY ControlType DEF PauseInv
  <1>2. TypeOK /\ provisional \in ProvisionalRecord
    BY DEF PauseInv, TypeInv, TypeOK
  <1>3. NoProvisional.response = None /\ NoAcceptance.response = None /\ ~NoAcceptance.timer
    BY DEF NoProvisional, NoAcceptance
  <1>4. provisional' = NoProvisional => NoPauseIsClean'
    BY DEF NoProvisional, NoPauseIsClean
  <1>5. CASE Start
    BY <1>1, <1>5
       DEF Start, PauseInv, ProvisionalOwnsActive, NoPauseIsClean, ActiveIsCurrent,
           AcceptanceEndsPause, PlayingIsAudible, StoppedIsInactive, UnusedIsUnplayed
  <1>6. CASE ConfirmBargeIn
    <2>1. /\ provisional' = NoProvisional
          /\ UNCHANGED <<ledger, acceptance>>
          /\ AdvanceEpochAndCancel
          /\ phase' = "listening"
      BY <1>6 DEF ConfirmBargeIn
    <2>2. UnusedIsUnplayed' /\ active' = None
      BY <1>2, <2>1, AdvanceFacts DEF PauseInv, UnusedIsUnplayed
    <2>3. acceptance'.response = None => ~acceptance'.timer
      BY <2>1 DEF PauseInv, AcceptanceEndsPause
    <2> QED BY <1>1, <1>3, <1>4, <2>1, <2>2, <2>3, InactiveKeeps
  <1>7. CASE RejectBargeIn
    <2>1. /\ ResolveProvisional([provisional EXCEPT !.echoRecovered = TRUE],
                                "barge_in.rejected", <<>>)
          /\ provisional.response # None
          /\ UNCHANGED <<ledger, acceptance>>
      BY <1>7 DEF RejectBargeIn
    <2>2. [provisional EXCEPT !.echoRecovered = TRUE].response = provisional.response
      BY <1>2 DEF ProvisionalRecord
    <2> QED BY <1>1, <2>1, <2>2, ResolveKeeps DEF SamePlaybacks
  <1>8. CASE CancelCurrentTurn
    <2>1. /\ provisional' = NoProvisional
          /\ acceptance' = NoAcceptance
          /\ UNCHANGED ledger
          /\ phase' = "listening"
          /\ \/ AdvanceEpochAndCancel
             \/ active = None /\ UNCHANGED <<active, responses>>
      BY <1>8 DEF CancelCurrentTurn
    <2>2. UnusedIsUnplayed' /\ active' = None
      BY <1>2, <2>1, AdvanceFacts DEF PauseInv, UnusedIsUnplayed
    <2> QED BY <1>1, <1>3, <1>4, <2>1, <2>2, InactiveKeeps
  <1>9. CASE Stop
    <2>1. /\ provisional' = NoProvisional
          /\ acceptance' = NoAcceptance
          /\ UNCHANGED ledger
          /\ phase' = "stopped"
          /\ AdvanceEpochAndCancel
      BY <1>9 DEF Stop
    <2>2. UnusedIsUnplayed' /\ active' = None
      BY <1>2, <2>1, AdvanceFacts DEF PauseInv, UnusedIsUnplayed
    <2> QED BY <1>1, <1>3, <1>4, <2>1, <2>2, InactiveKeeps
  <1> QED BY <1>5, <1>6, <1>7, <1>8, <1>9 DEF Control

(* Nor does the reasoning loop, which may fail a response under a pause.    *)
LEMMA ReasoningPause == PauseInv /\ Reasoning => PauseInv'
  <1> SUFFICES ASSUME PauseInv, NEW r \in Responses,
                      \/ PiStaleItem(r) \/ PiDelta(r) \/ PiFinal(r)
                      \/ PiError(r) \/ PiEnd(r)
               PROVE  PauseInv'
    BY DEF Reasoning
  <1>1. TypeInv'
    BY ReasoningType DEF PauseInv, Reasoning
  <1>2. UNCHANGED <<acceptance, ledger>>
    BY DEF PiStaleItem, PiDelta, PiFinal, PiError, PiEnd, PiUnchanged
  <1>3. CASE FailResponse(r, speech)
    BY <1>1, <1>2, <1>3, FailKeeps
  <1>4. CASE UNCHANGED <<phase, epoch, active, provisional, responses>>
    BY <1>1, <1>2, <1>4, FrameKeeps DEF SameResponses, SamePlaybacks
  <1>5. CASE FinishReasoning(r)
    <2>1. \A s \in Responses : responses[s] \in ResponseRecord
      BY DEF PauseInv, TypeInv, TypeOK
    <2>2. SameResponses
      BY <1>5, <2>1 DEF FinishReasoning, SameResponses, PauseInv, TypeInv, TypeOK,
                        ResponseRecord
    <2> QED BY <1>1, <1>2, <1>5, <2>2, FrameKeeps DEF FinishReasoning, SamePlaybacks
  <1> QED BY <1>3, <1>4, <1>5
          DEF PiStaleItem, PiDelta, PiFinal, PiError, PiEnd, LongEnd, ConciseEnd

(* Nor does the speech stream, which makes a response audible or fails it.  *)
LEMMA SpeechOutputPause == PauseInv /\ SpeechOutput => PauseInv'
  <1> SUFFICES ASSUME PauseInv, NEW r \in Responses,
                      \/ SidecarStarted(r) \/ GeneratedSamples(r) \/ TtsStarted(r)
                      \/ TtsEnded(r) \/ TtsFailed(r)
               PROVE  PauseInv'
    BY DEF SpeechOutput
  <1>1. TypeInv'
    BY SpeechOutputType DEF PauseInv, SpeechOutput
  <1>2. /\ TypeOK
        /\ \A s \in Responses : responses[s] \in ResponseRecord /\ ledger[s] \in LedgerRecord
    BY DEF PauseInv, TypeInv, TypeOK
  <1>3. UNCHANGED acceptance
    BY DEF SidecarStarted, GeneratedSamples, TtsStarted, TtsEnded, TtsFailed, SpeechUnchanged
  <1>4. CASE SidecarStarted(r)
    BY <1>1, <1>3, <1>4, FrameKeeps DEF SidecarStarted, SameResponses, SamePlaybacks
  <1>5. CASE GeneratedSamples(r)
    <2> DEFINE total == speech[r].samples + 1
    <2>1. /\ responses' = [responses EXCEPT ![r].generated = total]
          /\ ledger' \in {ledger, [ledger EXCEPT ![r].generated = total]}
          /\ UNCHANGED <<phase, epoch, active, provisional>>
      BY <1>5 DEF GeneratedSamples
    <2> HIDE DEF total
    <2>2. SameResponses
      BY <1>2, <2>1 DEF SameResponses, TypeOK, ResponseRecord
    <2>3. SamePlaybacks
      BY <1>2, <2>1 DEF SamePlaybacks, TypeOK, LedgerRecord
    <2> QED BY <1>1, <1>3, <2>1, <2>2, <2>3, FrameKeeps
  <1>6. CASE TtsStarted(r)
    <2>1. CASE ~IsCurrent(r)
      BY <1>1, <1>3, <1>6, <2>1, FrameKeeps DEF TtsStarted, SameResponses, SamePlaybacks
    <2>2. CASE IsCurrent(r)
      <3>1. /\ active = r /\ phase # "stopped"
            /\ responses[r].epoch = epoch /\ ~responses[r].cancelled
        BY <2>2 DEF IsCurrent
      <3>2. r # None
        BY ConstantsOK
      <3>3. ledger' = [ledger EXCEPT ![r] = [NoLedger EXCEPT !.known = TRUE,
                                               !.generated = responses[r].generated]]
        BY <1>6, <2>2 DEF TtsStarted
      <3>4. ledger'[r].known /\ ~ledger'[r].terminal
        BY <1>2, <3>3 DEF TypeOK, NoLedger
      <3>5. \A s \in Responses \ {r} : ledger'[s] = ledger[s]
        BY <1>2, <3>3 DEF TypeOK
      <3>6. \/ responses' = [responses EXCEPT ![r].playback = TRUE]
            \/ responses' = [responses EXCEPT ![r].playback = TRUE,
                                              ![r].phaseBefore = "playing"]
        BY <1>6, <2>2 DEF TtsStarted
      <3>7. /\ responses'[r].playback
            /\ \A s \in Responses : /\ responses'[s].turn = responses[s].turn
                                    /\ responses'[s].epoch = responses[s].epoch
                                    /\ responses'[s].cancelled = responses[s].cancelled
        <4>1. \A s \in Responses \ {r} : responses'[s] = responses[s]
          BY <1>2, <3>6 DEF TypeOK
        <4>2. \/ responses'[r] = [responses[r] EXCEPT !.playback = TRUE]
              \/ responses'[r] = [responses[r] EXCEPT !.playback = TRUE,
                                                      !.phaseBefore = "playing"]
          BY <1>2, <3>6 DEF TypeOK
        <4>3. responses[r] \in ResponseRecord
          BY <1>2
        <4>4. /\ responses'[r].playback
              /\ responses'[r].turn = responses[r].turn
              /\ responses'[r].epoch = responses[r].epoch
              /\ responses'[r].cancelled = responses[r].cancelled
          BY <4>2, <4>3 DEF ResponseRecord
        <4> QED BY <4>1, <4>4
      <3>8. responses[r].turn # None /\ acceptance.response = None
        BY <3>1, <3>2 DEF PauseInv, ActiveIsCurrent, AcceptanceEndsPause
      <3>9. UnusedIsUnplayed'
        BY <3>5, <3>7, <3>8 DEF PauseInv, UnusedIsUnplayed
      <3>10. UNCHANGED <<epoch, active>>
        BY <1>6, <2>2 DEF TtsStarted
      <3>11. CASE provisional.response = r
        <4>1. phase' = "echo_provisional" /\ UNCHANGED provisional
          BY <1>6, <2>2, <3>11 DEF TtsStarted
        <4> QED BY <1>1, <1>3, <3>1, <3>2, <3>4, <3>7, <3>8, <3>9, <3>10, <3>11, <4>1
                DEF PauseInv, ProvisionalOwnsActive, NoPauseIsClean, ActiveIsCurrent,
                    AcceptanceEndsPause, PlayingIsAudible, StoppedIsInactive
      <3>12. CASE provisional.response # r
        <4>1. provisional.response = None
          BY <3>1, <3>12 DEF PauseInv, ProvisionalOwnsActive
        <4>2. CASE BeginProvisionalBargeIn(r)
          BY <1>1, <1>3, <3>1, <3>4, <3>7, <3>8, <3>9, <3>10, <4>2, BeginKeeps
        <4>3. CASE phase' = "playing" /\ UNCHANGED provisional
          BY <1>1, <1>3, <3>1, <3>2, <3>4, <3>7, <3>8, <3>9, <3>10, <4>1, <4>3
             DEF PauseInv, ProvisionalOwnsActive, NoPauseIsClean, ActiveIsCurrent,
                 AcceptanceEndsPause, PlayingIsAudible, StoppedIsInactive
        <4> QED BY <1>6, <2>2, <3>12, <4>2, <4>3 DEF TtsStarted
      <3> QED BY <3>11, <3>12
    <2> QED BY <2>1, <2>2
  <1>7. CASE TtsEnded(r)
    <2>1. /\ ledger' \in {ledger, [ledger EXCEPT ![r].generated = speech[r].samples]}
          /\ UNCHANGED <<phase, epoch, active, provisional, responses>>
      BY <1>7 DEF TtsEnded
    <2>2. SamePlaybacks
      BY <1>2, <2>1 DEF SamePlaybacks, TypeOK, LedgerRecord
    <2> QED BY <1>1, <1>3, <2>1, <2>2, FrameKeeps DEF SameResponses
  <1>8. CASE TtsFailed(r)
    <2>1. UNCHANGED ledger
      BY <1>8 DEF TtsFailed
    <2>2. CASE FailResponse(r, [speech EXCEPT ![r].stream = "failed"])
      BY <1>1, <1>3, <2>1, <2>2, FailKeeps
    <2>3. CASE UNCHANGED <<phase, epoch, active, provisional, responses>>
      BY <1>1, <1>3, <2>1, <2>3, FrameKeeps DEF SameResponses, SamePlaybacks
    <2> QED BY <1>8, <2>2, <2>3 DEF TtsFailed
  <1> QED BY <1>4, <1>5, <1>6, <1>7, <1>8

LEMMA PauseInvariant == Spec => []PauseInv
  <1>1. Init => PauseInv
    <2> SUFFICES ASSUME Init PROVE PauseInv
      OBVIOUS
    <2>1. TypeInv
      BY InitType
    <2>2. \A r \in Responses : ledger[r] = NoLedger
      BY DEF Init
    <2> QED BY <2>1, <2>2
            DEF Init, NoProvisional, NoAcceptance, NoLedger, PauseInv, ProvisionalOwnsActive,
                NoPauseIsClean, ActiveIsCurrent, AcceptanceEndsPause, PlayingIsAudible,
                StoppedIsInactive, UnusedIsUnplayed
  <1>2. PauseInv /\ [Next]_vars => PauseInv'
    <2>1. PauseInv /\ UNCHANGED vars => PauseInv'
      <3> SUFFICES ASSUME PauseInv, UNCHANGED vars PROVE PauseInv'
        OBVIOUS
      <3>1. TypeInv'
        BY UnchangedType DEF PauseInv
      <3> QED BY <3>1, FrameKeeps DEF vars, SameResponses, SamePlaybacks
    <2> QED BY <2>1, CapturePause, FinalsPause, TimersPause, BrowserPause, ControlPause,
               ReasoningPause, SpeechOutputPause DEF Next
  <1> QED BY <1>1, <1>2, PTL DEF Spec

(* A pause always belongs to the active response of the current epoch, and  *)
(* that response is audible: no interleaving of captures, verdicts, timers, *)
(* receipts, commands, failures and late items leaves a pause without it.   *)
THEOREM PauseOwnership == Spec => []ProvisionalOwnsActive
  <1>1. PauseInv => ProvisionalOwnsActive
    BY DEF PauseInv
  <1> QED BY <1>1, PauseInvariant, PTL

-----------------------------------------------------------------------------
(* Which turn is answered, and by whom: a turn has one answer at most, and *)
(* in concise mode an accepted takeover owns the response it interrupted   *)
(* until the turn that interrupted is answered.                            *)

Unanswered(t) == \A r \in Responses : responses[r].turn # t

(* The turns that may still be answered without a new final: the one that is *)
(* being classified and the one whose takeover was accepted.                *)
Awaited(t) ==
    \/ provisional.turn = t
    \/ provisional.pendingTurn = t
    \/ acceptance.response # None /\ acceptance.turn = t

NoPauseNoTurn == provisional.response = None => provisional.turn = None

(* Until the session stops and forgets them, answered turns are seen ones.   *)
AnsweredIsSeen ==
    \A r \in Responses :
        responses[r].turn # None => responses[r].turn \in seenTurns \/ phase = "stopped"

AwaitedIsUnanswered ==
    \A t \in Turns : Awaited(t) => t \in seenTurns /\ Unanswered(t)

StoppedIsFree == phase = "stopped" => acceptance.response = None

TurnInv ==
    /\ PauseInv
    /\ NoPauseNoTurn
    /\ AnsweredIsSeen
    /\ AwaitedIsUnanswered
    /\ StoppedIsFree
    /\ TurnAnsweredOnce

SameTurns == \A r \in Responses : responses'[r].turn = responses[r].turn

-----------------------------------------------------------------------------
(* A step that starts no response, and awaits no turn but an unanswered one.  *)
LEMMA QuietTurns ==
    ASSUME TurnInv, PauseInv', SameTurns,
           phase' = "stopped" \/ (phase # "stopped" /\ seenTurns \subseteq seenTurns'),
           phase' = "stopped" => acceptance'.response = None,
           provisional'.response = None => provisional'.turn = None,
           \A t \in Turns : Awaited(t)' =>
               \/ Awaited(t) /\ seenTurns \subseteq seenTurns'
               \/ Unanswered(t) /\ t \in seenTurns'
    PROVE  TurnInv'
  <1>1. \A t \in Turns : Unanswered(t)' = Unanswered(t)
    BY DEF SameTurns, Unanswered
  <1>2. AwaitedIsUnanswered'
    BY <1>1 DEF TurnInv, AwaitedIsUnanswered
  <1>3. AnsweredIsSeen' /\ TurnAnsweredOnce'
    BY DEF TurnInv, AnsweredIsSeen, TurnAnsweredOnce, SameTurns
  <1>4. NoPauseNoTurn' /\ StoppedIsFree'
    BY DEF NoPauseNoTurn, StoppedIsFree
  <1> QED BY <1>2, <1>3, <1>4 DEF TurnInv

(* A step that answers a turn nobody answered.                              *)
LEMMA AnswerTurns ==
    ASSUME TurnInv, PauseInv', NEW t \in Turns, NEW e \in Nat, NEW w, Answer(t, e, w),
           Unanswered(t), t \in seenTurns', seenTurns \subseteq seenTurns',
           phase # "stopped", provisional'.turn = None, provisional'.pendingTurn = None,
           acceptance'.response = None
    PROVE  TurnInv'
  <1>1. /\ active' \in Responses
        /\ responses'[active'].turn = t
        /\ \A s \in Responses \ {active'} : responses'[s].turn = responses[s].turn
        /\ phase' = "reasoning"
    BY AnswerFacts DEF TurnInv, PauseInv, TypeInv
  <1>2. AnsweredIsSeen'
    BY <1>1 DEF TurnInv, AnsweredIsSeen
  <1>3. TurnAnsweredOnce'
    BY <1>1 DEF TurnInv, TurnAnsweredOnce, Unanswered
  <1>4. AwaitedIsUnanswered'
    BY ConstantsOK DEF AwaitedIsUnanswered, Awaited
  <1>5. NoPauseNoTurn' /\ StoppedIsFree'
    BY DEF NoPauseNoTurn, StoppedIsFree
  <1> QED BY <1>2, <1>3, <1>4, <1>5 DEF TurnInv

(* Cancelling and failing answer nothing.                                   *)
LEMMA CancelTurns ==
    ASSUME TypeOK, CancelActive \/ AdvanceEpochAndCancel \/ UNCHANGED responses
    PROVE  SameTurns
  BY CancelledFacts DEF SameTurns, CancelActive, AdvanceEpochAndCancel

LEMMA FailTurns ==
    ASSUME TypeOK, NEW r \in Responses, NEW sp, FailResponse(r, sp)
    PROVE  SameTurns
  <1>1. \A s \in Responses : responses[s] \in ResponseRecord
    BY DEF TypeOK
  <1> QED BY <1>1 DEF FailResponse, SameTurns, TypeOK, ResponseRecord

(* resolveProvisional ends the pause and answers nothing.                    *)
LEMMA ResolveTurns ==
    ASSUME TypeOK, NEW p, NEW result, NEW before, ResolveProvisional(p, result, before)
    PROVE  SameTurns /\ provisional' = NoProvisional /\ phase' # "stopped"
  <1>1. CancelActive \/ AdvanceEpochAndCancel \/ UNCHANGED responses
    BY DEF ResolveProvisional
  <1> QED BY <1>1, CancelTurns DEF ResolveProvisional

(* decideInterruption(t) may put t in the pause, and awaits no other turn.   *)
LEMMA DecideTurns ==
    ASSUME TypeOK, NEW p \in ProvisionalRecord, NEW t \in Turns, DecideInterruption(p, t),
           p.response # None, phase # "stopped"
    PROVE  /\ SameTurns
           /\ phase' # "stopped"
           /\ provisional'.response = None => provisional'.turn = None
           /\ provisional'.turn \in {p.turn, t, None}
           /\ provisional'.pendingTurn \in {p.pendingTurn, t, None}
  <1>1. \/ provisional' = p /\ UNCHANGED <<phase, responses>>
        \/ /\ provisional' = [p EXCEPT !.turn = t, !.pendingTurn = t]
           /\ phase' = "interruption_deciding" /\ UNCHANGED responses
        \/ /\ provisional' = [p EXCEPT !.turn = t, !.pendingTurn = None, !.timer = FALSE]
           /\ phase' = "interruption_deciding" /\ UNCHANGED responses
        \/ ResolveProvisional([p EXCEPT !.echoRecovered = TRUE], "barge_in.rejected",
                              <<"interruption.decision">>)
    BY DEF DecideInterruption
  <1>2. CASE ResolveProvisional([p EXCEPT !.echoRecovered = TRUE], "barge_in.rejected",
                                <<"interruption.decision">>)
    BY <1>2, ResolveTurns DEF NoProvisional
  <1> QED BY <1>1, <1>2, CancelTurns DEF ProvisionalRecord

(* A step that touches neither the pause, the takeover, the phase nor turns. *)
LEMMA FrameTurns ==
    ASSUME TurnInv, PauseInv', SameTurns,
           UNCHANGED <<phase, provisional, acceptance, seenTurns>>
    PROVE  TurnInv'
  <1>1. \A t \in Turns : Awaited(t)' => Awaited(t)
    BY DEF Awaited
  <1> QED BY <1>1, QuietTurns DEF TurnInv, NoPauseNoTurn, StoppedIsFree

(* A step that ends the pause and awaits nothing new.                        *)
LEMMA EndTurns ==
    ASSUME TurnInv, PauseInv', SameTurns, phase # "stopped", phase' # "stopped",
           seenTurns \subseteq seenTurns', provisional' = NoProvisional,
           acceptance'.response = None \/ UNCHANGED acceptance
    PROVE  TurnInv'
  <1>1. \A t \in Turns : Awaited(t)' => Awaited(t)
    BY ConstantsOK DEF Awaited, NoProvisional
  <1> QED BY <1>1, QuietTurns DEF NoProvisional

(* A step of a pause that keeps its turns or forgets them.                   *)
LEMMA KeepTurns ==
    ASSUME TurnInv, PauseInv', SameTurns, phase # "stopped", phase' # "stopped",
           seenTurns \subseteq seenTurns',
           provisional'.response = None => provisional'.turn = None,
           provisional'.turn \in {provisional.turn, None},
           provisional'.pendingTurn \in {provisional.pendingTurn, None},
           acceptance'.response = None \/ UNCHANGED acceptance
    PROVE  TurnInv'
  <1>1. \A t \in Turns : Awaited(t)' => Awaited(t)
    BY ConstantsOK DEF Awaited
  <1> QED BY <1>1, QuietTurns

(* What runs only while a response is active, paused or accepted runs before *)
(* the session stops.                                                       *)
LEMMA BusyIsRunning ==
    ASSUME TurnInv,
           active # None \/ provisional.response # None \/ acceptance.response # None
    PROVE  phase # "stopped"
  BY DEF TurnInv, PauseInv, StoppedIsInactive, ProvisionalOwnsActive, StoppedIsFree

-----------------------------------------------------------------------------
LEMMA CaptureTurns == TurnInv /\ Capture => TurnInv'
  <1> SUFFICES ASSUME TurnInv, Capture PROVE TurnInv'
    OBVIOUS
  <1>1. PauseInv'
    BY CapturePause DEF TurnInv
  <1>2. TypeOK /\ provisional \in ProvisionalRecord
    BY DEF TurnInv, PauseInv, TypeInv, TypeOK
  <1>3. ASSUME NEW t \in Turns, HandleSpeechStart(t) PROVE TurnInv'
    <2>1. UNCHANGED seenTurns /\ phase # "stopped"
      BY <1>3 DEF HandleSpeechStart
    <2>2. CASE /\ AdvanceEpochAndCancel
               /\ phase' = "listening"
               /\ acceptance' = NoAcceptance
               /\ UNCHANGED provisional
      <3>1. SameTurns
        BY <1>2, <2>2, CancelTurns
      <3> QED BY <1>1, <2>1, <2>2, <3>1, KeepTurns DEF TurnInv, NoPauseNoTurn, NoAcceptance
    <2>3. CASE /\ provisional' = [provisional EXCEPT !.timer = FALSE, !.turn = None,
                                                     !.pendingTurn = None]
               /\ phase' = "echo_provisional"
               /\ UNCHANGED <<acceptance, responses>>
      <3>1. provisional'.turn = None /\ provisional'.pendingTurn = None
        BY <1>2, <2>3 DEF ProvisionalRecord
      <3>2. SameTurns
        BY <2>3 DEF SameTurns
      <3> QED BY <1>1, <2>1, <2>3, <3>1, <3>2, KeepTurns
    <2>4. CASE /\ active # None
               /\ BeginProvisionalBargeIn(active)
               /\ responses' = [responses EXCEPT ![active].phaseBefore = "playing"]
               /\ UNCHANGED acceptance
      <3>1. /\ provisional'.turn = None
            /\ provisional'.pendingTurn = None
            /\ phase' = "echo_provisional"
        BY <2>4 DEF BeginProvisionalBargeIn, NoProvisional
      <3>2. SameTurns
        <4>1. \A r \in Responses : responses[r] \in ResponseRecord
          BY <1>2 DEF TypeOK
        <4> QED BY <1>2, <2>4, <4>1 DEF SameTurns, TypeOK, ResponseRecord
      <3> QED BY <1>1, <2>1, <2>4, <3>1, <3>2, KeepTurns
    <2>5. CASE UNCHANGED <<phase, provisional, acceptance, responses>>
      BY <1>1, <2>1, <2>5, FrameTurns DEF SameTurns
    <2> QED BY <1>3, <2>2, <2>3, <2>4, <2>5 DEF HandleSpeechStart
  <1>4. ASSUME NEW t \in Turns, HandleSpeechEnd(t) PROVE TurnInv'
    <2>1. UNCHANGED <<seenTurns, responses, acceptance>> /\ phase # "stopped"
      BY <1>4 DEF HandleSpeechEnd
    <2>2. phase' \in {phase, "deciding"}
      BY <1>4 DEF HandleSpeechEnd
    <2>3. /\ provisional'.response = provisional.response
          /\ provisional'.turn = provisional.turn
          /\ provisional'.pendingTurn = provisional.pendingTurn
      BY <1>2, <1>4 DEF HandleSpeechEnd, ScheduleProvisionalTimeout, ProvisionalRecord
    <2> QED BY <1>1, <2>1, <2>2, <2>3, KeepTurns DEF TurnInv, NoPauseNoTurn, SameTurns
  <1> QED BY <1>3, <1>4 DEF Capture

(* A final is answered at once, or awaits its verdict; an ignored one is     *)
(* never answered later.                                                    *)
LEMMA FinalsTurns == TurnInv /\ Finals => TurnInv'
  <1> SUFFICES ASSUME TurnInv, Finals PROVE TurnInv'
    OBVIOUS
  <1>1. PauseInv'
    BY FinalsPause DEF TurnInv
  <1>2. TypeOK /\ provisional \in ProvisionalRecord
    BY DEF TurnInv, PauseInv, TypeInv, TypeOK
  <1>3. ASSUME NEW t \in Turns, HandleStableFinal(t) PROVE TurnInv'
    <2>1. UNCHANGED acceptance
      BY <1>3 DEF HandleStableFinal
    <2>2. CASE UNCHANGED <<phase, provisional, seenTurns, responses>>
      BY <1>1, <2>1, <2>2, FrameTurns DEF SameTurns
    <2>3. CASE ~IgnoredFinal(t) /\ seenTurns' = seenTurns \cup {t}
      <3>1. phase # "stopped" /\ Unanswered(t)
        BY <2>3, ConstantsOK DEF IgnoredFinal, TurnInv, AnsweredIsSeen, Unanswered
      <3>2. CASE UNCHANGED <<phase, provisional, responses>>
        BY <1>1, <2>1, <2>3, <3>1, <3>2, KeepTurns DEF TurnInv, NoPauseNoTurn, SameTurns
      <3>3. CASE provisional.response # None /\ DecideInterruption(provisional, t)
        <4>1. /\ SameTurns
              /\ phase' # "stopped"
              /\ provisional'.response = None => provisional'.turn = None
              /\ provisional'.turn \in {provisional.turn, t, None}
              /\ provisional'.pendingTurn \in {provisional.pendingTurn, t, None}
          BY <1>2, <3>1, <3>3, DecideTurns
        <4>2. \A u \in Turns : Awaited(u)' => Awaited(u) \/ u = t
          BY <2>1, <4>1, ConstantsOK DEF Awaited
        <4> QED BY <1>1, <2>3, <3>1, <4>1, <4>2, QuietTurns
      <3>4. CASE /\ acceptance.response = None
                 /\ provisional.response = None
                 /\ RunPolicy(t)
                 /\ UNCHANGED provisional
        <4>1. provisional'.turn = None /\ provisional'.pendingTurn = None
          BY <3>4 DEF TurnInv, NoPauseNoTurn, PauseInv, NoPauseIsClean
        <4>2. CASE /\ phase' = IF active = None THEN "listening" ELSE phase
                   /\ UNCHANGED responses
          BY <1>1, <2>1, <2>3, <3>1, <3>4, <4>1, <4>2, KeepTurns DEF SameTurns
        <4>3. CASE Answer(t, IF active = None THEN epoch ELSE epoch + 1,
                          CancelledWire(wire))
          <5>1. (IF active = None THEN epoch ELSE epoch + 1) \in Nat
            BY <1>2 DEF TypeOK
          <5> QED BY <1>1, <2>1, <2>3, <3>1, <3>4, <4>1, <4>3, <5>1, AnswerTurns
        <4> QED BY <3>4, <4>2, <4>3 DEF RunPolicy
      <3> QED BY <1>3, <2>3, <3>2, <3>3, <3>4 DEF HandleStableFinal
    <2> QED BY <1>3, <2>2, <2>3 DEF HandleStableFinal
  <1>4. ASSUME NEW t \in Turns, FinishDecision(t) PROVE TurnInv'
    <2>1. UNCHANGED seenTurns
      BY <1>4 DEF FinishDecision
    <2>2. CASE UNCHANGED <<phase, provisional, acceptance, responses>>
      BY <1>1, <2>1, <2>2, FrameTurns DEF SameTurns
    <2>3. CASE ~Stale(t)
      <3>1. provisional.response # None /\ provisional.turn = t
        BY <1>4, <2>3 DEF FinishDecision, Stale, TurnInv, PauseInv, NoPauseIsClean
      <3>2. phase # "stopped"
        BY <3>1, BusyIsRunning
      <3>3. ASSUME NEW p, NEW result, NEW before, ResolveProvisional(p, result, before),
                   UNCHANGED acceptance
            PROVE TurnInv'
        BY <1>1, <1>2, <2>1, <3>2, <3>3, ResolveTurns, EndTurns
      <3>4. CASE AcceptTakeover(t)
        <4>1. /\ provisional' = NoProvisional
              /\ acceptance'.turn = t
              /\ CancelActive
              /\ phase' = "acceptance_pending_terminal"
          BY <3>4 DEF AcceptTakeover
        <4>2. Awaited(t) /\ SameTurns
          BY <1>2, <3>1, <4>1, CancelTurns DEF Awaited
        <4>3. \A u \in Turns : Awaited(u)' => u = t
          BY <4>1, ConstantsOK DEF Awaited, NoProvisional
        <4> QED BY <1>1, <2>1, <3>2, <4>1, <4>2, <4>3, QuietTurns DEF NoProvisional
      <3> QED BY <1>4, <2>3, <3>3, <3>4 DEF FinishDecision
    <2> QED BY <1>4, <2>2, <2>3 DEF FinishDecision
  <1> QED BY <1>3, <1>4 DEF Finals

(* The turn of an accepted takeover is answered as it stops being awaited.   *)
LEMMA FinalizeTurns ==
    ASSUME TurnInv, PauseInv', acceptance.response # None, FinalizeAcceptedTakeover,
           UNCHANGED <<provisional, seenTurns>>
    PROVE  TurnInv'
  <1>1. TypeOK /\ acceptance \in AcceptanceRecord /\ phase # "stopped"
    BY BusyIsRunning DEF TurnInv, PauseInv, TypeInv, TypeOK
  <1>2. /\ provisional'.turn = None
        /\ provisional'.pendingTurn = None
        /\ acceptance'.response = None
    BY DEF TurnInv, NoPauseNoTurn, PauseInv, AcceptanceEndsPause, NoPauseIsClean,
           FinalizeAcceptedTakeover, NoAcceptance
  <1>3. CASE AdvanceEpochAndCancel /\ phase' = "listening"
    <2>1. SameTurns
      BY <1>1, <1>3, CancelTurns
    <2> QED BY <1>1, <1>2, <1>3, <2>1, KeepTurns
  <1>4. ASSUME NEW w, Answer(acceptance.turn, epoch + 1, w) PROVE TurnInv'
    <2>1. acceptance.turn \in Turns /\ epoch + 1 \in Nat
      BY <1>1 DEF TurnInv, PauseInv, TypeInv, TypeOK
    <2>2. Unanswered(acceptance.turn) /\ acceptance.turn \in seenTurns
      BY <2>1 DEF TurnInv, AwaitedIsUnanswered, Awaited
    <2> QED BY <1>1, <1>2, <1>4, <2>1, <2>2, AnswerTurns
  <1> QED BY <1>3, <1>4 DEF FinalizeAcceptedTakeover

LEMMA TimersTurns == TurnInv /\ Timers => TurnInv'
  <1> SUFFICES ASSUME TurnInv, Timers PROVE TurnInv'
    OBVIOUS
  <1>1. PauseInv'
    BY TimersPause DEF TurnInv
  <1>2. /\ TypeOK
        /\ provisional \in ProvisionalRecord
        /\ acceptance \in AcceptanceRecord
    BY DEF TurnInv, PauseInv, TypeInv, TypeOK
  <1>3. CASE AcceptanceTimeout
    <2>1. UNCHANGED <<provisional, seenTurns>> /\ acceptance.response # None
      BY <1>3 DEF AcceptanceTimeout, TurnInv, PauseInv, AcceptanceEndsPause
    <2>2. CASE FinalizeAcceptedTakeover
      BY <1>1, <2>1, <2>2, FinalizeTurns
    <2>3. CASE /\ acceptance' = [acceptance EXCEPT !.timer = FALSE]
               /\ UNCHANGED <<phase, responses>>
      <3>1. /\ acceptance'.response = acceptance.response
            /\ acceptance'.turn = acceptance.turn
        BY <1>2, <2>3 DEF AcceptanceRecord
      <3>2. phase # "stopped" /\ SameTurns
        BY <2>1, <2>3, BusyIsRunning DEF SameTurns
      <3>3. \A t \in Turns : Awaited(t)' => Awaited(t)
        BY <2>1, <3>1 DEF Awaited
      <3> QED BY <1>1, <2>1, <2>3, <3>2, <3>3, QuietTurns DEF TurnInv, NoPauseNoTurn
    <2> QED BY <1>3, <2>2, <2>3 DEF AcceptanceTimeout
  <1>4. CASE ProvisionalTimeout
    <2>1. UNCHANGED <<acceptance, seenTurns>> /\ provisional.response # None
      BY <1>4 DEF ProvisionalTimeout, TurnInv, PauseInv, NoPauseIsClean
    <2>2. phase # "stopped"
      BY <2>1, BusyIsRunning
    <2>3. CASE /\ provisional' = [provisional EXCEPT !.timer = FALSE]
               /\ UNCHANGED <<phase, responses>>
      <3>1. /\ provisional'.response = provisional.response
            /\ provisional'.turn = provisional.turn
            /\ provisional'.pendingTurn = provisional.pendingTurn
        BY <1>2, <2>3 DEF ProvisionalRecord
      <3> QED BY <1>1, <2>1, <2>2, <2>3, <3>1, KeepTurns DEF SameTurns
    <2>4. CASE ResolveProvisional(provisional, "barge_in.timed_out", <<>>)
      BY <1>1, <1>2, <2>1, <2>2, <2>4, ResolveTurns, EndTurns
    <2> QED BY <1>4, <2>3, <2>4 DEF ProvisionalTimeout
  <1> QED BY <1>3, <1>4 DEF Timers

(* A checkpoint classifies the turn that waited for it; a terminal receipt   *)
(* ends the pause, or has the accepted takeover answered.                   *)
LEMMA BrowserTurns == TurnInv /\ Browser => TurnInv'
  <1> SUFFICES ASSUME TurnInv, Browser PROVE TurnInv'
    OBVIOUS
  <1>1. PauseInv'
    BY BrowserPause DEF TurnInv
  <1>2. TypeOK /\ provisional \in ProvisionalRecord
    BY DEF TurnInv, PauseInv, TypeInv, TypeOK
  <1>3. ASSUME NEW r \in Responses, NEW offset, NEW generated,
               PlaybackPaused(r, offset, generated)
        PROVE  TurnInv'
    <2>1. UNCHANGED <<acceptance, seenTurns>> /\ provisional.response # None
      BY <1>3, ConstantsOK DEF PlaybackPaused
    <2>2. phase # "stopped"
      BY <2>1, BusyIsRunning
    <2>3. CASE /\ provisional' = [provisional EXCEPT !.checkpoint = TRUE]
               /\ UNCHANGED <<phase, responses>>
      <3>1. /\ provisional'.response = provisional.response
            /\ provisional'.turn = provisional.turn
            /\ provisional'.pendingTurn = provisional.pendingTurn
        BY <1>2, <2>3 DEF ProvisionalRecord
      <3> QED BY <1>1, <2>1, <2>2, <2>3, <3>1, KeepTurns DEF SameTurns
    <2>4. ASSUME DecideInterruption([[provisional EXCEPT !.checkpoint = TRUE]
                                       EXCEPT !.pendingTurn = None],
                                    provisional.pendingTurn),
                 provisional.pendingTurn # None
          PROVE  TurnInv'
      <3> DEFINE p == [[provisional EXCEPT !.checkpoint = TRUE] EXCEPT !.pendingTurn = None]
                 t == provisional.pendingTurn
      <3>1. /\ p \in ProvisionalRecord
            /\ p.response # None
            /\ p.turn = provisional.turn
            /\ p.pendingTurn = None
            /\ t \in Turns
            /\ Awaited(t)
        BY <1>2, <2>1, <2>4 DEF ProvisionalRecord, Awaited
      <3>2. DecideInterruption(p, t)
        BY <2>4
      <3> HIDE DEF p
      <3>3. /\ SameTurns
            /\ phase' # "stopped"
            /\ provisional'.response = None => provisional'.turn = None
            /\ provisional'.turn \in {p.turn, t, None}
            /\ provisional'.pendingTurn \in {p.pendingTurn, t, None}
        BY <1>2, <2>2, <3>1, <3>2, DecideTurns
      <3>4. \A u \in Turns : Awaited(u)' => Awaited(u)
        BY <2>1, <3>1, <3>3, ConstantsOK DEF Awaited
      <3> QED BY <1>1, <2>1, <2>2, <3>3, <3>4, QuietTurns
    <2> QED BY <1>3, <2>3, <2>4 DEF PlaybackPaused
  <1>4. ASSUME NEW r \in Responses, NEW offset, NEW generated,
               PlaybackProgress(r, offset, generated)
        PROVE  TurnInv'
    BY <1>1, <1>4, FrameTurns DEF PlaybackProgress, SameTurns
  <1>5. ASSUME NEW r \in Responses, NEW offset, NEW completed,
               PlaybackStopped(r, offset, completed)
        PROVE  TurnInv'
    <2>1. UNCHANGED seenTurns
      BY <1>5 DEF PlaybackStopped
    <2>2. CASE /\ acceptance.response = r
               /\ FinalizeAcceptedTakeover
               /\ UNCHANGED provisional
      BY <1>1, <2>1, <2>2, FinalizeTurns, ConstantsOK
    <2>3. CASE /\ active = r /\ phase # "stopped"
               /\ provisional' = WithoutPause(r)
               /\ phase' = "listening"
               /\ UNCHANGED <<acceptance, responses>>
      <3>1. CASE provisional.response = r
        BY <1>1, <2>1, <2>3, <3>1, EndTurns DEF WithoutPause, SameTurns
      <3>2. CASE provisional.response # r
        BY <1>1, <2>1, <2>3, <3>2, KeepTurns
           DEF WithoutPause, SameTurns, TurnInv, NoPauseNoTurn
      <3> QED BY <3>1, <3>2
    <2>4. CASE UNCHANGED <<phase, provisional, acceptance, responses>>
      BY <1>1, <2>1, <2>4, FrameTurns DEF SameTurns
    <2> QED BY <1>5, <2>2, <2>3, <2>4 DEF PlaybackStopped
  <1> QED BY <1>3, <1>4, <1>5 DEF Browser

(* A command answers nothing; stop() forgets which turns were answered, and  *)
(* answers none any more.                                                   *)
LEMMA ControlTurns == TurnInv /\ Control => TurnInv'
  <1> SUFFICES ASSUME TurnInv, Control PROVE TurnInv'
    OBVIOUS
  <1>1. PauseInv'
    BY ControlPause DEF TurnInv
  <1>2. TypeOK
    BY DEF TurnInv, PauseInv, TypeInv
  <1>3. NoAcceptance.response = None
    BY DEF NoAcceptance
  <1>4. CASE Start
    BY <1>1, <1>4, KeepTurns DEF Start, SameTurns, TurnInv, NoPauseNoTurn
  <1>5. CASE ConfirmBargeIn
    <2>1. phase # "stopped" /\ SameTurns
      BY <1>2, <1>5, BusyIsRunning, CancelTurns DEF ConfirmBargeIn
    <2> QED BY <1>1, <1>5, <2>1, EndTurns DEF ConfirmBargeIn
  <1>6. CASE RejectBargeIn
    <2>1. phase # "stopped"
      BY <1>6, BusyIsRunning DEF RejectBargeIn
    <2>2. SameTurns /\ provisional' = NoProvisional /\ phase' # "stopped"
      BY <1>2, <1>6, ResolveTurns DEF RejectBargeIn
    <2> QED BY <1>1, <1>6, <2>1, <2>2, EndTurns DEF RejectBargeIn
  <1>7. CASE CancelCurrentTurn
    <2>1. SameTurns
      BY <1>2, <1>7, CancelTurns DEF CancelCurrentTurn
    <2> QED BY <1>1, <1>3, <1>7, <2>1, EndTurns DEF CancelCurrentTurn
  <1>8. CASE Stop
    <2>1. /\ SameTurns
          /\ provisional' = NoProvisional
          /\ acceptance'.response = None
          /\ phase' = "stopped"
      BY <1>2, <1>3, <1>8, CancelTurns DEF Stop
    <2>2. \A t \in Turns : ~Awaited(t)'
      BY <2>1, ConstantsOK DEF Awaited, NoProvisional
    <2> QED BY <1>1, <2>1, <2>2, QuietTurns DEF NoProvisional
  <1> QED BY <1>4, <1>5, <1>6, <1>7, <1>8 DEF Control

(* Failing a response awaits nothing and answers nothing.                    *)
LEMMA FailureTurns ==
    ASSUME TurnInv, PauseInv', NEW r \in Responses, NEW sp, FailResponse(r, sp),
           UNCHANGED <<acceptance, seenTurns>>
    PROVE  TurnInv'
  <1>1. SameTurns
    BY FailTurns DEF TurnInv, PauseInv, TypeInv
  <1>2. CASE active # r
    BY <1>1, <1>2, FrameTurns DEF FailResponse
  <1>3. CASE active = r
    <2>1. phase # "stopped" /\ phase' = "listening" /\ provisional' = WithoutPause(r)
      BY <1>3, BusyIsRunning, ConstantsOK DEF FailResponse
    <2>2. CASE provisional.response = r
      BY <1>1, <2>1, <2>2, EndTurns DEF WithoutPause
    <2>3. CASE provisional.response # r
      BY <1>1, <2>1, <2>3, KeepTurns DEF WithoutPause, TurnInv, NoPauseNoTurn
    <2> QED BY <2>2, <2>3
  <1> QED BY <1>2, <1>3

LEMMA ReasoningTurns == TurnInv /\ Reasoning => TurnInv'
  <1> SUFFICES ASSUME TurnInv, NEW r \in Responses,
                      \/ PiStaleItem(r) \/ PiDelta(r) \/ PiFinal(r)
                      \/ PiError(r) \/ PiEnd(r)
               PROVE  TurnInv'
    BY DEF Reasoning
  <1>1. PauseInv'
    BY ReasoningPause DEF TurnInv, Reasoning
  <1>2. UNCHANGED <<acceptance, seenTurns>>
    BY DEF PiStaleItem, PiDelta, PiFinal, PiError, PiEnd, PiUnchanged
  <1>3. CASE FailResponse(r, speech)
    BY <1>1, <1>2, <1>3, FailureTurns
  <1>4. CASE UNCHANGED <<phase, provisional, responses>>
    BY <1>1, <1>2, <1>4, FrameTurns DEF SameTurns
  <1>5. CASE FinishReasoning(r)
    <2>1. \A s \in Responses : responses[s] \in ResponseRecord
      BY DEF TurnInv, PauseInv, TypeInv, TypeOK
    <2>2. SameTurns
      BY <1>5, <2>1 DEF FinishReasoning, SameTurns, TurnInv, PauseInv, TypeInv, TypeOK,
                        ResponseRecord
    <2> QED BY <1>1, <1>2, <1>5, <2>2, FrameTurns DEF FinishReasoning
  <1> QED BY <1>3, <1>4, <1>5
          DEF PiStaleItem, PiDelta, PiFinal, PiError, PiEnd, LongEnd, ConciseEnd

LEMMA SpeechOutputTurns == TurnInv /\ SpeechOutput => TurnInv'
  <1> SUFFICES ASSUME TurnInv, NEW r \in Responses,
                      \/ SidecarStarted(r) \/ GeneratedSamples(r) \/ TtsStarted(r)
                      \/ TtsEnded(r) \/ TtsFailed(r)
               PROVE  TurnInv'
    BY DEF SpeechOutput
  <1>1. PauseInv'
    BY SpeechOutputPause DEF TurnInv, SpeechOutput
  <1>2. /\ TypeOK
        /\ \A s \in Responses : responses[s] \in ResponseRecord
    BY DEF TurnInv, PauseInv, TypeInv, TypeOK
  <1>3. UNCHANGED <<acceptance, seenTurns>>
    BY DEF SidecarStarted, GeneratedSamples, TtsStarted, TtsEnded, TtsFailed, SpeechUnchanged
  <1>4. CASE UNCHANGED <<phase, provisional, responses>>
    BY <1>1, <1>3, <1>4, FrameTurns DEF SameTurns
  <1>5. CASE GeneratedSamples(r)
    <2>1. /\ UNCHANGED <<phase, provisional>>
          /\ responses' = [responses EXCEPT ![r].generated = speech[r].samples + 1]
      BY <1>5 DEF GeneratedSamples
    <2>2. SameTurns
      BY <1>2, <2>1 DEF SameTurns, TypeOK, ResponseRecord
    <2> QED BY <1>1, <1>3, <2>1, <2>2, FrameTurns
  <1>6. CASE TtsStarted(r) /\ IsCurrent(r)
    <2>1. \/ responses' = [responses EXCEPT ![r].playback = TRUE]
          \/ responses' = [responses EXCEPT ![r].playback = TRUE,
                                            ![r].phaseBefore = "playing"]
      BY <1>6 DEF TtsStarted
    <2>2. SameTurns
      <3>1. \A s \in Responses \ {r} : responses'[s] = responses[s]
        BY <1>2, <2>1 DEF TypeOK
      <3>2. \/ responses'[r] = [responses[r] EXCEPT !.playback = TRUE]
            \/ responses'[r] = [responses[r] EXCEPT !.playback = TRUE,
                                                    !.phaseBefore = "playing"]
        BY <1>2, <2>1 DEF TypeOK
      <3>3. responses'[r].turn = responses[r].turn
        BY <1>2, <3>2 DEF ResponseRecord
      <3> QED BY <3>1, <3>3 DEF SameTurns
    <2>3. phase # "stopped"
      BY <1>6 DEF IsCurrent
    <2>4. CASE phase' \in {"echo_provisional", "playing"} /\ UNCHANGED provisional
      BY <1>1, <1>3, <2>2, <2>3, <2>4, KeepTurns DEF TurnInv, NoPauseNoTurn
    <2>5. CASE BeginProvisionalBargeIn(r)
      <3>1. /\ provisional'.turn = None
            /\ provisional'.pendingTurn = None
            /\ phase' = "echo_provisional"
        BY <2>5 DEF BeginProvisionalBargeIn, NoProvisional
      <3> QED BY <1>1, <1>3, <2>2, <2>3, <3>1, KeepTurns
    <2> QED BY <1>6, <2>4, <2>5 DEF TtsStarted
  <1>7. CASE FailResponse(r, [speech EXCEPT ![r].stream = "failed"])
    BY <1>1, <1>3, <1>7, FailureTurns
  <1> QED BY <1>4, <1>5, <1>6, <1>7 DEF SidecarStarted, TtsStarted, TtsEnded, TtsFailed

-----------------------------------------------------------------------------
LEMMA TurnInvHolds == Init => TurnInv
  <1> SUFFICES ASSUME Init PROVE TurnInv
    OBVIOUS
  <1>1. TypeInv
    BY InitType
  <1>2. PauseInv
    <2>1. \A r \in Responses : ledger[r] = NoLedger
      BY DEF Init
    <2> QED BY <1>1, <2>1
            DEF Init, NoProvisional, NoAcceptance, NoLedger, PauseInv, ProvisionalOwnsActive,
                NoPauseIsClean, ActiveIsCurrent, AcceptanceEndsPause, PlayingIsAudible,
                StoppedIsInactive, UnusedIsUnplayed
  <1>3. \A r \in Responses : responses[r].turn = None
    BY DEF Init, Unused
  <1>4. \A t \in Turns : ~Awaited(t)
    BY ConstantsOK DEF Init, NoProvisional, NoAcceptance, Awaited
  <1> QED BY <1>2, <1>3, <1>4
          DEF Init, NoProvisional, NoAcceptance, TurnInv, NoPauseNoTurn, AnsweredIsSeen,
              AwaitedIsUnanswered, StoppedIsFree, TurnAnsweredOnce

LEMMA TurnInvStep == TurnInv /\ [Next]_vars => TurnInv'
  <1>1. TurnInv /\ UNCHANGED vars => TurnInv'
    <2> SUFFICES ASSUME TurnInv, UNCHANGED vars PROVE TurnInv'
      OBVIOUS
    <2>1. PauseInv'
      <3>1. TypeInv'
        BY UnchangedType DEF TurnInv, PauseInv
      <3> QED BY <3>1, FrameKeeps DEF TurnInv, vars, SameResponses, SamePlaybacks
    <2> QED BY <2>1, FrameTurns DEF vars, SameTurns
  <1> QED BY <1>1, CaptureTurns, FinalsTurns, TimersTurns, BrowserTurns, ControlTurns,
             ReasoningTurns, SpeechOutputTurns DEF Next

(* A turn is answered by one response at most: no final handed in twice, no *)
(* verdict that comes late and no accepted takeover has handleStableFinal   *)
(* answer a turn again.                                                     *)
THEOREM AnsweredOnce == Spec => []TurnAnsweredOnce
  <1>1. TurnInv => TurnAnsweredOnce
    BY DEF TurnInv
  <1> QED BY TurnInvHolds, TurnInvStep, <1>1, PTL DEF Spec

-----------------------------------------------------------------------------
(* The accepted takeover in concise mode, where no response is failed once   *)
(* it was aborted.  In multipart mode the end of runLongResponse's loop      *)
(* breaks it.                                                               *)
TakeoverHeld ==
    acceptance.response # None =>
        /\ active = acceptance.response
        /\ acceptance.outputEpoch = epoch
        /\ acceptance.timer
        /\ phase = "acceptance_pending_terminal"

TimedOutIsPast == timedOutEpoch # None => timedOutEpoch <= epoch

TakeoverInv == TurnInv /\ TakeoverHeld /\ TimedOutIsPast

(* A step that leaves the takeover, its response and the epoch alone.        *)
LEMMA HeldTakeover ==
    ASSUME TakeoverInv, TurnInv', UNCHANGED <<phase, epoch, active, acceptance>>,
           timedOutEpoch' \in {timedOutEpoch, None}
    PROVE  TakeoverInv'
  BY DEF TakeoverInv, TakeoverHeld, TimedOutIsPast

(* A step after which no takeover waits.                                     *)
LEMMA NoTakeover ==
    ASSUME TakeoverInv, TurnInv', acceptance'.response = None,
           epoch' \in {epoch, epoch + 1},
           timedOutEpoch' \in {timedOutEpoch, None, epoch}
    PROVE  TakeoverInv'
  <1>1. epoch \in Nat /\ timedOutEpoch \in Nat \cup {None}
    BY DEF TakeoverInv, TurnInv, PauseInv, TypeInv, TypeOK
  <1> QED BY <1>1 DEF TakeoverInv, TakeoverHeld, TimedOutIsPast

(* Nothing else runs for the response of an accepted takeover.               *)
LEMMA TakeoverIsAlone ==
    ASSUME TakeoverInv
    PROVE  /\ provisional.response # None => acceptance.response = None
           /\ \A r \in Responses : IsCurrent(r) => acceptance.response = None
  <1>1. ASSUME NEW r \in Responses, IsCurrent(r) PROVE acceptance.response = None
    BY <1>1, ConstantsOK
       DEF IsCurrent, TakeoverInv, TurnInv, PauseInv, AcceptanceEndsPause
  <1> QED BY <1>1 DEF TakeoverInv, TurnInv, PauseInv, AcceptanceEndsPause

LEMMA EpochGrows ==
    ASSUME \/ AdvanceEpochAndCancel
           \/ \E p, result, before : ResolveProvisional(p, result, before)
           \/ \E r \in Responses : \E sp : FailResponse(r, sp)
           \/ FinalizeAcceptedTakeover
           \/ \E t : RunPolicy(t)
           \/ \E p, t : DecideInterruption(p, t)
           \/ UNCHANGED epoch
    PROVE  epoch' \in {epoch, epoch + 1}
  <1>1. AdvanceEpochAndCancel => epoch' = epoch + 1
    BY DEF AdvanceEpochAndCancel
  <1>2. ASSUME NEW p, NEW result, NEW before, ResolveProvisional(p, result, before)
        PROVE  epoch' \in {epoch, epoch + 1}
    BY <1>1, <1>2 DEF ResolveProvisional
  <1>3. ASSUME NEW r \in Responses, NEW sp, FailResponse(r, sp)
        PROVE  epoch' \in {epoch, epoch + 1}
    BY <1>3 DEF FailResponse
  <1>4. ASSUME NEW t, NEW e, NEW w, Answer(t, e, w) PROVE epoch' = e
    BY <1>4 DEF Answer
  <1>5. FinalizeAcceptedTakeover => epoch' \in {epoch, epoch + 1}
    BY <1>1, <1>4 DEF FinalizeAcceptedTakeover
  <1>6. ASSUME NEW t, RunPolicy(t) PROVE epoch' \in {epoch, epoch + 1}
    BY <1>4, <1>6 DEF RunPolicy
  <1>7. ASSUME NEW p, NEW t, DecideInterruption(p, t)
        PROVE  epoch' \in {epoch, epoch + 1}
    BY <1>2, <1>7 DEF DecideInterruption
  <1> QED BY <1>1, <1>2, <1>3, <1>5, <1>6, <1>7

LEMMA CaptureTakeover == TakeoverInv /\ Capture => TakeoverInv'
  <1> SUFFICES ASSUME TakeoverInv, Capture PROVE TakeoverInv'
    OBVIOUS
  <1>1. TurnInv'
    BY CaptureTurns DEF TakeoverInv
  <1>2. ASSUME NEW t \in Turns, HandleSpeechStart(t) PROVE TakeoverInv'
    <2>1. acceptance'.response = None /\ timedOutEpoch' = None
      BY <1>2 DEF HandleSpeechStart, NoAcceptance
    <2>2. AdvanceEpochAndCancel \/ UNCHANGED epoch
      BY <1>2 DEF HandleSpeechStart
    <2> QED BY <1>1, <2>1, <2>2, EpochGrows, NoTakeover
  <1>3. ASSUME NEW t \in Turns, HandleSpeechEnd(t) PROVE TakeoverInv'
    <2>1. UNCHANGED <<epoch, active, acceptance, timedOutEpoch>>
      BY <1>3 DEF HandleSpeechEnd
    <2>2. CASE acceptance.response = None
      BY <1>1, <2>1, <2>2, NoTakeover
    <2>3. CASE acceptance.response # None
      <3>1. active # None
        BY <2>3 DEF TakeoverInv, TakeoverHeld
      <3> QED BY <1>1, <1>3, <2>1, <3>1, HeldTakeover DEF HandleSpeechEnd
    <2> QED BY <2>2, <2>3
  <1> QED BY <1>2, <1>3 DEF Capture

LEMMA FinalsTakeover == TakeoverInv /\ Finals => TakeoverInv'
  <1> SUFFICES ASSUME TakeoverInv, Finals PROVE TakeoverInv'
    OBVIOUS
  <1>1. TurnInv'
    BY FinalsTurns DEF TakeoverInv
  <1>2. ASSUME NEW t \in Turns, HandleStableFinal(t) PROVE TakeoverInv'
    <2>1. UNCHANGED acceptance /\ timedOutEpoch' \in {timedOutEpoch, None}
      BY <1>2 DEF HandleStableFinal
    <2>2. CASE UNCHANGED <<phase, epoch, active>>
      BY <1>1, <2>1, <2>2, HeldTakeover
    <2>3. CASE /\ acceptance.response = None
               /\ DecideInterruption(provisional, t) \/ RunPolicy(t)
      BY <1>1, <2>1, <2>3, EpochGrows, NoTakeover
    <2> QED BY <1>2, <2>2, <2>3 DEF HandleStableFinal
  <1>3. ASSUME NEW t \in Turns, FinishDecision(t) PROVE TakeoverInv'
    <2>1. UNCHANGED timedOutEpoch
      BY <1>3 DEF FinishDecision
    <2>2. CASE UNCHANGED <<phase, epoch, active, acceptance>>
      BY <1>1, <2>1, <2>2, HeldTakeover
    <2>3. CASE ~Stale(t)
      <3>1. provisional.response # None
        BY <1>3, <2>3 DEF FinishDecision, Stale, TakeoverInv, TurnInv, PauseInv,
                          NoPauseIsClean
      <3>2. /\ acceptance.response = None
            /\ active = provisional.response
            /\ provisional.outputEpoch = epoch
        BY <3>1, TakeoverIsAlone
           DEF TakeoverInv, TurnInv, PauseInv, ProvisionalOwnsActive
      <3>3. ASSUME NEW p, NEW result, NEW before, ResolveProvisional(p, result, before),
                   UNCHANGED acceptance
            PROVE  TakeoverInv'
        BY <1>1, <2>1, <3>2, <3>3, EpochGrows, NoTakeover
      <3>4. CASE AcceptTakeover(t)
        BY <1>1, <2>1, <3>2, <3>4
           DEF AcceptTakeover, TakeoverInv, TakeoverHeld, TimedOutIsPast
      <3> QED BY <1>3, <2>3, <3>3, <3>4 DEF FinishDecision
    <2> QED BY <1>3, <2>2, <2>3 DEF FinishDecision
  <1> QED BY <1>2, <1>3 DEF Finals

LEMMA TimersTakeover == TakeoverInv /\ Timers => TakeoverInv'
  <1> SUFFICES ASSUME TakeoverInv, Timers PROVE TakeoverInv'
    OBVIOUS
  <1>1. TurnInv'
    BY TimersTurns DEF TakeoverInv
  <1>2. CASE AcceptanceTimeout
    <2>1. acceptance.response # None
      BY <1>2 DEF AcceptanceTimeout, TakeoverInv, TurnInv, PauseInv, AcceptanceEndsPause
    <2>2. FinalizeAcceptedTakeover /\ UNCHANGED timedOutEpoch
      BY <1>2, <2>1 DEF AcceptanceTimeout, TakeoverInv, TakeoverHeld
    <2>3. acceptance'.response = None
      BY <2>2 DEF FinalizeAcceptedTakeover, NoAcceptance
    <2> QED BY <1>1, <2>2, <2>3, EpochGrows, NoTakeover
  <1>3. CASE ProvisionalTimeout
    <2>1. provisional.response # None /\ UNCHANGED acceptance
      BY <1>3 DEF ProvisionalTimeout, TakeoverInv, TurnInv, PauseInv, NoPauseIsClean
    <2>2. acceptance.response = None /\ provisional.outputEpoch = epoch
      BY <2>1, TakeoverIsAlone DEF TakeoverInv, TurnInv, PauseInv, ProvisionalOwnsActive
    <2>3. timedOutEpoch' \in {timedOutEpoch, epoch}
      BY <1>3, <2>2 DEF ProvisionalTimeout
    <2>4. \/ UNCHANGED epoch
          \/ ResolveProvisional(provisional, "barge_in.timed_out", <<>>)
      BY <1>3 DEF ProvisionalTimeout
    <2> QED BY <1>1, <2>1, <2>2, <2>3, <2>4, EpochGrows, NoTakeover
  <1> QED BY <1>2, <1>3 DEF Timers

LEMMA BrowserTakeover == TakeoverInv /\ Browser => TakeoverInv'
  <1> SUFFICES ASSUME TakeoverInv, Browser PROVE TakeoverInv'
    OBVIOUS
  <1>1. TurnInv'
    BY BrowserTurns DEF TakeoverInv
  <1>2. ASSUME NEW r \in Responses, NEW offset, NEW generated,
               PlaybackPaused(r, offset, generated)
        PROVE  TakeoverInv'
    <2>1. provisional.response # None /\ UNCHANGED <<acceptance, timedOutEpoch>>
      BY <1>2, ConstantsOK DEF PlaybackPaused
    <2>2. acceptance'.response = None
      BY <2>1, TakeoverIsAlone
    <2>3. UNCHANGED epoch \/ \E p, t : DecideInterruption(p, t)
      BY <1>2 DEF PlaybackPaused
    <2> QED BY <1>1, <2>1, <2>2, <2>3, EpochGrows, NoTakeover
  <1>3. ASSUME NEW r \in Responses, NEW offset, NEW generated,
               PlaybackProgress(r, offset, generated)
        PROVE  TakeoverInv'
    BY <1>1, <1>3, HeldTakeover DEF PlaybackProgress
  <1>4. ASSUME NEW r \in Responses, NEW offset, NEW completed,
               PlaybackStopped(r, offset, completed)
        PROVE  TakeoverInv'
    <2>1. UNCHANGED timedOutEpoch
      BY <1>4 DEF PlaybackStopped
    <2>2. CASE FinalizeAcceptedTakeover
      BY <1>1, <2>1, <2>2, EpochGrows, NoTakeover
         DEF FinalizeAcceptedTakeover, NoAcceptance
    <2>3. CASE /\ acceptance.response # r /\ active = r
               /\ UNCHANGED <<epoch, acceptance>>
      <3>1. acceptance.response = None
        BY <2>3 DEF TakeoverInv, TakeoverHeld
      <3> QED BY <1>1, <2>1, <2>3, <3>1, NoTakeover
    <2>4. CASE UNCHANGED <<phase, epoch, active, acceptance>>
      BY <1>1, <2>1, <2>4, HeldTakeover
    <2> QED BY <1>4, <2>2, <2>3, <2>4 DEF PlaybackStopped
  <1> QED BY <1>2, <1>3, <1>4 DEF Browser

LEMMA ControlTakeover == TakeoverInv /\ Control => TakeoverInv'
  <1> SUFFICES ASSUME TakeoverInv, Control PROVE TakeoverInv'
    OBVIOUS
  <1>1. TurnInv'
    BY ControlTurns DEF TakeoverInv
  <1>2. acceptance'.response = None
    <2>1. NoAcceptance.response = None
      BY DEF NoAcceptance
    <2>2. Start => acceptance'.response = None
      BY DEF Start, TakeoverInv, TakeoverHeld
    <2>3. ConfirmBargeIn \/ RejectBargeIn => acceptance'.response = None
      BY TakeoverIsAlone DEF ConfirmBargeIn, RejectBargeIn
    <2>4. CancelCurrentTurn \/ Stop => acceptance'.response = None
      BY <2>1 DEF CancelCurrentTurn, Stop
    <2> QED BY <2>2, <2>3, <2>4 DEF Control
  <1>3. UNCHANGED timedOutEpoch
    BY DEF Control, Start, ConfirmBargeIn, RejectBargeIn, CancelCurrentTurn, Stop
  <1>4. \/ AdvanceEpochAndCancel
        \/ \E p, result, before : ResolveProvisional(p, result, before)
        \/ UNCHANGED epoch
    BY DEF Control, Start, ConfirmBargeIn, RejectBargeIn, CancelCurrentTurn, Stop
  <1> QED BY <1>1, <1>2, <1>3, <1>4, EpochGrows, NoTakeover

(* The reasoning loop of concise mode leaves an aborted response alone.      *)
LEMMA ReasoningTakeover ==
    ASSUME ~MultiPart
    PROVE  TakeoverInv /\ Reasoning => TakeoverInv'
  <1> SUFFICES ASSUME TakeoverInv, NEW r \in Responses,
                      \/ PiStaleItem(r) \/ PiDelta(r) \/ PiFinal(r)
                      \/ PiError(r) \/ PiEnd(r)
               PROVE  TakeoverInv'
    BY DEF Reasoning
  <1>1. TurnInv'
    BY ReasoningTurns DEF TakeoverInv, Reasoning
  <1>2. UNCHANGED <<acceptance, timedOutEpoch>>
    BY DEF PiStaleItem, PiDelta, PiFinal, PiError, PiEnd, PiUnchanged
  <1>3. CASE UNCHANGED <<phase, epoch, active>>
    BY <1>1, <1>2, <1>3, HeldTakeover
  <1>4. CASE IsCurrent(r) /\ FailResponse(r, speech)
    <2>1. acceptance.response = None
      BY <1>4, TakeoverIsAlone
    <2> QED BY <1>1, <1>2, <1>4, <2>1, EpochGrows, NoTakeover
  <1> QED BY <1>3, <1>4
          DEF PiStaleItem, PiDelta, PiFinal, PiError, PiEnd, ConciseEnd, FinishReasoning

LEMMA SpeechOutputTakeover == TakeoverInv /\ SpeechOutput => TakeoverInv'
  <1> SUFFICES ASSUME TakeoverInv, NEW r \in Responses,
                      \/ SidecarStarted(r) \/ GeneratedSamples(r) \/ TtsStarted(r)
                      \/ TtsEnded(r) \/ TtsFailed(r)
               PROVE  TakeoverInv'
    BY DEF SpeechOutput
  <1>1. TurnInv'
    BY SpeechOutputTurns DEF TakeoverInv, SpeechOutput
  <1>2. UNCHANGED <<acceptance, timedOutEpoch>>
    BY DEF SidecarStarted, GeneratedSamples, TtsStarted, TtsEnded, TtsFailed, SpeechUnchanged
  <1>3. CASE UNCHANGED <<phase, epoch, active>>
    BY <1>1, <1>2, <1>3, HeldTakeover
  <1>4. CASE IsCurrent(r) /\ (TtsStarted(r) \/ TtsFailed(r))
    <2>1. acceptance.response = None
      BY <1>4, TakeoverIsAlone
    <2>2. UNCHANGED epoch \/ \E sp : FailResponse(r, sp)
      BY <1>4 DEF TtsStarted, TtsFailed
    <2> QED BY <1>1, <1>2, <2>1, <2>2, EpochGrows, NoTakeover
  <1> QED BY <1>3, <1>4
          DEF SidecarStarted, GeneratedSamples, TtsStarted, TtsEnded, TtsFailed

(* In concise mode an accepted takeover owns the response it interrupted     *)
(* until it is answered: whatever the verdicts, receipts, timers, commands   *)
(* and late items of both, that response stays the active and aborted one,  *)
(* in the epoch of the pause, with the timer armed.                         *)
THEOREM TakeoverOwned ==
    ASSUME ~MultiPart
    PROVE  Spec => []AcceptanceOwnsResponse
  <1>1. Init => TakeoverInv
    BY TurnInvHolds DEF Init, NoAcceptance, TakeoverInv, TakeoverHeld, TimedOutIsPast
  <1>2. TakeoverInv /\ [Next]_vars => TakeoverInv'
    <2>1. TakeoverInv /\ UNCHANGED vars => TakeoverInv'
      BY TurnInvStep, HeldTakeover DEF TakeoverInv, vars
    <2> QED BY <2>1, CaptureTakeover, FinalsTakeover, TimersTakeover, BrowserTakeover,
               ControlTakeover, ReasoningTakeover, SpeechOutputTakeover DEF Next
  <1>3. TakeoverInv => AcceptanceOwnsResponse
    <2> SUFFICES ASSUME TakeoverInv, acceptance.response # None
                 PROVE  AcceptanceOwnsResponse
      BY DEF AcceptanceOwnsResponse
    <2>1. epoch \in Nat /\ timedOutEpoch \in Nat \cup {None} /\ acceptance.turn \in Turns
      BY DEF TakeoverInv, TurnInv, PauseInv, TypeInv, TypeOK
    <2>2. acceptance.turn \in seenTurns
      BY <2>1 DEF TakeoverInv, TurnInv, AwaitedIsUnanswered, Awaited
    <2>3. timedOutEpoch # epoch + 1
      BY <2>1, ConstantsOK DEF TakeoverInv, TimedOutIsPast
    <2> QED BY <2>2, <2>3
            DEF AcceptanceOwnsResponse, TakeoverInv, TakeoverHeld, TurnInv, PauseInv,
                AcceptanceEndsPause
  <1> QED BY <1>1, <1>2, <1>3, PTL DEF Spec
=============================================================================
