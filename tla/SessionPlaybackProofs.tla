----------------------- MODULE SessionPlaybackProofs -----------------------
(***************************************************************************)
(* What the user hears, what the host knows of it and what it tells the    *)
(* browser: proofs about the ledger, the active response and the event     *)
(* logs of SessionOrchestrator, for every number of turns, responses and   *)
(* samples.                                                                *)
(***************************************************************************)
EXTENDS SessionOrchestratorProofs

(* The samples a response counted are samples its stream produced.          *)
GeneratedIsSampled ==
    \A r \in Responses : responses[r].generated <= speech[r].samples

(* The ledger is opened by the handler of `started', and by nothing else.   *)
UnstartedIsUnplayed ==
    \A r \in Responses :
        speech[r].stream \in {"none", "open", "starting"} => ledger[r] = NoLedger

(* A responseId that was not minted has no stream.                          *)
UnusedIsSilent ==
    \A r \in Responses : responses[r].turn = None => speech[r].stream = "none"

(* A response names its playback only once the ledger is open.              *)
PlaybackIsKnown == \A r \in Responses : responses[r].playback => ledger[r].known

LedgerInv ==
    /\ TypeInv
    /\ LedgerWithinStream
    /\ GeneratedIsSampled
    /\ UnstartedIsUnplayed
    /\ UnusedIsSilent
    /\ PlaybackIsKnown

-----------------------------------------------------------------------------
(* What every step but those of the speech output does to the stream and    *)
(* the counts of a response: nothing, unless it starts the response.        *)
SameStream(r) ==
    /\ speech'[r].stream = speech[r].stream
    /\ speech'[r].samples = speech[r].samples
    /\ responses'[r].generated = responses[r].generated
    /\ responses'[r].turn = responses[r].turn
    /\ responses'[r].playback = responses[r].playback

FreshStream(r) ==
    /\ responses[r].turn = None
    /\ responses'[r].turn # None
    /\ responses'[r].generated = 0
    /\ ~responses'[r].playback
    /\ speech'[r].stream = "open"
    /\ speech'[r].samples = 0

StreamsKept == \A r \in Responses : SameStream(r) \/ FreshStream(r)

(* What a playback report does to a ledger.                                 *)
Delivered(r) ==
    \/ ledger'[r] = ledger[r]
    \/ /\ ledger[r].known
       /\ ~ledger[r].terminal
       /\ ledger'[r].known
       /\ ledger'[r].generated = ledger[r].generated
       /\ ledger'[r].delivered <= ledger[r].generated
       /\ ledger'[r].delivered >= ledger[r].delivered

(* Such steps keep the invariant, and never take a delivered extent back.   *)
LEMMA DeliveredKeeps ==
    ASSUME LedgerInv, TypeInv', StreamsKept, \A r \in Responses : Delivered(r)
    PROVE  LedgerInv' /\ DeliveryStep
  <1>1. \A r \in Responses : /\ ledger[r] \in LedgerRecord
                             /\ ledger'[r] \in LedgerRecord
                             /\ speech[r] \in StreamRecord
                             /\ speech'[r] \in StreamRecord
    BY DEF LedgerInv, TypeInv, TypeOK
  <1>2. UnstartedIsUnplayed'
    <2> SUFFICES ASSUME NEW r \in Responses,
                        speech'[r].stream \in {"none", "open", "starting"}
                 PROVE  ledger'[r] = NoLedger
      BY DEF UnstartedIsUnplayed
    <2>1. speech[r].stream \in {"none", "open", "starting"}
      BY DEF StreamsKept, SameStream, FreshStream, LedgerInv, UnusedIsSilent
    <2>2. ledger[r] = NoLedger
      BY <2>1 DEF LedgerInv, UnstartedIsUnplayed
    <2> QED BY <2>2 DEF Delivered, NoLedger
  <1>3. LedgerWithinStream'
    <2> SUFFICES ASSUME NEW r \in Responses
                 PROVE  /\ ledger'[r].delivered <= ledger'[r].generated
                        /\ ledger'[r].generated <= speech'[r].samples
      BY DEF LedgerWithinStream
    <2>1. /\ ledger[r].delivered <= ledger[r].generated
          /\ ledger[r].generated <= speech[r].samples
      BY DEF LedgerInv, LedgerWithinStream
    <2>2. /\ ledger'[r].generated = ledger[r].generated
          /\ ledger'[r].delivered <= ledger[r].generated
      BY <2>1 DEF Delivered
    <2>3. CASE SameStream(r)
      BY <2>1, <2>2, <2>3 DEF SameStream
    <2>4. CASE FreshStream(r)
      <3>1. ledger[r] = NoLedger
        BY <2>4 DEF FreshStream, LedgerInv, UnusedIsSilent, UnstartedIsUnplayed
      <3> QED BY <2>2, <2>4, <3>1 DEF FreshStream, NoLedger
    <2> QED BY <2>3, <2>4 DEF StreamsKept
  <1>4. GeneratedIsSampled' /\ UnusedIsSilent'
    BY DEF LedgerInv, GeneratedIsSampled, UnusedIsSilent, StreamsKept, SameStream,
           FreshStream
  <1>5. PlaybackIsKnown'
    BY DEF LedgerInv, PlaybackIsKnown, StreamsKept, SameStream, FreshStream, Delivered
  <1>6. DeliveryStep
    BY <1>1 DEF DeliveryStep, Delivered, LedgerRecord
  <1> QED BY <1>2, <1>3, <1>4, <1>5, <1>6 DEF LedgerInv

(* In particular a step that leaves the ledger alone.                       *)
LEMMA SameLedgerKeeps ==
    ASSUME LedgerInv, TypeInv', StreamsKept, UNCHANGED ledger
    PROVE  LedgerInv' /\ DeliveryStep
  BY DeliveredKeeps DEF Delivered

-----------------------------------------------------------------------------
(* The helpers of the class.  Cancelling touches no stream and no count.    *)
LEMMA CancelledStreams ==
    ASSUME TypeOK, NEW r \in Responses
    PROVE  /\ CancelledSpeech[r].stream = speech[r].stream
           /\ CancelledSpeech[r].samples = speech[r].samples
           /\ CancelledResponses[r].generated = responses[r].generated
           /\ CancelledResponses[r].turn = responses[r].turn
           /\ CancelledResponses[r].playback = responses[r].playback
  <1>1. responses[r] \in ResponseRecord /\ speech[r] \in StreamRecord
    BY DEF TypeOK
  <1> QED BY <1>1 DEF CancelledSpeech, CancelledResponses, ResponseRecord, StreamRecord

(* Nor does cancelActive, alone or in advanceEpochAndCancel.                *)
LEMMA CancelStreams ==
    ASSUME TypeOK, CancelActive \/ UNCHANGED <<responses, speech>>
    PROVE  StreamsKept
  BY CancelledStreams DEF CancelActive, StreamsKept, SameStream

(* resolveProvisional cancels at most.                                      *)
LEMMA ResolveStreams ==
    ASSUME TypeOK, NEW p, NEW result, NEW before, ResolveProvisional(p, result, before)
    PROVE  StreamsKept
  BY CancelStreams DEF ResolveProvisional, AdvanceEpochAndCancel

(* decideInterruption resolves a pause or leaves the response alone.        *)
LEMMA DecideStreams ==
    ASSUME TypeOK, NEW p, NEW t, DecideInterruption(p, t)
    PROVE  StreamsKept
  <1>1. \/ UNCHANGED <<responses, speech>>
        \/ ResolveProvisional([p EXCEPT !.echoRecovered = TRUE], "barge_in.rejected",
                              <<"interruption.decision">>)
    BY DEF DecideInterruption
  <1> QED BY <1>1, CancelStreams, ResolveStreams

(* The start of a response opens a stream for a new responseId only.        *)
LEMMA AnswerStreams ==
    ASSUME TypeOK, NEW t \in Turns, NEW e, NEW w, Answer(t, e, w)
    PROVE  StreamsKept
  <1>1. PICK r \in Responses :
          /\ responses[r].turn = None
          /\ responses' = [CancelledResponses EXCEPT
                             ![r] = [Unused EXCEPT !.turn = t, !.epoch = e]]
          /\ speech' = [CancelledSpeech EXCEPT ![r] = NewStream]
    BY Zenon DEF Answer
  <1>2. /\ CancelledResponses \in [Responses -> ResponseRecord]
        /\ CancelledSpeech \in [Responses -> StreamRecord]
    BY CancelledType
  <1>3. FreshStream(r)
    <2>1. /\ responses'[r] = [Unused EXCEPT !.turn = t, !.epoch = e]
          /\ speech'[r] = NewStream
      BY <1>1, <1>2
    <2>2. responses'[r].turn = t /\ responses'[r].generated = 0 /\ ~responses'[r].playback
      BY <2>1 DEF Unused
    <2>3. speech'[r].stream = "open" /\ speech'[r].samples = 0
      BY <2>1 DEF NewStream, Silent
    <2>4. t # None
      BY ConstantsOK
    <2> QED BY <1>1, <2>2, <2>3, <2>4 DEF FreshStream
  <1>4. \A s \in Responses \ {r} : SameStream(s)
    BY <1>1, <1>2, CancelledStreams DEF SameStream
  <1> QED BY <1>3, <1>4 DEF StreamsKept

(* finalizeAcceptedTakeover cancels, and may start a response.              *)
LEMMA FinalizeStreams ==
    ASSUME TypeOK, acceptance.turn \in Turns, FinalizeAcceptedTakeover
    PROVE  StreamsKept
  <1>1. \/ AdvanceEpochAndCancel
        \/ \E w : Answer(acceptance.turn, epoch + 1, w)
    BY Zenon DEF FinalizeAcceptedTakeover
  <1> QED BY <1>1, CancelStreams, AnswerStreams DEF AdvanceEpochAndCancel

(* failResponse cancels, over the streams it is given.                      *)
LEMMA FailStreams ==
    ASSUME TypeOK, NEW f \in Responses, NEW sp \in [Responses -> StreamRecord],
           FailResponse(f, sp), NEW r \in Responses
    PROVE  /\ speech'[r].stream = sp[r].stream
           /\ speech'[r].samples = sp[r].samples
           /\ responses'[r].generated = responses[r].generated
           /\ responses'[r].turn = responses[r].turn
           /\ responses'[r].playback = responses[r].playback
  <1>1. /\ speech' = [sp EXCEPT ![f].cancelled = TRUE]
        /\ responses' = [responses EXCEPT ![f].cancelled = TRUE]
    BY DEF FailResponse
  <1>2. responses[r] \in ResponseRecord /\ sp[r] \in StreamRecord
    BY DEF TypeOK
  <1> QED BY <1>1, <1>2 DEF TypeOK, ResponseRecord, StreamRecord

-----------------------------------------------------------------------------
(* The groups of actions.  Capture cancels at most.                         *)
LEMMA CaptureLedger == LedgerInv /\ Capture => LedgerInv' /\ DeliveryStep
  <1> SUFFICES ASSUME LedgerInv, Capture PROVE LedgerInv' /\ DeliveryStep
    OBVIOUS
  <1>1. TypeInv' /\ TypeOK
    BY CaptureType DEF LedgerInv, TypeInv
  <1>2. ASSUME NEW t \in Turns, HandleSpeechStart(t)
        PROVE  StreamsKept /\ UNCHANGED ledger
    <2>1. UNCHANGED ledger
      BY <1>2 DEF HandleSpeechStart
    <2>2. \/ CancelActive \/ UNCHANGED <<responses, speech>>
          \/ responses' = [responses EXCEPT ![active].phaseBefore = "playing"]
             /\ UNCHANGED speech
      BY <1>2 DEF HandleSpeechStart, AdvanceEpochAndCancel
    <2>3. CASE /\ responses' = [responses EXCEPT ![active].phaseBefore = "playing"]
               /\ UNCHANGED speech
      <3>1. responses \in [Responses -> ResponseRecord]
        BY <1>1 DEF TypeOK
      <3>2. \A r \in Responses : /\ responses'[r].generated = responses[r].generated
                                 /\ responses'[r].turn = responses[r].turn
                                 /\ responses'[r].playback = responses[r].playback
        BY <2>3, <3>1 DEF ResponseRecord
      <3>3. UNCHANGED speech
        BY <2>3
      <3> QED BY <2>1, <3>2, <3>3 DEF StreamsKept, SameStream
    <2> QED BY <1>1, <2>1, <2>2, <2>3, CancelStreams
  <1>3. ASSUME NEW t \in Turns, HandleSpeechEnd(t)
        PROVE  StreamsKept /\ UNCHANGED ledger
    BY <1>1, <1>3, CancelStreams DEF HandleSpeechEnd
  <1> QED BY <1>1, <1>2, <1>3, SameLedgerKeeps DEF Capture

(* A stable final or its verdict cancels, and may start a response.         *)
LEMMA FinalsLedger == LedgerInv /\ Finals => LedgerInv' /\ DeliveryStep
  <1> SUFFICES ASSUME LedgerInv, Finals PROVE LedgerInv' /\ DeliveryStep
    OBVIOUS
  <1>1. TypeInv' /\ TypeOK
    BY FinalsType DEF LedgerInv, TypeInv
  <1>2. ASSUME NEW t \in Turns, HandleStableFinal(t)
        PROVE  StreamsKept /\ UNCHANGED ledger
    <2>1. \/ UNCHANGED <<responses, speech>>
          \/ DecideInterruption(provisional, t)
          \/ RunPolicy(t)
      BY <1>2 DEF HandleStableFinal
    <2>2. RunPolicy(t) => \/ UNCHANGED <<responses, speech>>
                         \/ \E e, w : Answer(t, e, w)
      BY Zenon DEF RunPolicy
    <2>3. UNCHANGED ledger
      BY <1>2 DEF HandleStableFinal
    <2> QED BY <1>1, <2>1, <2>2, <2>3, CancelStreams, DecideStreams, AnswerStreams
  <1>3. ASSUME NEW t \in Turns, FinishDecision(t)
        PROVE  StreamsKept /\ UNCHANGED ledger
    <2>1. \/ UNCHANGED <<responses, speech>>
          \/ ResolveProvisional(provisional, "barge_in.rejected", <<>>)
          \/ ResolveProvisional([provisional EXCEPT !.echoRecovered = TRUE],
                                "barge_in.rejected", <<"interruption.decision">>)
          \/ AcceptTakeover(t)
      BY <1>3, Zenon DEF FinishDecision
    <2>2. AcceptTakeover(t) => CancelActive
      BY DEF AcceptTakeover
    <2>3. UNCHANGED ledger
      BY <1>3 DEF FinishDecision
    <2> QED BY <1>1, <2>1, <2>2, <2>3, CancelStreams, ResolveStreams
  <1> QED BY <1>1, <1>2, <1>3, SameLedgerKeeps DEF Finals

(* So do the timers.                                                        *)
LEMMA TimersLedger == LedgerInv /\ Timers => LedgerInv' /\ DeliveryStep
  <1> SUFFICES ASSUME LedgerInv, Timers PROVE LedgerInv' /\ DeliveryStep
    OBVIOUS
  <1>1. TypeInv' /\ TypeOK
    BY TimersType DEF LedgerInv, TypeInv
  <1>2. ASSUME AcceptanceTimeout PROVE StreamsKept /\ UNCHANGED ledger
    <2>1. acceptance.turn \in Turns
      BY <1>2 DEF AcceptanceTimeout, LedgerInv, TypeInv
    <2>2. /\ FinalizeAcceptedTakeover \/ UNCHANGED <<responses, speech>>
          /\ UNCHANGED ledger
      BY <1>2 DEF AcceptanceTimeout
    <2> QED BY <1>1, <2>1, <2>2, FinalizeStreams, CancelStreams
  <1>3. ASSUME ProvisionalTimeout PROVE StreamsKept /\ UNCHANGED ledger
    <2>1. /\ \/ UNCHANGED <<responses, speech>>
             \/ ResolveProvisional(provisional, "barge_in.timed_out", <<>>)
          /\ UNCHANGED ledger
      BY <1>3 DEF ProvisionalTimeout
    <2> QED BY <1>1, <2>1, ResolveStreams, CancelStreams
  <1> QED BY <1>1, <1>2, <1>3, SameLedgerKeeps DEF Timers

(* And the commands.                                                        *)
LEMMA ControlLedger == LedgerInv /\ Control => LedgerInv' /\ DeliveryStep
  <1> SUFFICES ASSUME LedgerInv, Control PROVE LedgerInv' /\ DeliveryStep
    OBVIOUS
  <1>1. TypeInv' /\ TypeOK
    BY ControlType DEF LedgerInv, TypeInv
  <1>2. Start \/ ConfirmBargeIn \/ CancelCurrentTurn \/ Stop
          => /\ CancelActive \/ UNCHANGED <<responses, speech>>
             /\ UNCHANGED ledger
    BY DEF Start, ConfirmBargeIn, CancelCurrentTurn, Stop, AdvanceEpochAndCancel
  <1>3. RejectBargeIn => /\ \E p, before : ResolveProvisional(p, "barge_in.rejected", before)
                         /\ UNCHANGED ledger
    BY Zenon DEF RejectBargeIn
  <1> QED BY <1>1, <1>2, <1>3, CancelStreams, ResolveStreams, SameLedgerKeeps DEF Control

(* A playback report advances the delivered extent within the generated     *)
(* one; a terminal receipt closes the ledger and may end a takeover.        *)
LEMMA BrowserLedger == LedgerInv /\ Browser => LedgerInv' /\ DeliveryStep
  <1> SUFFICES ASSUME LedgerInv, Browser PROVE LedgerInv' /\ DeliveryStep
    OBVIOUS
  <1>1. TypeInv' /\ TypeOK
    BY BrowserType DEF LedgerInv, TypeInv
  <1>2. 0..MaxSamples \subseteq Nat
    BY ConstantsOK
  <1>3. \A r \in Responses : ledger[r] \in LedgerRecord
    BY <1>1 DEF TypeOK
  <1>4. ASSUME NEW r \in Responses, NEW offset \in Nat, NEW generated \in Nat,
               PlaybackPaused(r, offset, generated) \/ PlaybackProgress(r, offset, generated)
        PROVE  LedgerInv' /\ DeliveryStep
    <2>1. /\ Reportable(r, offset, generated)
          /\ offset >= ledger[r].delivered
          /\ ledger' = [ledger EXCEPT ![r].delivered = offset]
      BY <1>3, <1>4 DEF PlaybackPaused, PlaybackProgress, LedgerRecord
    <2>2. \A s \in Responses : Delivered(s)
      BY <1>1, <1>3, <2>1 DEF Delivered, Reportable, LedgerRecord, TypeOK
    <2>3. StreamsKept
      <3>1. \/ UNCHANGED <<responses, speech>>
            \/ \E p, t : DecideInterruption(p, t)
        BY <1>4, Zenon DEF PlaybackPaused, PlaybackProgress
      <3> QED BY <1>1, <3>1, CancelStreams, DecideStreams
    <2> QED BY <1>1, <2>2, <2>3, DeliveredKeeps
  <1>5. ASSUME NEW r \in Responses, NEW offset \in Nat, NEW completed \in BOOLEAN,
               PlaybackStopped(r, offset, completed)
        PROVE  LedgerInv' /\ DeliveryStep
    <2>1. /\ ledger[r].known /\ ~ledger[r].terminal
          /\ offset <= ledger[r].generated
          /\ ledger' = [ledger EXCEPT ![r].terminal = TRUE,
                            ![r].delivered = IF offset > @ THEN offset ELSE @]
      BY <1>5 DEF PlaybackStopped
    <2>2. ledger[r].delivered <= ledger[r].generated
      BY DEF LedgerInv, LedgerWithinStream
    <2>3. \A s \in Responses : Delivered(s)
      BY <1>1, <1>3, <2>1, <2>2 DEF Delivered, LedgerRecord, TypeOK
    <2>4. StreamsKept
      <3>1. \/ acceptance.response = r /\ FinalizeAcceptedTakeover
            \/ UNCHANGED <<responses, speech>>
        BY <1>5 DEF PlaybackStopped
      <3>2. acceptance.response = r => acceptance.turn \in Turns
        BY ConstantsOK DEF LedgerInv, TypeInv
      <3> QED BY <1>1, <3>1, <3>2, CancelStreams, FinalizeStreams
    <2> QED BY <1>1, <2>3, <2>4, DeliveredKeeps
  <1> QED BY <1>2, <1>4, <1>5 DEF Browser

(* The reasoning loop feeds, commits or fails.                              *)
LEMMA ReasoningLedger == LedgerInv /\ Reasoning => LedgerInv' /\ DeliveryStep
  <1> SUFFICES ASSUME LedgerInv, Reasoning PROVE LedgerInv' /\ DeliveryStep
    OBVIOUS
  <1>1. TypeInv' /\ TypeOK
    BY ReasoningType DEF LedgerInv, TypeInv
  <1>2. PICK r \in Responses :
          PiStaleItem(r) \/ PiDelta(r) \/ PiFinal(r) \/ PiError(r) \/ PiEnd(r)
    BY DEF Reasoning
  <1>3. UNCHANGED ledger
    BY <1>2 DEF PiStaleItem, PiDelta, PiFinal, PiError, PiEnd, PiUnchanged
  <1>4. \/ UNCHANGED <<responses, speech>>
        \/ FailResponse(r, speech)
        \/ FinishReasoning(r)
        \/ UNCHANGED responses /\ speech' = [speech EXCEPT ![r].fed = TRUE]
    BY <1>2 DEF PiStaleItem, PiDelta, PiFinal, PiError, PiEnd, LongEnd, ConciseEnd
  <1>5. \A s \in Responses : responses[s] \in ResponseRecord /\ speech[s] \in StreamRecord
    BY <1>1 DEF TypeOK
  <1>6. StreamsKept
    <2>1. CASE FailResponse(r, speech)
      BY <1>1, <2>1, FailStreams DEF StreamsKept, SameStream, TypeOK
    <2>2. CASE FinishReasoning(r)
      BY <1>1, <1>5, <2>2 DEF FinishReasoning, StreamsKept, SameStream, TypeOK,
                              ResponseRecord, StreamRecord
    <2>3. CASE UNCHANGED responses /\ speech' = [speech EXCEPT ![r].fed = TRUE]
      BY <1>1, <1>5, <2>3 DEF StreamsKept, SameStream, TypeOK, StreamRecord
    <2> QED BY <1>1, <1>4, <2>1, <2>2, <2>3, CancelStreams
  <1> QED BY <1>1, <1>3, <1>6, SameLedgerKeeps

-----------------------------------------------------------------------------
(* The speech output: the ledger opens with the handler of `started', and   *)
(* follows the samples of the stream.                                       *)
LEMMA SpeechOutputLedger == LedgerInv /\ SpeechOutput => LedgerInv' /\ DeliveryStep
  <1> SUFFICES ASSUME LedgerInv, SpeechOutput PROVE LedgerInv' /\ DeliveryStep
    OBVIOUS
  <1>1. TypeInv' /\ TypeOK
    BY SpeechOutputType DEF LedgerInv, TypeInv
  <1>2. \A s \in Responses : /\ responses[s] \in ResponseRecord
                             /\ speech[s] \in StreamRecord
                             /\ ledger[s] \in LedgerRecord
    BY <1>1 DEF TypeOK
  <1>3. ASSUME NEW r \in Responses, SidecarStarted(r) PROVE LedgerInv' /\ DeliveryStep
    <2>1. /\ speech[r].stream = "open"
          /\ speech' = [speech EXCEPT ![r].stream = "starting"]
          /\ UNCHANGED <<responses, ledger>>
      BY <1>3 DEF SidecarStarted
    <2>2. \A s \in Responses :
            /\ speech'[s].samples = speech[s].samples
            /\ speech'[s].stream = IF s = r THEN "starting" ELSE speech[s].stream
      BY <1>1, <1>2, <2>1 DEF TypeOK, StreamRecord
    <2>3. UnstartedIsUnplayed' /\ UnusedIsSilent' /\ PlaybackIsKnown'
      BY <2>1, <2>2 DEF LedgerInv, UnstartedIsUnplayed, UnusedIsSilent, PlaybackIsKnown
    <2>4. LedgerWithinStream' /\ GeneratedIsSampled' /\ DeliveryStep
      BY <1>2, <2>1, <2>2 DEF LedgerInv, LedgerWithinStream, GeneratedIsSampled,
                              DeliveryStep, LedgerRecord
    <2> QED BY <1>1, <2>3, <2>4 DEF LedgerInv
  <1>4. ASSUME NEW r \in Responses, GeneratedSamples(r) PROVE LedgerInv' /\ DeliveryStep
    <2> DEFINE total == speech[r].samples + 1
    <2>1. /\ speech[r].stream \in {"starting", "playing"}
          /\ speech' = [speech EXCEPT ![r].samples = total]
          /\ responses' = [responses EXCEPT ![r].generated = total]
          /\ \/ UNCHANGED ledger
             \/ /\ responses[r].playback /\ ~ledger[r].terminal
                /\ ledger' = [ledger EXCEPT ![r].generated = total]
      BY <1>4 DEF GeneratedSamples
    <2>2. \A s \in Responses :
            /\ speech'[s].stream = speech[s].stream
            /\ speech'[s].samples = IF s = r THEN total ELSE speech[s].samples
            /\ responses'[s].turn = responses[s].turn
            /\ responses'[s].playback = responses[s].playback
            /\ responses'[s].generated = IF s = r THEN total ELSE responses[s].generated
      BY <1>1, <1>2, <2>1 DEF TypeOK, StreamRecord, ResponseRecord
    <2>3. UnusedIsSilent' /\ GeneratedIsSampled'
      BY <1>2, <2>2 DEF LedgerInv, UnusedIsSilent, GeneratedIsSampled, StreamRecord
    <2>4. /\ \A s \in Responses : /\ s # r => ledger'[s] = ledger[s]
                                  /\ ledger'[s].delivered = ledger[s].delivered
                                  /\ ledger'[s].known = ledger[s].known
          /\ ledger'[r].generated \in {ledger[r].generated, total}
          /\ ledger[r].terminal \/ ~responses[r].playback => ledger'[r] = ledger[r]
      BY <1>1, <1>2, <2>1 DEF TypeOK, LedgerRecord
    <2>5. LedgerWithinStream' /\ DeliveryStep
      BY <1>2, <2>2, <2>4 DEF LedgerInv, LedgerWithinStream, DeliveryStep, LedgerRecord,
                              StreamRecord
    <2>6. UnstartedIsUnplayed' /\ PlaybackIsKnown'
      BY <2>2, <2>4 DEF LedgerInv, UnstartedIsUnplayed, PlaybackIsKnown, NoLedger
    <2> QED BY <1>1, <2>3, <2>5, <2>6 DEF LedgerInv
  <1>5. ASSUME NEW r \in Responses, TtsStarted(r) PROVE LedgerInv' /\ DeliveryStep
    <2>1. /\ speech[r].stream = "starting"
          /\ speech' = [speech EXCEPT ![r].stream = "playing"]
          /\ \/ UNCHANGED ledger
             \/ ledger' = [ledger EXCEPT ![r] =
                             [NoLedger EXCEPT !.known = TRUE,
                                              !.generated = responses[r].generated]]
      BY <1>5 DEF TtsStarted
    <2>2. \A s \in Responses :
            /\ responses'[s].turn = responses[s].turn
            /\ responses'[s].generated = responses[s].generated
            /\ responses'[s].playback =>
                 responses[s].playback \/ (s = r /\ ledger'[s].known)
      <3>1. \/ UNCHANGED responses
            \/ /\ \/ responses' = [responses EXCEPT ![r].playback = TRUE,
                                                    ![r].phaseBefore = "playing"]
                  \/ responses' = [responses EXCEPT ![r].playback = TRUE]
               /\ ledger' = [ledger EXCEPT ![r] =
                               [NoLedger EXCEPT !.known = TRUE,
                                                !.generated = responses[r].generated]]
        BY <1>5 DEF TtsStarted
      <3>2. responses \in [Responses -> ResponseRecord] /\ ledger \in [Responses -> LedgerRecord]
        BY <1>1 DEF TypeOK
      <3>3. ledger' = [ledger EXCEPT ![r] = [NoLedger EXCEPT !.known = TRUE,
                                               !.generated = responses[r].generated]]
            => ledger'[r].known
        BY <3>2 DEF NoLedger
      <3>4. \A s \in Responses \ {r} : responses'[s] = responses[s]
        BY <3>1, <3>2
      <3>5. /\ responses'[r].turn = responses[r].turn
            /\ responses'[r].generated = responses[r].generated
        BY <3>1, <3>2 DEF ResponseRecord
      <3> QED BY <3>1, <3>3, <3>4, <3>5
    <2>3. \A s \in Responses :
            /\ speech'[s].samples = speech[s].samples
            /\ speech'[s].stream = IF s = r THEN "playing" ELSE speech[s].stream
      BY <1>1, <1>2, <2>1 DEF TypeOK, StreamRecord
    <2>4. ledger[r] = NoLedger /\ responses[r].turn # None
      BY <2>1 DEF LedgerInv, UnstartedIsUnplayed, UnusedIsSilent
    <2>5. /\ \A s \in Responses \ {r} : ledger'[s] = ledger[s]
          /\ ledger'[r].delivered = 0
          /\ ledger'[r].generated \in {0, responses[r].generated}
      <3>1. ledger \in [Responses -> LedgerRecord]
        BY <1>1 DEF TypeOK
      <3>2. CASE UNCHANGED ledger
        BY <2>4, <3>2 DEF NoLedger
      <3>3. CASE ledger' = [ledger EXCEPT ![r] =
                             [NoLedger EXCEPT !.known = TRUE,
                                              !.generated = responses[r].generated]]
        <4>1. ledger'[r] = [NoLedger EXCEPT !.known = TRUE,
                                            !.generated = responses[r].generated]
          BY <3>1, <3>3
        <4>2. \A s \in Responses \ {r} : ledger'[s] = ledger[s]
          BY <3>1, <3>3
        <4> QED BY <4>1, <4>2 DEF NoLedger
      <3> QED BY <2>1, <3>2, <3>3
    <2>6. UnstartedIsUnplayed' /\ UnusedIsSilent' /\ PlaybackIsKnown'
      <3>1. ~ledger[r].known
        BY <2>4 DEF NoLedger
      <3> QED BY <2>2, <2>3, <2>4, <2>5, <3>1
              DEF LedgerInv, UnstartedIsUnplayed, UnusedIsSilent, PlaybackIsKnown
    <2>7. GeneratedIsSampled'
      BY <2>2, <2>3 DEF LedgerInv, GeneratedIsSampled
    <2>8. LedgerWithinStream'
      BY <1>2, <2>3, <2>5 DEF LedgerInv, LedgerWithinStream, GeneratedIsSampled,
                              ResponseRecord, StreamRecord
    <2>9. DeliveryStep
      BY <1>2, <2>4, <2>5 DEF DeliveryStep, NoLedger, LedgerRecord
    <2> QED BY <1>1, <2>6, <2>7, <2>8, <2>9 DEF LedgerInv
  <1>6. ASSUME NEW r \in Responses, TtsEnded(r) PROVE LedgerInv' /\ DeliveryStep
    <2>1. /\ speech[r].stream = "playing"
          /\ speech' = [speech EXCEPT ![r].stream = "ended"]
          /\ UNCHANGED responses
          /\ \/ UNCHANGED ledger
             \/ /\ ~ledger[r].terminal
                /\ ledger' = [ledger EXCEPT ![r].generated = speech[r].samples]
      BY <1>6 DEF TtsEnded
    <2>2. \A s \in Responses :
            /\ speech'[s].samples = speech[s].samples
            /\ speech'[s].stream = IF s = r THEN "ended" ELSE speech[s].stream
      BY <1>1, <1>2, <2>1 DEF TypeOK, StreamRecord
    <2>3. /\ \A s \in Responses : /\ s # r => ledger'[s] = ledger[s]
                                  /\ ledger'[s].delivered = ledger[s].delivered
                                  /\ ledger'[s].known = ledger[s].known
          /\ ledger'[r].generated \in {ledger[r].generated, speech[r].samples}
          /\ ledger[r].terminal => ledger'[r] = ledger[r]
      BY <1>1, <1>2, <2>1 DEF TypeOK, LedgerRecord
    <2>4. /\ UnstartedIsUnplayed' /\ UnusedIsSilent'
          /\ GeneratedIsSampled' /\ PlaybackIsKnown'
      BY <2>1, <2>2, <2>3 DEF LedgerInv, UnstartedIsUnplayed, UnusedIsSilent,
                              GeneratedIsSampled, PlaybackIsKnown
    <2>5. LedgerWithinStream' /\ DeliveryStep
      BY <1>2, <2>2, <2>3 DEF LedgerInv, LedgerWithinStream, DeliveryStep, LedgerRecord,
                              StreamRecord
    <2> QED BY <1>1, <2>4, <2>5 DEF LedgerInv
  <1>7. ASSUME NEW r \in Responses, TtsFailed(r) PROVE LedgerInv' /\ DeliveryStep
    <2> DEFINE failed == [speech EXCEPT ![r].stream = "failed"]
    <2>1. /\ speech[r].stream \in {"open", "starting", "playing"}
          /\ UNCHANGED ledger
          /\ \/ FailResponse(r, failed)
             \/ speech' = failed /\ UNCHANGED responses
      BY <1>7 DEF TtsFailed
    <2>2. /\ failed \in [Responses -> StreamRecord]
          /\ \A s \in Responses :
               /\ failed[s].samples = speech[s].samples
               /\ failed[s].stream = IF s = r THEN "failed" ELSE speech[s].stream
      BY <1>1, <1>2 DEF TypeOK, StreamRecord
    <2>3. \A s \in Responses :
            /\ speech'[s].samples = speech[s].samples
            /\ speech'[s].stream = IF s = r THEN "failed" ELSE speech[s].stream
            /\ responses'[s].generated = responses[s].generated
            /\ responses'[s].turn = responses[s].turn
            /\ responses'[s].playback = responses[s].playback
      <3> HIDE DEF failed
      <3> QED BY <1>1, <2>1, <2>2, FailStreams
    <2>4. /\ UnstartedIsUnplayed' /\ UnusedIsSilent'
          /\ GeneratedIsSampled' /\ PlaybackIsKnown'
      BY <2>1, <2>3 DEF LedgerInv, UnstartedIsUnplayed, UnusedIsSilent, GeneratedIsSampled,
                        PlaybackIsKnown
    <2>5. LedgerWithinStream' /\ DeliveryStep
      BY <1>2, <2>1, <2>3 DEF LedgerInv, LedgerWithinStream, DeliveryStep, LedgerRecord
    <2> QED BY <1>1, <2>4, <2>5 DEF LedgerInv
  <1> QED BY <1>3, <1>4, <1>5, <1>6, <1>7 DEF SpeechOutput

(* A new orchestrator has no stream and no ledger.                          *)
LEMMA InitLedger == Init => LedgerInv
  BY InitType DEF Init, LedgerInv, LedgerWithinStream, GeneratedIsSampled,
     UnstartedIsUnplayed, UnusedIsSilent, PlaybackIsKnown, NoLedger, Silent, Unused

(* Every step keeps the invariant.                                          *)
LEMMA LedgerStep == LedgerInv /\ [Next]_vars => LedgerInv' /\ (DeliveryStep \/ UNCHANGED vars)
  <1>1. ASSUME LedgerInv, UNCHANGED vars PROVE LedgerInv'
    <2>1. TypeInv'
      BY <1>1, UnchangedType DEF LedgerInv
    <2> QED BY <1>1, <2>1 DEF vars, LedgerInv, LedgerWithinStream, GeneratedIsSampled,
                              UnstartedIsUnplayed, UnusedIsSilent, PlaybackIsKnown
  <1> QED BY <1>1, CaptureLedger, FinalsLedger, TimersLedger, ControlLedger, BrowserLedger,
             ReasoningLedger, SpeechOutputLedger DEF Next

(* However PCM, the handler of `started', playback reports and failures     *)
(* interleave, a ledger never claims more than the stream produced, nor     *)
(* more delivered than generated.                                           *)
THEOREM LedgerBounded == Spec => []LedgerWithinStream
  <1>1. LedgerInv => LedgerWithinStream
    BY DEF LedgerInv
  <1> QED BY InitLedger, LedgerStep, <1>1, PTL DEF Spec

(* What was delivered to the user is never taken back, and a terminal       *)
(* receipt is the last word: no late sample, report or `started' reopens    *)
(* the playback.                                                            *)
THEOREM DeliveryNeverUndone == Spec => DeliveryMonotone
  <1>1. LedgerInv /\ [Next]_vars => LedgerInv' /\ [DeliveryStep]_vars
    BY LedgerStep
  <1> QED BY InitLedger, <1>1, PTL DEF Spec, DeliveryMonotone

-----------------------------------------------------------------------------
(* One audible response.  Whatever a step makes of the active response, one *)
(* that is not active after it keeps its abort signal, and the one that was *)
(* active before it is aborted or was reported over.                        *)
Handover ==
    \A r \in Responses :
        r # active' =>
            /\ responses'[r].turn = responses[r].turn
            /\ responses[r].cancelled => responses'[r].cancelled
            /\ r = active => responses'[r].cancelled \/ ledger'[r].terminal

(* Such a step keeps the property.                                          *)
LEMMA HandoverKeeps ==
    ASSUME OnlyActiveIsAudible, DeliveryStep, Handover
    PROVE  OnlyActiveIsAudible'
  <1> SUFFICES ASSUME NEW r \in Responses, responses'[r].turn # None, r # active'
               PROVE  responses'[r].cancelled \/ ledger'[r].terminal
    BY DEF OnlyActiveIsAudible
  <1>1. CASE r = active
    BY <1>1 DEF Handover
  <1>2. CASE r # active
    BY <1>2 DEF Handover, OnlyActiveIsAudible, DeliveryStep
  <1> QED BY <1>1, <1>2

(* A handler that keeps the active response, or cancels it, does so.        *)
LEMMA CancelHandover ==
    ASSUME TypeOK,
           \/ UNCHANGED <<active, responses>>
           \/ AdvanceEpochAndCancel
           \/ CancelActive /\ UNCHANGED active
    PROVE  Handover
  <1>1. CASE UNCHANGED <<active, responses>>
    BY <1>1 DEF Handover
  <1>2. CASE responses' = CancelledResponses
    <2>1. \A r \in Responses : /\ responses'[r].turn = responses[r].turn
                               /\ responses'[r].cancelled
                                    = (responses[r].cancelled \/ r = active)
      <3>1. \A r \in Responses : responses[r] \in ResponseRecord
        BY DEF TypeOK
      <3> QED BY <1>2, <3>1 DEF CancelledResponses, ResponseRecord
    <2> QED BY <2>1 DEF Handover
  <1> QED BY <1>1, <1>2 DEF AdvanceEpochAndCancel, CancelActive

(* resolveProvisional resumes the active response or gives it up.           *)
LEMMA ResolveHandover ==
    ASSUME TypeOK, NEW p, NEW result, NEW before, ResolveProvisional(p, result, before)
    PROVE  Handover
  BY CancelHandover DEF ResolveProvisional

(* So does decideInterruption.                                              *)
LEMMA DecideHandover ==
    ASSUME TypeOK, NEW p, NEW t, DecideInterruption(p, t)
    PROVE  Handover
  <1>1. \/ UNCHANGED <<active, responses>>
        \/ ResolveProvisional([p EXCEPT !.echoRecovered = TRUE], "barge_in.rejected",
                              <<"interruption.decision">>)
    BY DEF DecideInterruption
  <1> QED BY <1>1, CancelHandover, ResolveHandover

(* A new response supersedes the active one and cancels it.                 *)
LEMMA AnswerHandover ==
    ASSUME TypeOK, NEW t \in Turns, NEW e, NEW w, Answer(t, e, w)
    PROVE  Handover
  <1>1. PICK r \in Responses :
          /\ active' = r
          /\ responses' = [CancelledResponses EXCEPT
                             ![r] = [Unused EXCEPT !.turn = t, !.epoch = e]]
    BY Zenon DEF Answer
  <1>2. CancelledResponses \in [Responses -> ResponseRecord]
    BY CancelledType
  <1>3. \A s \in Responses \ {r} : responses'[s] = CancelledResponses[s]
    BY <1>1, <1>2
  <1>4. \A s \in Responses : /\ CancelledResponses[s].turn = responses[s].turn
                             /\ CancelledResponses[s].cancelled
                                  = (responses[s].cancelled \/ s = active)
    <2>1. \A s \in Responses : responses[s] \in ResponseRecord
      BY DEF TypeOK
    <2> QED BY <2>1 DEF CancelledResponses, ResponseRecord
  <1> QED BY <1>1, <1>3, <1>4 DEF Handover

(* An accepted takeover cancels the response it interrupted, and may start  *)
(* another.                                                                 *)
LEMMA FinalizeHandover ==
    ASSUME TypeOK, acceptance.turn \in Turns, FinalizeAcceptedTakeover
    PROVE  Handover
  <1>1. \/ AdvanceEpochAndCancel
        \/ \E w : Answer(acceptance.turn, epoch + 1, w)
    BY Zenon DEF FinalizeAcceptedTakeover
  <1> QED BY <1>1, CancelHandover, AnswerHandover

(* failResponse cancels the response it fails.                              *)
LEMMA FailHandover ==
    ASSUME TypeOK, NEW f \in Responses, NEW sp, FailResponse(f, sp)
    PROVE  Handover
  <1>1. /\ responses' = [responses EXCEPT ![f].cancelled = TRUE]
        /\ active' = active \/ active = f
    BY DEF FailResponse
  <1>2. responses \in [Responses -> ResponseRecord]
    BY DEF TypeOK
  <1>3. \A r \in Responses : /\ responses'[r].turn = responses[r].turn
                             /\ responses'[r].cancelled = (responses[r].cancelled \/ r = f)
    BY <1>1, <1>2 DEF ResponseRecord
  <1> QED BY <1>1, <1>3 DEF Handover

(* Every step hands the active response over.                               *)
LEMMA NextHandover == LedgerInv /\ Next => Handover
  <1> SUFFICES ASSUME LedgerInv, Next PROVE Handover
    OBVIOUS
  <1>1. TypeOK
    BY DEF LedgerInv, TypeInv
  <1>2. \A r \in Responses : responses[r] \in ResponseRecord
    BY <1>1 DEF TypeOK
  <1>3. ASSUME NEW r \in Responses,
               \A s \in Responses \ {r} : responses'[s] = responses[s],
               responses'[r].turn = responses[r].turn,
               responses'[r].cancelled = responses[r].cancelled,
               UNCHANGED active
        PROVE  Handover
    BY <1>3 DEF Handover
  <1>4. CASE Capture
    <2>1. PICK t \in Turns : HandleSpeechStart(t) \/ HandleSpeechEnd(t)
      BY <1>4 DEF Capture
    <2>2. \/ AdvanceEpochAndCancel
          \/ UNCHANGED <<active, responses>>
          \/ /\ active # None
             /\ responses' = [responses EXCEPT ![active].phaseBefore = "playing"]
             /\ UNCHANGED active
      BY <2>1 DEF HandleSpeechStart, HandleSpeechEnd
    <2>3. CASE /\ active # None
               /\ responses' = [responses EXCEPT ![active].phaseBefore = "playing"]
               /\ UNCHANGED active
      <3>1. active \in Responses /\ responses \in [Responses -> ResponseRecord]
        BY <1>1, <2>3 DEF TypeOK
      <3>2. /\ \A s \in Responses \ {active} : responses'[s] = responses[s]
            /\ responses'[active].turn = responses[active].turn
            /\ responses'[active].cancelled = responses[active].cancelled
        BY <2>3, <3>1 DEF ResponseRecord
      <3> QED BY <1>3, <2>3, <3>1, <3>2
    <2> QED BY <1>1, <2>2, <2>3, CancelHandover
  <1>5. CASE Finals
    <2>1. ASSUME NEW t \in Turns, HandleStableFinal(t) PROVE Handover
      <3>1. \/ UNCHANGED <<active, responses>>
            \/ DecideInterruption(provisional, t)
            \/ RunPolicy(t)
        BY <2>1 DEF HandleStableFinal
      <3>2. RunPolicy(t) => \/ UNCHANGED <<active, responses>>
                           \/ \E e, w : Answer(t, e, w)
        BY Zenon DEF RunPolicy
      <3> QED BY <1>1, <3>1, <3>2, CancelHandover, DecideHandover, AnswerHandover
    <2>2. ASSUME NEW t \in Turns, FinishDecision(t) PROVE Handover
      <3>1. \/ UNCHANGED <<active, responses>>
            \/ ResolveProvisional(provisional, "barge_in.rejected", <<>>)
            \/ ResolveProvisional([provisional EXCEPT !.echoRecovered = TRUE],
                                  "barge_in.rejected", <<"interruption.decision">>)
            \/ AcceptTakeover(t)
        BY <2>2, Zenon DEF FinishDecision
      <3>2. AcceptTakeover(t) => CancelActive /\ UNCHANGED active
        BY DEF AcceptTakeover
      <3> QED BY <1>1, <3>1, <3>2, CancelHandover, ResolveHandover
    <2> QED BY <1>5, <2>1, <2>2 DEF Finals
  <1>6. CASE Timers
    <2>1. AcceptanceTimeout => acceptance.turn \in Turns
      BY DEF AcceptanceTimeout, LedgerInv, TypeInv
    <2>2. AcceptanceTimeout => FinalizeAcceptedTakeover \/ UNCHANGED <<active, responses>>
      BY DEF AcceptanceTimeout
    <2>3. ProvisionalTimeout => \/ UNCHANGED <<active, responses>>
                               \/ ResolveProvisional(provisional, "barge_in.timed_out", <<>>)
      BY DEF ProvisionalTimeout
    <2> QED BY <1>1, <1>6, <2>1, <2>2, <2>3, CancelHandover, FinalizeHandover,
               ResolveHandover DEF Timers
  <1>7. CASE Control
    <2>1. Start \/ ConfirmBargeIn \/ CancelCurrentTurn \/ Stop
            => AdvanceEpochAndCancel \/ UNCHANGED <<active, responses>>
      BY DEF Start, ConfirmBargeIn, CancelCurrentTurn, Stop
    <2>2. RejectBargeIn => \E p, before : ResolveProvisional(p, "barge_in.rejected", before)
      BY Zenon DEF RejectBargeIn
    <2> QED BY <1>1, <1>7, <2>1, <2>2, CancelHandover, ResolveHandover DEF Control
  <1>8. CASE Browser
    <2>1. ASSUME NEW r \in Responses, NEW offset, NEW generated,
                 PlaybackPaused(r, offset, generated) \/ PlaybackProgress(r, offset, generated)
          PROVE  Handover
      <3>1. \/ UNCHANGED <<active, responses>>
            \/ \E p, t : DecideInterruption(p, t)
        BY <2>1, Zenon DEF PlaybackPaused, PlaybackProgress
      <3> QED BY <1>1, <3>1, CancelHandover, DecideHandover
    <2>2. ASSUME NEW r \in Responses, NEW offset, NEW completed,
                 PlaybackStopped(r, offset, completed)
          PROVE  Handover
      <3>1. \/ acceptance.response = r /\ FinalizeAcceptedTakeover
            \/ UNCHANGED responses /\ active' \in {active, None} /\ active \in {active', r}
        BY <2>2 DEF PlaybackStopped
      <3>2. acceptance.response = r => acceptance.turn \in Turns
        BY ConstantsOK DEF LedgerInv, TypeInv
      <3>3. ledger'[r].terminal
        <4>1. ledger \in [Responses -> LedgerRecord]
          BY <1>1 DEF TypeOK
        <4>2. ledger' = [ledger EXCEPT ![r].terminal = TRUE,
                            ![r].delivered = IF offset > @ THEN offset ELSE @]
          BY <2>2 DEF PlaybackStopped
        <4> QED BY <4>1, <4>2 DEF LedgerRecord
      <3>4. CASE UNCHANGED responses /\ active' \in {active, None} /\ active \in {active', r}
        BY <3>3, <3>4 DEF Handover
      <3> QED BY <1>1, <3>1, <3>2, <3>4, FinalizeHandover
    <2> QED BY <1>8, <2>1, <2>2 DEF Browser
  <1>9. CASE Reasoning
    <2>1. PICK r \in Responses :
            PiStaleItem(r) \/ PiDelta(r) \/ PiFinal(r) \/ PiError(r) \/ PiEnd(r)
      BY <1>9 DEF Reasoning
    <2>2. \/ UNCHANGED <<active, responses>>
          \/ FailResponse(r, speech)
          \/ responses' = [responses EXCEPT ![r].text = TRUE] /\ UNCHANGED active
      BY <2>1 DEF PiStaleItem, PiDelta, PiFinal, PiError, PiEnd, LongEnd, ConciseEnd,
                  FinishReasoning
    <2>3. CASE responses' = [responses EXCEPT ![r].text = TRUE] /\ UNCHANGED active
      <3>1. responses \in [Responses -> ResponseRecord]
        BY <1>1 DEF TypeOK
      <3>2. /\ \A s \in Responses \ {r} : responses'[s] = responses[s]
            /\ responses'[r].turn = responses[r].turn
            /\ responses'[r].cancelled = responses[r].cancelled
        BY <2>3, <3>1 DEF ResponseRecord
      <3> QED BY <1>3, <2>3, <3>2
    <2> QED BY <1>1, <2>2, <2>3, CancelHandover, FailHandover
  <1>10. CASE SpeechOutput
    <2>1. PICK r \in Responses : \/ SidecarStarted(r) \/ GeneratedSamples(r)
                                 \/ TtsStarted(r) \/ TtsEnded(r) \/ TtsFailed(r)
      BY <1>10 DEF SpeechOutput
    <2>2. CASE TtsFailed(r)
      <3>1. \/ \E sp : FailResponse(r, sp)
            \/ UNCHANGED <<active, responses>>
        BY <2>2, Zenon DEF TtsFailed
      <3> QED BY <1>1, <3>1, CancelHandover, FailHandover
    <2>3. CASE SidecarStarted(r) \/ GeneratedSamples(r) \/ TtsStarted(r) \/ TtsEnded(r)
      <3>1. /\ UNCHANGED active
            /\ \/ UNCHANGED responses
               \/ \E n : responses' = [responses EXCEPT ![r].generated = n]
               \/ responses' = [responses EXCEPT ![r].playback = TRUE,
                                                 ![r].phaseBefore = "playing"]
               \/ responses' = [responses EXCEPT ![r].playback = TRUE]
        BY <2>3 DEF SidecarStarted, GeneratedSamples, TtsStarted, TtsEnded
      <3>2. responses \in [Responses -> ResponseRecord]
        BY <1>1 DEF TypeOK
      <3>3. /\ \A s \in Responses \ {r} : responses'[s] = responses[s]
            /\ responses'[r].turn = responses[r].turn
            /\ responses'[r].cancelled = responses[r].cancelled
        BY <3>1, <3>2 DEF ResponseRecord
      <3> QED BY <1>3, <3>1, <3>3
    <2> QED BY <2>1, <2>2, <2>3
  <1> QED BY <1>4, <1>5, <1>6, <1>7, <1>8, <1>9, <1>10 DEF Next

(* Two responses are never audible together, however finals, verdicts,      *)
(* failures and receipts interleave: one that is no longer active was       *)
(* aborted, or its playback was over.                                       *)
THEOREM OneAudible == Spec => []OnlyActiveIsAudible
  <1>1. Init => OnlyActiveIsAudible
    BY DEF Init, OnlyActiveIsAudible, Unused
  <1>2. LedgerInv /\ OnlyActiveIsAudible /\ [Next]_vars => OnlyActiveIsAudible'
    <2>1. UNCHANGED vars /\ OnlyActiveIsAudible => OnlyActiveIsAudible'
      BY DEF vars, OnlyActiveIsAudible
    <2>2. LedgerInv /\ Next => DeliveryStep
      BY CaptureLedger, FinalsLedger, TimersLedger, ControlLedger, BrowserLedger,
         ReasoningLedger, SpeechOutputLedger DEF Next
    <2> QED BY <2>1, <2>2, NextHandover, HandoverKeeps
  <1> QED BY InitLedger, LedgerStep, <1>1, <1>2, PTL DEF Spec

-----------------------------------------------------------------------------
(* What enters the context of the conversation: only what the user heard in*)
(* full, over the invariants of the pause and of the ledger.               *)

Heard(r) ==
    /\ ledger[r].terminal
    /\ ledger[r].delivered = speech[r].samples
    /\ speech[r].stream = "ended"
    /\ ~responses[r].cancelled

(* Per response: what is in the context was heard, and its reasoning loop is *)
(* over, so that no failure of it can come; a response that is being given   *)
(* has its ledger from the start of its playback, and in full at its end.    *)
Settled(r) ==
    /\ r \in context => Heard(r) /\ responses[r].text
    /\ responses[r].text => pi[r] = "done"
    /\ active = r /\ ~responses[r].cancelled =>
         /\ speech[r].stream \in {"playing", "ended"} => ledger[r].known
         /\ speech[r].stream = "ended" => ledger[r].generated = speech[r].samples

ContextInv == PauseInv /\ LedgerInv /\ \A r \in Responses : Settled(r)

-----------------------------------------------------------------------------
(* What a step does to a response it is not about: it may abort the active   *)
(* one, and start a new one.                                                *)
SameLife(r) ==
    /\ responses'[r].text = responses[r].text
    /\ \/ responses'[r].cancelled = responses[r].cancelled
       \/ active = r /\ responses'[r].cancelled
    /\ speech'[r].stream = speech[r].stream
    /\ speech'[r].samples = speech[r].samples
    /\ pi[r] = "done" => pi'[r] = "done"
    /\ active' = r => active = r

NewLife(r) ==
    /\ responses[r].turn = None
    /\ ~responses'[r].text
    /\ speech'[r].stream = "open"

SameReport(r) ==
    \/ ledger'[r] = ledger[r]
    \/ /\ ~ledger[r].terminal
       /\ ledger'[r].known = ledger[r].known
       /\ ledger'[r].generated = ledger[r].generated

Kept(r) == (SameLife(r) \/ NewLife(r)) /\ SameReport(r)

LEMMA KeptSettles ==
    ASSUME ContextInv, NEW r \in Responses, Kept(r), r \in context' => r \in context
    PROVE  Settled(r)'
  <1>1. Settled(r)
    BY DEF ContextInv
  <1>2. CASE NewLife(r)
    <2>1. r \notin context
      BY <1>1, <1>2 DEF NewLife, Settled, Heard, ContextInv, LedgerInv, UnusedIsSilent
    <2> QED BY <1>2, <2>1 DEF NewLife, Settled
  <1>3. CASE SameLife(r)
    <2>1. r \in context => active # r /\ ledger'[r] = ledger[r]
      BY <1>1, ConstantsOK
         DEF Kept, SameReport, Settled, Heard, ContextInv, PauseInv, ActiveIsCurrent
    <2>2. r \in context' => Heard(r)' /\ responses'[r].text
      BY <1>1, <1>3, <2>1 DEF SameLife, Settled, Heard
    <2>3. responses'[r].text => pi'[r] = "done"
      BY <1>1, <1>3 DEF SameLife, Settled
    <2>4. ASSUME active' = r, ~responses'[r].cancelled
          PROVE  /\ speech'[r].stream \in {"playing", "ended"} => ledger'[r].known
                 /\ speech'[r].stream = "ended" =>
                      ledger'[r].generated = speech'[r].samples
      <3>1. active = r /\ ~responses[r].cancelled
        BY <1>3, <2>4 DEF SameLife
      <3> QED BY <1>1, <1>3, <3>1 DEF SameLife, Settled, Kept, SameReport
    <2> QED BY <2>2, <2>3, <2>4 DEF Settled
  <1> QED BY <1>2, <1>3 DEF Kept

(* A step that is about no response, or about x only.                        *)
LEMMA QuietContext ==
    ASSUME ContextInv, PauseInv', LedgerInv', \A r \in Responses : Kept(r),
           context' \subseteq context
    PROVE  ContextInv'
  <1>1. \A r \in Responses : Settled(r)'
    BY KeptSettles
  <1> QED BY <1>1 DEF ContextInv

LEMMA OneContext ==
    ASSUME ContextInv, PauseInv', LedgerInv', NEW x \in Responses,
           \A r \in Responses \ {x} : Kept(r),
           context' \subseteq context \cup {x}, Settled(x)'
    PROVE  ContextInv'
  <1>1. \A r \in Responses \ {x} : Settled(r)'
    BY KeptSettles
  <1> QED BY <1>1 DEF ContextInv

-----------------------------------------------------------------------------
(* The helpers of the class.                                                *)
LEMMA CancelLives ==
    ASSUME TypeOK, CancelActive \/ UNCHANGED <<responses, speech>>,
           active' \in {active, None}, UNCHANGED pi, NEW r \in Responses
    PROVE  SameLife(r)
  <1>1. responses[r] \in ResponseRecord /\ speech[r] \in StreamRecord
    BY DEF TypeOK
  <1>2. active' = r => active = r
    BY ConstantsOK
  <1>3. CASE CancelActive
    BY <1>1, <1>2, <1>3 DEF CancelActive, CancelledResponses, CancelledSpeech, SameLife,
                            ResponseRecord, StreamRecord
  <1> QED BY <1>2, <1>3 DEF SameLife

LEMMA ResolveLives ==
    ASSUME TypeOK, NEW p, NEW result, NEW before, ResolveProvisional(p, result, before),
           UNCHANGED pi, NEW r \in Responses
    PROVE  SameLife(r)
  BY CancelLives DEF ResolveProvisional, AdvanceEpochAndCancel

LEMMA DecideLives ==
    ASSUME TypeOK, NEW p, NEW t, DecideInterruption(p, t), UNCHANGED pi, NEW r \in Responses
    PROVE  SameLife(r)
  <1>1. \/ UNCHANGED <<active, responses, speech>>
        \/ ResolveProvisional([p EXCEPT !.echoRecovered = TRUE], "barge_in.rejected",
                              <<"interruption.decision">>)
    BY DEF DecideInterruption
  <1> QED BY <1>1, CancelLives, ResolveLives

LEMMA AnswerLives ==
    ASSUME TypeOK, NEW t \in Turns, NEW e, NEW w, Answer(t, e, w), NEW r \in Responses
    PROVE  SameLife(r) \/ NewLife(r)
  <1>1. PICK s \in Responses :
          /\ responses[s].turn = None
          /\ active' = s
          /\ responses' = [CancelledResponses EXCEPT
                             ![s] = [Unused EXCEPT !.turn = t, !.epoch = e]]
          /\ speech' = [CancelledSpeech EXCEPT ![s] = NewStream]
          /\ pi' = [pi EXCEPT ![s] = "streaming"]
    BY Zenon DEF Answer
  <1>2. /\ CancelledResponses \in [Responses -> ResponseRecord]
        /\ CancelledSpeech \in [Responses -> StreamRecord]
        /\ pi \in [Responses -> {"idle", "streaming", "final", "duplicate", "done"}]
    BY CancelledType DEF TypeOK
  <1>3. CASE r = s
    <2>1. responses'[r] = [Unused EXCEPT !.turn = t, !.epoch = e] /\ speech'[r] = NewStream
      BY <1>1, <1>2, <1>3
    <2>2. ~responses'[r].text /\ speech'[r].stream = "open"
      BY <2>1 DEF Unused, NewStream, Silent
    <2> QED BY <1>1, <1>3, <2>2 DEF NewLife
  <1>4. CASE r # s
    <2>1. /\ responses'[r] = CancelledResponses[r]
          /\ speech'[r] = CancelledSpeech[r]
          /\ pi'[r] = pi[r]
      BY <1>1, <1>2, <1>4
    <2>2. responses[r] \in ResponseRecord /\ speech[r] \in StreamRecord
      BY DEF TypeOK
    <2> QED BY <1>1, <1>4, <2>1, <2>2
            DEF CancelledResponses, CancelledSpeech, SameLife, ResponseRecord, StreamRecord
  <1> QED BY <1>3, <1>4

LEMMA FinalizeLives ==
    ASSUME TypeOK, acceptance.turn \in Turns, FinalizeAcceptedTakeover, NEW r \in Responses
    PROVE  SameLife(r) \/ NewLife(r)
  <1>1. \/ AdvanceEpochAndCancel /\ UNCHANGED pi
        \/ \E w : Answer(acceptance.turn, epoch + 1, w)
    BY Zenon DEF FinalizeAcceptedTakeover
  <1> QED BY <1>1, CancelLives, AnswerLives DEF AdvanceEpochAndCancel

(* failResponse(f), for a response that is not in the context.               *)
LEMMA FailContext ==
    ASSUME ContextInv, PauseInv', LedgerInv', NEW f \in Responses, f \notin context,
           NEW sp \in [Responses -> StreamRecord], FailResponse(f, sp),
           \A r \in Responses \ {f} : sp[r] = speech[r],
           \A r \in Responses : pi'[r] = pi[r] \/ (r = f /\ pi'[r] = "done"),
           UNCHANGED <<ledger, context>>
    PROVE  ContextInv'
  <1>1. /\ TypeOK
        /\ responses[f] \in ResponseRecord
        /\ active \in Responses \cup {None}
    BY DEF ContextInv, PauseInv, TypeInv, TypeOK
  <1>2. /\ responses' = [responses EXCEPT ![f].cancelled = TRUE]
        /\ speech' = [sp EXCEPT ![f].cancelled = TRUE]
        /\ active' \in {active, None}
    BY DEF FailResponse
  <1>3. \A r \in Responses \ {f} : Kept(r)
    BY <1>1, <1>2, ConstantsOK DEF Kept, SameLife, SameReport, TypeOK
  <1>4. responses'[f].cancelled /\ responses'[f].text = responses[f].text
    BY <1>1, <1>2 DEF TypeOK, ResponseRecord
  <1>5. Settled(f)'
    BY <1>4 DEF ContextInv, Settled
  <1> QED BY <1>3, <1>5, OneContext

-----------------------------------------------------------------------------
(* The groups of actions.  Most are about no response.                       *)
LEMMA CaptureContext == ContextInv /\ Capture => ContextInv'
  <1> SUFFICES ASSUME ContextInv, Capture PROVE ContextInv'
    OBVIOUS
  <1>1. PauseInv' /\ LedgerInv'
    BY CapturePause, CaptureLedger DEF ContextInv
  <1>2. TypeOK /\ UNCHANGED <<ledger, context, pi>>
    BY DEF ContextInv, PauseInv, TypeInv, Capture, HandleSpeechStart, HandleSpeechEnd
  <1>3. CASE AdvanceEpochAndCancel \/ UNCHANGED <<active, responses, speech>>
    <2>1. \A r \in Responses : SameLife(r)
      BY <1>2, <1>3, CancelLives DEF AdvanceEpochAndCancel
    <2> QED BY <1>1, <1>2, <2>1, QuietContext DEF Kept, SameReport
  <1>4. CASE /\ responses' = [responses EXCEPT ![active].phaseBefore = "playing"]
             /\ UNCHANGED <<active, speech>>
    <2>1. \A r \in Responses : /\ responses'[r].text = responses[r].text
                               /\ responses'[r].cancelled = responses[r].cancelled
      <3>1. \A r \in Responses : responses[r] \in ResponseRecord
        BY <1>2 DEF TypeOK
      <3> QED BY <1>2, <1>4, <3>1 DEF TypeOK, ResponseRecord
    <2> QED BY <1>1, <1>2, <1>4, <2>1, QuietContext DEF Kept, SameLife, SameReport
  <1> QED BY <1>3, <1>4 DEF Capture, HandleSpeechStart, HandleSpeechEnd

LEMMA FinalsContext == ContextInv /\ Finals => ContextInv'
  <1> SUFFICES ASSUME ContextInv, Finals PROVE ContextInv'
    OBVIOUS
  <1>1. PauseInv' /\ LedgerInv'
    BY FinalsPause, FinalsLedger DEF ContextInv
  <1>2. TypeOK /\ UNCHANGED <<ledger, context>>
    BY DEF ContextInv, PauseInv, TypeInv, Finals, HandleStableFinal, FinishDecision
  <1>3. SUFFICES \A r \in Responses : SameLife(r) \/ NewLife(r)
    BY <1>1, <1>2, QuietContext DEF Kept, SameReport
  <1>4. ASSUME NEW t \in Turns, HandleStableFinal(t), NEW r \in Responses
        PROVE  SameLife(r) \/ NewLife(r)
    <2>1. \/ UNCHANGED <<active, responses, speech, pi>>
          \/ DecideInterruption(provisional, t) /\ UNCHANGED pi
          \/ RunPolicy(t)
      BY <1>4 DEF HandleStableFinal
    <2> QED BY <1>2, <2>1, CancelLives, DecideLives, AnswerLives DEF RunPolicy
  <1>5. ASSUME NEW t \in Turns, FinishDecision(t), NEW r \in Responses
        PROVE  SameLife(r) \/ NewLife(r)
    <2>1. UNCHANGED pi
      BY <1>5 DEF FinishDecision
    <2>2. \/ UNCHANGED <<active, responses, speech>>
          \/ \E p, result, before : ResolveProvisional(p, result, before)
          \/ CancelActive /\ UNCHANGED active
      BY <1>5 DEF FinishDecision, AcceptTakeover
    <2> QED BY <1>2, <2>1, <2>2, CancelLives, ResolveLives
  <1> QED BY <1>4, <1>5 DEF Finals

LEMMA TimersContext == ContextInv /\ Timers => ContextInv'
  <1> SUFFICES ASSUME ContextInv, Timers PROVE ContextInv'
    OBVIOUS
  <1>1. PauseInv' /\ LedgerInv'
    BY TimersPause, TimersLedger DEF ContextInv
  <1>2. TypeOK /\ UNCHANGED <<ledger, context>>
    BY DEF ContextInv, PauseInv, TypeInv, Timers, AcceptanceTimeout, ProvisionalTimeout
  <1>3. SUFFICES \A r \in Responses : SameLife(r) \/ NewLife(r)
    BY <1>1, <1>2, QuietContext DEF Kept, SameReport
  <1>4. ASSUME AcceptanceTimeout, NEW r \in Responses PROVE SameLife(r) \/ NewLife(r)
    <2>1. acceptance.turn \in Turns
      BY <1>4 DEF AcceptanceTimeout, ContextInv, PauseInv, TypeInv
    <2> QED BY <1>2, <1>4, <2>1, CancelLives, FinalizeLives DEF AcceptanceTimeout
  <1>5. ASSUME ProvisionalTimeout, NEW r \in Responses PROVE SameLife(r) \/ NewLife(r)
    BY <1>2, <1>5, CancelLives, ResolveLives DEF ProvisionalTimeout
  <1> QED BY <1>4, <1>5 DEF Timers

LEMMA ControlContext == ContextInv /\ Control => ContextInv'
  <1> SUFFICES ASSUME ContextInv, Control PROVE ContextInv'
    OBVIOUS
  <1>1. PauseInv' /\ LedgerInv'
    BY ControlPause, ControlLedger DEF ContextInv
  <1>2. TypeOK /\ UNCHANGED <<ledger, pi>> /\ context' \subseteq context
    BY DEF ContextInv, PauseInv, TypeInv, Control, Start, ConfirmBargeIn, RejectBargeIn,
           CancelCurrentTurn, Stop
  <1>3. \/ AdvanceEpochAndCancel
        \/ \E p, result, before : ResolveProvisional(p, result, before)
        \/ UNCHANGED <<active, responses, speech>>
    BY DEF Control, Start, ConfirmBargeIn, RejectBargeIn, CancelCurrentTurn, Stop
  <1>4. \A r \in Responses : SameLife(r)
    BY <1>2, <1>3, CancelLives, ResolveLives DEF AdvanceEpochAndCancel
  <1> QED BY <1>1, <1>2, <1>4, QuietContext DEF Kept, SameReport

(* A report advances a playback; the terminal one may put its response in    *)
(* the context: it is the active one, its stream ended and its text is       *)
(* complete, so the extent reported is all there was.                        *)
LEMMA BrowserContext == ContextInv /\ Browser => ContextInv'
  <1> SUFFICES ASSUME ContextInv, Browser PROVE ContextInv'
    OBVIOUS
  <1>1. PauseInv' /\ LedgerInv'
    BY BrowserPause, BrowserLedger DEF ContextInv
  <1>2. /\ TypeOK
        /\ active \in Responses \cup {None}
        /\ \A r \in Responses : ledger[r] \in LedgerRecord
    BY DEF ContextInv, PauseInv, TypeInv, TypeOK
  <1>3. ASSUME NEW r \in Responses, ~ledger[r].terminal, NEW n,
               \/ ledger' = [ledger EXCEPT ![r].delivered = n]
               \/ ledger' = [ledger EXCEPT ![r].terminal = TRUE, ![r].delivered = n]
        PROVE  \A s \in Responses : SameReport(s)
    <2>1. /\ ledger'[r].known = ledger[r].known
          /\ ledger'[r].generated = ledger[r].generated
      BY <1>2, <1>3 DEF TypeOK, LedgerRecord
    <2>2. \A s \in Responses \ {r} : ledger'[s] = ledger[s]
      BY <1>2, <1>3 DEF TypeOK
    <2> QED BY <1>3, <2>1, <2>2 DEF SameReport
  <1>4. ASSUME NEW r \in Responses, NEW offset, NEW generated,
               PlaybackPaused(r, offset, generated)
        PROVE  ContextInv'
    <2>1. \A s \in Responses : SameReport(s)
      BY <1>3, <1>4 DEF PlaybackPaused, Reportable
    <2>2. UNCHANGED <<context, pi>>
      BY <1>4 DEF PlaybackPaused
    <2>3. \/ UNCHANGED <<active, responses, speech>>
          \/ \E p, t : DecideInterruption(p, t)
      BY <1>4 DEF PlaybackPaused
    <2>4. \A s \in Responses : SameLife(s)
      BY <1>2, <2>2, <2>3, CancelLives, DecideLives
    <2> QED BY <1>1, <2>1, <2>2, <2>4, QuietContext DEF Kept
  <1>5. ASSUME NEW r \in Responses, NEW offset, NEW generated,
               PlaybackProgress(r, offset, generated)
        PROVE  ContextInv'
    <2>1. \A s \in Responses : SameReport(s)
      BY <1>3, <1>5 DEF PlaybackProgress, Reportable
    <2>2. UNCHANGED <<context, pi, active, responses, speech>>
      BY <1>5 DEF PlaybackProgress
    <2> QED BY <1>1, <2>1, <2>2, QuietContext DEF Kept, SameLife
  <1>6. ASSUME NEW r \in Responses, NEW offset \in 0..MaxSamples, NEW completed \in BOOLEAN,
               PlaybackStopped(r, offset, completed)
        PROVE  ContextInv'
    <2> DEFINE extent == IF offset > ledger[r].delivered THEN offset
                         ELSE ledger[r].delivered
    <2>1. /\ ~ledger[r].terminal
          /\ ledger' = [ledger EXCEPT ![r].terminal = TRUE, ![r].delivered = extent]
      BY <1>2, <1>6 DEF PlaybackStopped, TypeOK, LedgerRecord
    <2>2. \A s \in Responses : SameReport(s)
      <3> HIDE DEF extent
      <3> QED BY <1>3, <2>1
    <2>3. CASE /\ acceptance.response = r
               /\ FinalizeAcceptedTakeover
               /\ UNCHANGED context
      <3>1. acceptance.turn \in Turns
        BY <2>3, ConstantsOK DEF ContextInv, PauseInv, TypeInv
      <3>2. \A s \in Responses : SameLife(s) \/ NewLife(s)
        BY <1>2, <2>3, <3>1, FinalizeLives
      <3> QED BY <1>1, <2>2, <2>3, <3>2, QuietContext DEF Kept
    <2>4. CASE /\ acceptance.response # r /\ active = r /\ active' = None
               /\ context' = IF HeardInFull(r, offset, completed)
                             THEN context \cup {r} ELSE context
               /\ UNCHANGED <<responses, pi, speech>>
      <3>1. \A s \in Responses : Kept(s)
        BY <2>2, <2>4, ConstantsOK DEF Kept, SameLife
      <3>2. CASE ~HeardInFull(r, offset, completed)
        BY <1>1, <2>4, <3>1, <3>2, QuietContext
      <3>3. CASE HeardInFull(r, offset, completed)
        <4>1. /\ responses[r].text
              /\ offset = ledger[r].generated
              /\ speech[r].stream = "ended"
          BY <1>6, <3>3 DEF HeardInFull, PlaybackStopped
        <4>2. ~responses[r].cancelled
          BY <2>4, ConstantsOK DEF ContextInv, PauseInv, ActiveIsCurrent
        <4>3. ledger[r].generated = speech[r].samples
          BY <2>4, <4>1, <4>2 DEF ContextInv, Settled
        <4>4. extent = speech[r].samples
          <5>1. ledger[r].delivered <= ledger[r].generated
            BY DEF ContextInv, LedgerInv, LedgerWithinStream
          <5>2. ledger[r].delivered \in Nat /\ ledger[r].generated \in Nat
            BY <1>2 DEF LedgerRecord
          <5> QED BY <4>1, <4>3, <5>1, <5>2
        <4>5. ledger'[r].terminal /\ ledger'[r].delivered = extent
          <5> HIDE DEF extent
          <5> QED BY <1>2, <2>1 DEF TypeOK, LedgerRecord
        <4>6. Heard(r)'
          BY <2>4, <4>1, <4>2, <4>4, <4>5 DEF Heard
        <4>7. Settled(r)'
          <5>1. pi'[r] = "done"
            BY <2>4, <4>1 DEF ContextInv, Settled
          <5>2. active' # r
            BY <2>4, ConstantsOK
          <5> QED BY <2>4, <4>1, <4>6, <5>1, <5>2 DEF Settled
        <4> QED BY <1>1, <2>4, <3>1, <4>7, OneContext
      <3> QED BY <3>2, <3>3
    <2>5. CASE UNCHANGED <<active, responses, context, pi, speech>>
      BY <1>1, <2>2, <2>5, QuietContext DEF Kept, SameLife
    <2> QED BY <1>6, <2>3, <2>4, <2>5 DEF PlaybackStopped
  <1> QED BY <1>4, <1>5, <1>6 DEF Browser

(* The reasoning loop runs for no response of the context.                   *)
LEMMA ReasoningContext == ContextInv /\ Reasoning => ContextInv'
  <1> SUFFICES ASSUME ContextInv, NEW r \in Responses,
                      \/ PiStaleItem(r) \/ PiDelta(r) \/ PiFinal(r)
                      \/ PiError(r) \/ PiEnd(r)
               PROVE  ContextInv'
    BY DEF Reasoning
  <1>1. PauseInv' /\ LedgerInv'
    BY ReasoningPause, ReasoningLedger DEF ContextInv, Reasoning
  <1>2. /\ TypeOK
        /\ \A s \in Responses : responses[s] \in ResponseRecord /\ speech[s] \in StreamRecord
        /\ speech \in [Responses -> StreamRecord]
    BY DEF ContextInv, PauseInv, TypeInv, TypeOK
  <1>3. UNCHANGED <<ledger, context>> /\ Looping(r)
    BY DEF PiStaleItem, PiDelta, PiFinal, PiError, PiEnd, PiUnchanged
  <1>4. r \notin context /\ ~responses[r].text /\ pi[r] # "done"
    BY <1>3 DEF Looping, ContextInv, Settled
  <1>5. \A s \in Responses \ {r} : pi'[s] = pi[s]
    BY <1>2 DEF PiStaleItem, PiDelta, PiFinal, PiError, PiEnd, TypeOK
  <1>6. CASE UNCHANGED <<active, responses, speech>>
    <2>1. \A s \in Responses : Kept(s)
      BY <1>3, <1>4, <1>5, <1>6 DEF Kept, SameLife, SameReport
    <2> QED BY <1>1, <1>3, <2>1, QuietContext
  <1>7. CASE speech' = [speech EXCEPT ![r].fed = TRUE] /\ UNCHANGED <<active, responses>>
    <2>1. \A s \in Responses : /\ speech'[s].stream = speech[s].stream
                               /\ speech'[s].samples = speech[s].samples
      BY <1>2, <1>7 DEF TypeOK, StreamRecord
    <2>2. \A s \in Responses : Kept(s)
      BY <1>3, <1>4, <1>5, <1>7, <2>1 DEF Kept, SameLife, SameReport
    <2> QED BY <1>1, <1>3, <2>2, QuietContext
  <1>8. CASE FailResponse(r, speech) /\ pi'[r] = "done"
    <2>1. \A s \in Responses : pi'[s] = pi[s] \/ (s = r /\ pi'[s] = "done")
      BY <1>5, <1>8
    <2> QED BY <1>1, <1>2, <1>3, <1>4, <1>8, <2>1, FailContext
  <1>9. CASE FinishReasoning(r) /\ pi'[r] = "done"
    <2>1. /\ responses' = [responses EXCEPT ![r].text = TRUE]
          /\ speech' = [speech EXCEPT ![r].fed = TRUE, ![r].finished = TRUE]
          /\ UNCHANGED active
      BY <1>9 DEF FinishReasoning
    <2>2. \A s \in Responses : /\ speech'[s].stream = speech[s].stream
                               /\ speech'[s].samples = speech[s].samples
                               /\ responses'[s].cancelled = responses[s].cancelled
                               /\ s # r => responses'[s].text = responses[s].text
      BY <1>2, <2>1 DEF TypeOK, StreamRecord, ResponseRecord
    <2>3. \A s \in Responses \ {r} : Kept(s)
      BY <1>3, <1>5, <2>1, <2>2 DEF Kept, SameLife, SameReport
    <2>4. Settled(r)'
      BY <1>3, <1>4, <1>9, <2>1, <2>2 DEF ContextInv, Settled
    <2> QED BY <1>1, <1>3, <2>3, <2>4, OneContext
  <1>10. PiError(r) \/ PiEnd(r) => pi'[r] = "done"
    BY <1>2 DEF PiError, PiEnd, TypeOK
  <1>11. PiFinal(r) /\ MultiPart /\ pi[r] # "streaming" => pi'[r] = "done"
    BY <1>2 DEF PiFinal, TypeOK
  <1> QED BY <1>6, <1>7, <1>8, <1>9, <1>10, <1>11
          DEF PiStaleItem, PiDelta, PiFinal, PiError, PiEnd, LongEnd, ConciseEnd

(* The speech stream opens and completes the ledger of the response that is  *)
(* being given; the stream of one in the context has ended.                  *)
LEMMA CurrentIfActive ==
    ASSUME ContextInv, NEW r \in Responses, active = r, ~responses[r].cancelled
    PROVE  IsCurrent(r) /\ ~ledger[r].terminal
  BY ConstantsOK DEF ContextInv, PauseInv, ActiveIsCurrent, StoppedIsInactive, IsCurrent

LEMMA SpeechOutputContext == ContextInv /\ SpeechOutput => ContextInv'
  <1> SUFFICES ASSUME ContextInv, NEW r \in Responses,
                      \/ SidecarStarted(r) \/ GeneratedSamples(r) \/ TtsStarted(r)
                      \/ TtsEnded(r) \/ TtsFailed(r)
               PROVE  ContextInv'
    BY DEF SpeechOutput
  <1>1. PauseInv' /\ LedgerInv'
    BY SpeechOutputPause, SpeechOutputLedger DEF ContextInv, SpeechOutput
  <1>2. /\ TypeOK
        /\ \A s \in Responses : /\ responses[s] \in ResponseRecord
                               /\ speech[s] \in StreamRecord
                               /\ ledger[s] \in LedgerRecord
        /\ speech \in [Responses -> StreamRecord]
    BY DEF ContextInv, PauseInv, TypeInv, TypeOK
  <1>3. UNCHANGED <<context, pi>>
    BY DEF SidecarStarted, GeneratedSamples, TtsStarted, TtsEnded, TtsFailed, SpeechUnchanged
  <1>4. /\ r \notin context
        /\ speech[r].stream # "ended"
        /\ responses[r].text => pi[r] = "done"
    <2>1. speech[r].stream # "ended"
      BY DEF SidecarStarted, GeneratedSamples, TtsStarted, TtsEnded, TtsFailed
    <2> QED BY <2>1 DEF ContextInv, Settled, Heard
  <1>5. ASSUME UNCHANGED active,
               \A s \in Responses \ {r} : /\ responses'[s] = responses[s]
                                          /\ speech'[s] = speech[s]
                                          /\ ledger'[s] = ledger[s],
               responses'[r].text = responses[r].text,
               active = r /\ ~responses'[r].cancelled =>
                 /\ speech'[r].stream \in {"playing", "ended"} => ledger'[r].known
                 /\ speech'[r].stream = "ended" =>
                      ledger'[r].generated = speech'[r].samples
        PROVE  ContextInv'
    <2>1. \A s \in Responses \ {r} : Kept(s)
      BY <1>3, <1>5 DEF Kept, SameLife, SameReport
    <2>2. Settled(r)'
      BY <1>3, <1>4, <1>5 DEF Settled
    <2> QED BY <1>1, <1>3, <2>1, <2>2, OneContext
  <1>6. CASE SidecarStarted(r)
    <2>1. /\ UNCHANGED <<active, responses, ledger>>
          /\ speech' = [speech EXCEPT ![r].stream = "starting"]
      BY <1>6 DEF SidecarStarted
    <2>2. speech'[r].stream = "starting"
      BY <1>2, <2>1 DEF StreamRecord
    <2> QED BY <1>2, <1>5, <2>1, <2>2
  <1>7. CASE GeneratedSamples(r)
    <2> DEFINE total == speech[r].samples + 1
    <2>1. /\ UNCHANGED active
          /\ speech' = [speech EXCEPT ![r].samples = total]
          /\ responses' = [responses EXCEPT ![r].generated = total]
          /\ ledger' \in {ledger, [ledger EXCEPT ![r].generated = total]}
      BY <1>7 DEF GeneratedSamples
    <2> HIDE DEF total
    <2>2. /\ speech'[r].stream = speech[r].stream
          /\ responses'[r].text = responses[r].text
          /\ responses'[r].cancelled = responses[r].cancelled
          /\ ledger'[r].known = ledger[r].known
      BY <1>2, <2>1 DEF TypeOK, StreamRecord, ResponseRecord, LedgerRecord
    <2>3. \A s \in Responses \ {r} : /\ responses'[s] = responses[s]
                                     /\ speech'[s] = speech[s]
                                     /\ ledger'[s] = ledger[s]
      BY <1>2, <2>1 DEF TypeOK
    <2>4. active = r /\ ~responses[r].cancelled /\ speech[r].stream = "playing"
            => ledger[r].known
      BY DEF ContextInv, Settled
    <2> QED BY <1>4, <1>5, <2>1, <2>2, <2>3, <2>4
  <1>8. CASE TtsStarted(r)
    <2>1. /\ UNCHANGED active
          /\ speech' = [speech EXCEPT ![r].stream = "playing"]
          /\ \/ ~IsCurrent(r) /\ UNCHANGED <<responses, ledger>>
             \/ /\ \/ responses' = [responses EXCEPT ![r].playback = TRUE,
                                                     ![r].phaseBefore = "playing"]
                   \/ responses' = [responses EXCEPT ![r].playback = TRUE]
                /\ ledger' = [ledger EXCEPT ![r] =
                                [NoLedger EXCEPT !.known = TRUE,
                                                 !.generated = responses[r].generated]]
      BY <1>8 DEF TtsStarted
    <2>2. \A s \in Responses \ {r} : /\ responses'[s] = responses[s]
                                     /\ speech'[s] = speech[s]
                                     /\ ledger'[s] = ledger[s]
      BY <1>2, <2>1 DEF TypeOK
    <2>3. speech'[r].stream = "playing"
      BY <1>2, <2>1 DEF StreamRecord
    <2>4. CASE ~IsCurrent(r) /\ UNCHANGED <<responses, ledger>>
      BY <1>5, <2>1, <2>2, <2>3, <2>4, CurrentIfActive
    <2>5. CASE /\ \/ responses' = [responses EXCEPT ![r].playback = TRUE,
                                                    ![r].phaseBefore = "playing"]
                  \/ responses' = [responses EXCEPT ![r].playback = TRUE]
               /\ ledger' = [ledger EXCEPT ![r] =
                               [NoLedger EXCEPT !.known = TRUE,
                                                !.generated = responses[r].generated]]
      <3>1. responses'[r].text = responses[r].text
        BY <1>2, <2>5 DEF TypeOK, ResponseRecord
      <3>2. ledger'[r].known
        BY <1>2, <2>5 DEF TypeOK, NoLedger
      <3> QED BY <1>5, <2>1, <2>2, <2>3, <3>1, <3>2
    <2> QED BY <2>1, <2>4, <2>5
  <1>9. CASE TtsEnded(r)
    <2>1. /\ UNCHANGED <<active, responses>>
          /\ speech[r].stream = "playing"
          /\ speech' = [speech EXCEPT ![r].stream = "ended"]
          /\ \/ ledger' = [ledger EXCEPT ![r].generated = speech[r].samples]
             \/ /\ ~(IsCurrent(r) /\ ledger[r].known /\ ~ledger[r].terminal)
                /\ UNCHANGED ledger
      BY <1>9 DEF TtsEnded
    <2>2. \A s \in Responses \ {r} : /\ responses'[s] = responses[s]
                                     /\ speech'[s] = speech[s]
                                     /\ ledger'[s] = ledger[s]
      BY <1>2, <2>1 DEF TypeOK
    <2>3. speech'[r].samples = speech[r].samples
      BY <1>2, <2>1 DEF StreamRecord
    <2>4. ASSUME active = r, ~responses[r].cancelled
          PROVE  ledger'[r].known /\ ledger'[r].generated = speech'[r].samples
      <3>1. IsCurrent(r) /\ ~ledger[r].terminal
        BY <2>4, CurrentIfActive
      <3>2. ledger[r].known
        BY <2>1, <2>4 DEF ContextInv, Settled
      <3>3. ledger' = [ledger EXCEPT ![r].generated = speech[r].samples]
        BY <2>1, <3>1, <3>2
      <3> QED BY <1>2, <2>3, <3>2, <3>3 DEF TypeOK, LedgerRecord
    <2> QED BY <1>5, <2>1, <2>2, <2>4
  <1>10. CASE TtsFailed(r)
    <2> DEFINE failed == [speech EXCEPT ![r].stream = "failed"]
    <2>1. /\ failed \in [Responses -> StreamRecord]
          /\ \A s \in Responses \ {r} : failed[s] = speech[s]
          /\ failed[r].stream = "failed"
      BY <1>2 DEF StreamRecord
    <2>2. /\ UNCHANGED ledger
          /\ \/ FailResponse(r, failed)
             \/ speech' = failed /\ UNCHANGED <<active, responses>>
      BY <1>10 DEF TtsFailed
    <2> HIDE DEF failed
    <2>3. CASE FailResponse(r, failed)
      BY <1>1, <1>3, <1>4, <2>1, <2>2, <2>3, FailContext
    <2>4. CASE speech' = failed /\ UNCHANGED <<active, responses>>
      BY <1>5, <2>1, <2>2, <2>4
    <2> QED BY <2>2, <2>3, <2>4
  <1> QED BY <1>6, <1>7, <1>8, <1>9, <1>10

-----------------------------------------------------------------------------
(* Assistant text is in the context only when the user heard all of it: no   *)
(* receipt that comes early, short or late, and no failure after it, leaves  *)
(* there what was cut off.                                                  *)
THEOREM OnlyHeardIsContext == Spec => []ContextWasHeard
  <1>1. Init => ContextInv
    <2> SUFFICES ASSUME Init PROVE ContextInv
      OBVIOUS
    <2>1. TypeInv /\ LedgerInv
      BY InitType, InitLedger
    <2>2. PauseInv
      <3>1. \A r \in Responses : ledger[r] = NoLedger
        BY DEF Init
      <3> QED BY <2>1, <3>1
              DEF Init, NoProvisional, NoAcceptance, NoLedger, PauseInv,
                  ProvisionalOwnsActive, NoPauseIsClean, ActiveIsCurrent,
                  AcceptanceEndsPause, PlayingIsAudible, StoppedIsInactive, UnusedIsUnplayed
    <2>3. \A r \in Responses : Settled(r)
      BY ConstantsOK DEF Init, Unused, Silent, Settled
    <2> QED BY <2>1, <2>2, <2>3 DEF ContextInv
  <1>2. ContextInv /\ [Next]_vars => ContextInv'
    <2>1. ContextInv /\ UNCHANGED vars => ContextInv'
      <3> SUFFICES ASSUME ContextInv, UNCHANGED vars PROVE ContextInv'
        OBVIOUS
      <3>1. TypeInv' /\ LedgerInv'
        BY UnchangedType, LedgerStep DEF ContextInv, PauseInv
      <3>2. PauseInv'
        BY <3>1, FrameKeeps DEF ContextInv, vars, SameResponses, SamePlaybacks
      <3> QED BY <3>1, <3>2, QuietContext DEF vars, Kept, SameLife, SameReport
    <2> QED BY <2>1, CaptureContext, FinalsContext, TimersContext, BrowserContext,
               ControlContext, ReasoningContext, SpeechOutputContext DEF Next
  <1>3. ContextInv => ContextWasHeard
    <2>1. ContextInv => context \subseteq Responses
      BY DEF ContextInv, PauseInv, TypeInv, TypeOK
    <2> QED BY <2>1 DEF ContextInv, Settled, Heard, ContextWasHeard
  <1> QED BY <1>1, <1>2, <1>3, PTL DEF Spec

-----------------------------------------------------------------------------
(* What the browser is told of a pause.  The log of a response is open     *)
(* while the last pause announced in it was not taken back.                *)

Closing == {"barge_in.confirmed", "barge_in.rejected", "barge_in.timed_out",
            "response.cancelled", "barge_in.rejected.resumable",
            "barge_in.timed_out.resumable"}

Open(log) ==
    \E i \in 1..Len(log) :
        /\ log[i] = "barge_in.provisional"
        /\ \A j \in i + 1..Len(log) : log[j] \notin Closing

LEMMA OpenLog ==
    /\ \A r \in Responses : PauseOpen(r) <=> Open(wire[r])
    /\ (\A r \in Responses : PauseOpen(r))' <=> (\A r \in Responses : Open(wire'[r]))
  BY DEF PauseOpen, Open, Closing

(* Only an announcement opens a log, and what takes the pause back, as the *)
(* last word, closes it.                                                   *)
LEMMA OpenConcat ==
    ASSUME NEW log \in Seq(Events), NEW es \in Seq(Events)
    PROVE  /\ (\A i \in 1..Len(es) : es[i] # "barge_in.provisional") /\ Open(log \o es) => Open(log)
           /\ Len(es) > 0 /\ es[Len(es)] \in Closing => ~Open(log \o es)
  <1> DEFINE all == log \o es
  <1>1. /\ Len(all) = Len(log) + Len(es)
        /\ \A i \in 1..Len(log) : all[i] = log[i]
        /\ \A i \in 1..Len(es) : all[Len(log) + i] = es[i]
        /\ Len(log) \in Nat /\ Len(es) \in Nat
    BY ConcatProperties, LenProperties
  <1> HIDE DEF all
  <1>2. ASSUME \A i \in 1..Len(es) : es[i] # "barge_in.provisional", Open(all) PROVE Open(log)
    <2>1. PICK i \in 1..Len(all) : /\ all[i] = "barge_in.provisional"
                                   /\ \A j \in i + 1..Len(all) : all[j] \notin Closing
      BY <1>2 DEF Open
    <2>2. i \in 1..Len(log)
      <3>1. SUFFICES ASSUME i > Len(log) PROVE FALSE
        BY <1>1, <2>1
      <3>2. i - Len(log) \in 1..Len(es) /\ Len(log) + (i - Len(log)) = i
        BY <1>1, <2>1, <3>1
      <3> QED BY <1>1, <1>2, <2>1, <3>2
    <2>3. \A j \in i + 1..Len(log) : j \in i + 1..Len(all) /\ j \in 1..Len(log)
      BY <1>1, <2>2
    <2>4. \A j \in i + 1..Len(log) : log[j] \notin Closing
      BY <1>1, <2>1, <2>3
    <2> QED BY <1>1, <2>1, <2>2, <2>4 DEF Open
  <1>3. ASSUME Len(es) > 0, es[Len(es)] \in Closing, Open(all) PROVE FALSE
    <2>1. PICK i \in 1..Len(all) : /\ all[i] = "barge_in.provisional"
                                   /\ \A j \in i + 1..Len(all) : all[j] \notin Closing
      BY <1>3 DEF Open
    <2>2. all[Len(all)] \in Closing
      BY <1>1, <1>3
    <2>3. i # Len(all)
      BY <2>1, <2>2 DEF Closing
    <2>4. Len(all) \in i + 1..Len(all)
      BY <1>1, <2>1, <2>3
    <2> QED BY <2>1, <2>2, <2>4
  <1> QED BY <1>2, <1>3 DEF all

LEMMA OneEvent ==
    ASSUME NEW log \in Seq(Events), NEW e \in Events
    PROVE  /\ e # "barge_in.provisional" /\ Open(log \o <<e>>) => Open(log)
           /\ e \in Closing => ~Open(log \o <<e>>)
  BY OpenConcat

LEMMA TwoEvents ==
    ASSUME NEW log \in Seq(Events), NEW d \in Events, NEW e \in Events,
           d # "barge_in.provisional"
    PROVE  /\ e # "barge_in.provisional" /\ Open(log \o <<d, e>>) => Open(log)
           /\ e \in Closing => ~Open(log \o <<d, e>>)
  <1> DEFINE es == <<d, e>>
  <1>1. es \in Seq(Events) /\ Len(es) = 2 /\ es[1] = d /\ es[2] = e
    OBVIOUS
  <1>2. \A i \in 1..Len(es) : i = 1 \/ i = 2
    BY <1>1
  <1> HIDE DEF es
  <1>3. e # "barge_in.provisional" /\ Open(log \o es) => Open(log)
    BY <1>1, <1>2, OpenConcat
  <1>4. e \in Closing => ~Open(log \o es)
    <2>1. Len(es) > 0 /\ es[Len(es)] = e
      BY <1>1
    <2> QED BY <1>1, <2>1, OpenConcat
  <1> QED BY <1>3, <1>4 DEF es

(* No log opens from w to v.                                               *)
Quieter(v, w) == \A r \in Responses : Open(v[r]) => Open(w[r])

LEMMA EmitsOne ==
    ASSUME NEW w \in Logs, NEW r, NEW e \in Events, e # "barge_in.provisional"
    PROVE  /\ Quieter(Emit(w, r, <<e>>), w)
           /\ r \in Responses /\ e \in Closing => ~Open(Emit(w, r, <<e>>)[r])
  <1>1. \A s \in Responses : w[s] \in Seq(Events)
    BY DEF Logs
  <1>2. /\ \A s \in Responses \ {r} : Emit(w, r, <<e>>)[s] = w[s]
        /\ r \in Responses => Emit(w, r, <<e>>)[r] = w[r] \o <<e>>
    BY DEF Emit, Logs
  <1>3. ASSUME NEW s \in Responses, Open(w[s] \o <<e>>) PROVE Open(w[s])
    BY <1>1, <1>3, OneEvent
  <1>4. ASSUME r \in Responses, e \in Closing PROVE ~Open(w[r] \o <<e>>)
    BY <1>1, <1>4, OneEvent
  <1> QED BY <1>2, <1>3, <1>4 DEF Quieter

LEMMA EmitsTwo ==
    ASSUME NEW w \in Logs, NEW r, NEW d \in Events, NEW e \in Events,
           d # "barge_in.provisional", e # "barge_in.provisional"
    PROVE  /\ Quieter(Emit(w, r, <<d, e>>), w)
           /\ r \in Responses /\ e \in Closing => ~Open(Emit(w, r, <<d, e>>)[r])
  <1>1. \A s \in Responses : w[s] \in Seq(Events)
    BY DEF Logs
  <1>2. /\ \A s \in Responses \ {r} : Emit(w, r, <<d, e>>)[s] = w[s]
        /\ r \in Responses => Emit(w, r, <<d, e>>)[r] = w[r] \o <<d, e>>
    BY DEF Emit, Logs
  <1>3. ASSUME NEW s \in Responses, Open(w[s] \o <<d, e>>) PROVE Open(w[s])
    BY <1>1, <1>3, TwoEvents
  <1>4. ASSUME r \in Responses, e \in Closing PROVE ~Open(w[r] \o <<d, e>>)
    BY <1>1, <1>4, TwoEvents
  <1> QED BY <1>2, <1>3, <1>4 DEF Quieter

LEMMA EmitsNothing ==
    ASSUME NEW w \in Logs, NEW r PROVE Emit(w, r, <<>>) = w
  <1>1. \A s \in Responses : w[s] \o <<>> = w[s]
    BY ConcatEmptySeq DEF Logs
  <1> QED BY <1>1 DEF Emit, Logs

LEMMA CancelQuiets ==
    ASSUME NEW w \in Logs
    PROVE  /\ Quieter(CancelledWire(w), w) /\ CancelledWire(w) \in Logs
           /\ active \in Responses /\ ~responses[active].cancelled
                => ~Open(CancelledWire(w)[active])
  <1>1. \A s \in Responses : w[s] \in Seq(Events)
    BY DEF Logs
  <1>2. \A s \in Responses : Append(w[s], "response.cancelled") = w[s] \o <<"response.cancelled">>
    BY <1>1, AppendIsConcat
  <1>3. "response.cancelled" \in Events \cap Closing
    BY DEF Events, Closing
  <1>4. \A s \in Responses : /\ Append(w[s], "response.cancelled") \in Seq(Events)
                             /\ ~Open(Append(w[s], "response.cancelled"))
    <2>1. ASSUME NEW s \in Responses PROVE ~Open(w[s] \o <<"response.cancelled">>)
      BY <1>1, <1>3, OneEvent
    <2>2. \A s \in Responses : Append(w[s], "response.cancelled") \in Seq(Events)
      BY <1>1, <1>3, AppendProperties
    <2> QED BY <1>2, <2>1, <2>2
  <1> QED BY <1>1, <1>4 DEF CancelledWire, Quieter, Logs

LEMMA QuieterStill ==
    ASSUME NEW u, NEW v, NEW w, Quieter(v, w) PROVE Quieter(u, v) => Quieter(u, w)
  BY DEF Quieter

(* A step that opens no log keeps the property, if it keeps the pause or   *)
(* closes its log.                                                         *)
LEMMA PauseKept ==
    ASSUME PauseIsAnswered, Quieter(wire', wire),
           \/ provisional'.response = provisional.response
           \/ provisional.response \in Responses => ~Open(wire'[provisional.response])
    PROVE  PauseIsAnswered'
  <1>1. \A r \in Responses : Open(wire[r]) => provisional.response = r
    BY DEF PauseIsAnswered, PauseOpen, Open, Closing
  <1>2. \A r \in Responses : Open(wire'[r]) => provisional'.response = r
    BY <1>1 DEF Quieter
  <1> QED BY <1>2 DEF PauseIsAnswered, PauseOpen, Open, Closing

(* A step that announces a pause when there was none keeps the property.   *)
LEMMA PauseBegins ==
    ASSUME PauseIsAnswered, provisional.response = None, None \notin Responses,
           NEW a, provisional'.response = a,
           \A r \in Responses \ {a} : wire'[r] = wire[r]
    PROVE  PauseIsAnswered'
  <1>1. \A r \in Responses : Open(wire[r]) => provisional.response = r
    BY DEF PauseIsAnswered, PauseOpen, Open, Closing
  <1>2. \A r \in Responses : Open(wire'[r]) => provisional'.response = r
    BY <1>1
  <1> QED BY <1>2 DEF PauseIsAnswered, PauseOpen, Open, Closing

LEMMA AppendToOne ==
    ASSUME NEW S, NEW e \in S, NEW d \in S PROVE Append(<<d>>, e) = <<d, e>>
  <1> DEFINE x == <<d>>
  <1> DEFINE a == Append(x, e)
  <1> DEFINE b == <<d, e>>
  <1>1. x \in Seq(S) /\ Len(x) = 1 /\ x[1] = d
    <2>1. x \in Seq(S)
      OBVIOUS
    <2> QED BY <2>1
  <1>2. a \in Seq(S) /\ Len(a) = 2 /\ a[1] = d /\ a[2] = e
    <2> HIDE DEF x
    <2>1. a \in Seq(S)
      BY <1>1, AppendProperties
    <2>2. Len(a) = Len(x) + 1
      BY <1>1, AppendProperties
    <2>3. a[Len(x) + 1] = e
      BY <1>1, AppendProperties
    <2>4. a[1] = x[1]
      BY <1>1, AppendProperties
    <2> QED BY <1>1, <2>1, <2>2, <2>3, <2>4
  <1>3. b \in Seq(S) /\ Len(b) = 2 /\ b[1] = d /\ b[2] = e
    OBVIOUS
  <1>4. \A i \in 1..2 : i = 1 \/ i = 2
    OBVIOUS
  <1> HIDE DEF a, b
  <1>5. a = b
    BY <1>2, <1>3, <1>4, SeqEqual
  <1> QED BY <1>5 DEF a, b, x

(* resolveProvisional answers the pause it decides.                        *)
LEMMA ResolvePause ==
    ASSUME PauseInv, PauseIsAnswered, provisional.response # None,
           NEW p, p.response = provisional.response,
           NEW result \in {"barge_in.rejected", "barge_in.timed_out"},
           NEW before \in {<<>>, <<"interruption.decision">>},
           ResolveProvisional(p, result, before)
    PROVE  PauseIsAnswered'
  <1> DEFINE q == provisional.response
  <1>1. TypeOK /\ wire \in Logs /\ q \in Responses /\ active = q /\ ~responses[active].cancelled
    BY DEF PauseInv, TypeInv, TypeOK, ProvisionalOwnsActive, ProvisionalRecord
  <1> DEFINE w == Emit(wire, q, before)
  <1>2. w \in Logs /\ Quieter(w, wire)
    <2>1. CASE before = <<>>
      BY <1>1, <2>1, EmitsNothing DEF Quieter
    <2>2. CASE before = <<"interruption.decision">>
      <3>1. "interruption.decision" \in Events /\ <<"interruption.decision">> \in Seq(Events)
        BY DEF Events
      <3> QED BY <1>1, <2>2, <3>1, EmitType, EmitsOne
    <2> QED BY <2>1, <2>2
  <1>3. CASE wire' = Emit(wire, q, Append(before, Resumable(result)))
    <2>1. Resumable(result) \in Events \cap Closing
      BY DEF Resumable, Events, Closing
    <2>2. Resumable(result) # "barge_in.provisional" /\ "interruption.decision" \in Events
      BY DEF Resumable, Events
    <2>3. \/ Append(before, Resumable(result)) = <<Resumable(result)>>
          \/ Append(before, Resumable(result)) = <<"interruption.decision", Resumable(result)>>
      <3>1. Append(<<>>, Resumable(result)) = <<Resumable(result)>>
        OBVIOUS
      <3>2. Append(<<"interruption.decision">>, Resumable(result))
              = <<"interruption.decision", Resumable(result)>>
        BY <2>1, <2>2, AppendToOne
      <3> QED BY <3>1, <3>2
    <2>4. Quieter(wire', wire) /\ ~Open(wire'[q])
      <3>1. CASE Append(before, Resumable(result)) = <<Resumable(result)>>
        BY <1>1, <1>3, <2>1, <2>2, <3>1, EmitsOne
      <3>2. CASE Append(before, Resumable(result)) = <<"interruption.decision", Resumable(result)>>
        BY <1>1, <1>3, <2>1, <2>2, <3>2, EmitsTwo
      <3> QED BY <2>3, <3>1, <3>2
    <2> QED BY <2>4, PauseKept
  <1>4. CASE wire' = Emit(CancelledWire(w), q, <<result>>)
    <2>1. result \in Events \cap Closing /\ result # "barge_in.provisional"
      BY DEF Events, Closing
    <2> HIDE DEF w
    <2>2. CancelledWire(w) \in Logs /\ Quieter(CancelledWire(w), w)
      BY <1>2, CancelQuiets
    <2>3. Quieter(wire', CancelledWire(w)) /\ ~Open(wire'[q])
      BY <1>1, <1>4, <2>1, <2>2, EmitsOne
    <2>4. Quieter(wire', wire)
      BY <1>2, <2>2, <2>3 DEF Quieter
    <2> QED BY <2>3, <2>4, PauseKept
  <1> QED BY <1>3, <1>4 DEF ResolveProvisional

(* A step that says nothing, and keeps whose the pause is.                 *)
LEMMA PauseUntouched ==
    ASSUME PauseIsAnswered, wire' = wire, provisional'.response = provisional.response
    PROVE  PauseIsAnswered'
  BY PauseKept DEF Quieter

LEMMA DecidePause ==
    ASSUME PauseInv, PauseIsAnswered, provisional.response # None,
           NEW p \in ProvisionalRecord, p.response = provisional.response, NEW t,
           DecideInterruption(p, t)
    PROVE  PauseIsAnswered'
  <1> DEFINE q == [p EXCEPT !.echoRecovered = TRUE]
  <1>1. \/ /\ provisional' \in {p, [p EXCEPT !.turn = t, !.pendingTurn = t],
                                [p EXCEPT !.turn = t, !.pendingTurn = None, !.timer = FALSE]}
           /\ wire' = wire
        \/ ResolveProvisional(q, "barge_in.rejected", <<"interruption.decision">>)
    BY DEF DecideInterruption
  <1>2. CASE /\ provisional' \in {p, [p EXCEPT !.turn = t, !.pendingTurn = t],
                                  [p EXCEPT !.turn = t, !.pendingTurn = None, !.timer = FALSE]}
             /\ wire' = wire
    <2>1. provisional'.response = p.response
      BY <1>2 DEF ProvisionalRecord
    <2> QED BY <1>2, <2>1, PauseUntouched
  <1>3. q.response = provisional.response
    BY DEF ProvisionalRecord
  <1> HIDE DEF q
  <1>4. CASE ResolveProvisional(q, "barge_in.rejected", <<"interruption.decision">>)
    BY <1>3, <1>4, ResolvePause
  <1> QED BY <1>1, <1>2, <1>4

(* The log of a response that starts is a new one.                         *)
LEMMA AnswerQuiets ==
    ASSUME NEW t, NEW e, NEW w \in Logs, Answer(t, e, w) PROVE Quieter(wire', w)
  <1>1. PICK r \in Responses : wire' = [w EXCEPT ![r] = <<"reasoning.started">>]
    BY Zenon DEF Answer
  <1>2. ~Open(<<"reasoning.started">>)
    BY DEF Open
  <1>3. \A s \in Responses : wire'[s] = w[s] \/ wire'[s] = <<"reasoning.started">>
    BY <1>1 DEF Logs
  <1> QED BY <1>2, <1>3 DEF Quieter

LEMMA PolicyPause ==
    ASSUME PauseInv, PauseIsAnswered, provisional' = provisional, NEW t, RunPolicy(t)
    PROVE  PauseIsAnswered'
  <1>1. wire \in Logs
    BY DEF PauseInv, TypeInv, TypeOK
  <1>2. CancelledWire(wire) \in Logs /\ Quieter(CancelledWire(wire), wire)
    BY <1>1, CancelQuiets
  <1>3. wire' = wire \/ \E e : Answer(t, e, CancelledWire(wire))
    BY Zenon DEF RunPolicy
  <1>4. Quieter(wire', wire)
    <2>1. ASSUME NEW e, Answer(t, e, CancelledWire(wire)) PROVE Quieter(wire', wire)
      <3>1. Quieter(wire', CancelledWire(wire))
        BY <1>2, <2>1, AnswerQuiets
      <3> QED BY <1>2, <3>1, QuieterStill
    <2>2. wire' = wire => Quieter(wire', wire)
      BY DEF Quieter
    <2> QED BY <1>3, <2>1, <2>2
  <1> QED BY <1>4, PauseKept

LEMMA FinalizePause ==
    ASSUME PauseInv, PauseIsAnswered, provisional' = provisional, FinalizeAcceptedTakeover
    PROVE  PauseIsAnswered'
  <1> DEFINE w == Emit(CancelledWire(wire), acceptance.response, <<"barge_in.confirmed">>)
  <1>1. wire \in Logs
    BY DEF PauseInv, TypeInv, TypeOK
  <1>2. CancelledWire(wire) \in Logs /\ Quieter(CancelledWire(wire), wire)
    BY <1>1, CancelQuiets
  <1>3. "barge_in.confirmed" \in Events /\ <<"barge_in.confirmed">> \in Seq(Events)
    BY DEF Events
  <1>4. w \in Logs /\ Quieter(w, CancelledWire(wire))
    BY <1>2, <1>3, EmitType, EmitsOne
  <1>5. wire' = w \/ \E t, e : Answer(t, e, w)
    BY Zenon DEF FinalizeAcceptedTakeover
  <1> HIDE DEF w
  <1>6. Quieter(wire', w)
    <2>1. ASSUME NEW t, NEW e, Answer(t, e, w) PROVE Quieter(wire', w)
      BY <1>4, <2>1, AnswerQuiets
    <2>2. wire' = w => Quieter(wire', w)
      BY DEF Quieter
    <2> QED BY <1>5, <2>1, <2>2
  <1>7. Quieter(wire', wire)
    BY <1>2, <1>4, <1>6 DEF Quieter
  <1> QED BY <1>7, PauseKept

(* failResponse takes the pause of its response with it.                   *)
LEMMA FailPause ==
    ASSUME PauseInv, PauseIsAnswered, NEW r \in Responses, NEW sp, FailResponse(r, sp)
    PROVE  PauseIsAnswered'
  <1> DEFINE failed == Emit(wire, r, IF responses[r].cancelled
                                     THEN <<"response.failed">>
                                     ELSE <<"response.failed", "response.cancelled">>)
  <1>1. \/ wire' = failed /\ provisional' = provisional
        \/ wire' = WirePauseOver(r, failed) /\ provisional' = WithoutPause(r)
    BY DEF FailResponse
  <1>2. wire \in Logs
    BY DEF PauseInv, TypeInv, TypeOK
  <1>3. {"response.failed", "response.cancelled", "barge_in.rejected"} \subseteq Events
    BY DEF Events
  <1>4. /\ <<"response.failed">> \in Seq(Events)
        /\ <<"response.failed", "response.cancelled">> \in Seq(Events)
    BY <1>3
  <1>5. failed \in Logs /\ Quieter(failed, wire)
    <2>1. CASE responses[r].cancelled
      BY <1>2, <1>3, <1>4, <2>1, EmitType, EmitsOne
    <2>2. CASE ~responses[r].cancelled
      BY <1>2, <1>3, <1>4, <2>2, EmitType, EmitsTwo
    <2> QED BY <2>1, <2>2
  <1> HIDE DEF failed
  <1>6. CASE wire' = failed /\ provisional' = provisional
    BY <1>5, <1>6, PauseKept
  <1>7. CASE wire' = WirePauseOver(r, failed) /\ provisional' = WithoutPause(r)
    <2>1. CASE provisional.response = r
      <3>1. wire' = Emit(failed, r, <<"barge_in.rejected">>)
        BY <1>7, <2>1 DEF WirePauseOver
      <3>2. Quieter(wire', failed) /\ ~Open(wire'[r])
        BY <1>3, <1>5, <3>1, EmitsOne DEF Closing
      <3>3. Quieter(wire', wire)
        BY <1>5, <3>2 DEF Quieter
      <3> QED BY <2>1, <3>2, <3>3, PauseKept
    <2>2. CASE provisional.response # r
      BY <1>5, <1>7, <2>2, PauseKept DEF WirePauseOver, WithoutPause
    <2> QED BY <2>1, <2>2
  <1> QED BY <1>1, <1>6, <1>7

(* So do the commands that give it up.                                     *)
LEMMA GivenUpPause ==
    ASSUME PauseInv, PauseIsAnswered,
           NEW result \in {"barge_in.confirmed", "barge_in.rejected"},
           wire' = WireGivingUpPause(result), provisional' = NoProvisional
    PROVE  PauseIsAnswered'
  <1>1. wire \in Logs /\ provisional.response \in Responses \cup {None}
    BY DEF PauseInv, TypeInv, TypeOK, ProvisionalRecord
  <1>2. CancelledWire(wire) \in Logs /\ Quieter(CancelledWire(wire), wire)
    BY <1>1, CancelQuiets
  <1>3. CASE provisional.response = None
    BY <1>2, <1>3, PauseKept DEF WireGivingUpPause, NoProvisional
  <1>4. CASE provisional.response # None
    <2>1. wire' = Emit(CancelledWire(wire), provisional.response, <<result>>)
      BY <1>4 DEF WireGivingUpPause
    <2>2. result \in Events \cap Closing /\ result # "barge_in.provisional"
      BY DEF Events, Closing
    <2>3. Quieter(wire', CancelledWire(wire)) /\ ~Open(wire'[provisional.response])
      BY <1>1, <1>2, <1>4, <2>1, <2>2, EmitsOne
    <2>4. Quieter(wire', wire)
      BY <1>2, <2>3 DEF Quieter
    <2> QED BY <2>3, <2>4, PauseKept
  <1> QED BY <1>3, <1>4

LEMMA CaptureAnswers == PauseInv /\ PauseIsAnswered /\ Capture => PauseIsAnswered'
  <1> SUFFICES ASSUME PauseInv, PauseIsAnswered, NEW t \in Turns,
                      HandleSpeechStart(t) \/ HandleSpeechEnd(t)
               PROVE  PauseIsAnswered'
    BY DEF Capture
  <1>1. /\ wire \in Logs
        /\ provisional \in ProvisionalRecord
        /\ active \in Responses \cup {None}
    BY DEF PauseInv, TypeInv, TypeOK
  <1>2. CASE HandleSpeechStart(t)
    <2>1. \/ wire' = CancelledWire(wire) /\ provisional' = provisional
          \/ /\ wire' = wire
             /\ provisional' = [provisional EXCEPT !.timer = FALSE, !.turn = None,
                                                   !.pendingTurn = None]
          \/ /\ active # None /\ provisional.response = None
             /\ BeginProvisionalBargeIn(active)
             /\ wire' = Emit(wire, active, <<"barge_in.provisional">>)
          \/ wire' = wire /\ provisional' = provisional
      BY <1>2 DEF HandleSpeechStart
    <2>2. CASE wire' = CancelledWire(wire) /\ provisional' = provisional
      BY <1>1, <2>2, CancelQuiets, PauseKept
    <2>3. CASE /\ wire' = wire
               /\ provisional' = [provisional EXCEPT !.timer = FALSE, !.turn = None,
                                                     !.pendingTurn = None]
      <3>1. provisional'.response = provisional.response
        BY <1>1, <2>3 DEF ProvisionalRecord
      <3> QED BY <2>3, <3>1, PauseUntouched
    <2>4. CASE /\ active # None /\ provisional.response = None
               /\ BeginProvisionalBargeIn(active)
               /\ wire' = Emit(wire, active, <<"barge_in.provisional">>)
      <3>1. provisional'.response = active
        BY <2>4 DEF BeginProvisionalBargeIn, NoProvisional
      <3>2. \A r \in Responses \ {active} : wire'[r] = wire[r]
        BY <1>1, <2>4 DEF Emit
      <3> QED BY <2>4, <3>1, <3>2, ConstantsOK, PauseBegins
    <2>5. CASE wire' = wire /\ provisional' = provisional
      BY <2>5, PauseUntouched
    <2> QED BY <2>1, <2>2, <2>3, <2>4, <2>5
  <1>3. CASE HandleSpeechEnd(t)
    <2>1. wire' = wire /\ provisional' \in {provisional, ScheduleProvisionalTimeout}
      BY <1>3 DEF HandleSpeechEnd
    <2>2. provisional'.response = provisional.response
      BY <1>1, <2>1 DEF ScheduleProvisionalTimeout, ProvisionalRecord
    <2> QED BY <2>1, <2>2, PauseUntouched
  <1> QED BY <1>2, <1>3

LEMMA FinalsAnswers == PauseInv /\ PauseIsAnswered /\ Finals => PauseIsAnswered'
  <1> SUFFICES ASSUME PauseInv, PauseIsAnswered, NEW t \in Turns,
                      HandleStableFinal(t) \/ FinishDecision(t)
               PROVE  PauseIsAnswered'
    BY DEF Finals
  <1>1. /\ wire \in Logs
        /\ provisional \in ProvisionalRecord
        /\ active \in Responses \cup {None}
    BY DEF PauseInv, TypeInv, TypeOK
  <1>2. CASE HandleStableFinal(t)
    <2>1. \/ UNCHANGED <<provisional, wire>>
          \/ provisional.response # None /\ DecideInterruption(provisional, t)
          \/ UNCHANGED provisional /\ RunPolicy(t)
      BY <1>2 DEF HandleStableFinal
    <2> QED BY <1>1, <2>1, PauseUntouched, DecidePause, PolicyPause
  <1>3. CASE FinishDecision(t)
    <2>1. \/ UNCHANGED <<provisional, wire>>
          \/ /\ ~Stale(t)
             /\ deciding[t] # 0
             /\ \/ ResolveProvisional(provisional, "barge_in.rejected", <<>>)
                \/ ResolveProvisional([provisional EXCEPT !.echoRecovered = TRUE],
                                      "barge_in.rejected", <<"interruption.decision">>)
                \/ active = provisional.response /\ AcceptTakeover(t)
      BY <1>3, Zenon DEF FinishDecision
    <2>2. ~Stale(t) /\ deciding[t] # 0 => provisional.response # None
      BY DEF Stale, PauseInv, NoPauseIsClean
    <2>3. ASSUME ResolveProvisional(provisional, "barge_in.rejected", <<>>),
                 provisional.response # None
          PROVE  PauseIsAnswered'
      BY <2>3, ResolvePause
    <2>4. ASSUME ResolveProvisional([provisional EXCEPT !.echoRecovered = TRUE],
                                    "barge_in.rejected", <<"interruption.decision">>),
                 provisional.response # None
          PROVE  PauseIsAnswered'
      <3> DEFINE q == [provisional EXCEPT !.echoRecovered = TRUE]
      <3>1. q.response = provisional.response
        BY <1>1 DEF ProvisionalRecord
      <3>2. ResolveProvisional(q, "barge_in.rejected", <<"interruption.decision">>)
        BY <2>4
      <3> HIDE DEF q
      <3> QED BY <2>4, <3>1, <3>2, ResolvePause
    <2>5. ASSUME AcceptTakeover(t), active = provisional.response, provisional.response # None
          PROVE  PauseIsAnswered'
      <3> DEFINE w == Emit(wire, active, <<"interruption.decision">>)
      <3>1. "interruption.decision" \in Events /\ <<"interruption.decision">> \in Seq(Events)
        BY DEF Events
      <3>2. w \in Logs /\ Quieter(w, wire)
        BY <1>1, <3>1, EmitType, EmitsOne
      <3>3. active \in Responses /\ ~responses[active].cancelled
        BY <1>1, <2>5 DEF PauseInv, ProvisionalOwnsActive
      <3>4. wire' = CancelledWire(w)
        BY <2>5 DEF AcceptTakeover
      <3> HIDE DEF w
      <3>5. Quieter(wire', w) /\ ~Open(wire'[active])
        BY <3>2, <3>3, <3>4, CancelQuiets
      <3>6. Quieter(wire', wire)
        BY <3>2, <3>5, QuieterStill
      <3> QED BY <2>5, <3>5, <3>6, PauseKept
    <2> QED BY <2>1, <2>2, <2>3, <2>4, <2>5, PauseUntouched
  <1> QED BY <1>2, <1>3

LEMMA TimersAnswer == PauseInv /\ PauseIsAnswered /\ Timers => PauseIsAnswered'
  <1> SUFFICES ASSUME PauseInv, PauseIsAnswered, Timers PROVE PauseIsAnswered'
    OBVIOUS
  <1>1. provisional \in ProvisionalRecord
    BY DEF PauseInv, TypeInv, TypeOK
  <1>2. CASE AcceptanceTimeout
    <2>1. UNCHANGED provisional /\ (FinalizeAcceptedTakeover \/ UNCHANGED wire)
      BY <1>2 DEF AcceptanceTimeout
    <2> QED BY <2>1, FinalizePause, PauseUntouched
  <1>3. CASE ProvisionalTimeout
    <2>1. \/ wire' = wire /\ provisional' = [provisional EXCEPT !.timer = FALSE]
          \/ ResolveProvisional(provisional, "barge_in.timed_out", <<>>)
      BY <1>3 DEF ProvisionalTimeout
    <2>2. provisional.response # None
      BY <1>3 DEF ProvisionalTimeout, PauseInv, NoPauseIsClean
    <2>3. CASE wire' = wire /\ provisional' = [provisional EXCEPT !.timer = FALSE]
      <3>1. provisional'.response = provisional.response
        BY <1>1, <2>3 DEF ProvisionalRecord
      <3> QED BY <2>3, <3>1, PauseUntouched
    <2>4. CASE ResolveProvisional(provisional, "barge_in.timed_out", <<>>)
      BY <2>2, <2>4, ResolvePause
    <2> QED BY <2>1, <2>3, <2>4
  <1> QED BY <1>2, <1>3 DEF Timers

LEMMA BrowserAnswers == PauseInv /\ PauseIsAnswered /\ Browser => PauseIsAnswered'
  <1> SUFFICES ASSUME PauseInv, PauseIsAnswered, NEW r \in Responses, NEW offset \in 0..MaxSamples,
                      \/ \E generated \in 0..MaxSamples :
                            \/ PlaybackPaused(r, offset, generated)
                            \/ PlaybackProgress(r, offset, generated)
                      \/ \E completed \in BOOLEAN : PlaybackStopped(r, offset, completed)
               PROVE  PauseIsAnswered'
    BY DEF Browser
  <1>1. wire \in Logs /\ provisional \in ProvisionalRecord
    BY DEF PauseInv, TypeInv, TypeOK
  <1>2. ASSUME NEW generated, PlaybackPaused(r, offset, generated) PROVE PauseIsAnswered'
    <2> DEFINE p == [provisional EXCEPT !.checkpoint = TRUE]
    <2> DEFINE q == [p EXCEPT !.pendingTurn = None]
    <2>1. /\ p.response = provisional.response
          /\ q \in ProvisionalRecord /\ q.response = provisional.response
      BY <1>1 DEF ProvisionalRecord
    <2>2. \/ provisional' = p /\ wire' = wire
          \/ DecideInterruption(q, provisional.pendingTurn)
      BY <1>2 DEF PlaybackPaused
    <2>3. provisional.response # None
      BY <1>2, ConstantsOK DEF PlaybackPaused
    <2> HIDE DEF p, q
    <2>4. CASE provisional' = p /\ wire' = wire
      BY <2>1, <2>4, PauseUntouched
    <2>5. CASE DecideInterruption(q, provisional.pendingTurn)
      BY <2>1, <2>3, <2>5, DecidePause
    <2> QED BY <2>2, <2>4, <2>5
  <1>3. ASSUME NEW generated, PlaybackProgress(r, offset, generated) PROVE PauseIsAnswered'
    BY <1>3, PauseUntouched DEF PlaybackProgress
  <1>4. ASSUME NEW completed, PlaybackStopped(r, offset, completed) PROVE PauseIsAnswered'
    <2>1. \/ UNCHANGED provisional /\ (FinalizeAcceptedTakeover \/ UNCHANGED wire)
          \/ wire' = WirePauseOver(r, wire) /\ provisional' = WithoutPause(r)
      BY <1>4 DEF PlaybackStopped
    <2>2. CASE wire' = WirePauseOver(r, wire) /\ provisional' = WithoutPause(r)
      <3>1. CASE provisional.response = r
        <4>1. wire' = Emit(wire, r, <<"barge_in.rejected">>)
          BY <2>2, <3>1 DEF WirePauseOver
        <4>2. "barge_in.rejected" \in Events \cap Closing
          BY DEF Events, Closing
        <4>3. Quieter(wire', wire) /\ ~Open(wire'[r])
          BY <1>1, <4>1, <4>2, EmitsOne
        <4> QED BY <3>1, <4>3, PauseKept
      <3>2. CASE provisional.response # r
        BY <2>2, <3>2, PauseUntouched DEF WirePauseOver, WithoutPause
      <3> QED BY <3>1, <3>2
    <2> QED BY <2>1, <2>2, FinalizePause, PauseUntouched
  <1> QED BY <1>2, <1>3, <1>4

LEMMA ControlAnswers == PauseInv /\ PauseIsAnswered /\ Control => PauseIsAnswered'
  <1> SUFFICES ASSUME PauseInv, PauseIsAnswered, Control PROVE PauseIsAnswered'
    OBVIOUS
  <1>1. provisional \in ProvisionalRecord
    BY DEF PauseInv, TypeInv, TypeOK
  <1>2. CASE Start
    BY <1>2, PauseUntouched DEF Start
  <1>3. CASE ConfirmBargeIn \/ CancelCurrentTurn \/ Stop
    <2>1. /\ provisional' = NoProvisional
          /\ \/ wire' = WireGivingUpPause("barge_in.confirmed")
             \/ wire' = WireGivingUpPause("barge_in.rejected")
      BY <1>3 DEF ConfirmBargeIn, CancelCurrentTurn, Stop
    <2> QED BY <2>1, GivenUpPause
  <1>4. CASE RejectBargeIn
    <2> DEFINE q == [provisional EXCEPT !.echoRecovered = TRUE]
    <2>1. q.response = provisional.response
      BY <1>1 DEF ProvisionalRecord
    <2>2. provisional.response # None /\ ResolveProvisional(q, "barge_in.rejected", <<>>)
      BY <1>4 DEF RejectBargeIn
    <2> HIDE DEF q
    <2> QED BY <2>1, <2>2, ResolvePause
  <1> QED BY <1>2, <1>3, <1>4 DEF Control

LEMMA ReasoningAnswers == PauseInv /\ PauseIsAnswered /\ Reasoning => PauseIsAnswered'
  <1> SUFFICES ASSUME PauseInv, PauseIsAnswered, NEW r \in Responses,
                      \/ PiStaleItem(r) \/ PiDelta(r) \/ PiFinal(r) \/ PiError(r) \/ PiEnd(r)
               PROVE  PauseIsAnswered'
    BY DEF Reasoning
  <1>1. wire \in Logs
    BY DEF PauseInv, TypeInv, TypeOK
  <1>2. \/ UNCHANGED <<provisional, wire>>
        \/ FailResponse(r, speech)
        \/ FinishReasoning(r)
    BY DEF PiStaleItem, PiDelta, PiFinal, PiError, PiEnd, LongEnd, ConciseEnd
  <1>3. CASE FinishReasoning(r)
    <2>1. wire' = Emit(wire, r, <<"reasoning.final">>) /\ provisional' = provisional
      BY <1>3 DEF FinishReasoning
    <2>2. Quieter(wire', wire)
      BY <1>1, <2>1, EmitsOne DEF Events
    <2> QED BY <2>1, <2>2, PauseKept
  <1> QED BY <1>2, <1>3, FailPause, PauseUntouched

LEMMA SpeechOutputAnswers == PauseInv /\ PauseIsAnswered /\ SpeechOutput => PauseIsAnswered'
  <1> SUFFICES ASSUME PauseInv, PauseIsAnswered, NEW r \in Responses,
                      \/ SidecarStarted(r) \/ GeneratedSamples(r) \/ TtsStarted(r)
                      \/ TtsEnded(r) \/ TtsFailed(r)
               PROVE  PauseIsAnswered'
    BY DEF SpeechOutput
  <1>1. wire \in Logs
    BY DEF PauseInv, TypeInv, TypeOK
  <1>2. \/ UNCHANGED <<provisional, wire>>
        \/ \E sp : FailResponse(r, sp)
        \/ /\ provisional' = provisional
           /\ wire' = Emit(wire, r, <<"tts.started">>) \/ wire' = Emit(wire, r, <<"tts.ended">>)
        \/ /\ provisional.response = None
           /\ BeginProvisionalBargeIn(r)
           /\ wire' = Emit(wire, r, <<"tts.started", "barge_in.provisional">>)
    BY Zenon DEF SidecarStarted, GeneratedSamples, TtsStarted, TtsEnded, TtsFailed
  <1>3. CASE /\ provisional' = provisional
             /\ wire' = Emit(wire, r, <<"tts.started">>) \/ wire' = Emit(wire, r, <<"tts.ended">>)
    <2>1. {"tts.started", "tts.ended"} \subseteq Events
      BY DEF Events
    <2>2. Quieter(wire', wire)
      BY <1>1, <1>3, <2>1, EmitsOne
    <2> QED BY <1>3, <2>2, PauseKept
  <1>4. CASE /\ provisional.response = None
             /\ BeginProvisionalBargeIn(r)
             /\ wire' = Emit(wire, r, <<"tts.started", "barge_in.provisional">>)
    <2>1. provisional'.response = r
      BY <1>4 DEF BeginProvisionalBargeIn, NoProvisional
    <2>2. \A s \in Responses \ {r} : wire'[s] = wire[s]
      BY <1>1, <1>4 DEF Emit
    <2> QED BY <1>4, <2>1, <2>2, ConstantsOK, PauseBegins
  <1> QED BY <1>2, <1>3, <1>4, FailPause, PauseUntouched

(* Every pause the browser was told of is taken back or still the one the  *)
(* host has to decide: whatever ends a pause, a verdict, a timer, a        *)
(* command, a receipt or a failure, tells the browser in the same turn.    *)
THEOREM PauseAnswered == Spec => []PauseIsAnswered
  <1>1. Init => PauseIsAnswered
    <2> SUFFICES ASSUME Init PROVE PauseIsAnswered
      OBVIOUS
    <2>1. \A r \in Responses : Len(wire[r]) = 0
      BY DEF Init
    <2>2. 1..0 = {}
      OBVIOUS
    <2> QED BY <2>1, <2>2 DEF PauseIsAnswered, PauseOpen
  <1>2. PauseInv /\ PauseIsAnswered /\ [Next]_vars => PauseIsAnswered'
    <2>1. PauseIsAnswered /\ UNCHANGED vars => PauseIsAnswered'
      BY PauseUntouched DEF vars
    <2> QED BY <2>1, CaptureAnswers, FinalsAnswers, TimersAnswer, BrowserAnswers,
               ControlAnswers, ReasoningAnswers, SpeechOutputAnswers DEF Next
  <1>3. Spec => []PauseInv
    BY PauseInvariant
  <1> QED BY <1>1, <1>2, <1>3, PTL DEF Spec

-----------------------------------------------------------------------------
(* What the browser hears of a response that was given up.  In concise mode *)
(* only the active response fails or speaks, and a cancelled one is active  *)
(* only while an accepted takeover waits for its receipt.                   *)

(* Only a response that answers a turn is ever aborted.                     *)
CancelledWasGiven ==
    \A r \in Responses : responses[r].cancelled => responses[r].turn # None

FinalInv == PauseInv /\ CancelledWasGiven

(* What a step does to the abort signals, and adds to the logs.              *)
GivenUp ==
    \A r \in Responses :
        /\ responses'[r].cancelled => responses[r].cancelled \/ r = active
        /\ responses[r].turn # None => responses'[r].turn # None

LastWord(v) ==
    \A r \in Responses :
        responses[r].cancelled => v[r] \in {wire[r], Append(wire[r], "barge_in.confirmed")}

LEMMA GivenUpKeeps ==
    ASSUME FinalInv, GivenUp, PauseInv' PROVE FinalInv'
  <1>1. active # None => responses[active].turn # None
    BY DEF FinalInv, PauseInv, ActiveIsCurrent
  <1>2. \A r \in Responses : r # None
    BY ConstantsOK
  <1> QED BY <1>1, <1>2 DEF FinalInv, CancelledWasGiven, GivenUp

LEMMA CancelGivesUp ==
    ASSUME TypeOK, responses' = CancelledResponses \/ UNCHANGED responses PROVE GivenUp
  BY CancelledFacts DEF GivenUp

LEMMA SameWord == LastWord(wire)
  BY DEF LastWord

LEMMA OtherWord ==
    ASSUME NEW w \in Logs, LastWord(w), NEW r, NEW es,
           r \in Responses => ~responses[r].cancelled
    PROVE  LastWord(Emit(w, r, es))
  <1>1. \A s \in Responses \ {r} : Emit(w, r, es)[s] = w[s]
    BY DEF Emit, Logs
  <1> QED BY <1>1 DEF LastWord

LEMMA CancelWord ==
    ASSUME NEW w, LastWord(w) PROVE LastWord(CancelledWire(w))
  <1>1. \A r \in Responses : responses[r].cancelled => CancelledWire(w)[r] = w[r]
    BY DEF CancelledWire
  <1> QED BY <1>1 DEF LastWord

LEMMA AnswerWord ==
    ASSUME FinalInv, NEW t \in Turns, NEW e, NEW w \in Logs, LastWord(w), Answer(t, e, w)
    PROVE  GivenUp /\ LastWord(wire')
  <1>1. PICK r \in Responses :
          /\ responses[r].turn = None
          /\ wire' = [w EXCEPT ![r] = <<"reasoning.started">>]
          /\ responses' = [CancelledResponses EXCEPT
                             ![r] = [Unused EXCEPT !.turn = t, !.epoch = e]]
    BY Zenon DEF Answer
  <1>2. ~responses[r].cancelled
    BY <1>1 DEF FinalInv, CancelledWasGiven
  <1>3. \A s \in Responses \ {r} : wire'[s] = w[s]
    BY <1>1 DEF Logs
  <1>4. LastWord(wire')
    BY <1>2, <1>3 DEF LastWord
  <1>5. CancelledResponses \in [Responses -> ResponseRecord] /\ TypeOK
    BY CancelledType DEF FinalInv, PauseInv, TypeInv
  <1>6. /\ \A s \in Responses \ {r} : responses'[s] = CancelledResponses[s]
        /\ responses'[r].turn = t /\ ~responses'[r].cancelled
    BY <1>1, <1>5 DEF Unused
  <1>7. t # None
    BY ConstantsOK
  <1>8. GivenUp
    BY <1>5, <1>6, <1>7, CancelledFacts DEF GivenUp
  <1> QED BY <1>4, <1>8

LEMMA ResolveWord ==
    ASSUME FinalInv, provisional.response # None, NEW p, p.response = provisional.response,
           NEW result \in Events,
           NEW before \in {<<>>, <<"interruption.decision">>},
           ResolveProvisional(p, result, before)
    PROVE  GivenUp /\ LastWord(wire')
  <1> DEFINE q == provisional.response
  <1>1. TypeOK /\ wire \in Logs /\ q \in Responses /\ ~responses[q].cancelled
    BY DEF FinalInv, PauseInv, TypeInv, TypeOK, ProvisionalOwnsActive, ProvisionalRecord
  <1>2. responses' = CancelledResponses \/ UNCHANGED responses
    BY DEF ResolveProvisional, AdvanceEpochAndCancel, CancelActive
  <1>3. GivenUp
    BY <1>1, <1>2, CancelGivesUp
  <1> DEFINE w == Emit(wire, q, before)
  <1>4. w \in Logs /\ LastWord(w)
    <2>1. <<>> \in Seq(Events) /\ "interruption.decision" \in Events
      BY DEF Events
    <2>2. <<"interruption.decision">> \in Seq(Events)
      BY <2>1
    <2>3. before \in Seq(Events)
      BY <2>1, <2>2
    <2> QED BY <1>1, <2>3, EmitType, SameWord, OtherWord
  <1>5. ASSUME NEW v \in Logs, LastWord(v), NEW es, wire' = Emit(v, q, es)
        PROVE  LastWord(wire')
    <2>1. LastWord(Emit(v, q, es))
      BY <1>1, <1>5, OtherWord
    <2> QED BY <1>5, <2>1 DEF LastWord
  <1>6. CASE wire' = Emit(wire, q, Append(before, Resumable(result)))
    BY <1>1, <1>3, <1>5, <1>6, SameWord
  <1>7. CASE wire' = Emit(CancelledWire(w), q, <<result>>)
    <2> HIDE DEF w
    <2>1. CancelledWire(w) \in Logs /\ LastWord(CancelledWire(w))
      BY <1>4, CancelQuiets, CancelWord
    <2> QED BY <1>3, <1>5, <1>7, <2>1
  <1> QED BY <1>6, <1>7 DEF ResolveProvisional

LEMMA DecideWord ==
    ASSUME FinalInv, provisional.response # None,
           NEW p \in ProvisionalRecord, p.response = provisional.response, NEW t,
           DecideInterruption(p, t)
    PROVE  GivenUp /\ LastWord(wire')
  <1> DEFINE q == [p EXCEPT !.echoRecovered = TRUE]
  <1>1. \/ UNCHANGED <<responses, wire>>
        \/ ResolveProvisional(q, "barge_in.rejected", <<"interruption.decision">>)
    BY DEF DecideInterruption
  <1>2. q.response = provisional.response /\ "barge_in.rejected" \in Events /\ TypeOK
    BY DEF ProvisionalRecord, Events, FinalInv, PauseInv, TypeInv
  <1> HIDE DEF q
  <1> QED BY <1>1, <1>2, ResolveWord, CancelGivesUp, SameWord

LEMMA PolicyWord ==
    ASSUME FinalInv, NEW t \in Turns, RunPolicy(t) PROVE GivenUp /\ LastWord(wire')
  <1>1. wire \in Logs /\ TypeOK
    BY DEF FinalInv, PauseInv, TypeInv, TypeOK
  <1>2. CancelledWire(wire) \in Logs /\ LastWord(CancelledWire(wire))
    BY <1>1, CancelQuiets, SameWord, CancelWord
  <1>3. UNCHANGED <<responses, wire>> \/ \E e : Answer(t, e, CancelledWire(wire))
    BY Zenon DEF RunPolicy
  <1> QED BY <1>1, <1>2, <1>3, AnswerWord, CancelGivesUp, SameWord

(* The pause of an accepted takeover is closed after its response was given *)
(* up: the one event that still follows.                                    *)
LEMMA FinalizeWord ==
    ASSUME FinalInv, acceptance.turn \in Turns, FinalizeAcceptedTakeover
    PROVE  GivenUp /\ LastWord(wire')
  <1> DEFINE a == acceptance.response
  <1> DEFINE w == Emit(CancelledWire(wire), a, <<"barge_in.confirmed">>)
  <1>1. wire \in Logs /\ TypeOK
    BY DEF FinalInv, PauseInv, TypeInv, TypeOK
  <1>2. CancelledWire(wire) \in Logs
    BY <1>1, CancelQuiets
  <1>3. "barge_in.confirmed" \in Events /\ <<"barge_in.confirmed">> \in Seq(Events)
    BY DEF Events
  <1>4. w \in Logs
    BY <1>2, <1>3, EmitType
  <1>5. LastWord(w)
    <2> SUFFICES ASSUME NEW r \in Responses, responses[r].cancelled
                 PROVE  w[r] \in {wire[r], Append(wire[r], "barge_in.confirmed")}
      BY DEF LastWord
    <2>1. CancelledWire(wire)[r] = wire[r] /\ wire[r] \in Seq(Events)
      BY <1>1 DEF CancelledWire, Logs
    <2>2. Append(wire[r], "barge_in.confirmed") = wire[r] \o <<"barge_in.confirmed">>
      BY <1>3, <2>1, AppendIsConcat
    <2>3. CASE r = a
      BY <1>2, <2>1, <2>2, <2>3 DEF Emit, Logs
    <2>4. CASE r # a
      BY <1>2, <2>1, <2>4 DEF Emit, Logs
    <2> QED BY <2>3, <2>4
  <1>6. (wire' = w /\ responses' = CancelledResponses) \/ \E e : Answer(acceptance.turn, e, w)
    BY Zenon DEF FinalizeAcceptedTakeover, AdvanceEpochAndCancel, CancelActive
  <1> HIDE DEF w
  <1> QED BY <1>1, <1>4, <1>5, <1>6, AnswerWord, CancelGivesUp

(* A response that fails while it is current was not given up before.       *)
LEMMA FailWord ==
    ASSUME FinalInv, NEW r \in Responses, NEW sp, IsCurrent(r), FailResponse(r, sp)
    PROVE  GivenUp /\ LastWord(wire')
  <1>1. wire \in Logs /\ responses \in [Responses -> ResponseRecord]
    BY DEF FinalInv, PauseInv, TypeInv, TypeOK
  <1>2. active = r /\ ~responses[r].cancelled
    BY DEF IsCurrent
  <1> DEFINE failed == Emit(wire, r, <<"response.failed", "response.cancelled">>)
  <1>3. failed \in Logs /\ LastWord(failed)
    <2>1. <<"response.failed", "response.cancelled">> \in Seq(Events)
      BY DEF Events
    <2> QED BY <1>1, <1>2, <2>1, EmitType, SameWord, OtherWord
  <1>4. wire' = failed \/ wire' = Emit(failed, r, <<"barge_in.rejected">>)
    BY <1>2 DEF FailResponse, WirePauseOver
  <1>5. responses' = [responses EXCEPT ![r].cancelled = TRUE]
    BY DEF FailResponse
  <1>6. GivenUp
    BY <1>1, <1>2, <1>5 DEF GivenUp, ResponseRecord
  <1> HIDE DEF failed
  <1>7. LastWord(wire')
    BY <1>2, <1>3, <1>4, OtherWord
  <1> QED BY <1>6, <1>7

LEMMA GiveUpWord ==
    ASSUME FinalInv, NEW result, wire' = WireGivingUpPause(result) PROVE LastWord(wire')
  <1>1. wire \in Logs
    BY DEF FinalInv, PauseInv, TypeInv, TypeOK
  <1>2. CancelledWire(wire) \in Logs /\ LastWord(CancelledWire(wire))
    BY <1>1, CancelQuiets, SameWord, CancelWord
  <1>3. provisional.response # None => ~responses[provisional.response].cancelled
    BY DEF FinalInv, PauseInv, ProvisionalOwnsActive
  <1> QED BY <1>2, <1>3, OtherWord DEF WireGivingUpPause

(* Every step of a concise session: nothing but the end of its pause is    *)
(* said of a response that was given up.                                   *)
LEMMA ConciseWord ==
    ASSUME MultiPart = FALSE, FinalInv, Next PROVE GivenUp /\ LastWord(wire')
  <1>1. /\ TypeOK
        /\ wire \in Logs
        /\ provisional \in ProvisionalRecord
        /\ \A r \in Responses : responses[r] \in ResponseRecord
        /\ responses \in [Responses -> ResponseRecord]
    BY DEF FinalInv, PauseInv, TypeInv, TypeOK
  <1>2. {"barge_in.rejected", "barge_in.timed_out"} \subseteq Events
    BY DEF Events
  <1>3. UNCHANGED <<responses, wire>> => GivenUp /\ LastWord(wire')
    BY <1>1, CancelGivesUp DEF LastWord
  <1>4. ASSUME NEW r \in Responses, NEW es, ~responses[r].cancelled, wire' = Emit(wire, r, es)
        PROVE  LastWord(wire')
    <2>1. LastWord(Emit(wire, r, es))
      BY <1>1, <1>4, SameWord, OtherWord
    <2> QED BY <1>4, <2>1 DEF LastWord
  <1>5. ASSUME NEW r \in Responses, responses'[r].cancelled = responses[r].cancelled,
               responses'[r].turn = responses[r].turn,
               \A s \in Responses \ {r} : responses'[s] = responses[s]
        PROVE  GivenUp
    BY <1>5 DEF GivenUp
  <1>6. CASE Capture
    <2>1. PICK t \in Turns : HandleSpeechStart(t) \/ HandleSpeechEnd(t)
      BY <1>6 DEF Capture
    <2>2. \/ responses' = CancelledResponses /\ wire' = CancelledWire(wire)
          \/ UNCHANGED <<responses, wire>>
          \/ /\ active # None /\ provisional.response = None /\ phase = "playing"
             /\ responses' = [responses EXCEPT ![active].phaseBefore = "playing"]
             /\ wire' = Emit(wire, active, <<"barge_in.provisional">>)
      BY <2>1 DEF HandleSpeechStart, HandleSpeechEnd, AdvanceEpochAndCancel, CancelActive
    <2>3. CASE responses' = CancelledResponses /\ wire' = CancelledWire(wire)
      <3>1. LastWord(CancelledWire(wire))
        BY SameWord, CancelWord
      <3> QED BY <1>1, <2>3, <3>1, CancelGivesUp DEF LastWord
    <2>4. CASE /\ active # None /\ provisional.response = None /\ phase = "playing"
               /\ responses' = [responses EXCEPT ![active].phaseBefore = "playing"]
               /\ wire' = Emit(wire, active, <<"barge_in.provisional">>)
      <3>1. active \in Responses /\ ~responses[active].cancelled
        BY <1>1, <2>4 DEF TypeOK, FinalInv, PauseInv, PlayingIsAudible
      <3>2. /\ \A s \in Responses \ {active} : responses'[s] = responses[s]
            /\ responses'[active].turn = responses[active].turn
            /\ responses'[active].cancelled = responses[active].cancelled
        BY <1>1, <2>4, <3>1 DEF ResponseRecord
      <3> QED BY <1>4, <1>5, <2>4, <3>1, <3>2
    <2> QED BY <1>3, <2>2, <2>3, <2>4
  <1>7. CASE Finals
    <2>1. ASSUME NEW t \in Turns, HandleStableFinal(t) PROVE GivenUp /\ LastWord(wire')
      <3>1. \/ UNCHANGED <<responses, wire>>
            \/ provisional.response # None /\ DecideInterruption(provisional, t)
            \/ RunPolicy(t)
        BY <2>1 DEF HandleStableFinal
      <3> QED BY <1>1, <1>3, <3>1, DecideWord, PolicyWord
    <2>2. ASSUME NEW t \in Turns, FinishDecision(t) PROVE GivenUp /\ LastWord(wire')
      <3> DEFINE q == [provisional EXCEPT !.echoRecovered = TRUE]
      <3>1. \/ UNCHANGED <<responses, wire>>
            \/ /\ ~Stale(t) /\ deciding[t] # 0
               /\ \/ ResolveProvisional(provisional, "barge_in.rejected", <<>>)
                  \/ ResolveProvisional(q, "barge_in.rejected", <<"interruption.decision">>)
                  \/ active = provisional.response /\ AcceptTakeover(t)
        BY <2>2, Zenon DEF FinishDecision
      <3>2. ~Stale(t) /\ deciding[t] # 0 => provisional.response # None
        BY DEF Stale, FinalInv, PauseInv, NoPauseIsClean
      <3>3. q.response = provisional.response
        BY <1>1 DEF ProvisionalRecord
      <3>4. ASSUME AcceptTakeover(t), active = provisional.response, provisional.response # None
            PROVE  GivenUp /\ LastWord(wire')
        <4> DEFINE w == Emit(wire, active, <<"interruption.decision">>)
        <4>1. active \in Responses /\ ~responses[active].cancelled
          BY <1>1, <3>4 DEF FinalInv, PauseInv, ProvisionalOwnsActive, ProvisionalRecord
        <4>2. LastWord(w)
          BY <1>1, <4>1, SameWord, OtherWord
        <4>3. wire' = CancelledWire(w) /\ responses' = CancelledResponses
          BY <3>4 DEF AcceptTakeover, CancelActive
        <4> HIDE DEF w
        <4>4. LastWord(CancelledWire(w))
          BY <4>2, CancelWord
        <4> QED BY <1>1, <4>3, <4>4, CancelGivesUp DEF LastWord
      <3> HIDE DEF q
      <3>5. ASSUME ResolveProvisional(provisional, "barge_in.rejected", <<>>),
                   provisional.response # None
            PROVE  GivenUp /\ LastWord(wire')
        BY <1>2, <3>5, ResolveWord
      <3>6. ASSUME ResolveProvisional(q, "barge_in.rejected", <<"interruption.decision">>),
                   provisional.response # None
            PROVE  GivenUp /\ LastWord(wire')
        BY <1>2, <3>3, <3>6, ResolveWord
      <3> QED BY <1>3, <3>1, <3>2, <3>4, <3>5, <3>6
    <2> QED BY <1>7, <2>1, <2>2 DEF Finals
  <1>8. CASE Timers
    <2>1. AcceptanceTimeout => \/ UNCHANGED <<responses, wire>>
                               \/ acceptance.turn \in Turns /\ FinalizeAcceptedTakeover
      BY DEF AcceptanceTimeout, FinalInv, PauseInv, TypeInv
    <2>2. ProvisionalTimeout =>
            \/ UNCHANGED <<responses, wire>>
            \/ /\ provisional.response # None
               /\ ResolveProvisional(provisional, "barge_in.timed_out", <<>>)
      BY DEF ProvisionalTimeout, FinalInv, PauseInv, NoPauseIsClean
    <2>3. ASSUME ResolveProvisional(provisional, "barge_in.timed_out", <<>>),
                 provisional.response # None
          PROVE  GivenUp /\ LastWord(wire')
      BY <1>2, <2>3, ResolveWord
    <2> QED BY <1>3, <1>8, <2>1, <2>2, <2>3, FinalizeWord DEF Timers
  <1>9. CASE Control
    <2>1. CASE Start
      BY <1>3, <2>1 DEF Start
    <2>2. CASE ConfirmBargeIn \/ CancelCurrentTurn \/ Stop
      <3>1. /\ responses' = CancelledResponses \/ UNCHANGED responses
            /\ \E result : wire' = WireGivingUpPause(result)
        BY <2>2, Zenon
           DEF ConfirmBargeIn, CancelCurrentTurn, Stop, AdvanceEpochAndCancel, CancelActive
      <3> QED BY <1>1, <3>1, CancelGivesUp, GiveUpWord
    <2>3. CASE RejectBargeIn
      <3> DEFINE q == [provisional EXCEPT !.echoRecovered = TRUE]
      <3>1. q.response = provisional.response
        BY <1>1 DEF ProvisionalRecord
      <3>2. provisional.response # None /\ ResolveProvisional(q, "barge_in.rejected", <<>>)
        BY <2>3 DEF RejectBargeIn
      <3> HIDE DEF q
      <3> QED BY <1>2, <3>1, <3>2, ResolveWord
    <2> QED BY <1>9, <2>1, <2>2, <2>3 DEF Control
  <1>10. CASE Browser
    <2>1. ASSUME NEW r \in Responses, NEW offset, NEW generated,
                 PlaybackPaused(r, offset, generated)
          PROVE  GivenUp /\ LastWord(wire')
      <3> DEFINE p == [provisional EXCEPT !.checkpoint = TRUE]
      <3> DEFINE q == [p EXCEPT !.pendingTurn = None]
      <3>1. q \in ProvisionalRecord /\ q.response = provisional.response
        BY <1>1 DEF ProvisionalRecord
      <3>2. provisional.response # None
        BY <2>1, ConstantsOK DEF PlaybackPaused
      <3>3. UNCHANGED <<responses, wire>> \/ DecideInterruption(q, provisional.pendingTurn)
        BY <2>1 DEF PlaybackPaused
      <3> HIDE DEF q
      <3> QED BY <1>3, <3>1, <3>2, <3>3, DecideWord
    <2>2. ASSUME NEW r \in Responses, NEW offset, NEW generated,
                 PlaybackProgress(r, offset, generated)
          PROVE  GivenUp /\ LastWord(wire')
      BY <1>3, <2>2 DEF PlaybackProgress
    <2>3. ASSUME NEW r \in Responses, NEW offset, NEW completed,
                 PlaybackStopped(r, offset, completed)
          PROVE  GivenUp /\ LastWord(wire')
      <3>1. \/ acceptance.response = r /\ FinalizeAcceptedTakeover
            \/ UNCHANGED responses /\ wire' = WirePauseOver(r, wire)
            \/ UNCHANGED <<responses, wire>>
        BY <2>3 DEF PlaybackStopped
      <3>2. acceptance.response = r => acceptance.turn \in Turns
        BY ConstantsOK DEF FinalInv, PauseInv, TypeInv
      <3>3. CASE UNCHANGED responses /\ wire' = WirePauseOver(r, wire)
        <4>1. GivenUp
          BY <1>1, <3>3, CancelGivesUp
        <4>2. wire' = wire \/ (provisional.response = r
                                /\ wire' = Emit(wire, r, <<"barge_in.rejected">>))
          BY <3>3 DEF WirePauseOver
        <4>3. provisional.response = r => ~responses[r].cancelled
          BY ConstantsOK DEF FinalInv, PauseInv, ProvisionalOwnsActive
        <4> QED BY <1>4, <4>1, <4>2, <4>3 DEF LastWord
      <3> QED BY <1>3, <3>1, <3>2, <3>3, FinalizeWord
    <2> QED BY <1>10, <2>1, <2>2, <2>3 DEF Browser
  <1>11. CASE Reasoning
    <2>1. PICK r \in Responses :
            PiStaleItem(r) \/ PiDelta(r) \/ PiFinal(r) \/ PiError(r) \/ PiEnd(r)
      BY <1>11 DEF Reasoning
    <2>2. \/ UNCHANGED <<responses, wire>>
          \/ IsCurrent(r) /\ FailResponse(r, speech)
          \/ IsCurrent(r) /\ FinishReasoning(r)
      BY <2>1 DEF PiStaleItem, PiDelta, PiFinal, PiError, PiEnd, ConciseEnd
    <2>3. CASE IsCurrent(r) /\ FinishReasoning(r)
      <3>1. /\ responses' = [responses EXCEPT ![r].text = TRUE]
            /\ wire' = Emit(wire, r, <<"reasoning.final">>)
            /\ ~responses[r].cancelled
        BY <2>3 DEF FinishReasoning, IsCurrent
      <3>2. /\ \A s \in Responses \ {r} : responses'[s] = responses[s]
            /\ responses'[r].turn = responses[r].turn
            /\ responses'[r].cancelled = responses[r].cancelled
        BY <1>1, <3>1 DEF ResponseRecord
      <3> QED BY <1>4, <1>5, <3>1, <3>2
    <2> QED BY <1>3, <2>2, <2>3, FailWord
  <1>12. CASE SpeechOutput
    <2>1. PICK r \in Responses : \/ SidecarStarted(r) \/ GeneratedSamples(r)
                                 \/ TtsStarted(r) \/ TtsEnded(r) \/ TtsFailed(r)
      BY <1>12 DEF SpeechOutput
    <2>2. CASE TtsFailed(r)
      <3>1. UNCHANGED <<responses, wire>> \/ \E sp : IsCurrent(r) /\ FailResponse(r, sp)
        BY <2>2, Zenon DEF TtsFailed
      <3> QED BY <1>3, <3>1, FailWord
    <2>3. CASE SidecarStarted(r) \/ GeneratedSamples(r) \/ TtsStarted(r) \/ TtsEnded(r)
      <3>1. /\ \/ UNCHANGED responses
               \/ \E n : responses' = [responses EXCEPT ![r].generated = n]
               \/ responses' = [responses EXCEPT ![r].playback = TRUE,
                                                 ![r].phaseBefore = "playing"]
               \/ responses' = [responses EXCEPT ![r].playback = TRUE]
            /\ UNCHANGED wire \/ \E es : IsCurrent(r) /\ wire' = Emit(wire, r, es)
        BY <2>3, Zenon DEF SidecarStarted, GeneratedSamples, TtsStarted, TtsEnded
      <3>2. /\ \A s \in Responses \ {r} : responses'[s] = responses[s]
            /\ responses'[r].turn = responses[r].turn
            /\ responses'[r].cancelled = responses[r].cancelled
        BY <1>1, <3>1 DEF ResponseRecord
      <3>3. LastWord(wire')
        BY <1>4, <3>1 DEF LastWord, IsCurrent
      <3> QED BY <1>5, <3>2, <3>3
    <2> QED BY <2>1, <2>2, <2>3
  <1> QED BY <1>6, <1>7, <1>8, <1>9, <1>10, <1>11, <1>12 DEF Next

(* In a concise session, the one event that may still follow the           *)
(* cancellation of a response is the end of the pause it was in.           *)
THEOREM CancelledSaysNoMore ==
    ASSUME MultiPart = FALSE PROVE Spec => CancelledIsFinal
  <1>1. Init => CancelledWasGiven
    BY DEF Init, Unused, CancelledWasGiven
  <1>2. PauseInv /\ CancelledWasGiven /\ PauseInv' /\ [Next]_vars
          => CancelledWasGiven' /\ (LastWord(wire') \/ UNCHANGED vars)
    <2> SUFFICES ASSUME PauseInv, CancelledWasGiven, PauseInv', [Next]_vars
                 PROVE  CancelledWasGiven' /\ (LastWord(wire') \/ UNCHANGED vars)
      OBVIOUS
    <2>1. CASE Next
      <3>1. GivenUp /\ LastWord(wire')
        BY <2>1, ConciseWord DEF FinalInv
      <3> QED BY <3>1, GivenUpKeeps DEF FinalInv
    <2>2. CASE UNCHANGED vars
      BY <2>2 DEF vars, CancelledWasGiven
    <2> QED BY <2>1, <2>2
  <1>3. (LastWord(wire') \/ UNCHANGED vars) =>
          [\A r \in Responses :
              responses[r].cancelled =>
                  wire'[r] \in {wire[r], Append(wire[r], "barge_in.confirmed")}]_vars
    BY DEF LastWord
  <1>4. Spec => []PauseInv
    BY PauseInvariant
  <1> QED BY <1>1, <1>2, <1>3, <1>4, PTL DEF Spec, CancelledIsFinal
=============================================================================
