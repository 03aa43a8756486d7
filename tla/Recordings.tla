----------------------------- MODULE Recordings -----------------------------
(***************************************************************************)
(* The recording of one session.  The recorder slices the captured frames   *)
(* by the VAD events of the host, buffers what is played, encodes one item   *)
(* at a time off the main thread and stores a row per utterance and per      *)
(* playback (recording/recorder.ts, encoder-client.ts); the turn a row       *)
(* belongs to may be known before the utterance ends, while its row is being *)
(* made, or after (transcript.final).  The rows are trimmed and deleted by   *)
(* the user and read by the export (storage/recording-store.ts,              *)
(* sessions/StoppedSession.tsx, recording/splice.ts).                        *)
(*                                                                         *)
(* Items 1..RcUtterances are the user's utterances, in the order they are    *)
(* spoken, the others playbacks; an utterance is its own turn.               *)
(***************************************************************************)
EXTENDS Integers, FiniteSets, Sequences, SequencesExt

CONSTANTS
    RcUtterances,   \* bound on the user's utterances
    RcPlaybacks,    \* bound on playbacks
    RcTrouble       \* bound on failures, recoveries and reloads

Spoken == 1..RcUtterances
Played == RcUtterances + 1 .. RcUtterances + RcPlaybacks
Items == Spoken \cup Played
NoTurn == 0

VARIABLE rc

\* an item: is there audio, which turn it names, which turn it answers
Unheard == [at |-> "none", audio |-> FALSE, ends |-> TRUE, turn |-> NoTurn, reply |-> NoTurn]

Init ==
    rc = [item |-> [i \in Items |-> Unheard], state |-> "live",
          final |-> {}, early |-> {}, entries |-> {}, known |-> {}, repairs |-> {}, awaited |-> {},
          work |-> <<>>, putting |-> {}, seq |-> 0, rows |-> {}, missed |-> {}, trouble |-> 0]

MayFail == rc.trouble < RcTrouble
Troubled(c) == [c EXCEPT !.trouble = @ + 1]
Recording == rc.state = "live"
Open(c) == {i \in Items : c.item[i].at = "open"}

-----------------------------------------------------------------------------
(* What is captured and played.                                            *)

\* a frame of the microphone goes to every open slice
OnCaptureAudio ==
    /\ Recording /\ Open(rc) \cap Spoken # {}
    /\ rc' = [rc EXCEPT !.item = [i \in Items |->
                 IF i \in Open(rc) \cap Spoken THEN [@[i] EXCEPT !.audio = TRUE] ELSE @[i]]]

\* a slice begins with what the lookback still holds
SpeechStart ==
    \E u \in Spoken, held \in BOOLEAN :
        /\ Recording /\ rc.item[u].at = "none"
        /\ \A v \in 1..u - 1 : rc.item[v].at # "none"
        /\ \A v \in Open(rc) \cap Spoken : ~rc.item[v].ends
        /\ rc' = [rc EXCEPT !.item[u].at = "open", !.item[u].audio = held]

\* the capture is recovered: the host forgets the utterance of the old one
Recover ==
    \E u \in Open(rc) \cap Spoken :
        /\ Recording /\ MayFail /\ rc.item[u].ends
        /\ rc' = [Troubled(rc) EXCEPT !.item[u].ends = FALSE]

OnPlaybackAudio ==
    \E p \in Open(rc) \cap Played :
        /\ Recording /\ ~rc.item[p].audio
        /\ rc' = [rc EXCEPT !.item[p].audio = TRUE]

\* reasoning.started named the turn the response answers
TtsStarted ==
    \E p \in Played, u \in rc.final :
        /\ Recording /\ rc.item[p].at = "none" /\ Open(rc) \cap Played = {}
        /\ \A q \in Played : q < p => rc.item[q].at # "none" /\ rc.item[q].reply <= u
        /\ rc' = [rc EXCEPT !.item[p] = [Unheard EXCEPT !.at = "open", !.turn = u, !.reply = u]]

ResponseFailed ==
    \E p \in Open(rc) \cap Played :
        /\ Recording /\ MayFail
        /\ rc' = [Troubled(rc) EXCEPT !.item[p].at = "gone"]

-----------------------------------------------------------------------------
(* An item is committed: encoded, one after the other, and stored.         *)

\* no audio, no row
Committed(c, i) ==
    IF c.item[i].audio THEN [c EXCEPT !.item[i].at = "encoding", !.work = Append(@, i)]
    ELSE [c EXCEPT !.item[i].at = "gone"]

CommitUserSlice(c, u) ==
    LET d == Committed([c EXCEPT !.item[u].turn = IF u \in c.early THEN u ELSE NoTurn,
                                 !.early = @ \ {u}], u)
    IN  IF d.item[u].at = "encoding" THEN [d EXCEPT !.entries = @ \cup {u}] ELSE d

SpeechEnd ==
    \E u \in Open(rc) \cap Spoken :
        Recording /\ rc.item[u].ends /\ rc' = CommitUserSlice(rc, u)

\* playback.stopped
PlaybackStopped ==
    \E p \in Open(rc) \cap Played : Recording /\ rc' = Committed(rc, p)

Lost(c, i) == [c EXCEPT !.item[i].at = "gone", !.entries = @ \ {i}, !.awaited = @ \ {i}]

\* the worker answers in order; what the row says is fixed when it does
Encoded ==
    /\ rc.work # <<>>
    /\ LET i == Head(rc.work)
           c == [rc EXCEPT !.work = Tail(@)]
           row == [item |-> i, seq |-> rc.seq, turn |-> rc.item[i].turn, trimmed |-> FALSE]
       IN  \/ rc' = [c EXCEPT !.item[i].at = "putting", !.putting = @ \cup {row}, !.seq = @ + 1]
           \/ MayFail /\ rc' = Lost(Troubled(c), i)

Put ==
    \E row \in rc.putting :
        LET i == row.item
            c == [rc EXCEPT !.putting = @ \ {row}]
        IN  \/ rc' = [c EXCEPT !.item[i].at = "row", !.rows = @ \cup {row}, !.entries = @ \ {i},
                               !.known = IF i \in Spoken THEN @ \cup {i} ELSE @,
                               !.awaited = @ \ {i}]
            \/ MayFail /\ rc' = Lost(Troubled(c), i)

-----------------------------------------------------------------------------
(* The turn of an utterance is known.                                      *)

\* mutant: the identity is not kept for a row that does not exist yet
MutantFinal(c, u) ==
    IF u \in c.entries THEN [c EXCEPT !.item[u].turn = u]
    ELSE IF u \in c.known THEN [c EXCEPT !.repairs = @ \cup {u}]
    ELSE c

Final(c, u) ==
    IF u \in c.entries THEN [c EXCEPT !.item[u].turn = u]
    ELSE IF u \in c.known THEN [c EXCEPT !.repairs = @ \cup {u}]
    ELSE [c EXCEPT !.early = @ \cup {u}]

\* one at a time, in order; the row being stored does not see it
TranscriptFinal ==
    \E u \in Spoken \ rc.final :
        /\ rc.state \in {"live", "stopping"}
        /\ rc.item[u].at # "none" /\ 1..u - 1 \subseteq rc.final
        /\ rc' = [Final(rc, u) EXCEPT !.final = @ \cup {u},
                    !.missed = IF rc.item[u].at = "putting" THEN @ \cup {u} ELSE @]

\* updateTurnId: one transaction
UpdateTurnId ==
    \E u \in rc.repairs :
        rc' = [rc EXCEPT !.repairs = @ \ {u}, !.awaited = @ \ {u},
                         !.rows = {IF r.item = u THEN [r EXCEPT !.turn = u] ELSE r : r \in @}]

-----------------------------------------------------------------------------
(* The session ends, or the page does.                                     *)

Pending(c) == {i \in Items : c.item[i].at \in {"encoding", "putting"}} \cup c.repairs

\* stop(true): open slices are stored cut short, open playbacks dropped
Stop ==
    /\ Recording
    /\ LET c == FoldLeft(CommitUserSlice, rc, SetToSortSeq(Open(rc) \cap Spoken, <))
           d == [c EXCEPT !.state = "stopping",
                    !.item = [i \in Items |-> IF i \in Open(c) THEN [@[i] EXCEPT !.at = "gone"]
                                              ELSE @[i]]]
       IN  rc' = [d EXCEPT !.awaited = Pending(d)]

\* what was under way when it stopped has settled; the store is closed
Released ==
    /\ rc.state = "stopping" /\ rc.awaited = {}
    /\ rc' = [rc EXCEPT !.state = "closed"]

Started(c) ==
    [c EXCEPT !.state = "live",
              !.seq = IF c.rows = {} THEN 0 ELSE 1 + (CHOOSE n \in {r.seq : r \in c.rows} :
                                                      \A r \in c.rows : r.seq <= n)]

\* the page is opened again; what was in memory is gone
Reload ==
    /\ rc.state = "closed" \/ MayFail
    /\ \E i \in Items : rc.item[i].at = "none"
    /\ LET over == {u \in Spoken : rc.item[u].at # "none"}
       IN  rc' = Started([(IF rc.state = "closed" THEN rc ELSE Troubled(rc)) EXCEPT
                !.work = <<>>, !.putting = {}, !.early = {}, !.entries = {}, !.known = {},
                !.repairs = {}, !.awaited = {},
                !.item = [i \in Items |-> IF @[i].at \in {"none", "row"} THEN @[i]
                                          ELSE [@[i] EXCEPT !.at = "gone"]],
                !.final = @ \cup over, !.missed = @ \cup (over \ rc.final) \cup rc.repairs])

-----------------------------------------------------------------------------
(* The user reviews the recording.                                         *)

\* the bubble of a row; a row without its turn has none
Bubble(c, r) == IF r.item \in Spoken /\ r.turn = NoTurn THEN {} ELSE {r}

\* setItemsTrimmed: all of them or none
ToggleTrim ==
    \E r \in rc.rows :
        /\ Bubble(rc, r) # {}
        /\ rc' = [rc EXCEPT !.rows = (@ \ Bubble(rc, r))
                                     \cup {[b EXCEPT !.trimmed = ~@] : b \in Bubble(rc, r)}]

DeleteRecording ==
    /\ rc.rows # {}
    /\ rc' = [rc EXCEPT !.rows = {}]

\* orderItems: turns in order, the user first; rows without a turn come last
Before(a, b) ==
    IF a.turn # NoTurn /\ b.turn # NoTurn
    THEN \/ a.turn < b.turn
         \/ a.turn = b.turn /\ a.item \in Spoken /\ b.item \in Played
         \/ a.turn = b.turn /\ (a.item \in Spoken <=> b.item \in Spoken) /\ a.seq < b.seq
    ELSE IF a.turn = NoTurn /\ b.turn = NoTurn THEN a.seq < b.seq
    ELSE a.turn # NoTurn

Exported(c) == SetToSortSeq({r \in c.rows : ~r.trimmed}, Before)

Next ==
    \/ OnCaptureAudio \/ SpeechStart \/ Recover \/ SpeechEnd
    \/ TtsStarted \/ OnPlaybackAudio \/ ResponseFailed \/ PlaybackStopped
    \/ Encoded \/ Put \/ TranscriptFinal \/ UpdateTurnId
    \/ Stop \/ Released \/ Reload \/ ToggleTrim \/ DeleteRecording

Spec == Init /\ [][Next]_rc

-----------------------------------------------------------------------------
(* What is stored is the conversation as it went.  An utterance belongs to  *)
(* its turn as soon as nothing is under way, in whatever order the end of   *)
(* the speech, the encoder, the store and the final transcript come; the    *)
(* one the store was writing at that moment is the known exception          *)
(* (recorder.ts:144-161, 240-290).  And the export has what was said before *)
(* what was answered to it, turn by turn, although rows are stored in the   *)
(* order their audio ended, across reloads and trims (splice.ts:70-84).     *)
RecordedAsSpoken ==
    Pending(rc) = {} =>
        LET said(r) == IF r.item \in Spoken THEN r.item ELSE rc.item[r.item].reply
            kept == SelectSeq(Exported(rc), LAMBDA r : r.turn # NoTurn)
        IN  /\ \A r \in rc.rows : r.item \in (Spoken \cap rc.final) \ rc.missed => r.turn = r.item
            /\ \A i, j \in 1..Len(kept) : i < j =>
                 \/ said(kept[i]) < said(kept[j])
                 \/ said(kept[i]) = said(kept[j]) /\ kept[j].item \in Played
                        /\ kept[i].item < kept[j].item
            /\ Cardinality({r.seq : r \in rc.rows}) = Cardinality(rc.rows)
=============================================================================
