--------------------------- MODULE ReferenceTakes ---------------------------
(***************************************************************************)
(* Recording a reference for a custom voice: the section of the settings    *)
(* dialog (settings/CustomVoiceSection.tsx) makes a recorder per take        *)
(* (voice-enrollment/recorder.ts), which asks for a microphone of its own.   *)
(* The user starts, stops and discards takes and closes the dialog while the *)
(* browser asks for permission, while it records and while a take ends.      *)
(***************************************************************************)
EXTENDS Integers, FiniteSets

CONSTANTS RtTakes, RtTrouble    \* bounds on takes and on failures

Takes == 1..RtTakes
None == 0

VARIABLE rt

Init ==
    rt = [open |-> FALSE, consent |-> FALSE, recording |-> FALSE, busy |-> FALSE, take |-> FALSE,
          ref |-> None, rec |-> [k \in Takes |-> [at |-> "none", mic |-> FALSE, life |-> 0]],
          life |-> 0, doubtful |-> {}, trouble |-> 0]

MayFail == rt.trouble < RtTrouble
Troubled(r) == [r EXCEPT !.trouble = @ + 1]
Asking(r) == {k \in Takes : r.rec[k].at = "asking"}

\* a closed section hears nothing of what it started
Hears(r, k) == r.open /\ r.rec[k].life = r.life

Mount ==
    /\ ~rt.open
    /\ rt' = [rt EXCEPT !.open = TRUE, !.consent = FALSE, !.recording = FALSE, !.busy = FALSE,
                        !.take = FALSE, !.ref = None, !.life = IF @ < RtTakes THEN @ + 1 ELSE @]

Consent == rt.open /\ rt' = [rt EXCEPT !.consent = ~@]

\* the button does not wait for an earlier answer
Start ==
    \E k \in Takes :
        /\ rt.open /\ rt.consent /\ ~rt.recording /\ ~rt.busy
        /\ rt.rec[k].at = "none" /\ \A j \in 1..k - 1 : rt.rec[j].at # "none"
        /\ rt' = [rt EXCEPT !.rec[k] = [at |-> "asking", mic |-> FALSE, life |-> rt.life], !.ref = k,
                    !.doubtful = IF Asking(rt) = {} THEN @ ELSE @ \cup Asking(rt) \cup {k}]

Release(r, k) == [r EXCEPT !.rec[k].at = "ended", !.rec[k].mic = FALSE]

\* getUserMedia answers; the recorder runs at once or not at all
Granted ==
    \E k \in Asking(rt) :
        rt' = [rt EXCEPT !.rec[k].at = "recording", !.rec[k].mic = TRUE,
                         !.recording = IF Hears(rt, k) THEN TRUE ELSE @]

\* whichever recorder failed, the section forgets the one it has
Refused ==
    \E k \in Asking(rt) :
        /\ MayFail
        /\ rt' = [Release(Troubled(rt), k) EXCEPT !.ref = IF Hears(rt, k) THEN None ELSE @]

Stop ==
    /\ rt.open /\ rt.recording /\ rt.ref # None
    /\ LET r == [rt EXCEPT !.recording = FALSE, !.ref = None]
       IN  rt' = IF rt.rec[rt.ref].at = "recording" THEN [r EXCEPT !.rec[rt.ref].at = "stopping"]
                 ELSE [r EXCEPT !.take = FALSE]

\* onstop or onerror; the take passes the checks of the reference or it does not
Stopped ==
    \E k \in Takes, good \in BOOLEAN :
        /\ rt.rec[k].at = "stopping"
        /\ rt' = [Release(rt, k) EXCEPT !.take = IF Hears(rt, k) THEN good ELSE @]

Upload ==
    \/ /\ rt.open /\ rt.consent /\ ~rt.recording /\ ~rt.busy
       /\ rt' = [rt EXCEPT !.busy = TRUE]
    \/ /\ rt.busy
       /\ \E good \in BOOLEAN : rt' = [rt EXCEPT !.busy = FALSE, !.take = @ \/ good]

Discard == rt.take /\ rt' = [rt EXCEPT !.take = FALSE]

\* mutant: leaves the recorder to the garbage collector
MutantCancelled(r) == r

\* cancel: nothing to release while the permission is asked for
Cancelled(r) ==
    IF r.ref = None \/ r.rec[r.ref].at # "recording" THEN r ELSE Release(r, r.ref)

Unmount ==
    /\ rt.open
    /\ rt' = [Cancelled(rt) EXCEPT !.open = FALSE, !.ref = None, !.recording = FALSE,
                 !.busy = FALSE, !.take = FALSE, !.doubtful = @ \cup Asking(rt)]

Next ==
    \/ Mount \/ Consent \/ Start \/ Granted \/ Refused \/ Stop \/ Stopped
    \/ Upload \/ Discard \/ Unmount

Spec == Init /\ [][Next]_rt

-----------------------------------------------------------------------------
(* The microphone of a take is on only while the section shows a recording   *)
(* it can stop, or the take is ending, in every order of permission, failure, *)
(* stop and close, except for a take that was still asking when another was   *)
(* started or the dialog was closed (decisions/009, line 80; recorder.ts:48,  *)
(* CustomVoiceSection.tsx:48-98).                                           *)
MicIsReleased ==
    \A k \in Takes \ rt.doubtful :
        rt.rec[k].mic => \/ rt.rec[k].at = "stopping"
                         \/ rt.open /\ rt.recording /\ rt.ref = k
=============================================================================
