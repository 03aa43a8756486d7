----------------------------- MODULE SpeechPort ----------------------------
(***************************************************************************)
(* What SpeechOutputPort promises its caller about each speech it is asked *)
(* for (SessionOrchestrator.ts:61-108), whatever the audio client and the  *)
(* sidecar do underneath: `started' and `completion' settle once and in    *)
(* order, audio reaches the browser only while the speech is alive, and a  *)
(* speech that completed or was rejected is silent ever after.             *)
(***************************************************************************)
EXTENDS Naturals

CONSTANT Streams        \* the speeches the port may be asked for

VARIABLES
    promise,            \* per speech: how far its promises have settled
    sunk                \* per speech: the frames of audio the browser was sent

portVars == <<promise, sunk>>

Promises == {"unused", "requested", "started", "completed", "rejected"}

Init ==
    /\ promise = [s \in Streams |-> "unused"]
    /\ sunk = [s \in Streams |-> 0]

Request(s) ==
    /\ promise[s] = "unused"
    /\ promise' = [promise EXCEPT ![s] = "requested"]
    /\ UNCHANGED sunk

Start(s) ==
    /\ promise[s] = "requested"
    /\ promise' = [promise EXCEPT ![s] = "started"]
    /\ UNCHANGED sunk

MoreSunk(s) ==
    /\ sunk'[s] >= sunk[s]
    /\ sunk' = [sunk EXCEPT ![s] = sunk'[s]]

(* More audio: from the client's buffer or as it arrives.                  *)
Hear(s) ==
    /\ promise[s] = "started"
    /\ MoreSunk(s)
    /\ UNCHANGED promise

(* Completion hands over whatever was still held back.                     *)
Complete(s) ==
    /\ promise[s] = "started"
    /\ promise' = [promise EXCEPT ![s] = "completed"]
    /\ MoreSunk(s)

(* A cancellation rejects one speech, a failure of the engine all of them. *)
Reject(dropped) ==
    /\ \A s \in dropped : promise[s] \in {"unused", "requested", "started"}
    /\ promise' = [s \in Streams |-> IF s \in dropped THEN "rejected" ELSE promise[s]]
    /\ UNCHANGED sunk

Next ==
    \/ \E s \in Streams : Request(s) \/ Start(s) \/ Hear(s) \/ Complete(s)
    \/ \E dropped \in SUBSET Streams : Reject(dropped)

Spec == Init /\ [][Next]_portVars
=============================================================================
