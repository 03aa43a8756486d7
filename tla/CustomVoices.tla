---------------------------- MODULE CustomVoices ----------------------------
(***************************************************************************)
(* Custom voices.  The browser stores the references and is their source of *)
(* truth (storage/custom-voice-store.ts, hooks/useSettings.ts, the section  *)
(* of the settings dialog); the host relays one enrolment or removal at a   *)
(* time (server/app.ts, sidecar/voice-enrollment.ts); the sidecar keeps a   *)
(* prompt per voice in memory only (server.py, runtime.py), so the browser  *)
(* restores what a new sidecar lacks.                                       *)
(*                                                                         *)
(* Request 0 is the browser's restore loop, the others are what the user    *)
(* asks for.                                                               *)
(***************************************************************************)
EXTENDS Integers, FiniteSets

CONSTANTS
    CvVoices,       \* references the user has
    CvLimit,        \* MAX_CUSTOM_VOICES, in the store and in the sidecar
    CvJobs,         \* bound on the operations of the user
    CvTrouble       \* bound on failures, timeouts and restarts

Refs == 1..CvVoices
Ids == 0..CvJobs
Nobody == -1
NoVoice == 0

VARIABLE cv

Idle == [kind |-> "none", v |-> NoVoice, at |-> "idle", left |-> {}]

Init ==
    \E stored \in SUBSET Refs :
        /\ Cardinality(stored) <= CvLimit
        /\ cv = [stored |-> stored, known |-> stored, raw |-> [ready |-> FALSE, has |-> {}],
                 polls |-> {}, fresh |-> FALSE, effect |-> FALSE, gave |-> FALSE, locked |-> FALSE,
                 jobs |-> [id \in Ids |-> Idle], used |-> 0,
                 busy |-> Nobody, speaking |-> Nobody, wire |-> {},
                 ready |-> TRUE, has |-> {}, races |-> {}, trouble |-> 0]

Live(c, id) == c.jobs[id].at # "idle"

\* history: an enrolment of the voice and its deletion were under way together
Enrolling(c, v) ==
    \/ v \in c.jobs[0].left
    \/ \E id \in Ids : Live(c, id) /\ c.jobs[id].v = v
                       /\ c.jobs[id].kind \in {"sync", "enroll", "preview", "rename"}
    \/ \E r \in c.wire : r.op = "enroll" /\ r.v = v
Deleting(c, v) == \E id \in Ids : Live(c, id) /\ c.jobs[id].v = v /\ c.jobs[id].kind = "delete"
Noted(c) == [c EXCEPT !.races = @ \cup {v \in Refs : Enrolling(c, v) /\ Deleting(c, v)}]

At(c, id, at) == [c EXCEPT !.jobs[id].at = at]
Ended(c, id) == [c EXCEPT !.jobs[id] = Idle, !.locked = IF c.jobs[id].kind = "preview" THEN @ ELSE FALSE]
Troubled(c) == [c EXCEPT !.trouble = @ + 1]
MayFail == cv.trouble < CvTrouble

-----------------------------------------------------------------------------
(* The browser restores what the sidecar lacks.                            *)

\* mutant: compared with the catalogue the browser merged its own voices into
MutantMissing(c) == c.known \ (c.raw.has \cup c.known)

Missing(c) == IF c.raw.ready THEN c.known \ c.raw.has ELSE {}

Posts(c, v, left) ==
    [c EXCEPT !.jobs[0] = [kind |-> "sync", v |-> v, at |-> "posted", left |-> left]]

\* syncStoredCustomVoices: one loop at a time, over the list of this moment
Synced(c) ==
    IF Live(c, 0) \/ Missing(c) = {} THEN {c}
    ELSE {Posts(c, v, Missing(c) \ {v}) : v \in Missing(c)}

\* the readiness poll reads the sidecar's catalogue
Poll ==
    /\ cv.polls = {}
    /\ cv' = [cv EXCEPT !.polls = {[ready |-> cv.ready, has |-> cv.has, old |-> FALSE]}]

OnModels ==
    \E p \in cv.polls :
        \E c \in Synced([cv EXCEPT !.polls = {}, !.raw = [ready |-> p.ready, has |-> p.has],
                                  !.fresh = ~p.old /\ ~Live(cv, 0), !.gave = FALSE]) : cv' = Noted(c)

\* the effect of setCustomVoices
Listed ==
    /\ cv.effect
    /\ \E c \in Synced([cv EXCEPT !.effect = FALSE]) : cv' = Noted(c)

\* the loop goes on after a voice, and gives up after the first failure
SyncGoesOn ==
    LET j == cv.jobs[0] IN
    \/ /\ j.at = "ok"
       /\ IF j.left = {} THEN cv' = Ended(cv, 0)
          ELSE \E v \in j.left : cv' = Noted(Posts(cv, v, j.left \ {v}))
    \/ j.at = "err" /\ cv' = [Ended(cv, 0) EXCEPT !.gave = TRUE]

-----------------------------------------------------------------------------
(* The user: save, delete, rename and preview.                             *)

Begins(c, kind, v, at) ==
    [c EXCEPT !.jobs[c.used + 1] = [kind |-> kind, v |-> v, at |-> at, left |-> {}],
              !.used = @ + 1]

MayAsk == cv.used < CvJobs

SaveVoice ==
    /\ MayAsk /\ ~cv.locked
    /\ \E v \in Refs : cv' = Noted([Begins(cv, "enroll", v, "save") EXCEPT !.locked = TRUE])

\* enrollVoice: the row, the list, and only then the sidecar
StoreSaves ==
    \E id \in Ids :
        /\ cv.jobs[id].at = "save"
        /\ LET v == cv.jobs[id].v IN
           IF v \notin cv.stored /\ Cardinality(cv.stored) >= CvLimit THEN cv' = Ended(cv, id)
           ELSE \/ cv' = At([cv EXCEPT !.stored = @ \cup {v}], id, "list")
                \/ MayFail /\ cv' = Ended(Troubled(cv), id)

List ==
    \E id \in Ids :
        /\ cv.jobs[id].at = "list"
        /\ LET c == [cv EXCEPT !.known = cv.stored, !.effect = TRUE]
           IN  cv' = IF cv.jobs[id].kind = "enroll" THEN At(c, id, "posted") ELSE Ended(c, id)

Enrolled ==
    \E id \in Ids \ {0} :
        /\ cv.jobs[id].kind = "enroll" /\ cv.jobs[id].at \in {"ok", "err"}
        /\ cv' = Ended(cv, id)

\* deleteVoice: the sidecar first
Requested(c, v) == Begins(c, "delete", v, "posted")

DeleteVoice ==
    /\ MayAsk /\ ~cv.locked
    /\ \E v \in cv.known : cv' = Noted([Requested(cv, v) EXCEPT !.locked = TRUE])

StoreDeletes ==
    \E id \in Ids :
        /\ cv.jobs[id].kind = "delete"
        /\ \/ cv.jobs[id].at = "ok" /\ cv' = At([cv EXCEPT !.stored = @ \ {cv.jobs[id].v}], id, "list")
           \/ cv.jobs[id].at = "ok" /\ MayFail /\ cv' = At(Troubled(cv), id, "list")
           \/ cv.jobs[id].at = "err" /\ cv' = Ended(cv, id)

\* renameVoice: the row is read and written in two transactions
RenameVoice ==
    /\ MayAsk /\ ~cv.locked
    /\ \E v \in cv.known \cap cv.stored :
        cv' = Noted([Begins(cv, "rename", v, "save") EXCEPT !.locked = TRUE])

\* previewVoice: ensureCustomVoiceEnrolled first
Preview ==
    /\ MayAsk
    /\ \A id \in Ids : cv.jobs[id].kind # "preview"
    /\ \E v \in cv.known :
        LET there == cv.raw.ready /\ v \in cv.raw.has
        IN  cv' = Noted(Begins(cv, "preview", v,
                            IF ~there /\ v \in cv.stored THEN "posted" ELSE "ask"))

PreviewEnrolled ==
    \E id \in Ids :
        /\ cv.jobs[id].kind = "preview"
        /\ \/ cv.jobs[id].at = "ok" /\ cv' = At(cv, id, "ask")
           \/ cv.jobs[id].at = "err" /\ cv' = Ended(cv, id)

\* POST /api/voice-preview: what the sidecar has now, one at a time
HostPreviews ==
    \E id \in Ids :
        /\ cv.jobs[id].at = "ask"
        /\ cv' = IF ~cv.ready \/ cv.jobs[id].v \notin cv.has \/ cv.speaking # Nobody
                 THEN Ended(cv, id)
                 ELSE At([cv EXCEPT !.speaking = id], id, "speaking")

\* heard, failed or out of time
PreviewEnds ==
    /\ cv.speaking # Nobody
    /\ cv' = [(IF Live(cv, cv.speaking) THEN Ended(cv, cv.speaking) ELSE cv) EXCEPT !.speaking = Nobody]

\* the dialog forgets what it waits for; a preview that asked the host is aborted
DialogCloses ==
    /\ cv.locked \/ \E id \in Ids : cv.jobs[id].at \in {"ask", "speaking"}
    /\ cv' = [cv EXCEPT !.locked = FALSE,
                        !.jobs = [id \in Ids |-> IF cv.jobs[id].at \in {"ask", "speaking"}
                                                 THEN Idle ELSE cv.jobs[id]]]

-----------------------------------------------------------------------------
(* The host: one enrolment or removal at a time, for so long.              *)

Op(id) == IF cv.jobs[id].kind = "delete" THEN "remove" ELSE "enroll"

HostTakes ==
    \E id \in Ids :
        /\ cv.jobs[id].at = "posted"
        /\ cv' = IF cv.busy # Nobody THEN At(cv, id, "err")
                 ELSE At([cv EXCEPT !.busy = id,
                                    !.wire = @ \cup {[id |-> id, op |-> Op(id), v |-> cv.jobs[id].v]}],
                         id, "served")

\* after 180 seconds the socket is closed; the sidecar still has the request
HostTimesOut ==
    /\ cv.busy # Nobody /\ MayFail
    /\ \E r \in cv.wire :
        /\ r.id = cv.busy
        /\ cv' = At([Troubled(cv) EXCEPT !.busy = Nobody,
                        !.wire = (@ \ {r}) \cup {[r EXCEPT !.id = Nobody]}], r.id, "err")

Replied(c, r, at) ==
    IF r.id = Nobody THEN c ELSE At([c EXCEPT !.busy = Nobody], r.id, at)

-----------------------------------------------------------------------------
(* The sidecar: one request after the other, of any connection.            *)

Handled(r) == [cv EXCEPT !.wire = @ \ {r}]

\* history: what the browser was told is no longer the sidecar's catalogue
Has(c, has) == [c EXCEPT !.has = has, !.fresh = FALSE,
                         !.polls = {[p EXCEPT !.old = TRUE] : p \in @}]

\* the adapter takes a reference
Accepts(c, v) ==
    /\ c.ready /\ c.speaking = Nobody
    /\ v \in c.has \/ Cardinality(c.has) < CvLimit

SidecarEnrols ==
    \E r \in cv.wire :
        /\ r.op = "enroll"
        /\ \/ /\ Accepts(cv, r.v)
              /\ cv' = Replied(Has(Handled(r), cv.has \cup {r.v}), r, "ok")
           \/ /\ ~Accepts(cv, r.v)
              /\ cv' = Replied(Handled(r), r, "err")
           \/ /\ MayFail /\ cv' = Replied(Troubled(Handled(r)), r, "err")

SidecarRemoves ==
    \E r \in cv.wire :
        /\ r.op = "remove"
        /\ cv' = IF cv.ready THEN Replied(Has(Handled(r), cv.has \ {r.v}), r, "ok")
                 ELSE Replied(Handled(r), r, "err")

\* the prompts live in memory only
SidecarRestarts ==
    /\ MayFail
    /\ cv' = [Has(Troubled(cv), {}) EXCEPT !.ready = TRUE, !.wire = {}, !.busy = Nobody,
                !.jobs = [id \in Ids |-> IF cv.jobs[id].at = "served"
                                         THEN [cv.jobs[id] EXCEPT !.at = "err"] ELSE cv.jobs[id]]]

\* the optional model is retired for the life of the process
QwenRetires ==
    /\ cv.ready /\ MayFail
    /\ cv' = [Has(Troubled(cv), {}) EXCEPT !.ready = FALSE]

Next ==
    \/ Poll \/ OnModels \/ Listed \/ SyncGoesOn
    \/ SaveVoice \/ StoreSaves \/ List \/ Enrolled \/ DeleteVoice \/ StoreDeletes \/ RenameVoice
    \/ Preview \/ PreviewEnrolled \/ HostPreviews \/ PreviewEnds \/ DialogCloses
    \/ HostTakes \/ HostTimesOut \/ SidecarEnrols \/ SidecarRemoves
    \/ SidecarRestarts \/ QwenRetires

Spec == Init /\ [][Next]_cv

-----------------------------------------------------------------------------
(* The sidecar has the voices the browser stores.  None more, however       *)
(* failures, timeouts, restarts and repeated requests fall, unless a voice  *)
(* was being enrolled while it was deleted (useSettings.ts:318-329;         *)
(* decisions/009, "Deletion").  And when the browser has the sidecar's      *)
(* present catalogue and nothing is under way, either no stored voice is    *)
(* missing there or the last attempt failed and the next answer repeats it  *)
(* (useSettings.ts:148-178).                                                *)
VoicesAgree ==
    /\ cv.has \subseteq cv.stored \cup cv.races
    /\ (/\ cv.fresh /\ cv.ready
        /\ \A id \in Ids : ~Live(cv, id)
        /\ ~cv.effect /\ ~cv.gave)
           => cv.stored \subseteq cv.has
=============================================================================
