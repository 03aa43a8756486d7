---------------------------- MODULE VoiceSettings ----------------------------
(***************************************************************************)
(* The settings of the browser: the stored row (settings/settings-store.ts),*)
(* the model in memory that every readiness answer reconciles with the      *)
(* engines there are (hooks/useSettings.ts, settings/settings-model.ts,     *)
(* hooks/useServiceStatuses.ts), the dialog that edits a copy of it         *)
(* (settings/SettingsDialog.tsx) and the sessions that start with it        *)
(* (App.tsx).                                                              *)
(*                                                                         *)
(* "k" is Kokoro, the default engine; "q" is Qwen, which may be absent or   *)
(* fail, and which alone has custom voices.  What else the user may edit    *)
(* (name, persona, Pi) is one number.                                      *)
(***************************************************************************)
EXTENDS Integers, FiniteSets

CONSTANTS
    VsEdits,        \* bound on what the user types, selects or picks
    VsDialogs,      \* bound on the openings of the dialog
    VsPolls,        \* bound on the readiness requests
    VsStarts,       \* bound on session starts and resumes
    VsTrouble       \* bound on engine changes, deletions and reloads

Engines == {"k", "q"}
Voices(m) == IF m = "k" THEN {"k1", "k2"} ELSE {"q1", "custom"}
Default(m) == IF m = "k" THEN "k1" ELSE "q1"
NoVoice == "none"
None == "none"

VARIABLE vs

Factory == [name |-> 0, model |-> "k", voice |-> NoVoice,
            profiles |-> [m \in Engines |-> NoVoice]]
NoModels == [m \in Engines |-> None]

Fresh == [mem |-> Factory, ready |-> FALSE, listed |-> FALSE, custom |-> FALSE,
          models |-> NoModels, fallback |-> None, polls |-> {},
          open |-> FALSE, draft |-> Factory, typed |-> 0,
          saving |-> FALSE, writing |-> Factory, meant |-> 0, excused |-> FALSE]

Page == DOMAIN Fresh

Init ==
    vs = [f \in Page \cup {"row", "voices", "qwen", "sent", "frozen", "want",
                           "edits", "dialogs", "asked", "starts", "trouble"} |->
            CASE f \in Page -> Fresh[f]
              [] f = "voices" -> TRUE        \* the custom voice is in the browser's store
              [] f = "qwen" -> "ready"
              [] f \in {"row", "sent", "frozen", "want"} -> Factory
              [] OTHER -> 0]

-----------------------------------------------------------------------------
(* Reconciling a choice with the engines there are.                        *)

\* the sidecar's catalogue with the browser's voices merged in
Catalog(m, p) == IF m = None THEN {} ELSE Voices(m) \ (IF p.custom THEN {} ELSE {"custom"})

ReconcileVoice(voice, m, catalog) ==
    IF catalog = {} \/ voice \in catalog THEN voice ELSE Default(m)

\* only a voice of the same engine counts
Scoped(s, model) ==
    IF s.profiles[model] # NoVoice THEN s.profiles[model]
    ELSE IF s.model = model THEN s.voice ELSE NoVoice

ReconcileSettings(s, p) ==
    LET known == p.models["k"] # None
        gone  == p.models[s.model] = "unavailable" \/ (known /\ p.models[s.model] = None)
        model == IF gone THEN "k" ELSE s.model
        from  == IF p.models[model] = "ready" THEN model
                 ELSE IF model = "k" THEN p.fallback ELSE None
        voice == ReconcileVoice(Scoped(s, model), from, Catalog(from, p))
    IN  [s EXCEPT !.model = model, !.voice = voice, !.profiles[model] = voice]

\* what the sidecar lacks, or what the user deleted, cannot be started
Missing(p) ==
    \/ p.models[vs.row.model] \in {"unavailable"} \cup (IF p.models["k"] # None THEN {None} ELSE {})
    \/ vs.row.voice = "custom" /\ ~p.custom

ResetDraft(p) == IF p.open THEN [p EXCEPT !.draft = p.mem] ELSE p

\* reconcileCurrentSettings, and the dialog's effect: voiceProfiles is a new object each time
Reconciled(p) ==
    ResetDraft([p EXCEPT !.mem = ReconcileSettings(p.mem, p), !.excused = @ \/ Missing(p)])

-----------------------------------------------------------------------------
(* The readiness poll.                                                     *)

\* every four seconds, whether or not the last one was answered
PollDue == vs.asked < VsPolls

\* the host's answer: what the sidecar says of its engines, and the model asked about
Answer == [k |-> "ready", q |-> vs.qwen, for |-> vs.mem.model]

\* refreshServiceStatus
Poll ==
    /\ PollDue
    /\ vs' = [vs EXCEPT !.polls = @ \cup {Answer}, !.asked = @ + 1]

\* onModels, then onCatalog: the catalogue of the model that was asked about
OnReadiness ==
    \E a \in vs.polls :
        LET models == [m \in Engines |-> a[m]]
            p == [vs EXCEPT !.polls = @ \ {a}, !.models = models, !.fallback = "k"]
        IN  vs' = Reconciled([Reconciled(p) EXCEPT
                    !.fallback = IF models[a.for] = "ready" THEN a.for ELSE "k"])

PollFails ==
    \E a \in vs.polls : vs' = [vs EXCEPT !.polls = @ \ {a}]

-----------------------------------------------------------------------------
(* The stores.                                                             *)

\* useAppStorage: the stores are open and the custom voices are listed
StorageReady ==
    /\ ~vs.listed
    /\ vs' = [vs EXCEPT !.listed = TRUE, !.custom = vs.voices]

\* the stored row replaces the defaults
Load ==
    /\ vs.listed /\ ~vs.ready
    /\ LET q == [vs EXCEPT !.ready = TRUE, !.mem = ReconcileSettings(vs.row, vs),
                           !.excused = Missing(vs)]
       IN  vs' = ResetDraft(q)

\* a row that cannot be read or is not valid leaves the defaults
LoadFails ==
    /\ vs.listed /\ ~vs.ready /\ vs.trouble < VsTrouble
    /\ vs' = ResetDraft([vs EXCEPT !.ready = TRUE, !.excused = TRUE, !.trouble = @ + 1,
                                   !.mem = ReconcileSettings(Factory, vs)])

\* enrollVoice, deleteVoice: the list changes and everything is merged again
CustomVoicesChange ==
    /\ vs.listed /\ vs.trouble < VsTrouble
    /\ LET p == [vs EXCEPT !.voices = ~@, !.custom = ~vs.voices, !.trouble = @ + 1]
       IN  vs' = ResetDraft(IF p.models["k"] = None THEN p ELSE Reconciled(p))

-----------------------------------------------------------------------------
(* The dialog.                                                             *)

OpenDialog ==
    /\ ~vs.open /\ vs.dialogs < VsDialogs
    /\ vs' = [vs EXCEPT !.open = TRUE, !.dialogs = @ + 1, !.draft = vs.mem, !.typed = 0]

CloseDialog ==
    /\ vs.open
    /\ vs' = [vs EXCEPT !.open = FALSE]

MayEdit == vs.open /\ ~vs.saving /\ vs.edits < VsEdits

TypeName ==
    /\ MayEdit
    /\ LET n == vs.edits + 1 IN
       vs' = [vs EXCEPT !.draft.name = n, !.typed = n, !.edits = n]

SelectModel ==
    /\ MayEdit
    /\ \E m \in Engines \ {vs.draft.model} :
        /\ vs.models[m] = "ready"
        /\ LET voice == ReconcileVoice(vs.draft.profiles[m], m, Catalog(m, vs))
           IN  vs' = [vs EXCEPT !.draft.model = m, !.draft.voice = voice,
                                !.draft.profiles[m] = voice, !.edits = @ + 1]

PickVoice ==
    /\ MayEdit
    /\ vs.models[vs.draft.model] = "ready"
    /\ \E v \in Catalog(vs.draft.model, vs) \ {vs.draft.voice} :
        vs' = [vs EXCEPT !.draft.voice = v, !.draft.profiles[vs.draft.model] = v, !.edits = @ + 1]

CanSave == ~vs.saving /\ (vs.models[vs.draft.model] = "ready" => vs.draft.voice # NoVoice)

\* commit: the form as it is now
Commit ==
    /\ vs.open /\ CanSave
    /\ vs' = [vs EXCEPT !.saving = TRUE, !.writing = vs.draft, !.meant = vs.typed]

\* mutant: filed under the engine that was selected before
MutantFiled(s) == [s EXCEPT !.profiles[vs.mem.model] = s.voice]

Filed(s) == [s EXCEPT !.profiles[s.model] = s.voice]

\* saveSettings, once the row was loaded: the row, the memory, the dialog closes
Save ==
    /\ vs.saving /\ vs.ready
    /\ LET next == Filed(vs.writing)
       IN  vs' = [vs EXCEPT !.saving = FALSE, !.row = next, !.mem = next, !.open = FALSE,
                            !.excused = FALSE]

SaveFails ==
    /\ vs.saving /\ vs.trouble < VsTrouble
    /\ vs' = [vs EXCEPT !.saving = FALSE, !.trouble = @ + 1]

-----------------------------------------------------------------------------
(* Sessions.                                                               *)

Snapshot(s) == [s EXCEPT !.profiles = Factory.profiles]

\* mutant: the stored row is not waited for
MutantSettled == TRUE

Settled == vs.ready

\* App start: reconciled once more, frozen in the session's row and sent to the host
Start ==
    /\ Settled /\ vs.starts < VsStarts
    /\ LET mem == ReconcileSettings(vs.mem, vs) IN
       /\ mem.voice # NoVoice
       /\ vs' = ResetDraft([vs EXCEPT !.mem = mem, !.starts = @ + 1, !.excused = @ \/ Missing(vs),
                    !.sent = Snapshot(mem), !.frozen = Snapshot(mem),
                    !.want = Snapshot(IF vs.excused \/ Missing(vs) \/ vs.row.voice = NoVoice
                                      THEN mem ELSE vs.row)])

\* a session resumed by the user (start again) or recovered after a reload keeps its settings
Resume ==
    /\ Settled /\ vs.starts < VsStarts /\ vs.frozen.voice # NoVoice
    /\ LET kept == [vs EXCEPT !.sent = vs.frozen, !.starts = @ + 1] IN
       \/ vs' = kept
       \/ vs' = ResetDraft([kept EXCEPT !.mem = ReconcileSettings(@, vs), !.excused = @ \/ Missing(vs)])

-----------------------------------------------------------------------------
(* The sidecar and the page.                                               *)

\* the optional engine fails, or a new sidecar brings it back or leaves it out
QwenChanges ==
    /\ vs.trouble < VsTrouble
    /\ \E q \in {"ready", "unavailable", None} \ {vs.qwen} :
        vs' = [vs EXCEPT !.qwen = q, !.trouble = @ + 1]

Reload ==
    /\ vs.trouble < VsTrouble
    /\ vs' = [f \in DOMAIN vs |-> IF f \in Page THEN Fresh[f]
                                  ELSE IF f = "trouble" THEN vs.trouble + 1 ELSE vs[f]]

Next ==
    \/ Poll \/ OnReadiness \/ PollFails
    \/ StorageReady \/ Load \/ LoadFails \/ CustomVoicesChange
    \/ OpenDialog \/ CloseDialog \/ TypeName \/ SelectModel \/ PickVoice
    \/ Commit \/ Save \/ SaveFails
    \/ Start \/ Resume
    \/ QwenChanges \/ Reload

Spec == Init /\ [][Next]_vs

-----------------------------------------------------------------------------
(* A session is sent the settings that the browser has stored for it: a new *)
(* one the stored row (its engine and voice, unless the sidecar was seen    *)
(* without that engine or the voice was deleted), a resumed one those it    *)
(* was started with, however loading, polling, editing and reloading        *)
(* interleave (App.tsx:311-330, 418-466, useSettings.ts:394-445).           *)
SentAsStored == vs.sent = vs.want

(* "A voice or speed from one backend is never silently reused by another   *)
(* backend" (settings-model.ts:1-3): what is in memory, stored or sent has   *)
(* a voice of its own engine, through fallbacks, switches and reloads.      *)
VoiceOfItsEngine ==
    \A s \in {vs.mem, vs.row, vs.sent} :
        /\ s.voice \in Voices(s.model) \cup {NoVoice}
        /\ \A m \in Engines : s.profiles[m] \in Voices(m) \cup {NoVoice}

(* The name or persona that the user typed is what Save saves               *)
(* (settings.spec.ts:102-128, "settings survive a reload on the same        *)
(* browser").                                                              *)
EditsAreSaved == vs.saving /\ vs.meant # 0 => vs.writing.name = vs.meant
=============================================================================
