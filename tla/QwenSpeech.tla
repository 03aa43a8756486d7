------------------------------ MODULE QwenSpeech ------------------------------
(***************************************************************************)
(* The optional Qwen speech engine: the streaming adapter with its          *)
(* inference and output threads (tts/qwen/adapter.py), the pipe to the      *)
(* isolated interpreter (tts/qwen_subprocess.py) and the worker in it       *)
(* (tts/qwen_worker.py).                                                   *)
(*                                                                         *)
(* The runtime serialises syntheses; enrolment, removal, reset and close    *)
(* come from other threads and hold the adapter's lock while they talk to   *)
(* the worker.  A frame is [call, i]: the i-th frame of a synthesis.        *)
(***************************************************************************)
EXTENDS Integers, Sequences, FiniteSets

CONSTANTS
    QwCalls,        \* bound on the syntheses
    QwOps,          \* bound on the other operations of the adapter
    QwChunks,       \* chunks the model makes of a text
    QwVoices,       \* custom voices that are enrolled
    QwLimit,        \* MAX_CUSTOM_VOICES
    QwPipe,         \* records the pipe holds before the worker waits
    QwTrouble       \* bound on errors, crashes and worker timeouts

Queue == 2          \* the adapter's two bounded queues
None == 0

VARIABLE qw

Init ==
    qw = [ad |-> "new", poisoned |-> FALSE, voices |-> {}, clone |-> FALSE,
          op |-> "idle", voice |-> None,
          proc |-> "none", wclone |-> FALSE, prompts |-> {},
          cmds |-> <<>>, gen |-> 1, pipe |-> <<>>, buf |-> <<>>,
          call |-> None, cl |-> "idle", cancelled |-> FALSE, stop |-> FALSE, failed |-> FALSE,
          inf |-> "off", hand |-> None, inq |-> <<>>, outq |-> <<>>, out |-> "off",
          heard |-> <<>>, end |-> "none", left |-> FALSE, rival |-> FALSE,
          ops |-> 0, trouble |-> 0]

Rec(t) == [t |-> t, call |-> None, i |-> 0]
Troubled(q) == [q EXCEPT !.trouble = @ + 1]
MayFail == qw.trouble < QwTrouble

-----------------------------------------------------------------------------
(* The worker: one command after the other, every answer a record.         *)

Command(op) ==
    qw.proc = "up" /\ qw.cmds # <<>> /\ qw.cmds[1].op = op /\ Len(qw.pipe) < QwPipe

Reply(q, t) == [q EXCEPT !.cmds = Tail(@), !.pipe = Append(@, Rec(t))]

\* what it held dies with it; what it wrote is still in the pipe
Dead(q) ==
    [q EXCEPT !.proc = "dead", !.cmds = <<>>, !.gen = 1, !.wclone = FALSE, !.prompts = {}]

WorkerPrepares ==
    /\ Command("prepare")
    /\ \/ qw' = Reply(qw, "ready")
       \/ MayFail /\ qw' = Dead(Reply(Troubled(qw), "error"))

\* the clone model is prepared once in the life of the worker
WorkerPreparesClone ==
    /\ Command("prepareClone")
    /\ \/ qw.wclone /\ qw' = Reply(qw, "error")
       \/ ~qw.wclone /\ qw' = [Reply(qw, "readyClone") EXCEPT !.wclone = TRUE]
       \/ ~qw.wclone /\ MayFail /\ qw' = Reply(Troubled(qw), "error")

WorkerPrompts ==
    /\ Command("clonePrompt")
    /\ \/ qw.wclone /\ qw' = [Reply(qw, "clonePrompt") EXCEPT !.prompts = @ \cup {qw.cmds[1].arg}]
       \/ (~qw.wclone \/ MayFail)
          /\ qw' = Reply(IF qw.wclone THEN Troubled(qw) ELSE qw, "error")

\* stream, cloneStream: chunk by chunk as far as the pipe takes them, then done
WorkerStreams ==
    /\ Command("stream")
    /\ LET k == qw.cmds[1].arg IN
       \/ /\ qw.gen <= QwChunks
          /\ qw' = [qw EXCEPT !.pipe = Append(@, [t |-> "chunk", call |-> k, i |-> qw.gen]),
                              !.gen = @ + 1]
       \/ /\ qw.gen > QwChunks
          /\ qw' = [Reply(qw, "done") EXCEPT !.gen = 1]
       \/ /\ MayFail
          /\ qw' = [Reply(Troubled(qw), "error") EXCEPT !.gen = 1]

WorkerResets ==
    /\ Command("reset")
    /\ qw' = Reply(qw, "ok")

WorkerCloses ==
    /\ Command("close")
    /\ qw' = Dead(Reply(qw, "ok"))

\* the interpreter or the device crashes
WorkerDies ==
    /\ qw.proc = "up" /\ MayFail
    /\ qw' = Dead(Troubled(qw))

-----------------------------------------------------------------------------
(* The parent's end of the pipe.                                           *)

\* _send: a worker that is gone poisons the backend
Sent(q, op, arg) ==
    IF q.proc = "up" THEN [q EXCEPT !.cmds = Append(@, [op |-> op, arg |-> arg])]
    ELSE [q EXCEPT !.poisoned = TRUE]

\* _read: it waits for the pipe, then reads a line; a short record that came
\* with the one before it waits in the reader's own buffer, where select does
\* not see it
Read(q) ==
    IF q.pipe # <<>>
    THEN IF q.buf # <<>> THEN {[rec |-> q.buf[1], q |-> [q EXCEPT !.buf = Tail(@)]]}
         ELSE {[rec |-> q.pipe[1],
                q |-> [q EXCEPT !.buf = SubSeq(q.pipe, 2, n),
                                !.pipe = SubSeq(q.pipe, n + 1, Len(q.pipe))]]
               : n \in {n \in 1..Len(q.pipe) : \A j \in 2..n : q.pipe[j].t # "chunk"}}
    ELSE IF q.proc = "dead"
    THEN IF q.buf # <<>> THEN {[rec |-> q.buf[1], q |-> [q EXCEPT !.buf = Tail(@)]]}
         ELSE {[rec |-> Rec("eof"), q |-> [q EXCEPT !.poisoned = TRUE]]}
    ELSE IF q.proc = "up" /\ q.cmds = <<>> \* nothing more will come
    THEN {[rec |-> Rec("timeout"), q |-> [q EXCEPT !.poisoned = TRUE]]}
    ELSE IF q.trouble < QwTrouble
    THEN {[rec |-> Rec("timeout"), q |-> [Troubled(q) EXCEPT !.poisoned = TRUE]]}
    ELSE {}

\* _terminate
Terminated(q) ==
    [q EXCEPT !.proc = "none", !.wclone = FALSE, !.prompts = {},
              !.cmds = <<>>, !.gen = 1, !.pipe = <<>>, !.buf = <<>>]

-----------------------------------------------------------------------------
(* Operations of the adapter that wait for one answer, under its lock.      *)

Active(q) == q.cl # "idle"
Survivors(q) == q.inf # "off" \/ q.out # "off"
Operable == qw.op = "idle" /\ qw.ops < QwOps
Asked(q, op) ==
    IF q.poisoned THEN [q EXCEPT !.op = "idle", !.voice = None] ELSE [q EXCEPT !.op = op]

Prepare ==
    /\ qw.ad = "new" /\ qw.op = "idle"
    /\ qw' = Asked(Sent([qw EXCEPT !.proc = "up"], "prepare", None), "prepare")

Enroll(v) ==
    /\ Operable /\ qw.ad = "ready" /\ ~Active(qw) /\ ~qw.poisoned
    /\ v \notin qw.voices /\ Cardinality(qw.voices) < QwLimit
    /\ LET op == IF qw.clone THEN "clonePrompt" ELSE "prepareClone" IN
       qw' = Asked(Sent([qw EXCEPT !.ops = @ + 1, !.voice = v], op, v), op)

Reset ==
    /\ Operable /\ qw.ad = "ready" /\ ~Active(qw) /\ ~qw.poisoned
    /\ qw' = Asked(Sent([qw EXCEPT !.ops = @ + 1], "reset", None), "reset")

\* mutant: the clone model is let go of with any voice that is removed
MutantForgotten(q) == [q EXCEPT !.clone = @ /\ Active(q)]

\* remove_custom_voice: the last voice lets go of the clone model, unless a
\* synthesis is on
Forgotten(q) == [q EXCEPT !.clone = @ /\ (q.voices # {} \/ Active(q))]

Remove(v) ==
    /\ Operable /\ v \in qw.voices
    /\ qw' = Forgotten([qw EXCEPT !.ops = @ + 1, !.voices = @ \ {v}])

Closed(q) == [Terminated(q) EXCEPT !.ad = "closed", !.op = "idle", !.clone = FALSE, !.voices = {}]

Close ==
    /\ Operable /\ qw.ad # "closed" /\ ~Active(qw)
    /\ LET q == [qw EXCEPT !.ops = @ + 1] IN
       qw' = IF Survivors(q) THEN [q EXCEPT !.poisoned = TRUE]
             ELSE IF q.proc = "up" THEN [Sent(q, "close", None) EXCEPT !.op = "close"]
             ELSE Closed(q)

\* an answer to prepare, prepare_clone, create_clone_prompt, reset or close
Answered(r, q) ==
    LET h == [q EXCEPT !.op = "idle", !.voice = None] IN
    CASE q.op = "prepare" ->
           IF r.t = "ready" THEN [h EXCEPT !.ad = "ready"]
           ELSE [Terminated(h) EXCEPT !.poisoned = FALSE]   \* the backend is thrown away
      [] q.op = "prepareClone" ->
           IF r.t = "readyClone"
           THEN Asked(Sent([q EXCEPT !.clone = TRUE], "clonePrompt", q.voice), "clonePrompt")
           ELSE h
      [] q.op = "clonePrompt" ->
           IF r.t = "clonePrompt" THEN [h EXCEPT !.voices = @ \cup {q.voice}]
           ELSE [h EXCEPT !.poisoned = TRUE]
      [] q.op = "close" -> Closed(h)
      [] OTHER -> h

Answer ==
    /\ qw.op # "idle"
    /\ \E a \in Read(qw) : qw' = Answered(a.rec, a.q)

-----------------------------------------------------------------------------
(* A synthesis: the caller, the inference thread and the output thread.     *)

\* the voice is one of the catalogue and the language one that is supported: the
\* runtime has refused any other before it calls
Synthesize ==
    /\ qw.ad = "ready" /\ qw.op = "idle" /\ ~qw.poisoned /\ ~Active(qw) /\ qw.call < QwCalls
    /\ qw' = [qw EXCEPT !.call = @ + 1, !.cl = "loop", !.cancelled = FALSE, !.stop = FALSE,
                        !.failed = FALSE, !.inf = "open", !.inq = <<>>, !.outq = <<>>,
                        !.out = "get", !.heard = <<>>, !.end = "none",
                        !.rival = @ \/ Survivors(qw)]

\* the token's lock is held while a frame is handed on
Cancel ==
    /\ Active(qw) /\ ~qw.cancelled /\ qw.out # "speaking"
    /\ qw' = [qw EXCEPT !.cancelled = TRUE]

Halted == qw.stop \/ qw.cancelled
End == Rec("end")

InferOpens ==
    /\ qw.inf = "open"
    /\ qw' = IF qw.cancelled THEN [qw EXCEPT !.inf = "off"]
             ELSE LET q == Sent(qw, "stream", qw.call) IN
                  [q EXCEPT !.inf = IF q.poisoned THEN "raise" ELSE "read"]

\* a generator closed at a frame leaves the rest of its answer in the pipe
InferReads ==
    /\ qw.inf = "read"
    /\ \E a \in Read(qw) :
          qw' = CASE a.rec.t = "chunk" /\ qw.cancelled -> [a.q EXCEPT !.inf = "off", !.left = TRUE]
                  [] a.rec.t = "chunk" /\ ~qw.cancelled -> [a.q EXCEPT !.inf = "put", !.hand = a.rec]
                  [] a.rec.t = "done" -> [a.q EXCEPT !.inf = "last"]
                  [] OTHER -> [a.q EXCEPT !.inf = "raise", !.poisoned = TRUE]

\* put_bounded on the inference queue
InferPuts ==
    \/ /\ qw.inf = "put" /\ Halted
       /\ qw' = [qw EXCEPT !.inf = "off", !.hand = None, !.left = TRUE]
    \/ /\ qw.inf \in {"raise", "last"} /\ Halted
       /\ qw' = [qw EXCEPT !.inf = "off"]
    \/ /\ qw.inf # "off" /\ ~Halted /\ Len(qw.inq) < Queue
       /\ \/ /\ qw.inf = "put"
             /\ qw' = [qw EXCEPT !.inf = "read", !.hand = None, !.inq = Append(@, qw.hand)]
          \/ /\ qw.inf = "raise"
             /\ qw' = [qw EXCEPT !.inf = "last", !.inq = Append(@, Rec("error"))]
          \/ /\ qw.inf = "last"
             /\ qw' = [qw EXCEPT !.inf = "off", !.inq = Append(@, End)]

\* accept_unless_cancelled: nothing is handed on once the token is cancelled
OutputTakes ==
    /\ qw.out = "get"
    /\ \/ qw.stop /\ qw' = [qw EXCEPT !.out = "off"]
       \/ /\ ~qw.stop /\ qw.outq # <<>>
          /\ LET r == qw.outq[1] q == [qw EXCEPT !.outq = Tail(@)] IN
             qw' = IF r.t = "end" THEN [q EXCEPT !.out = "off"]
                   ELSE IF qw.cancelled THEN [q EXCEPT !.out = "off", !.failed = TRUE, !.stop = TRUE]
                   ELSE [q EXCEPT !.out = "speaking", !.heard = Append(@, r)]

\* the callback waits for the connection to take the frame, or raises
OutputGives ==
    /\ qw.out = "speaking"
    /\ \/ qw' = [qw EXCEPT !.out = "get"]
       \/ MayFail /\ qw' = [Troubled(qw) EXCEPT !.out = "off", !.failed = TRUE, !.stop = TRUE]

\* the error path: both queues are emptied, both threads told to stop
Failing(q) == [q EXCEPT !.stop = TRUE, !.inq = <<>>, !.outq = <<>>, !.cl = "failing"]

\* put_bounded on the output queue
Relay ==
    /\ qw.cl = "loop" /\ ~qw.cancelled /\ ~qw.failed /\ qw.inq # <<>>
    /\ qw.inq[1].t \in {"chunk", "end"} /\ Len(qw.outq) < Queue
    /\ qw' = [qw EXCEPT !.inq = Tail(@), !.outq = Append(@, qw.inq[1]),
                        !.cl = IF qw.inq[1].t = "end" THEN "join" ELSE @]

Fail ==
    /\ qw.cl = "loop"
    /\ \/ qw.cancelled \/ qw.failed
       \/ qw.inq # <<>> /\ qw.inq[1].t = "error"
       \/ qw.inq = <<>> /\ qw.inf = "off"
    /\ qw' = Failing(qw)

\* mutant: threads that survive are let go of and the engine stays open
MutantSettled(q, e) == [q EXCEPT !.cl = "idle", !.end = e]

\* finally: threads that survive the timeout poison the engine
Settled(q, e) ==
    IF Survivors(q) THEN [q EXCEPT !.cl = "idle", !.end = "poisoned", !.poisoned = TRUE]
    ELSE [q EXCEPT !.cl = "idle", !.end = e]

\* a thread that waits for the worker or for the connection outlives its join
Stuck == qw.out = "speaking" \/ (qw.inf = "read" /\ qw.pipe = <<>>)

\* after the joins
Joined(q) ==
    IF q.cancelled \/ q.failed \/ q.heard = <<>> THEN Failing(q) ELSE Settled(q, "done")

Join ==
    /\ qw.cl = "join" /\ (~Survivors(qw) \/ Stuck)
    /\ qw' = Joined(qw)

JoinFailed ==
    /\ qw.cl = "failing" /\ (~Survivors(qw) \/ Stuck)
    /\ qw' = Settled(qw, IF qw.cancelled THEN "cancelled" ELSE "failed")

-----------------------------------------------------------------------------
Next ==
    \/ WorkerPrepares \/ WorkerPreparesClone \/ WorkerPrompts \/ WorkerStreams
    \/ WorkerResets \/ WorkerCloses \/ WorkerDies
    \/ Prepare \/ Reset \/ Close \/ Answer
    \/ \E v \in 1..QwVoices : Enroll(v) \/ Remove(v)
    \/ Synthesize \/ Cancel \/ InferOpens \/ InferReads \/ InferPuts
    \/ OutputTakes \/ OutputGives \/ Relay \/ Fail \/ Join \/ JoinFailed

Spec == Init /\ [][Next]_qw

-----------------------------------------------------------------------------
\* A synthesis never starts while a thread of an earlier one survives: one that
\* outlives its join has poisoned the engine (adapter.py:468-474, 645-657).  And
\* unless an answer was left in the pipe, what is handed on is the text's frames
\* in order, and a synthesis that ends well has handed all of them on, whatever
\* the threads, the queues and the worker do meanwhile (adapter.py:498-635).
SpokenInOrder ==
    /\ ~qw.rival
    /\ ~qw.left =>
       /\ \A j \in 1..Len(qw.heard) : qw.heard[j] = [t |-> "chunk", call |-> qw.call, i |-> j]
       /\ qw.end = "done" => Len(qw.heard) = QwChunks

\* A custom voice in the catalogue has its clone model and its prompt as long as
\* the worker lives (adapter.py:394-417, qwen_worker.py:95-136).
VoicesCanSpeak == qw.voices # {} => qw.clone /\ (qw.proc = "up" => qw.voices \subseteq qw.prompts)
=============================================================================
