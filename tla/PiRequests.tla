----------------------------- MODULE PiRequests -----------------------------
(***************************************************************************)
(* A Pi client of the host (pi/pi-process.ts, pi/PiClient.ts and           *)
(* pi/PiResearchClient.ts, which differ in what a cancellation keeps):     *)
(* requests and the readiness probe take turns at one child process, each  *)
(* request streams its answer through a bounded queue, and a request that  *)
(* is cancelled or fails gives the child up, or kills it, before the next  *)
(* one has it.                                                             *)
(*                                                                         *)
(* The client is one thread: an action is a callback together with what    *)
(* it runs to its end, promises it settles included.  It is one record,    *)
(* and the operators are its methods.  A child answers its commands in     *)
(* order; a record it writes is handled in the step that writes it, which  *)
(* loses nothing, because only commands travel the other way and those do  *)
(* wait in its inbox.  A child that was told to end goes on writing until  *)
(* it is dead, and the client goes on reading it: the listener of its      *)
(* output is never taken away (pi-process.ts:195).                         *)
(***************************************************************************)
EXTENDS Integers, FiniteSets, SequencesExt

CONSTANTS
    PiAsked,        \* bound on the requests
    PiDeltas,       \* deltas of one answer
    PiQueue,        \* MAX_QUEUE_EVENTS
    PiChildren,     \* bound on the children started
    PiTrouble       \* bound on timeouts, exits, cancellations and bad output

Asked == 1..PiAsked
Probe == PiAsked + 1
Owners == 1..Probe
Gens == 1..PiChildren
None == 0

VARIABLE pi

Fresh == [ended |-> FALSE, reason |-> "", settled |-> FALSE]

\* what a child is working on: whose answer, what is left of it
Idle == [of |-> None, left |-> 0, aborted |-> FALSE, ended |-> FALSE]

Init ==
    pi = [lock |-> <<>>, active |-> None, closed |-> FALSE, trouble |-> 0,
          stage |-> [o \in Owners |-> "new"],
          gone |-> [o \in Asked |-> FALSE], cutoff |-> [o \in Asked |-> FALSE],
          completed |-> [o \in Asked |-> FALSE],
          values |-> [o \in Asked |-> <<>>], over |-> [o \in Asked |-> FALSE],
          waiter |-> [o \in Asked |-> FALSE], told |-> [o \in Asked |-> ""],
          strays |-> [o \in Asked |-> {}],
          life |-> [o \in Owners |-> Fresh], cancel |-> [o \in Asked |-> "no"],
          pending |-> {}, waits |-> {}, beside |-> FALSE,
          child |-> None, proc |-> [g \in Gens |-> "none"],
          inbox |-> [g \in Gens |-> <<>>], agent |-> [g \in Gens |-> Idle]]

Troubled(p) == [p EXCEPT !.trouble = @ + 1]
TroubleLeft == pi.trouble < PiTrouble

-----------------------------------------------------------------------------
(* AsyncQueue: the stream of one request.                                  *)

\* what a next() of the consumer is resolved with; `strays' is a history, the
\* requests whose text it was, when that was not its own
Hand(p, r, v) ==
    [p EXCEPT !.told[r] = IF v.type = "delta" \/ @ # "" THEN @ ELSE v.type,
              !.strays[r] = @ \union ({v.of} \ {r})]

Put(p, r, v) ==
    IF p.over[r] THEN p
    ELSE IF p.waiter[r] THEN Hand([p EXCEPT !.waiter[r] = FALSE], r, v)
    ELSE [p EXCEPT !.values[r] = Append(@, v)]

Full(p, r) == ~p.over[r] /\ ~p.waiter[r] /\ Len(p.values[r]) >= PiQueue

End(p, r) == [p EXCEPT !.over[r] = TRUE, !.waiter[r] = FALSE]

Error(r) == [type |-> "error", of |-> r]

-----------------------------------------------------------------------------
(* Ownership of the child, and its end.                                    *)

\* the record of a lifecycle is let go of with the last who reads it
Release(p, o) ==
    [p EXCEPT !.lock = SelectSeq(@, LAMBDA x : x # o), !.stage[o] = "done",
              !.life[o] = IF o = Probe THEN Fresh ELSE @]

FinishActive(p, r, release) ==
    IF p.completed[r] THEN p
    ELSE LET q == [p EXCEPT !.completed[r] = TRUE,
                            !.active = IF @ = r THEN None ELSE @,
                            !.life[r] = IF p.cancel[r] = "no" THEN Fresh ELSE @]
         IN IF release THEN Release(q, r) ELSE q

\* what was waiting for the child to be gone
Gone(p, o, why) ==
    CASE why = "failed" -> Release(p, o)
      [] why = "cancelled" -> FinishActive([p EXCEPT !.cancel[o] = "no"], o, TRUE)
      [] why = "probe" -> Release(p, o)
      [] OTHER -> p

Dying(p) == \E g \in Gens : p.proc[g] = "dying"

\* the child of a generation is no more
Over(p, g, how) == [p EXCEPT !.proc[g] = how, !.agent[g] = Idle, !.inbox[g] = <<>>]

\* terminate: nothing to wait for if there is no child or it has exited; a child
\* that is told to end may still answer and stream
Terminate(p, o, why) ==
    IF p.child = None \/ p.proc[p.child] # "alive"
    THEN Gone([p EXCEPT !.child = None], o, why)
    ELSE [p EXCEPT !.child = None, !.proc[p.child] = "dying",
                   !.waits = @ \union {[o |-> o, why |-> why, gen |-> p.child]}]

\* failActive.  A full queue makes push() fail the request a first time, and
\* the second failure finds no child and releases the ownership at once.
FailActive(p) ==
    IF p.active = None THEN p
    ELSE LET r == p.active
             q == IF Full(p, r) THEN [p EXCEPT !.values[r] = <<>>] ELSE p
             cut == End(Put([q EXCEPT !.cutoff[r] = TRUE], r, Error(r)), r)
             killed == Terminate(FinishActive(cut, r, FALSE), r, "failed")
         IN IF Full(p, r) THEN Release(killed, r) ELSE killed

\* mutant: an overflow ends the stream but does not fail its request
MutantPush(p, r, v) ==
    IF Full(p, r) THEN End([p EXCEPT !.values[r] = <<>>], r) ELSE Put(p, r, v)

Push(p, r, v) ==
    IF ~Full(p, r) THEN Put(p, r, v)
    ELSE LET q == [p EXCEPT !.values[r] = <<>>]
         IN IF p.active = r THEN FailActive(q) ELSE End(q, r)

\* the promise of a command is rejected: the continuation of its sender
Rejected(p, o, type) ==
    CASE o = Probe /\ type \in {"state", "prompt"} ->
           Terminate([p EXCEPT !.stage[Probe] = "failing"], Probe, "probe")
      [] o # Probe /\ type = "prompt" ->
           IF p.active = o THEN FailActive(p)
           ELSE Release(End(Push(p, o, Error(o)), o), o)
      [] type \in {"abort", "idle"} ->
           Terminate([p EXCEPT !.cancel[o] = "killing"], o, "cancelled")
      [] OTHER -> p

Running(p) == p.child # None /\ p.proc[p.child] # "exited"

\* `beside` remembers that a prompt was sent while an earlier child was dying
Send(p, o, type) ==
    IF p.child # None /\ p.proc[p.child] = "alive"
    THEN [p EXCEPT !.pending = @ \union {<<o, type>>},
                   !.inbox[p.child] = Append(@, <<o, type>>),
                   !.beside = @ \/ (type = "prompt" /\ Dying(p))]
    ELSE Rejected(p, o, type)

\* processFailed
ProcessFailed(p, terminate) ==
    IF p.active # None THEN FailActive(p)
    ELSE IF terminate THEN Terminate(p, None, "process") ELSE p

\* fail: every command that waits is rejected, whichever child it was sent to;
\* their continuations run after the handler
Fail(p, terminate) ==
    LET q == ProcessFailed([p EXCEPT !.pending = {}], terminate)
    IN FoldSet(LAMBDA c, acc : Rejected(acc, c[1], c[2]), q, p.pending)

-----------------------------------------------------------------------------
(* The consumer.                                                           *)

Pull(r) ==
    /\ pi.told[r] = "" /\ ~pi.waiter[r]
    /\ LET asks == pi.stage[r] = "new" /\ ~pi.gone[r]
           p == IF asks THEN [pi EXCEPT !.stage[r] = "waiting", !.lock = Append(@, r)]
                ELSE IF pi.stage[r] = "new" THEN End([pi EXCEPT !.stage[r] = "done"], r)
                ELSE pi
       IN pi' = IF p.values[r] # <<>>
                THEN Hand([p EXCEPT !.values[r] = Tail(@)], r, Head(p.values[r]))
                ELSE IF p.over[r] THEN [p EXCEPT !.told[r] = "done"]
                ELSE [p EXCEPT !.waiter[r] = TRUE]

\* mutant: the ownership is given up without waiting for the aborted answer
MutantCancelActive(p, r) ==
    IF p.cutoff[r] \/ p.completed[r] THEN p
    ELSE FinishActive(Send(End([p EXCEPT !.cutoff[r] = TRUE, !.values[r] = <<>>], r),
                           r, "abort"), r, TRUE)

\* cancelActive; only the research client also drops what was not read
CancelActive(p, r) ==
    IF p.cutoff[r] \/ p.completed[r] THEN p
    ELSE Send(End([p EXCEPT !.cutoff[r] = TRUE, !.values[r] = <<>>,
                            !.cancel[r] = "abort"], r), r, "abort")

\* the signal aborts, or the consumer returns and its stream ends
Cancel(r) ==
    /\ ~pi.gone[r] /\ pi.told[r] = "" /\ TroubleLeft
    /\ LET p == [Troubled(pi) EXCEPT !.gone[r] = TRUE]
           q == IF p.active = r THEN CancelActive(p, r) ELSE p
       IN pi' \in {q, End(q, r)}

-----------------------------------------------------------------------------
(* beginRequest.                                                           *)

GivesUp(p, r) == Release(End(p, r), r)

\* the child is there: cancelled meanwhile, or active and the prompt is sent
Prompted(p, r) ==
    IF p.gone[r] THEN GivesUp(p, r)
    ELSE Send([p EXCEPT !.active = r, !.stage[r] = "owner"], r, "prompt")

Refused(p, r) == GivesUp(Push(p, r, Error(r)), r)

Acquire(r) ==
    /\ pi.stage[r] = "waiting" /\ Head(pi.lock) = r
    /\ \/ /\ ~pi.gone[r] /\ TroubleLeft           \* promptFor: a bound exceeded
          /\ pi' = Refused(Troubled(pi), r)
       \/ pi' = IF pi.gone[r] THEN GivesUp(pi, r)
                ELSE IF pi.closed THEN Refused(pi, r)
                ELSE IF Running(pi) THEN Prompted(pi, r)
                ELSE [pi EXCEPT !.stage[r] = "starting"]

NextGen == CHOOSE g \in Gens : pi.proc[g] = "none" /\ \A h \in 1..(g - 1) : pi.proc[h] # "none"

Spawned(p) ==
    [p EXCEPT !.child = NextGen, !.proc[NextGen] = "alive"]

\* start: the executable is checked and spawned
Start(o) ==
    /\ pi.stage[o] = "starting"
    /\ \/ /\ \E g \in Gens : pi.proc[g] = "none"
          /\ pi' = IF o = Probe
                   THEN Send([Spawned(pi) EXCEPT !.stage[o] = "owner"], o, "state")
                   ELSE Prompted(Spawned(pi), o)
       \/ /\ TroubleLeft \/ \A g \in Gens : pi.proc[g] # "none"
          /\ pi' = IF o = Probe THEN Rejected(Troubled(pi), o, "state")
                   ELSE Refused(Troubled(pi), o)

-----------------------------------------------------------------------------
(* The readiness probe is one more owner of the child.                     *)

AskProbe ==
    /\ pi.stage[Probe] = "new"
    /\ pi' = [pi EXCEPT !.stage[Probe] = "waiting", !.lock = Append(@, Probe)]

AcquireProbe ==
    /\ pi.stage[Probe] = "waiting" /\ Head(pi.lock) = Probe
    /\ pi' = IF pi.closed THEN Rejected(pi, Probe, "state")
             ELSE IF Running(pi) THEN Send([pi EXCEPT !.stage[Probe] = "owner"], Probe, "state")
             ELSE [pi EXCEPT !.stage[Probe] = "starting"]

Answered(p, o) == p.life[o].ended /\ p.life[o].settled

ProbeDone ==
    /\ pi.stage[Probe] = "probing"
    /\ \/ /\ Answered(pi, Probe) /\ pi.life[Probe].reason = "stop"
          /\ pi' = Release(pi, Probe)
       \/ /\ (Answered(pi, Probe) /\ pi.life[Probe].reason # "stop") \/ TroubleLeft
          /\ pi' = Rejected(Troubled(pi), Probe, "prompt")

-----------------------------------------------------------------------------
(* The children, and what the client does with their records.              *)

Talks(g) == pi.proc[g] \in {"alive", "dying"}

\* whose lifecycle a record is taken for: the active request, else the probe
Reader(p) ==
    IF p.active # None THEN p.active
    ELSE IF p.stage[Probe] = "probing" THEN Probe ELSE None

Delta(g) ==
    LET a == pi.agent[g] IN
    /\ Talks(g) /\ a.of # None /\ a.left > 0 /\ ~a.ended /\ ~a.aborted
    /\ LET p == [pi EXCEPT !.agent[g].left = @ - 1]
           r == pi.active
           mine == r # None /\ ~pi.cutoff[r] /\ ~pi.life[r].ended
       IN \/ pi' = IF mine THEN Push(p, r, [type |-> "delta", of |-> a.of]) ELSE p
          \/ /\ mine /\ TroubleLeft               \* more words than are allowed
             /\ pi' = FailActive(Troubled(p))

\* handle: the answer is whole once its message ended and the agent settled
Whole(p, of) ==
    LET r == p.active IN
    IF r = None THEN p
    ELSE IF p.cutoff[r] \/ ~Answered(p, r) THEN p
    ELSE IF p.life[r].reason # "stop" THEN FailActive(p)
    ELSE FinishActive(End(Push(p, r, [type |-> "final", of |-> of]), r), r, TRUE)

MessageEnd(g) ==
    LET a == pi.agent[g]
        o == Reader(pi)
        p == [pi EXCEPT !.agent[g].ended = TRUE]
    IN /\ Talks(g) /\ a.of # None /\ ~a.ended
       /\ \E reason \in IF a.aborted THEN {"aborted"}
                        ELSE {"stop"} \union (IF TroubleLeft THEN {"error"} ELSE {}) :
            LET q == IF reason = "error" THEN Troubled(p) ELSE p IN
            pi' = IF o = None THEN q
                  ELSE Whole([q EXCEPT !.life[o].ended = TRUE, !.life[o].reason = reason], a.of)

Settled(g) ==
    LET a == pi.agent[g]
        o == Reader(pi)
        p == IF o = None THEN pi ELSE [pi EXCEPT !.life[o].settled = TRUE]
    IN /\ Talks(g) /\ a.of # None /\ a.ended
       /\ pi' = [Whole(p, a.of) EXCEPT !.agent[g] = Idle]

\* a response: the continuation of whoever still waits for the command
Resolved(p, o, type, streaming) ==
    CASE o = Probe /\ type = "state" -> Send(p, Probe, "prompt")
      [] o = Probe -> [p EXCEPT !.stage[Probe] = "probing"]
      [] type = "abort" -> IF p.cancel[o] = "abort" THEN [p EXCEPT !.cancel[o] = "settle"] ELSE p
      [] type = "idle" -> IF streaming THEN Rejected(p, o, "idle")
                          ELSE FinishActive([p EXCEPT !.cancel[o] = "no"], o, TRUE)
      [] OTHER -> IF p.gone[o] THEN CancelActive(p, o) ELSE p

Response(g) ==
    /\ Talks(g) /\ pi.inbox[g] # <<>>
    /\ LET c == Head(pi.inbox[g])
           busy == pi.agent[g].of # None
           asked == c[2] = "prompt"
           p == [pi EXCEPT !.inbox[g] = Tail(@), !.pending = @ \ {c},
                           !.agent[g] = IF asked /\ ~busy
                                        THEN [Idle EXCEPT !.of = c[1], !.left = PiDeltas]
                                        ELSE IF c[2] = "abort" /\ busy
                                        THEN [@ EXCEPT !.aborted = TRUE] ELSE @]
           waited == c \in pi.pending
       IN \/ /\ ~asked \/ ~busy
             /\ pi' = IF waited THEN Resolved(p, c[1], c[2], busy) ELSE p
          \/ /\ TroubleLeft \/ (asked /\ busy)
             /\ LET q == [Troubled(p) EXCEPT !.agent = pi.agent] IN
                pi' = IF waited THEN Rejected(q, c[1], c[2]) ELSE q

\* cancelActive: the aborted answer has ended and settled, or the wait is over
AbortSettled(r) ==
    /\ pi.cancel[r] = "settle"
    /\ \/ /\ Answered(pi, r) /\ pi.life[r].reason = "aborted"
          /\ pi' = Send([pi EXCEPT !.cancel[r] = "idle"], r, "idle")
       \/ /\ TroubleLeft
          /\ pi' = Rejected(Troubled(pi), r, "abort")

-----------------------------------------------------------------------------
(* Timers, exits and bad output.                                           *)

RequestTimeout ==
    /\ pi.active # None /\ TroubleLeft
    /\ pi' = FailActive(Troubled(pi))

CommandTimeout ==
    \E c \in pi.pending :
       /\ TroubleLeft
       /\ pi' = Rejected(Troubled([pi EXCEPT !.pending = @ \ {c}]), c[1], c[2])

\* malformed JSON, a bound exceeded on stdout or stderr
Garbage(g) ==
    /\ Talks(g) /\ TroubleLeft
    /\ pi' = Fail(Troubled(pi), TRUE)

\* the child exits by itself, or is killed by a signal and has no exit code
Exit(g) ==
    /\ pi.proc[g] = "alive" /\ TroubleLeft
    /\ \E how \in {"exited", "signalled"} : pi' = Fail(Over(Troubled(pi), g, how), FALSE)

\* the exit of a child that was terminated; whoever waited for it goes on
Die(g) ==
    /\ pi.proc[g] = "dying"
    /\ LET p == Fail(Over(pi, g, "exited"), FALSE)
           mine == {w \in pi.waits : w.gen = g}
           left == [p EXCEPT !.waits = {w \in @ : w.gen # g}]
       IN pi' = FoldSet(LAMBDA w, acc : Gone(acc, w.o, w.why), left, mine)

\* it survives SIGKILL: the client refuses to start another one
Survive(g) ==
    /\ pi.proc[g] = "dying" /\ TroubleLeft
    /\ LET mine == {w \in pi.waits : w.gen = g}
           left == [Over(Troubled(pi), g, "stuck")
                      EXCEPT !.closed = TRUE, !.waits = {w \in @ : w.gen # g}]
       IN pi' = FoldSet(LAMBDA w, acc : Gone(acc, w.o, w.why), left, mine)

Starting == \E o \in Owners : pi.stage[o] = "starting"

\* shutdown waits for a start in flight
Shutdown ==
    /\ ~pi.closed /\ TroubleLeft /\ ~Starting
    /\ pi' = Terminate([Troubled(pi) EXCEPT !.closed = TRUE], None, "shutdown")

Next ==
    \/ \E r \in Asked : Pull(r) \/ Cancel(r) \/ Acquire(r) \/ AbortSettled(r)
    \/ \E o \in Owners : Start(o)
    \/ AskProbe \/ AcquireProbe \/ ProbeDone
    \/ \E g \in Gens : Delta(g) \/ MessageEnd(g) \/ Settled(g) \/ Response(g)
    \/ RequestTimeout \/ CommandTimeout \/ Shutdown
    \/ \E g \in Gens : Garbage(g) \/ Exit(g) \/ Die(g) \/ Survive(g)

Spec == Init /\ [][Next]_pi

-----------------------------------------------------------------------------
(* What a reply of the client is worth.                                    *)

\* No text of another request's answer reaches a request, although they share
\* one child whose records name no request and the client reads a child until
\* it is dead: a cancelled, failed or probed answer has settled, or its child is
\* dead, before the next prompt is sent (PiClient.ts:318-376).  The exception is
\* the ownership that passes on too early, which SerializedOwnership tells of:
\* once a prompt was sent beside a dying child, its late text may be mistaken.
AnswerIsOwn == ~pi.beside => \A r \in Asked : pi.strays[r] = {}

\* nothing of the client is left that could still end a stream
AtRest ==
    /\ pi.active = None /\ pi.pending = {} /\ pi.waits = {} /\ ~Starting
    /\ \A o \in Owners : pi.stage[o] = "waiting" => Head(pi.lock) # o
    /\ pi.stage[Probe] # "probing" /\ \A r \in Asked : pi.cancel[r] = "no"

\* Whatever fails, overflows or is cancelled, and in whatever order: when the
\* client is at rest nobody is left waiting for the child or for an answer, and
\* a stream that ended without a final text says that it failed, unless its
\* consumer had given it up (pi-process.ts:60-131, PiClient.ts:419-442).
NobodyIsForgotten ==
    /\ AtRest => pi.lock = <<>> /\ \A r \in Asked : ~pi.waiter[r]
    /\ \A r \in Asked :
         pi.over[r] /\ ~pi.gone[r] /\ pi.told[r] \in {"", "done"} =>
            pi.values[r] # <<>> /\ Last(pi.values[r]).type # "delta"

\* Ownership is serialized: the request that has the child has one, and no
\* earlier child is still dying, whose exit would fail it
\* (docs/decisions/007-multi-part-responses.md:104).
SerializedOwnership ==
    \A r \in Asked :
       pi.active = r /\ pi.cancel[r] # "killing" /\ ~pi.closed =>
          pi.child # None /\ ~Dying(pi)
=============================================================================
