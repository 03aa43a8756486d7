------------------------ MODULE SpeechAdmissionProofs ----------------------
(***************************************************************************)
(* Theorems about SpeechAdmission, for any number of speeches, chunks and  *)
(* frames, every set of calls and every fault: the fences serialize        *)
(* synthesis, the audio client keeps the promises of SpeechPort, and what  *)
(* it reports complete is whole.                                           *)
(***************************************************************************)
EXTENDS SpeechAdmission, SequenceTheorems, TLAPS

(* A worker past its fences and not yet on its way out.                    *)
Active(s) == worker[s].stage \in {"listening", "synthesizing"}

Workers ==
    [stage : {"none", "fenced", "listening", "synthesizing", "poisoning",
              "terminal", "done"},
     cancelled : BOOLEAN, chunks : Int, next : Int, committed : BOOLEAN,
     started : BOOLEAN, generated : Int, left : Int, fences : SUBSET Streams]

WorkerShape == worker \in [Streams -> Workers]

(* Of two live workers one is a fence of the other as long as both wait,   *)
(* and an active one is a fence of whoever waits.                          *)
FencesOrder ==
    \A s, t \in Live :
        s # t =>
            /\ Active(s) => ~Active(t)
            /\ Active(s) /\ worker[t].stage = "fenced" => s \in worker[t].fences
            /\ worker[s].stage = "fenced" /\ worker[t].stage = "fenced"
                => s \in worker[t].fences \/ t \in worker[s].fences

FenceInv == WorkerShape /\ FencesOrder

-----------------------------------------------------------------------------
(* The workers                                                             *)

LEMMA InitFences == Init => FenceInv
  BY DEF Init, FenceInv, WorkerShape, Workers, FencesOrder, Live, Unopened

(* Most steps of a worker leave its fences alone and either its stage too, *)
(* or go on synthesizing, or take it on its way out.                       *)
Leaving == {"poisoning", "terminal", "done"}

Onward ==
    \A t \in Streams :
        /\ worker'[t].fences = worker[t].fences
        /\ \/ worker'[t].stage = worker[t].stage
           \/ Active(t) /\ worker'[t].stage \in {"listening", "synthesizing"}
           \/ t \in Live /\ worker'[t].stage \in Leaving

LEMMA OnwardKeepsFences ==
  ASSUME FenceInv, WorkerShape', Onward
  PROVE  FenceInv'
  <1>1. \A t \in Streams :
            /\ t \in Live' => t \in Live
            /\ Active(t)' => Active(t)
            /\ worker'[t].stage = "fenced" => worker[t].stage = "fenced"
            /\ worker'[t].fences = worker[t].fences
    BY DEF Onward, Live, Active, Leaving
  <1>2. Live' \subseteq Streams
    BY DEF Live
  <1>3. FencesOrder'
    BY <1>1, <1>2 DEF FenceInv, FencesOrder
  <1> QED
    BY <1>3 DEF FenceInv

LEMMA CancelTyped ==
  ASSUME WorkerShape
  PROVE  /\ CancelLive \in [Streams -> Workers]
         /\ \A t \in Streams : /\ CancelLive[t].stage = worker[t].stage
                               /\ CancelLive[t].fences = worker[t].fences
  <1>1. \A w \in Workers :
            /\ [w EXCEPT !.cancelled = TRUE] \in Workers
            /\ [w EXCEPT !.cancelled = TRUE].stage = w.stage
            /\ [w EXCEPT !.cancelled = TRUE].fences = w.fences
    BY DEF Workers
  <1> QED
    BY <1>1 DEF WorkerShape, CancelLive

LEMMA CancelKeepsFences ==
  ASSUME FenceInv, worker' = CancelLive
  PROVE  FenceInv'
  <1>1. WorkerShape'
    BY CancelTyped DEF FenceInv, WorkerShape
  <1>2. Onward
    BY CancelTyped DEF FenceInv, Onward
  <1> QED
    BY <1>1, <1>2, OnwardKeepsFences

LEMMA ServeFences ==
  ASSUME FenceInv, Serve \/ ServeOpenTimeout
  PROVE  FenceInv'
  <1>1. ASSUME NEW s, Refuse(s) PROVE FenceInv'
    BY <1>1, CancelKeepsFences DEF Refuse, EndConnection
  <1> DEFINE m == Head(toSidecar)
  <1>2. CASE ServeOpen
    <2>1. CASE worker' = worker
      BY <2>1 DEF FenceInv, WorkerShape, Workers, FencesOrder, Live, Active
    <2>2. CASE /\ ~Refusable(m.speech)
               /\ worker' = [worker EXCEPT ![m.speech] =
                    [Unopened EXCEPT !.stage = "fenced", !.fences = Live]]
      <3>1. m.speech \notin Live
        BY <2>2 DEF Refusable
      <3>2. WorkerShape'
        <4>1. [Unopened EXCEPT !.stage = "fenced", !.fences = Live] \in Workers
          <5>1. Unopened \in Workers /\ Live \in SUBSET Streams
            BY DEF Unopened, Workers, Live
          <5>2. \A w \in Workers : [w EXCEPT !.stage = "fenced"] \in Workers
            BY DEF Workers
          <5>3. \A w \in Workers : \A f \in SUBSET Streams : [w EXCEPT !.fences = f] \in Workers
            BY DEF Workers
          <5> QED
            BY <5>1, <5>2, <5>3
        <4> QED
          BY <2>2, <4>1 DEF FenceInv, WorkerShape
      <3>3. \A t \in Streams :
                IF t = m.speech
                THEN worker'[t].stage = "fenced" /\ worker'[t].fences = Live
                ELSE worker'[t] = worker[t]
        BY <2>2 DEF FenceInv, WorkerShape, Unopened
      <3>4. Live' \subseteq Live \cup {m.speech}
        BY <3>3 DEF Live
      <3>5. FencesOrder'
        <4> SUFFICES ASSUME NEW s \in Live', NEW t \in Live', s # t
                     PROVE  /\ Active(s)' => ~Active(t)'
                            /\ Active(s)' /\ worker'[t].stage = "fenced"
                                => s \in worker'[t].fences
                            /\ worker'[s].stage = "fenced" /\ worker'[t].stage = "fenced"
                                => s \in worker'[t].fences \/ t \in worker'[s].fences
          BY DEF FencesOrder
        <4>0. s \in Streams /\ t \in Streams
          BY DEF Live
        <4>1. CASE s # m.speech /\ t # m.speech
          <5>1. s \in Live /\ t \in Live /\ worker'[s] = worker[s] /\ worker'[t] = worker[t]
            BY <3>3, <3>4, <4>0, <4>1
          <5> QED
            BY <5>1 DEF FenceInv, FencesOrder, Active
        <4>2. CASE s = m.speech
          <5>1. t \in Live /\ worker'[s].stage = "fenced" /\ worker'[s].fences = Live
            BY <3>3, <3>4, <4>0, <4>2
          <5> QED
            BY <5>1 DEF Active
        <4>3. CASE t = m.speech
          <5>1. s \in Live /\ worker'[t].stage = "fenced" /\ worker'[t].fences = Live
            BY <3>3, <3>4, <4>0, <4>3
          <5> QED
            BY <5>1 DEF Active
        <4> QED
          BY <4>1, <4>2, <4>3
      <3> QED
        BY <3>2, <3>5 DEF FenceInv
    <2> QED
      BY <1>1, <1>2, <2>1, <2>2 DEF ServeOpen
  <1>3. ASSUME worker' = [worker EXCEPT ![m.speech].chunks = @ + 1, ![m.speech].next = @ + 1]
        PROVE  FenceInv'
    <2>1. \A w \in Workers : [w EXCEPT !.chunks = @ + 1, !.next = @ + 1] \in Workers
      <3>1. \A w \in Workers : \A n \in Int : [w EXCEPT !.chunks = n] \in Workers
        BY DEF Workers
      <3>2. \A w \in Workers : \A n \in Int : [w EXCEPT !.next = n] \in Workers
        BY DEF Workers
      <3>3. \A w \in Workers : w.chunks + 1 \in Int /\ w.next + 1 \in Int
        BY DEF Workers
      <3> QED
        BY <3>1, <3>2, <3>3
    <2>2. WorkerShape'
      <3>1. CASE m.speech \in Streams
        <4> DEFINE fed == [worker[m.speech] EXCEPT !.chunks = @ + 1, !.next = @ + 1]
        <4>1. worker' = [worker EXCEPT ![m.speech] = fed]
          BY <1>3, <3>1 DEF FenceInv, WorkerShape, Workers
        <4>2. fed \in Workers
          BY <2>1, <3>1 DEF FenceInv, WorkerShape
        <4> HIDE DEF fed
        <4> QED
          BY <3>1, <4>1, <4>2 DEF FenceInv, WorkerShape
      <3>2. CASE m.speech \notin Streams
        BY <1>3, <3>2 DEF FenceInv, WorkerShape
      <3> QED
        BY <3>1, <3>2
    <2>3. Onward
      BY <1>3 DEF FenceInv, WorkerShape, Workers, Onward
    <2> QED
      BY <2>2, <2>3, OnwardKeepsFences
  <1>4. ASSUME worker' = [worker EXCEPT ![m.speech].committed = TRUE]
        PROVE  FenceInv'
    <2>1. \A w \in Workers : [w EXCEPT !.committed = TRUE] \in Workers
      BY DEF Workers
    <2>2. WorkerShape'
      BY <1>4, <2>1 DEF FenceInv, WorkerShape
    <2>3. Onward
      BY <1>4 DEF FenceInv, WorkerShape, Workers, Onward
    <2> QED
      BY <2>2, <2>3, OnwardKeepsFences
  <1>5. CASE ServeCancel
    <2>1. \A w \in Workers : [w EXCEPT !.cancelled = TRUE] \in Workers
      BY DEF Workers
    <2>2. WorkerShape'
      BY <1>5, <2>1 DEF ServeCancel, FenceInv, WorkerShape
    <2>3. Onward
      BY <1>5 DEF ServeCancel, FenceInv, WorkerShape, Workers, Onward
    <2> QED
      BY <2>2, <2>3, OnwardKeepsFences
  <1>6. CASE Disconnect
    BY <1>6, CancelKeepsFences DEF Disconnect
  <1>7. CASE ServeOpenTimeout
    BY <1>7, CancelKeepsFences DEF ServeOpenTimeout, EndConnection
  <1>8. CASE ServeAppend
    BY <1>1, <1>3, <1>8 DEF ServeAppend
  <1>9. CASE ServeCommit
    BY <1>1, <1>4, <1>9 DEF ServeCommit
  <1> QED
    BY <1>2, <1>5, <1>6, <1>7, <1>8, <1>9 DEF Serve

(* A worker takes its turn when all its fences are open: no other worker   *)
(* is active, and those that wait have it among theirs.                    *)
LEMMA PassFencesKeepsOrder ==
  ASSUME FenceInv, NEW s \in Streams, PassFences(s)
  PROVE  FenceInv'
  <1>1. WorkerShape'
    BY DEF PassFences, FenceInv, WorkerShape, Workers
  <1>2. \A t \in Streams :
            /\ worker'[t].fences = worker[t].fences
            /\ worker'[t].stage = IF t = s THEN "listening" ELSE worker[t].stage
    BY DEF PassFences, FenceInv, WorkerShape, Workers
  <1>3. s \in Live /\ Live' = Live
    BY <1>2 DEF PassFences, Live
  <1>4. \A t \in Live : t \notin worker[s].fences
    BY DEF PassFences, Live
  <1>5. \A t \in Live \ {s} :
            ~Active(t) /\ (worker[t].stage = "fenced" => s \in worker[t].fences)
    BY <1>3, <1>4 DEF PassFences, FenceInv, FencesOrder
  <1>6. FencesOrder'
    <2> SUFFICES ASSUME NEW t \in Live, NEW u \in Live, t # u
                 PROVE  /\ Active(t)' => ~Active(u)'
                        /\ Active(t)' /\ worker'[u].stage = "fenced"
                            => t \in worker'[u].fences
                        /\ worker'[t].stage = "fenced" /\ worker'[u].stage = "fenced"
                            => t \in worker'[u].fences \/ u \in worker'[t].fences
      BY <1>3 DEF FencesOrder
    <2>1. t \in Streams /\ u \in Streams
      BY DEF Live
    <2> QED
      BY <1>2, <1>5, <2>1 DEF FenceInv, FencesOrder, Active
  <1> QED
    BY <1>1, <1>6 DEF FenceInv

LEMMA WorkFences ==
  ASSUME FenceInv, NEW s \in Streams, Work(s) \/ Fault(s)
  PROVE  FenceInv'
  <1>1. CASE PassFences(s)
    BY <1>1, PassFencesKeepsOrder
  <1>2. CASE TakeChunk(s)
    <2>1. WorkerShape' /\ Onward
      BY <1>2 DEF TakeChunk, FenceInv, WorkerShape, Workers, Onward, Active
    <2> QED
      BY <2>1, OnwardKeepsFences
  <1>3. CASE Audio(s)
    <2>1. WorkerShape' /\ Onward
      BY <1>3 DEF Audio, FenceInv, WorkerShape, Workers, Onward, Active
    <2> QED
      BY <2>1, OnwardKeepsFences
  <1>4. CASE WorkerCancelled(s)
    <2>1. WorkerShape' /\ Onward
      BY <1>4 DEF WorkerCancelled, FenceInv, WorkerShape, Workers, Onward, Live, Leaving
    <2> QED
      BY <2>1, OnwardKeepsFences
  <1>5. ASSUME s \in Live, Terminal(s) PROVE FenceInv'
    <2>1. WorkerShape' /\ Onward
      BY <1>5 DEF Terminal, FenceInv, WorkerShape, Workers, Onward, Leaving
    <2> QED
      BY <2>1, OnwardKeepsFences
  <1>6. ASSUME s \in Live, Poison(s) PROVE FenceInv'
    <2>1. \A w \in Workers : [w EXCEPT !.stage = "poisoning"] \in Workers
      BY DEF Workers
    <2>2. WorkerShape'
      BY <1>6, <2>1, CancelTyped DEF Poison, FenceInv, WorkerShape
    <2>3. \A t \in Streams :
              /\ worker'[t].fences = CancelLive[t].fences
              /\ worker'[t].stage = IF t = s THEN "poisoning" ELSE CancelLive[t].stage
      BY <1>6, CancelTyped DEF Poison, FenceInv, Workers
    <2>4. Onward
      BY <1>6, <2>3, CancelTyped DEF FenceInv, Onward, Leaving
    <2> QED
      BY <2>2, <2>4, OnwardKeepsFences
  <1>7. CASE WorkerExit(s)
    <2>1. WorkerShape' /\ Onward
      BY <1>7 DEF WorkerExit, FenceInv, WorkerShape, Workers, Onward, Live, Leaving
    <2> QED
      BY <2>1, OnwardKeepsFences
  <1>8. CASE EndSpeech(s) \/ ReportPoison(s)
    BY <1>5, <1>8 DEF EndSpeech, ReportPoison, Live
  <1>9. CASE AdapterFails(s)
    BY <1>5, <1>6, <1>9 DEF AdapterFails, Degrade, Live
  <1>10. CASE FenceTimeout(s)
    BY <1>5, <1>6, <1>10 DEF FenceTimeout, Degrade, Live
  <1> QED
    BY <1>1, <1>2, <1>3, <1>4, <1>7, <1>8, <1>9, <1>10 DEF Work, Fault

(* What the client does touches no worker.                                 *)
LEMMA HostKeepsWorkers ==
  ASSUME (\E s \in Streams : Caller(s)) \/ Close \/ HostReceives
  PROVE  worker' = worker
  BY DEF Caller, Close, HostReceives, sidecarVars, Begin, BeginAborted, AppendSpeech,
         Finish, Cancel, Release, TtsStarted, HandleBinary, TtsEnded, TtsCancelled,
         SidecarFailure, ConnectionFailure

LEMMA FencesStep == FenceInv /\ [Next]_vars => FenceInv'
  <1> SUFFICES ASSUME FenceInv, [Next]_vars PROVE FenceInv'
    OBVIOUS
  <1>1. CASE worker' = worker
    BY <1>1 DEF FenceInv, WorkerShape, Workers, FencesOrder, Live, Active
  <1> QED
    BY <1>1, ServeFences, WorkFences, HostKeepsWorkers DEF Next, vars

(* The fences of runtime.py:304 serialize synthesis: of all the workers at *)
(* most one is past its own, whatever is cancelled, fails or times out.    *)
THEOREM Serialized == Spec => []OneSynthesis
  <1>1. FenceInv => OneSynthesis
    BY DEF FenceInv, FencesOrder, OneSynthesis, Live, Active
  <1> QED
    BY InitFences, FencesStep, <1>1, PTL DEF Spec

-----------------------------------------------------------------------------
(* The audio client and the sidecar implement SpeechPort.  Every step      *)
(* changes the record of one speech as the port allows (Moved) and leaves  *)
(* the others as the port sees them (Quiet), or fails them all.            *)

Settlings == {"pending", "resolved", "rejected"}

Clients ==
    [stage : {"unused", "queued", "admitted", "gone"}, cutoff : BOOLEAN,
     fed : Nat, finished : BOOLEAN, appendSequence : Nat, buffered : Nat,
     sidecarStarted : BOOLEAN, received : Nat, released : BOOLEAN,
     held : Nat, sunk : Nat, start : Settlings, completion : Settlings]

(* What one record must satisfy for its promises to settle in order: a     *)
(* speech not cut off has not settled its completion, and its start is     *)
(* resolved exactly when the sidecar announced it.                         *)
Orderly(c) ==
    /\ c.stage = "unused" => /\ c.start = "pending" /\ c.completion = "pending"
                             /\ ~c.sidecarStarted /\ ~c.cutoff
    /\ c.stage \in {"queued", "admitted"} /\ ~c.cutoff => c.completion = "pending"
    /\ c.sidecarStarted /\ ~c.cutoff => c.start = "resolved"
    /\ c.start = "resolved" => c.sidecarStarted

Records ==
    /\ client \in [Streams -> Clients]
    /\ \A s \in Streams : Orderly(client[s])

(* The queue holds each waiting speech once.                               *)
Waiting == {s \in Streams : client[s].stage = "queued"}

Queueing ==
    /\ queued \in Seq(Waiting)
    /\ \A i, j \in 1..Len(queued) : queued[i] = queued[j] => i = j

(* Nothing is on either wire of a speech the client has not admitted yet,  *)
(* nor is there a worker of it: what the sidecar reports ended is never a  *)
(* speech that waits in the queue.                                         *)
Spoken == {s \in Streams : client[s].stage \notin {"unused", "queued"}}

Commands ==
    [type : {"tts.open", "tts.append", "tts.commit", "tts.cancel"},
     speech : Spoken, sequence : Int, hashed : Int]

Reports ==
    [type : {"tts.started", "frame", "tts.ended", "tts.cancelled", "sidecar.failure"},
     speech : Spoken, count : Int]

Wires ==
    /\ toSidecar \in Seq(Commands)
    /\ toHost \in Seq(Reports)
    /\ \A s \in Streams : worker[s].stage # "none" => s \in Spoken

PortInv == WorkerShape /\ Records /\ Queueing /\ Wires

(* How far the promises of one record have settled.                        *)
Promised(c) ==
    CASE c.stage = "unused" -> "unused"
      [] c.completion = "resolved" -> "completed"
      [] c.completion = "rejected" -> "rejected"
      [] c.completion = "pending" /\ c.start = "resolved" -> "started"
      [] OTHER -> "requested"

Quiet(c, d) == Promised(d) = Promised(c) /\ d.sunk = c.sunk

Dropped(c, d) ==
    /\ Promised(c) \in {"unused", "requested", "started"}
    /\ Promised(d) = "rejected"
    /\ d.sunk = c.sunk

Moved(c, d) ==
    \/ Quiet(c, d)
    \/ Dropped(c, d)
    \/ Promised(c) = "unused" /\ Promised(d) = "requested" /\ d.sunk = c.sunk
    \/ Promised(c) = "requested" /\ Promised(d) = "started" /\ d.sunk = c.sunk
    \/ Promised(c) = "started" /\ Promised(d) \in {"started", "completed"} /\ d.sunk >= c.sunk

-----------------------------------------------------------------------------
(* From records to the port                                                *)

LEMMA PortSeen ==
  /\ promise = [s \in Streams |-> Promised(client[s])]
  /\ promise' = [s \in Streams |-> Promised(client'[s])]
  BY DEF promise, Promised

LEMMA AllQuiet ==
  ASSUME \A s \in Streams : Quiet(client[s], client'[s])
  PROVE  UNCHANGED Port!portVars
  BY PortSeen DEF Quiet, Port!portVars

LEMMA SomeDropped ==
  ASSUME \A s \in Streams : Quiet(client[s], client'[s]) \/ Dropped(client[s], client'[s])
  PROVE  Port!Next
  <1> DEFINE dropped == {s \in Streams : Dropped(client[s], client'[s])}
  <1>1. \A s \in dropped : promise[s] \in {"unused", "requested", "started"}
    BY PortSeen DEF Dropped
  <1>2. \A s \in Streams :
            /\ Promised(client'[s]) = IF s \in dropped THEN "rejected" ELSE promise[s]
            /\ client'[s].sunk = client[s].sunk
    BY PortSeen DEF Dropped, Quiet
  <1>3. promise' = [s \in Streams |-> IF s \in dropped THEN "rejected" ELSE promise[s]]
    BY PortSeen, <1>2
  <1>4. UNCHANGED [s \in Streams |-> client[s].sunk]
    BY <1>2
  <1>5. Port!Reject(dropped)
    BY <1>1, <1>3, <1>4 DEF Port!Reject
  <1> QED
    BY <1>5 DEF Port!Next

LEMMA OneMoved ==
  ASSUME NEW s \in Streams, Moved(client[s], client'[s]),
         \A t \in Streams \ {s} : Quiet(client[t], client'[t])
  PROVE  [Port!Next]_Port!portVars
  <1> DEFINE sunk == [t \in Streams |-> client[t].sunk]
  <1>1. promise' = [promise EXCEPT ![s] = Promised(client'[s])]
    BY PortSeen DEF Quiet
  <1>2. sunk' = [sunk EXCEPT ![s] = sunk'[s]]
    BY DEF Quiet
  <1>3. promise[s] = Promised(client[s]) /\ sunk[s] = client[s].sunk /\ sunk'[s] = client'[s].sunk
    BY PortSeen
  <1>4. CASE Quiet(client[s], client'[s])
    BY <1>4, AllQuiet
  <1>5. CASE Dropped(client[s], client'[s])
    BY <1>5, SomeDropped
  <1>6. CASE /\ Promised(client[s]) = "unused" /\ Promised(client'[s]) = "requested"
             /\ client'[s].sunk = client[s].sunk
    <2>1. Port!Request(s)
      BY <1>1, <1>2, <1>3, <1>6 DEF Port!Request
    <2> QED
      BY <2>1 DEF Port!Next
  <1>7. CASE /\ Promised(client[s]) = "requested" /\ Promised(client'[s]) = "started"
             /\ client'[s].sunk = client[s].sunk
    <2>1. Port!Start(s)
      BY <1>1, <1>2, <1>3, <1>7 DEF Port!Start
    <2> QED
      BY <2>1 DEF Port!Next
  <1>8. CASE /\ Promised(client[s]) = "started" /\ client'[s].sunk >= client[s].sunk
             /\ Promised(client'[s]) \in {"started", "completed"}
    <2>1. Port!MoreSunk(s)
      BY <1>2, <1>3, <1>8 DEF Port!MoreSunk
    <2>2. CASE Promised(client'[s]) = "started"
      BY <1>1, <1>3, <1>8, <2>1, <2>2, PortSeen DEF Port!Hear, Port!Next
    <2>3. CASE Promised(client'[s]) = "completed"
      BY <1>1, <1>3, <1>8, <2>1, <2>3 DEF Port!Complete, Port!Next
    <2> QED
      BY <1>8, <2>2, <2>3
  <1> QED
    BY <1>4, <1>5, <1>6, <1>7, <1>8 DEF Moved

-----------------------------------------------------------------------------
(* What a step of the client needs to show                                 *)

LEMMA WiresGrow ==
  ASSUME Wires, Spoken \subseteq Spoken'
  PROVE  /\ toSidecar \in Seq(Commands')
         /\ toHost \in Seq(Reports')
         /\ toHost # <<>> => Tail(toHost) \in Seq(Reports')
         /\ <<>> \in Seq(Reports')
         /\ \A s \in Streams : worker[s].stage # "none" => s \in Spoken'
  <1>1. Commands \subseteq Commands' /\ Reports \subseteq Reports'
    BY DEF Commands, Reports
  <1>2. toSidecar \in Seq(Commands') /\ toHost \in Seq(Reports')
    BY <1>1, SeqMonotonic DEF Wires
  <1>3. toHost # <<>> => Tail(toHost) \in Seq(Reports')
    BY <1>2
  <1> QED
    BY <1>2, <1>3, EmptySeq DEF Wires

LEMMA SendTyped ==
  ASSUME toSidecar \in Seq(Commands'), NEW messages \in Seq(Commands'), Send(messages)
  PROVE  toSidecar' \in Seq(Commands')
  BY ConcatProperties DEF Send

LEMMA ClientUpdates ==
  \A c \in Clients :
    /\ \A v \in {"queued", "admitted", "gone"} : [c EXCEPT !.stage = v] \in Clients
    /\ [c EXCEPT !.cutoff = TRUE] \in Clients
    /\ [c EXCEPT !.finished = TRUE] \in Clients
    /\ [c EXCEPT !.sidecarStarted = TRUE] \in Clients
    /\ [c EXCEPT !.released = TRUE] \in Clients
    /\ \A v \in Settlings : /\ [c EXCEPT !.start = v] \in Clients
                           /\ [c EXCEPT !.completion = v] \in Clients
    /\ \A n \in Nat : /\ [c EXCEPT !.fed = n] \in Clients
                     /\ [c EXCEPT !.buffered = n] \in Clients
                     /\ [c EXCEPT !.appendSequence = n] \in Clients
                     /\ [c EXCEPT !.received = n] \in Clients
                     /\ [c EXCEPT !.held = n] \in Clients
                     /\ [c EXCEPT !.sunk = n] \in Clients
  <1> TAKE c \in Clients
  <1>1. \A v \in {"queued", "admitted", "gone"} : [c EXCEPT !.stage = v] \in Clients
    BY DEF Clients
  <1>2. /\ [c EXCEPT !.cutoff = TRUE] \in Clients
        /\ [c EXCEPT !.finished = TRUE] \in Clients
        /\ [c EXCEPT !.sidecarStarted = TRUE] \in Clients
        /\ [c EXCEPT !.released = TRUE] \in Clients
    BY DEF Clients
  <1>3. \A v \in Settlings : /\ [c EXCEPT !.start = v] \in Clients
                            /\ [c EXCEPT !.completion = v] \in Clients
    BY DEF Clients
  <1>4. \A n \in Nat : /\ [c EXCEPT !.fed = n] \in Clients
                      /\ [c EXCEPT !.buffered = n] \in Clients
                      /\ [c EXCEPT !.appendSequence = n] \in Clients
    BY DEF Clients
  <1>5. \A n \in Nat : /\ [c EXCEPT !.received = n] \in Clients
                      /\ [c EXCEPT !.held = n] \in Clients
                      /\ [c EXCEPT !.sunk = n] \in Clients
    BY DEF Clients
  <1> QED
    BY <1>1, <1>2, <1>3, <1>4, <1>5

LEMMA Rejected ==
  \A c \in Clients :
    /\ RejectPending(c) \in Clients
    /\ RejectPending(c).stage = c.stage
    /\ RejectPending(c).cutoff
    /\ RejectPending(c).sunk = c.sunk
    /\ RejectPending(c).sidecarStarted = c.sidecarStarted
    /\ RejectPending(c).start = IF c.start = "pending" THEN "rejected" ELSE c.start
    /\ RejectPending(c).completion =
          IF c.completion = "pending" THEN "rejected" ELSE c.completion
  <1> TAKE c \in Clients
  <1> DEFINE start == IF c.start = "pending" THEN "rejected" ELSE c.start
             completion == IF c.completion = "pending" THEN "rejected" ELSE c.completion
  <1>1. RejectPending(c) =
            [c EXCEPT !.cutoff = TRUE, !.held = 0, !.start = start, !.completion = completion]
    BY DEF RejectPending
  <1>2. start \in Settlings /\ completion \in Settlings
    BY DEF Clients, Settlings
  <1> HIDE DEF start, completion
  <1>3. RejectPending(c) \in Clients
    <2> DEFINE c1 == [c EXCEPT !.cutoff = TRUE]
               c2 == [c1 EXCEPT !.held = 0]
               c3 == [c2 EXCEPT !.start = start]
               c4 == [c3 EXCEPT !.completion = completion]
    <2>1. RejectPending(c) = c4
      BY <1>1
    <2>2. c1 \in Clients
      BY ClientUpdates
    <2> HIDE DEF c1
    <2>3. c2 \in Clients
      BY <2>2, ClientUpdates
    <2> HIDE DEF c2
    <2>4. c3 \in Clients
      BY <1>2, <2>3, ClientUpdates
    <2> HIDE DEF c3
    <2>5. c4 \in Clients
      BY <1>2, <2>4, ClientUpdates
    <2> QED
      BY <2>1, <2>5
  <1>4. /\ RejectPending(c).stage = c.stage
        /\ RejectPending(c).cutoff
        /\ RejectPending(c).sunk = c.sunk
        /\ RejectPending(c).sidecarStarted = c.sidecarStarted
        /\ RejectPending(c).start = start
        /\ RejectPending(c).completion = completion
    BY <1>1, <1>2 DEF Clients
  <1> QED
    BY <1>3, <1>4 DEF start, completion

(* One speech moves and the rest stay.                                     *)
LEMMA OneKept ==
  ASSUME PortInv, NEW s \in Streams, NEW d \in Clients, Orderly(d),
         Moved(client[s], d), client' = [client EXCEPT ![s] = d],
         s \in Spoken => d.stage \notin {"unused", "queued"}
  PROVE  /\ Records'
         /\ Spoken \subseteq Spoken'
         /\ [Port!Next]_Port!portVars
  <1>1. client'[s] = d /\ \A t \in Streams \ {s} : client'[t] = client[t]
    BY DEF PortInv, Records
  <1>2. Records'
    BY <1>1 DEF PortInv, Records
  <1>3. Spoken \subseteq Spoken'
    BY <1>1 DEF Spoken
  <1>4. \A t \in Streams \ {s} : Quiet(client[t], client'[t])
    BY <1>1 DEF Quiet
  <1> QED
    BY <1>1, <1>2, <1>3, <1>4, OneMoved

(* The queue is left alone by a step of a speech that is not in it.        *)
LEMMA QueueKept ==
  ASSUME PortInv, NEW s \in Streams, s \notin Waiting, UNCHANGED queued,
         \A t \in Streams \ {s} : client'[t] = client[t]
  PROVE  Queueing'
  <1>1. Waiting \subseteq Waiting'
    BY DEF Waiting
  <1> QED
    BY <1>1, SeqMonotonic DEF PortInv, Queueing

(* A speech moves within its stage.                                        *)
LEMMA StageKept ==
  ASSUME PortInv, NEW s \in Streams, NEW d \in Clients, Orderly(d),
         Moved(client[s], d), client' = [client EXCEPT ![s] = d],
         d.stage = client[s].stage, UNCHANGED queued
  PROVE  /\ Records' /\ Queueing'
         /\ Spoken \subseteq Spoken'
         /\ [Port!Next]_Port!portVars
  <1>1. Waiting \subseteq Waiting'
    BY DEF PortInv, Records, Waiting
  <1>2. Queueing'
    BY <1>1, SeqMonotonic DEF PortInv, Queueing
  <1> QED
    BY <1>2, OneKept DEF Spoken

LEMMA FailAllKept ==
  ASSUME PortInv, FailAll
  PROVE  /\ Records' /\ Queueing'
         /\ Spoken \subseteq Spoken'
         /\ [Port!Next]_Port!portVars
  <1> DEFINE failed(c) == [RejectPending(c) EXCEPT !.stage = "gone"]
  <1>1. \A c \in Clients :
            /\ failed(c) \in Clients
            /\ failed(c).stage = "gone" /\ failed(c).cutoff
            /\ failed(c).sunk = c.sunk
            /\ failed(c).sidecarStarted = c.sidecarStarted
            /\ failed(c).start = IF c.start = "pending" THEN "rejected" ELSE c.start
            /\ failed(c).completion = IF c.completion = "pending" THEN "rejected" ELSE c.completion
    <2> SUFFICES ASSUME NEW c \in Clients
                 PROVE  /\ failed(c) \in Clients
                        /\ failed(c).stage = "gone" /\ failed(c).cutoff
                        /\ failed(c).sunk = c.sunk
                        /\ failed(c).sidecarStarted = c.sidecarStarted
                        /\ failed(c).start =
                             IF c.start = "pending" THEN "rejected" ELSE c.start
                        /\ failed(c).completion =
                             IF c.completion = "pending" THEN "rejected" ELSE c.completion
      OBVIOUS
    <2>1. RejectPending(c) \in Clients
      BY Rejected
    <2>2. [RejectPending(c) EXCEPT !.stage = "gone"] \in Clients
      BY <2>1, ClientUpdates
    <2> QED
      BY <2>1, <2>2, Rejected DEF Clients
  <1> HIDE DEF failed
  <1>2. \A t \in Streams : client'[t] = IF Pending(t) THEN failed(client[t]) ELSE client[t]
    BY DEF FailAll, failed
  <1>3. \A c \in Clients : Orderly(c) => Orderly(failed(c))
    BY <1>1 DEF Orderly
  <1>4. Records'
    BY <1>1, <1>2, <1>3 DEF FailAll, PortInv, Records, failed
  <1>5. Queueing'
    BY EmptySeq DEF FailAll, Queueing
  <1>6. Spoken \subseteq Spoken'
    BY <1>1, <1>2 DEF Spoken, PortInv, Records
  <1>7. ASSUME NEW t \in Streams
        PROVE  Quiet(client[t], client'[t]) \/ Dropped(client[t], client'[t])
    <2>1. CASE ~Pending(t)
      BY <1>2, <2>1 DEF Quiet
    <2>2. CASE Pending(t)
      <3>1. client[t] \in Clients /\ client'[t] = failed(client[t])
        BY <1>2, <2>2 DEF PortInv, Records
      <3>2. CASE client[t].completion = "pending"
        BY <1>1, <2>2, <3>1, <3>2 DEF Dropped, Promised, Pending, Clients, Settlings
      <3>3. CASE client[t].completion # "pending"
        BY <1>1, <2>2, <3>1, <3>3 DEF Quiet, Promised, Pending, Clients, Settlings
      <3> QED
        BY <3>2, <3>3
    <2> QED
      BY <2>1, <2>2
  <1> QED
    BY <1>4, <1>5, <1>6, <1>7, SomeDropped

(* What the client does to the wires: it sends of admitted speeches, and   *)
(* takes what it receives, or drops it all.                                *)
LEMMA ClientWires ==
  ASSUME Wires, Spoken \subseteq Spoken', UNCHANGED worker,
         \/ UNCHANGED toHost
         \/ toHost # <<>> /\ toHost' = Tail(toHost)
         \/ toHost' = <<>>,
         \/ UNCHANGED toSidecar
         \/ \E messages \in Seq(Commands') : Send(messages)
  PROVE  Wires'
  <1>1. toSidecar' \in Seq(Commands')
    BY WiresGrow, SendTyped
  <1>2. toHost' \in Seq(Reports')
    BY WiresGrow
  <1> QED
    BY <1>1, <1>2, WiresGrow DEF Wires

LEMMA OneMessage ==
  ASSUME NEW s \in Spoken'
  PROVE  /\ <<Open(s)>> \in Seq(Commands')
         /\ <<CancelTts(s)>> \in Seq(Commands')
         /\ \A n \in Int : <<AppendText(s, n)>> \in Seq(Commands')
         /\ \A n, h \in Int : <<Commit(s, n, h)>> \in Seq(Commands')
  BY DEF Open, AppendText, Commit, CancelTts, Commands

-----------------------------------------------------------------------------
(* The calls                                                               *)

LEMMA BeginKept ==
  ASSUME PortInv, NEW s \in Streams, Begin(s)
  PROVE  PortInv' /\ [Port!Next]_Port!portVars
  <1> DEFINE d(stage) == [client[s] EXCEPT !.stage = stage]
  <1>1. /\ client[s] \in Clients /\ Orderly(client[s]) /\ client[s].stage = "unused"
        /\ s \notin Spoken /\ s \notin Waiting
    BY DEF Begin, MayBegin, PortInv, Records, Spoken, Waiting
  <1>2. ASSUME NEW stage \in {"admitted", "queued"}
        PROVE  /\ d(stage) \in Clients /\ d(stage).stage = stage
               /\ Orderly(d(stage)) /\ Moved(client[s], d(stage))
    <2>1. d(stage) \in Clients
      BY <1>1, <1>2, ClientUpdates
    <2>2. /\ d(stage).stage = stage
          /\ d(stage).cutoff = client[s].cutoff
          /\ d(stage).sidecarStarted = client[s].sidecarStarted
          /\ d(stage).start = client[s].start
          /\ d(stage).completion = client[s].completion
          /\ d(stage).sunk = client[s].sunk
      BY <1>1 DEF Clients
    <2> QED
      BY <1>1, <1>2, <2>1, <2>2 DEF Orderly, Moved, Promised
  <1> HIDE DEF d
  <1>3. WorkerShape' /\ UNCHANGED worker /\ UNCHANGED toHost
    BY DEF Begin, sidecarVars, PortInv, WorkerShape
  <1>4. CASE client' = [client EXCEPT ![s] = d("admitted")] /\ Send(<<Open(s)>>) /\ UNCHANGED queued
    <2>1. Records' /\ Spoken \subseteq Spoken' /\ [Port!Next]_Port!portVars
      BY <1>1, <1>2, <1>4, OneKept
    <2>2. Queueing'
      BY <1>1, <1>4, QueueKept DEF PortInv, Records
    <2>3. s \in Spoken'
      BY <1>1, <1>2, <1>4 DEF Spoken, PortInv, Records
    <2>4. <<Open(s)>> \in Seq(Commands')
      BY <2>3, OneMessage
    <2>5. Wires'
      BY <1>3, <1>4, <2>1, <2>4, ClientWires DEF PortInv
    <2> QED
      BY <1>3, <2>1, <2>2, <2>5 DEF PortInv
  <1>5. CASE client' = [client EXCEPT ![s] = d("queued")] /\ queued' = Append(queued, s) /\ UNCHANGED toSidecar
    <2>1. Records' /\ Spoken \subseteq Spoken' /\ [Port!Next]_Port!portVars
      BY <1>1, <1>2, <1>5, OneKept
    <2>2. s \in Waiting' /\ Waiting \subseteq Waiting'
      BY <1>1, <1>2, <1>5 DEF Waiting, PortInv, Records
    <2>3. queued \in Seq(Waiting')
      BY <2>2, SeqMonotonic DEF PortInv, Queueing
    <2>4. Queueing'
      BY <1>1, <1>5, <2>2, <2>3 DEF PortInv, Queueing
    <2>5. Wires'
      BY <1>3, <1>5, <2>1, ClientWires DEF PortInv
    <2> QED
      BY <1>3, <2>1, <2>4, <2>5 DEF PortInv
  <1> QED
    BY <1>4, <1>5 DEF Begin, d

LEMMA BeginAbortedKept ==
  ASSUME PortInv, NEW s \in Streams, BeginAborted(s)
  PROVE  PortInv' /\ [Port!Next]_Port!portVars
  <1> DEFINE d == [RejectPending(client[s]) EXCEPT !.stage = "gone"]
  <1>1. /\ client[s] \in Clients /\ Orderly(client[s]) /\ client[s].stage = "unused"
        /\ s \notin Spoken /\ s \notin Waiting
    BY DEF BeginAborted, MayBegin, PortInv, Records, Spoken, Waiting
  <1>2. d \in Clients /\ d.stage = "gone" /\ Orderly(d) /\ Moved(client[s], d)
    <2>1. RejectPending(client[s]) \in Clients
      BY <1>1, Rejected
    <2>2. d \in Clients
      BY <2>1, ClientUpdates
    <2>3. /\ d.stage = "gone"
          /\ d.cutoff = RejectPending(client[s]).cutoff
          /\ d.sunk = RejectPending(client[s]).sunk
          /\ d.start = RejectPending(client[s]).start
          /\ d.completion = RejectPending(client[s]).completion
      BY <2>1 DEF Clients
    <2>4. /\ d.cutoff /\ d.sunk = client[s].sunk
          /\ d.start = "rejected" /\ d.completion = "rejected"
      BY <1>1, <2>3, Rejected DEF Orderly
    <2> QED
      BY <1>1, <2>2, <2>3, <2>4 DEF Orderly, Moved, Dropped, Promised
  <1>3. WorkerShape' /\ UNCHANGED <<worker, toHost, toSidecar, queued>>
    BY DEF BeginAborted, sidecarVars, PortInv, WorkerShape
  <1>4. client' = [client EXCEPT ![s] = d]
    BY DEF BeginAborted
  <1> HIDE DEF d
  <1>5. Records' /\ Spoken \subseteq Spoken' /\ [Port!Next]_Port!portVars
    BY <1>1, <1>2, <1>4, OneKept
  <1>6. Queueing'
    BY <1>1, <1>3, <1>4, QueueKept DEF PortInv, Records
  <1>7. Wires'
    BY <1>3, <1>5, ClientWires DEF PortInv
  <1> QED
    BY <1>3, <1>5, <1>6, <1>7 DEF PortInv

(* Feeding and finishing a speech say nothing to the port.                 *)
LEMMA AppendKept ==
  ASSUME PortInv, NEW s \in Streams, AppendSpeech(s)
  PROVE  PortInv' /\ [Port!Next]_Port!portVars
  <1> DEFINE c == client[s]
             waiting == [c EXCEPT !.fed = @ + 1, !.buffered = @ + 1]
             speaking == [c EXCEPT !.fed = @ + 1, !.appendSequence = @ + 1]
  <1>1. c \in Clients /\ Orderly(c) /\ Pending(s)
    BY DEF AppendSpeech, PortInv, Records
  <1>2. c.fed + 1 \in Nat /\ c.buffered + 1 \in Nat /\ c.appendSequence + 1 \in Nat
    BY <1>1 DEF Clients
  <1>3. [c EXCEPT !.fed = c.fed + 1] \in Clients
    BY <1>1, <1>2, ClientUpdates
  <1>4. /\ waiting = [[c EXCEPT !.fed = c.fed + 1] EXCEPT !.buffered = c.buffered + 1]
        /\ speaking = [[c EXCEPT !.fed = c.fed + 1] EXCEPT !.appendSequence = c.appendSequence + 1]
    BY <1>1 DEF Clients
  <1>5. waiting \in Clients /\ speaking \in Clients
    BY <1>2, <1>3, <1>4, ClientUpdates
  <1>6. \A d \in {waiting, speaking} :
            /\ d.stage = c.stage /\ d.cutoff = c.cutoff /\ d.sunk = c.sunk
            /\ d.sidecarStarted = c.sidecarStarted
            /\ d.start = c.start /\ d.completion = c.completion
    BY <1>1 DEF Clients
  <1>7. \/ /\ client' = [client EXCEPT ![s] = waiting]
           /\ UNCHANGED toSidecar
        \/ /\ c.stage = "admitted"
           /\ client' = [client EXCEPT ![s] = speaking]
           /\ Send(<<AppendText(s, c.appendSequence)>>)
    BY <1>1 DEF AppendSpeech, PortInv, Records, Clients
  <1>8. WorkerShape' /\ UNCHANGED <<worker, toHost, queued>>
    BY DEF AppendSpeech, sidecarVars, PortInv, WorkerShape
  <1>9. PICK d \in {waiting, speaking} : client' = [client EXCEPT ![s] = d]
    BY <1>7
  <1>10. d \in Clients /\ Orderly(d) /\ Moved(c, d) /\ d.stage = c.stage
    BY <1>1, <1>5, <1>6 DEF Orderly, Moved, Quiet, Promised
  <1>11. Records' /\ Queueing' /\ Spoken \subseteq Spoken' /\ [Port!Next]_Port!portVars
    BY <1>8, <1>9, <1>10, StageKept
  <1>12. c.stage = "admitted" => <<AppendText(s, c.appendSequence)>> \in Seq(Commands')
    BY <1>1, <1>11, OneMessage DEF Spoken, Clients
  <1>13. Wires'
    BY <1>7, <1>8, <1>11, <1>12, ClientWires DEF PortInv
  <1> QED
    BY <1>8, <1>11, <1>13 DEF PortInv

LEMMA FinishKept ==
  ASSUME PortInv, NEW s \in Streams, Finish(s)
  PROVE  PortInv' /\ [Port!Next]_Port!portVars
  <1> DEFINE c == client[s]
             d == [c EXCEPT !.finished = TRUE]
  <1>1. c \in Clients /\ Orderly(c) /\ Pending(s)
    BY DEF Finish, PortInv, Records
  <1>2. d \in Clients
    BY <1>1, ClientUpdates
  <1>3. /\ d.stage = c.stage /\ d.cutoff = c.cutoff /\ d.sunk = c.sunk
        /\ d.sidecarStarted = c.sidecarStarted
        /\ d.start = c.start /\ d.completion = c.completion
    BY <1>1 DEF Clients
  <1>4. Orderly(d) /\ Moved(c, d)
    BY <1>1, <1>3 DEF Orderly, Moved, Quiet, Promised
  <1>5. client' = [client EXCEPT ![s] = d]
    BY DEF Finish, PortInv, Records
  <1>6. WorkerShape' /\ UNCHANGED <<worker, toHost, queued>>
    BY DEF Finish, sidecarVars, PortInv, WorkerShape
  <1>7. Records' /\ Queueing' /\ Spoken \subseteq Spoken' /\ [Port!Next]_Port!portVars
    BY <1>2, <1>3, <1>4, <1>5, <1>6, StageKept
  <1>8. c.stage # "queued" => <<Commit(s, c.appendSequence, c.fed)>> \in Seq(Commands')
    BY <1>1, <1>7, OneMessage DEF Spoken, Pending, Clients
  <1>9. Wires'
    BY <1>6, <1>7, <1>8, ClientWires DEF PortInv, Finish
  <1> QED
    BY <1>6, <1>7, <1>9 DEF PortInv

(* The audio held back is handed over to a speech that has started.        *)
LEMMA ReleaseKept ==
  ASSUME PortInv, NEW s \in Streams, Release(s)
  PROVE  PortInv' /\ [Port!Next]_Port!portVars
  <1> DEFINE c == client[s]
             d == [c EXCEPT !.released = TRUE, !.held = 0, !.sunk = @ + c.held]
  <1>1. c \in Clients /\ Orderly(c) /\ Pending(s) /\ c.sidecarStarted /\ ~c.cutoff
    BY DEF Release, PortInv, Records
  <1>2. d \in Clients
    <2>1. [c EXCEPT !.released = TRUE] \in Clients
      BY <1>1, ClientUpdates
    <2>2. [[c EXCEPT !.released = TRUE] EXCEPT !.held = 0] \in Clients
      BY <2>1, ClientUpdates
    <2>3. c.sunk + c.held \in Nat
      BY <1>1 DEF Clients
    <2>4. d = [[[c EXCEPT !.released = TRUE] EXCEPT !.held = 0] EXCEPT !.sunk = c.sunk + c.held]
      BY <1>1 DEF Clients
    <2> QED
      BY <2>2, <2>3, <2>4, ClientUpdates
  <1>3. /\ d.stage = c.stage /\ d.cutoff = c.cutoff
        /\ d.sidecarStarted = c.sidecarStarted
        /\ d.start = c.start /\ d.completion = c.completion
        /\ d.sunk >= c.sunk
    <2>1. d.sunk = c.sunk + c.held /\ c.sunk \in Nat /\ c.held \in Nat
      BY <1>1 DEF Clients
    <2>2. d.sunk >= c.sunk
      BY <2>1
    <2> QED
      BY <1>1, <2>2 DEF Clients
  <1>4. Orderly(d) /\ Moved(c, d)
    BY <1>1, <1>3 DEF Orderly, Moved, Promised, Pending
  <1>5. client' = [client EXCEPT ![s] = d]
    BY <1>1 DEF Release, PortInv, Records, Clients
  <1>6. WorkerShape' /\ UNCHANGED <<worker, toHost, toSidecar, queued>>
    BY DEF Release, sidecarVars, PortInv, WorkerShape
  <1>7. Records' /\ Queueing' /\ Spoken \subseteq Spoken' /\ [Port!Next]_Port!portVars
    BY <1>2, <1>3, <1>4, <1>5, <1>6, StageKept
  <1>8. Wires'
    BY <1>6, <1>7, ClientWires DEF PortInv
  <1> QED
    BY <1>6, <1>7, <1>8 DEF PortInv

-----------------------------------------------------------------------------
(* Leaving the queue, and cancellation                                     *)

LEMMA RemovedOnce ==
  ASSUME NEW S, NEW q \in Seq(S), NEW i \in 1..Len(q),
         \A m, n \in 1..Len(q) : q[m] = q[n] => m = n
  PROVE  /\ RemoveAt(q, i) \in Seq(S \ {q[i]})
         /\ \A m, n \in 1..Len(RemoveAt(q, i)) :
                RemoveAt(q, i)[m] = RemoveAt(q, i)[n] => m = n
  <1> DEFINE T == S \ {q[i]}
             before == SubSeq(q, 1, i - 1)
             after == SubSeq(q, i + 1, Len(q))
  <1>1. Len(q) \in Nat /\ \A j \in 1..Len(q) : q[j] \in S
    BY LenProperties
  <1>2. /\ before \in Seq(T) /\ Len(before) = i - 1
        /\ \A j \in 1..(i - 1) : before[j] = q[j]
    <2>1. \A j \in 1..(i - 1) : q[j] \in T
      BY <1>1
    <2> QED
      BY <1>1, <2>1, SubSeqProperties
  <1>3. /\ after \in Seq(T) /\ Len(after) = Len(q) - i
        /\ \A j \in 1..(Len(q) - i) : after[j] = q[i + j]
    <2>1. \A j \in (i + 1)..Len(q) : q[j] \in T
      BY <1>1
    <2>2. after \in Seq(T) /\ Len(after) = IF i + 1 <= Len(q) THEN Len(q) - (i + 1) + 1 ELSE 0
      BY <1>1, <2>1, SubSeqProperties
    <2>3. \A j \in 1..(Len(q) - (i + 1) + 1) : after[j] = q[(i + 1) + j - 1]
      BY <1>1, <2>1, SubSeqProperties
    <2>4. \A j \in 1..(Len(q) - i) : after[j] = q[i + j]
      BY <1>1, <2>3
    <2> QED
      BY <1>1, <2>2, <2>4
  <1>4. RemoveAt(q, i) = before \o after
    BY DEF RemoveAt
  <1> HIDE DEF T, before, after
  <1>5. /\ before \o after \in Seq(T)
        /\ Len(before \o after) = Len(q) - 1
        /\ \A j \in 1..(Len(q) - 1) :
              (before \o after)[j] = IF j < i THEN q[j] ELSE q[j + 1]
    <2>1. /\ before \o after \in Seq(T)
          /\ Len(before \o after) = Len(before) + Len(after)
          /\ \A j \in 1..(Len(before) + Len(after)) :
                (before \o after)[j] =
                    IF j <= Len(before) THEN before[j] ELSE after[j - Len(before)]
      <3>1. before \in Seq(T) /\ after \in Seq(T)
        BY <1>2, <1>3
      <3> QED
        BY ONLY <3>1, ConcatProperties
    <2>2. ASSUME NEW j \in 1..(Len(q) - 1), j < i
          PROVE  (before \o after)[j] = q[j]
      <3>1. j \in 1..(Len(before) + Len(after)) /\ j <= Len(before) /\ j \in 1..(i - 1)
        BY <1>1, <1>2, <1>3, <2>2
      <3> QED
        BY <1>2, <2>1, <3>1
    <2>3. ASSUME NEW j \in 1..(Len(q) - 1), ~(j < i)
          PROVE  (before \o after)[j] = q[j + 1]
      <3>1. /\ j \in 1..(Len(before) + Len(after)) /\ ~(j <= Len(before))
            /\ j - Len(before) \in 1..(Len(q) - i) /\ i + (j - Len(before)) = j + 1
        BY <1>1, <1>2, <1>3, <2>3
      <3>2. (before \o after)[j] = after[j - Len(before)]
        BY <2>1, <3>1
      <3> QED
        BY <1>3, <3>1, <3>2
    <2>4. Len(before \o after) = Len(q) - 1
      BY <1>1, <1>2, <1>3, <2>1
    <2> QED
      BY <2>1, <2>2, <2>3, <2>4
  <1>6. ASSUME NEW m \in 1..(Len(q) - 1), NEW n \in 1..(Len(q) - 1),
               (before \o after)[m] = (before \o after)[n]
        PROVE  m = n
    <2> DEFINE at(k) == IF k < i THEN k ELSE k + 1
    <2>1. at(m) \in 1..Len(q) /\ at(n) \in 1..Len(q)
      BY <1>1
    <2>2. q[at(m)] = q[at(n)]
      BY <1>5, <1>6
    <2>3. at(m) = at(n)
      BY <2>1, <2>2
    <2> QED
      BY <1>1, <2>3
  <1> QED
    BY <1>4, <1>5, <1>6 DEF T

LEMMA CancelKept ==
  ASSUME PortInv, NEW s \in Streams, Cancel(s)
  PROVE  PortInv' /\ [Port!Next]_Port!portVars
  <1> DEFINE c == client[s]
             r == RejectPending(c)
             d == [r EXCEPT !.stage = "gone"]
  <1>1. /\ c \in Clients /\ Orderly(c) /\ Pending(s) /\ ~c.cutoff
        /\ c.completion = "pending"
    BY DEF Cancel, PortInv, Records, Orderly, Pending
  <1>2. /\ r \in Clients /\ r.stage = c.stage /\ r.cutoff /\ r.sunk = c.sunk
        /\ r.sidecarStarted = c.sidecarStarted
        /\ r.start = IF c.start = "pending" THEN "rejected" ELSE c.start
        /\ r.completion = "rejected"
    BY <1>1, Rejected
  <1>3. /\ d \in Clients /\ d.stage = "gone" /\ d.cutoff = r.cutoff /\ d.sunk = r.sunk
        /\ d.sidecarStarted = r.sidecarStarted
        /\ d.start = r.start /\ d.completion = r.completion
    <2>1. d \in Clients
      BY <1>2, ClientUpdates
    <2> QED
      BY <1>2, <2>1 DEF Clients
  <1>4. /\ Orderly(r) /\ Orderly(d)
        /\ Moved(c, r) /\ Moved(c, d)
    BY <1>1, <1>2, <1>3 DEF Orderly, Moved, Dropped, Promised, Pending
  <1>5. WorkerShape' /\ UNCHANGED <<worker, toHost>>
    BY DEF Cancel, sidecarVars, PortInv, WorkerShape
  <1>6. CASE /\ client' = [client EXCEPT ![s] = d]
             /\ \E i \in 1..Len(queued) : queued[i] = s /\ queued' = RemoveAt(queued, i)
             /\ UNCHANGED toSidecar
    <2>1. Records' /\ Spoken \subseteq Spoken' /\ [Port!Next]_Port!portVars
      BY <1>3, <1>4, <1>6, OneKept
    <2>2. /\ queued' \in Seq(Waiting \ {s})
          /\ \A m, n \in 1..Len(queued') : queued'[m] = queued'[n] => m = n
      BY <1>6, RemovedOnce DEF PortInv, Queueing
    <2>3. Waiting \ {s} \subseteq Waiting'
      BY <1>6 DEF Waiting, PortInv, Records
    <2>4. Queueing'
      BY <2>2, <2>3, SeqMonotonic DEF Queueing
    <2>5. Wires'
      BY <1>5, <1>6, <2>1, ClientWires DEF PortInv
    <2> QED
      BY <1>5, <2>1, <2>4, <2>5 DEF PortInv
  <1>7. CASE /\ c.stage = "admitted"
             /\ client' = [client EXCEPT ![s] = r]
             /\ Send(<<CancelTts(s)>>)
             /\ UNCHANGED queued
    <2>1. Records' /\ Queueing' /\ Spoken \subseteq Spoken' /\ [Port!Next]_Port!portVars
      BY <1>2, <1>4, <1>7, StageKept
    <2>2. <<CancelTts(s)>> \in Seq(Commands')
      BY <1>7, <2>1, OneMessage DEF Spoken
    <2>3. Wires'
      BY <1>5, <1>7, <2>1, <2>2, ClientWires DEF PortInv
    <2> QED
      BY <1>5, <2>1, <2>3 DEF PortInv
  <1> QED
    BY <1>6, <1>7 DEF Cancel

LEMMA BacklogTyped ==
  ASSUME PortInv, NEW h \in Streams, h \in Spoken'
  PROVE  Backlog(h) \in Seq(Commands')
  <1> DEFINE texts == [i \in 1..client[h].buffered |-> AppendText(h, i - 1)]
             ending == IF client[h].finished
                       THEN <<Commit(h, client[h].buffered, client[h].fed)>>
                       ELSE <<>>
  <1>1. client[h].buffered \in Nat /\ client[h].fed \in Nat
    BY DEF PortInv, Records, Clients
  <1>2. texts \in Seq(Commands')
    <2>1. \A i \in 1..client[h].buffered : AppendText(h, i - 1) \in Commands'
      BY <1>1 DEF AppendText, Commands
    <2> QED
      BY <1>1, <2>1
  <1>3. ending \in Seq(Commands') /\ <<Open(h)>> \in Seq(Commands')
    BY <1>1, OneMessage, EmptySeq
  <1> QED
    BY <1>2, <1>3, ConcatProperties DEF Backlog

(* The speech that ends is not the one that leaves the queue.              *)
LEMMA RetireKept ==
  ASSUME PortInv, NEW s \in Streams, s \in Spoken, NEW d \in Clients, Orderly(d),
         Moved(client[s], d), d.stage = "gone", Retire(s, d)
  PROVE  /\ Records' /\ Queueing'
         /\ Spoken \subseteq Spoken'
         /\ [Port!Next]_Port!portVars
         /\ \/ UNCHANGED toSidecar
            \/ \E messages \in Seq(Commands') : Send(messages)
  <1>1. CASE queued = <<>>
    <2>1. client' = [client EXCEPT ![s] = d] /\ UNCHANGED <<queued, toSidecar>>
      BY <1>1 DEF Retire
    <2>2. Records' /\ Spoken \subseteq Spoken' /\ [Port!Next]_Port!portVars
      BY <2>1, OneKept
    <2>3. Queueing'
      BY <1>1, <2>1, EmptySeq DEF Queueing
    <2> QED
      BY <2>1, <2>2, <2>3
  <1>2. CASE queued # <<>>
    <2> DEFINE h == Head(queued)
               e == [client[h] EXCEPT !.stage = "admitted"]
    <2>1. h \in Waiting /\ h \in Streams /\ h # s
      BY <1>2 DEF PortInv, Queueing, Waiting, Spoken
    <2>2. /\ client' = [client EXCEPT ![s] = d, ![h].stage = "admitted"]
          /\ queued' = Tail(queued)
          /\ Send(Backlog(h))
      BY <1>2 DEF Retire
    <2>3. /\ client' \in [Streams -> Clients]
          /\ client'[s] = d /\ client'[h] = e
          /\ \A t \in Streams \ {s, h} : client'[t] = client[t]
      <3>1. e \in Clients
        BY <2>1, ClientUpdates DEF PortInv, Records
      <3>2. client' = [client EXCEPT ![s] = d, ![h] = e]
        BY <2>1, <2>2 DEF PortInv, Records
      <3> HIDE DEF e
      <3> QED
        BY <2>1, <3>1, <3>2 DEF PortInv, Records
    <2>4. /\ e.stage = "admitted" /\ e.cutoff = client[h].cutoff
          /\ e.sunk = client[h].sunk /\ e.sidecarStarted = client[h].sidecarStarted
          /\ e.start = client[h].start /\ e.completion = client[h].completion
      BY <2>1 DEF PortInv, Records, Clients
    <2>5. client[h].stage = "queued" /\ Orderly(client[h])
      BY <2>1 DEF Waiting, PortInv, Records
    <2> HIDE DEF e
    <2>6. Orderly(e) /\ Quiet(client[h], e)
      BY <2>4, <2>5 DEF Orderly, Quiet, Promised
    <2>7. Records'
      BY <2>3, <2>6 DEF PortInv, Records
    <2>8. Spoken \subseteq Spoken' /\ h \in Spoken'
      BY <2>1, <2>3, <2>4 DEF Spoken
    <2>9. Queueing'
      <3>1. /\ Len(queued) \in Nat \ {0} /\ h = queued[1]
            /\ Tail(queued) = SubSeq(queued, 2, Len(queued))
        BY <1>2 DEF PortInv, Queueing
      <3>2. \A j \in 2..Len(queued) : queued[j] \in Waiting \ {h}
        BY <3>1 DEF PortInv, Queueing
      <3>3. Waiting \ {h} \subseteq Waiting'
        BY <2>3 DEF Waiting, Spoken
      <3>4. \A j \in 2..Len(queued) : queued[j] \in Waiting'
        BY <3>2, <3>3
      <3>5. Tail(queued) \in Seq(Waiting')
        <4>1. 2 \in Int /\ Len(queued) \in Int
          BY <3>1
        <4> DEFINE W == Waiting'
        <4>2. \A j \in 2..Len(queued) : queued[j] \in W
          BY <3>4
        <4> HIDE DEF W
        <4>3. SubSeq(queued, 2, Len(queued)) \in Seq(W)
          BY ONLY <4>1, <4>2, SubSeqProperties
        <4> QED
          BY <3>1, <4>3 DEF W
      <3>6. \A m, n \in 1..Len(Tail(queued)) : Tail(queued)[m] = Tail(queued)[n] => m = n
        BY <1>2, <3>1 DEF PortInv, Queueing
      <3> QED
        BY <2>2, <3>5, <3>6 DEF Queueing
    <2>10. [Port!Next]_Port!portVars
      <3>1. \A t \in Streams \ {s} : Quiet(client[t], client'[t])
        BY <2>3, <2>6 DEF Quiet
      <3> QED
        BY <2>3, <3>1, OneMoved
    <2>11. \E messages \in Seq(Commands') : Send(messages)
      BY <2>1, <2>2, <2>8, BacklogTyped
    <2> QED
      BY <2>7, <2>8, <2>9, <2>10, <2>11
  <1> QED
    BY <1>1, <1>2

-----------------------------------------------------------------------------
(* What the client receives                                                *)

LEMMA HeadSpoken ==
  ASSUME PortInv, toHost # <<>>
  PROVE  Head(toHost).speech \in Spoken /\ Head(toHost).speech \in Streams
  <1>1. Head(toHost) \in Reports
    BY DEF PortInv, Wires
  <1> QED
    BY <1>1 DEF Reports, Spoken

(* Every failure of the engine rejects all the client has pending.         *)
LEMMA FailureKept ==
  ASSUME PortInv, FailAll, toHost' = <<>>, UNCHANGED <<toSidecar, worker>>
  PROVE  PortInv' /\ [Port!Next]_Port!portVars
  <1>1. Records' /\ Queueing' /\ Spoken \subseteq Spoken' /\ [Port!Next]_Port!portVars
    BY FailAllKept
  <1>2. Wires'
    BY <1>1, ClientWires DEF PortInv
  <1> QED
    BY <1>1, <1>2 DEF PortInv, WorkerShape

LEMMA TtsStartedKept ==
  ASSUME PortInv, TtsStarted
  PROVE  PortInv' /\ [Port!Next]_Port!portVars
  <1> DEFINE s == Head(toHost).speech
             c == client[s]
             start == IF c.cutoff THEN c.start ELSE "resolved"
             d == [[c EXCEPT !.sidecarStarted = TRUE] EXCEPT !.start = start]
  <1>1. s \in Spoken /\ s \in Streams /\ toHost # <<>>
    BY HeadSpoken DEF TtsStarted, Receiving
  <1>2. c \in Clients /\ Orderly(c)
    BY <1>1 DEF PortInv, Records
  <1>3. UNCHANGED worker
    BY DEF TtsStarted, sidecarVars
  <1>4. CASE Pending(s) /\ ~c.sidecarStarted
    <2>1. start \in Settlings
      BY <1>2 DEF Clients, Settlings
    <2>2. client' = [client EXCEPT ![s] = d]
      BY <1>1, <1>2, <1>4 DEF TtsStarted, PortInv, Records, Clients
    <2>3. toHost' = Tail(toHost) /\ UNCHANGED <<queued, toSidecar>>
      BY <1>4 DEF TtsStarted
    <2> HIDE DEF start
    <2>4. d \in Clients
      BY <1>2, <2>1, ClientUpdates
    <2>5. /\ d.stage = c.stage /\ d.cutoff = c.cutoff /\ d.sunk = c.sunk
          /\ d.sidecarStarted /\ d.start = start /\ d.completion = c.completion
      BY <1>2 DEF Clients
    <2>6. Orderly(d) /\ Moved(c, d)
      BY <1>2, <1>4, <2>5 DEF start, Orderly, Moved, Quiet, Promised, Pending
    <2> HIDE DEF d
    <2>7. Records' /\ Queueing' /\ Spoken \subseteq Spoken' /\ [Port!Next]_Port!portVars
      BY <1>1, <2>2, <2>3, <2>4, <2>5, <2>6, StageKept
    <2>8. Wires'
      BY <1>1, <1>3, <2>3, <2>7, ClientWires DEF PortInv
    <2> QED
      BY <1>3, <2>7, <2>8 DEF PortInv, WorkerShape
  <1>5. CASE ProtocolFailure
    BY <1>3, <1>5, FailureKept DEF ProtocolFailure
  <1> QED
    BY <1>4, <1>5 DEF TtsStarted

(* A frame reaches the browser only of a speech that has started.          *)
LEMMA FrameTaken ==
  ASSUME NEW c \in Clients
  PROVE  LET d == TakenFrame(c) IN
         /\ d \in Clients
         /\ d.stage = c.stage /\ d.cutoff = c.cutoff
         /\ d.sidecarStarted = c.sidecarStarted
         /\ d.start = c.start /\ d.completion = c.completion
         /\ d.sunk >= c.sunk
         /\ c.cutoff => d.sunk = c.sunk
  <1> DEFINE sunk == IF ~c.cutoff /\ c.released THEN c.sunk + 1 ELSE c.sunk
             held == IF ~c.cutoff /\ ~c.released THEN c.held + 1 ELSE c.held
             c1 == [c EXCEPT !.received = c.received + 1]
             c2 == [c1 EXCEPT !.sunk = sunk]
             c3 == [c2 EXCEPT !.held = held]
  <1>1. /\ sunk \in Nat /\ held \in Nat /\ c.received + 1 \in Nat
        /\ c.cutoff => sunk = c.sunk
    BY DEF Clients
  <1>2. sunk >= c.sunk
    BY DEF Clients
  <1>3. TakenFrame(c) = c3
    BY DEF TakenFrame, Clients
  <1> HIDE DEF sunk, held
  <1>4. c1 \in Clients
    BY <1>1, ClientUpdates
  <1>5. /\ c1.stage = c.stage /\ c1.cutoff = c.cutoff
        /\ c1.sidecarStarted = c.sidecarStarted
        /\ c1.start = c.start /\ c1.completion = c.completion
    BY DEF Clients
  <1> HIDE DEF c1
  <1>6. c2 \in Clients
    BY <1>1, <1>4, ClientUpdates
  <1>7. /\ c2.stage = c.stage /\ c2.cutoff = c.cutoff
        /\ c2.sidecarStarted = c.sidecarStarted
        /\ c2.start = c.start /\ c2.completion = c.completion
        /\ c2.sunk = sunk
    BY <1>4, <1>5 DEF Clients
  <1> HIDE DEF c2
  <1>8. c3 \in Clients
    BY <1>1, <1>6, ClientUpdates
  <1>9. /\ c3.stage = c.stage /\ c3.cutoff = c.cutoff
        /\ c3.sidecarStarted = c.sidecarStarted
        /\ c3.start = c.start /\ c3.completion = c.completion
        /\ c3.sunk = sunk
    BY <1>6, <1>7 DEF Clients
  <1> QED
    BY <1>1, <1>2, <1>3, <1>8, <1>9

LEMMA HandleBinaryKept ==
  ASSUME PortInv, HandleBinary
  PROVE  PortInv' /\ [Port!Next]_Port!portVars
  <1> DEFINE s == Head(toHost).speech
             c == client[s]
             d == TakenFrame(c)
  <1>1. s \in Spoken /\ s \in Streams /\ toHost # <<>>
    BY HeadSpoken DEF HandleBinary, Receiving
  <1>2. c \in Clients /\ Orderly(c)
    BY <1>1 DEF PortInv, Records
  <1>3. UNCHANGED worker
    BY DEF HandleBinary, sidecarVars
  <1>4. CASE /\ Pending(s) /\ c.sidecarStarted
             /\ client' = [client EXCEPT ![s] = TakenFrame(@)]
             /\ toHost' = Tail(toHost) /\ UNCHANGED <<queued, toSidecar>>
    <2>1. client' = [client EXCEPT ![s] = d]
      BY <1>4
    <2>2. /\ d \in Clients
          /\ d.stage = c.stage /\ d.cutoff = c.cutoff
          /\ d.sidecarStarted = c.sidecarStarted
          /\ d.start = c.start /\ d.completion = c.completion
          /\ d.sunk >= c.sunk
          /\ c.cutoff => d.sunk = c.sunk
      BY <1>2, FrameTaken
    <2>3. Orderly(d) /\ Moved(c, d)
      BY <1>2, <1>4, <2>2 DEF Orderly, Moved, Quiet, Promised, Pending
    <2> HIDE DEF d
    <2>4. Records' /\ Queueing' /\ Spoken \subseteq Spoken' /\ [Port!Next]_Port!portVars
      BY <1>1, <1>4, <2>1, <2>2, <2>3, StageKept
    <2>5. Wires'
      BY <1>1, <1>3, <1>4, <2>4, ClientWires DEF PortInv
    <2> QED
      BY <1>3, <2>4, <2>5 DEF PortInv, WorkerShape
  <1>5. CASE ProtocolFailure
    BY <1>3, <1>5, FailureKept DEF ProtocolFailure
  <1> QED
    BY <1>4, <1>5 DEF HandleBinary

(* The end of a speech: its record is gone, and its slot is passed on.     *)
LEMMA EndKept ==
  ASSUME PortInv, NEW s \in Streams, s \in Spoken, NEW d \in Clients, Orderly(d),
         Moved(client[s], d), d.stage = "gone", Retire(s, d),
         toHost # <<>>, toHost' = Tail(toHost), UNCHANGED worker
  PROVE  PortInv' /\ [Port!Next]_Port!portVars
  <1>1. /\ Records' /\ Queueing'
        /\ Spoken \subseteq Spoken'
        /\ [Port!Next]_Port!portVars
        /\ \/ UNCHANGED toSidecar
           \/ \E messages \in Seq(Commands') : Send(messages)
    BY RetireKept
  <1>2. Wires'
    BY <1>1, ClientWires DEF PortInv
  <1> QED
    BY <1>1, <1>2 DEF PortInv, WorkerShape

(* A cut off speech was rejected when it was cut off.                      *)
LEMMA GoneRecord ==
  ASSUME NEW c \in Clients, Orderly(c), c.stage # "unused"
  PROVE  LET d == [c EXCEPT !.stage = "gone"] IN
         d \in Clients /\ Orderly(d) /\ Moved(c, d) /\ d.stage = "gone"
  <1> DEFINE d == [c EXCEPT !.stage = "gone"]
  <1>1. d \in Clients
    BY ClientUpdates
  <1>2. /\ d.stage = "gone" /\ d.cutoff = c.cutoff /\ d.sunk = c.sunk
        /\ d.sidecarStarted = c.sidecarStarted
        /\ d.start = c.start /\ d.completion = c.completion
    BY DEF Clients
  <1> HIDE DEF d
  <1>3. Orderly(d) /\ Moved(c, d)
    BY <1>2 DEF Orderly, Moved, Quiet, Promised
  <1> QED
    BY <1>1, <1>2, <1>3 DEF d

LEMMA CompletedRecord ==
  ASSUME NEW c \in Clients, Orderly(c), c.stage = "admitted",
         c.sidecarStarted, ~c.cutoff
  PROVE  LET d == Completed(c) IN
         d \in Clients /\ Orderly(d) /\ Moved(c, d) /\ d.stage = "gone"
  <1> DEFINE c1 == [c EXCEPT !.stage = "gone"]
             c2 == [c1 EXCEPT !.completion = "resolved"]
             c3 == [c2 EXCEPT !.sunk = c.sunk + c.held]
             c4 == [c3 EXCEPT !.held = 0]
  <1>1. Completed(c) = c4
    BY DEF Completed, Clients
  <1>2. c.sunk + c.held \in Nat
    BY DEF Clients
  <1>3. c.sunk + c.held >= c.sunk
    BY DEF Clients
  <1>4. c1 \in Clients
    BY ClientUpdates
  <1>5. c1.stage = "gone" /\ c1.sidecarStarted = c.sidecarStarted /\ c1.start = c.start
    BY DEF Clients
  <1> HIDE DEF c1
  <1>6. c2 \in Clients
    BY <1>4, ClientUpdates DEF Settlings
  <1>7. /\ c2.stage = "gone" /\ c2.sidecarStarted = c.sidecarStarted /\ c2.start = c.start
        /\ c2.completion = "resolved"
    BY <1>4, <1>5 DEF Clients
  <1> HIDE DEF c2
  <1>8. c3 \in Clients
    BY <1>2, <1>6, ClientUpdates
  <1>9. /\ c3.stage = "gone" /\ c3.sidecarStarted = c.sidecarStarted /\ c3.start = c.start
        /\ c3.completion = "resolved" /\ c3.sunk = c.sunk + c.held
    BY <1>6, <1>7 DEF Clients
  <1> HIDE DEF c3
  <1>10. c4 \in Clients
    BY <1>8, ClientUpdates
  <1>11. /\ c4.stage = "gone" /\ c4.sidecarStarted = c.sidecarStarted /\ c4.start = c.start
         /\ c4.completion = "resolved" /\ c4.sunk = c.sunk + c.held
    BY <1>8, <1>9 DEF Clients
  <1> HIDE DEF c4
  <1>12. Orderly(c4) /\ Moved(c, c4)
    BY <1>3, <1>11 DEF Orderly, Moved, Promised
  <1> QED
    BY <1>1, <1>10, <1>11, <1>12

LEMMA TtsEndedKept ==
  ASSUME PortInv, TtsEnded
  PROVE  PortInv' /\ [Port!Next]_Port!portVars
  <1> DEFINE s == Head(toHost).speech
             c == client[s]
  <1>1. s \in Spoken /\ s \in Streams /\ toHost # <<>>
    BY HeadSpoken DEF TtsEnded, Receiving
  <1>2. c \in Clients /\ Orderly(c)
    BY <1>1 DEF PortInv, Records
  <1>3. UNCHANGED worker
    BY DEF TtsEnded, sidecarVars
  <1>4. CASE /\ Pending(s) /\ c.sidecarStarted
             /\ Retire(s, IF c.cutoff THEN [c EXCEPT !.stage = "gone"] ELSE Completed(c))
             /\ toHost' = Tail(toHost)
    <2>1. c.stage = "admitted"
      BY <1>1, <1>4 DEF Pending, Spoken
    <2>2. CASE c.cutoff
      <3> DEFINE d == [c EXCEPT !.stage = "gone"]
      <3>1. d \in Clients /\ Orderly(d) /\ Moved(c, d) /\ d.stage = "gone"
        BY <1>2, <2>1, GoneRecord
      <3>2. Retire(s, d)
        BY <1>4, <2>2
      <3> HIDE DEF d
      <3> QED
        BY <1>1, <1>3, <1>4, <3>1, <3>2, EndKept
    <2>3. CASE ~c.cutoff
      <3> DEFINE d == Completed(c)
      <3>1. d \in Clients /\ Orderly(d) /\ Moved(c, d) /\ d.stage = "gone"
        BY <1>2, <1>4, <2>1, <2>3, CompletedRecord
      <3>2. Retire(s, d)
        BY <1>4, <2>3
      <3> HIDE DEF d
      <3> QED
        BY <1>1, <1>3, <1>4, <3>1, <3>2, EndKept
    <2> QED
      BY <2>2, <2>3
  <1>5. CASE ProtocolFailure
    BY <1>3, <1>5, FailureKept DEF ProtocolFailure
  <1> QED
    BY <1>4, <1>5 DEF TtsEnded

LEMMA TtsCancelledKept ==
  ASSUME PortInv, TtsCancelled
  PROVE  PortInv' /\ [Port!Next]_Port!portVars
  <1> DEFINE s == Head(toHost).speech
             c == client[s]
             d == [c EXCEPT !.stage = "gone"]
  <1>1. s \in Spoken /\ s \in Streams /\ toHost # <<>>
    BY HeadSpoken DEF TtsCancelled, Receiving
  <1>2. c \in Clients /\ Orderly(c) /\ c.stage # "unused"
    BY <1>1 DEF PortInv, Records, Spoken
  <1>3. UNCHANGED worker
    BY DEF TtsCancelled, sidecarVars
  <1>4. CASE Retire(s, d) /\ toHost' = Tail(toHost)
    <2>1. d \in Clients /\ Orderly(d) /\ Moved(c, d) /\ d.stage = "gone"
      BY <1>2, GoneRecord
    <2> HIDE DEF d
    <2> QED
      BY <1>1, <1>3, <1>4, <2>1, EndKept
  <1>5. CASE ProtocolFailure
    BY <1>3, <1>5, FailureKept DEF ProtocolFailure
  <1> QED
    BY <1>4, <1>5 DEF TtsCancelled

LEMMA HostKept ==
  ASSUME PortInv, Close \/ HostReceives
  PROVE  PortInv' /\ [Port!Next]_Port!portVars
  <1>1. CASE Close \/ SidecarFailure \/ ConnectionFailure
    BY <1>1, FailureKept DEF Close, SidecarFailure, ConnectionFailure, sidecarVars
  <1> QED
    BY <1>1, TtsStartedKept, HandleBinaryKept, TtsEndedKept, TtsCancelledKept
       DEF HostReceives

-----------------------------------------------------------------------------
(* The sidecar                                                             *)

(* No step of the sidecar is seen at the port, and it speaks only of what  *)
(* it was sent.                                                            *)
LEMMA SidecarKept ==
  ASSUME PortInv, UNCHANGED clientVars, WorkerShape',
         \A s \in Streams : worker'[s].stage # "none" => s \in Spoken,
         toSidecar' \in Seq(Commands),
         \/ UNCHANGED toHost
         \/ \E type, s, n : /\ [type |-> type, speech |-> s, count |-> n] \in Reports
                            /\ Emit(type, s, n)
  PROVE  PortInv' /\ [Port!Next]_Port!portVars
  <1>1. UNCHANGED <<client, queued>>
    BY DEF clientVars
  <1>2. Records' /\ Queueing'
    BY <1>1 DEF PortInv, Records, Queueing, Waiting
  <1>3. Spoken' = Spoken
    BY <1>1 DEF Spoken
  <1>4. Commands' = Commands /\ Reports' = Reports
    BY <1>3 DEF Commands, Reports
  <1>5. toHost' \in Seq(Reports)
    <2>1. toHost \in Seq(Reports)
      BY DEF PortInv, Wires
    <2>2. ASSUME NEW m \in Reports PROVE Append(toHost, m) \in Seq(Reports)
      BY <2>1, AppendProperties
    <2> QED
      BY <2>1, <2>2 DEF Emit
  <1>6. Wires'
    BY <1>3, <1>4, <1>5 DEF Wires
  <1>7. UNCHANGED Port!portVars
    BY <1>1, AllQuiet DEF Quiet
  <1> QED
    BY <1>2, <1>6, <1>7 DEF PortInv

LEMMA ServeKept ==
  ASSUME PortInv, WorkerShape', Serve \/ ServeOpenTimeout
  PROVE  PortInv' /\ [Port!Next]_Port!portVars
  <1>1. UNCHANGED clientVars /\ UNCHANGED toHost
    BY DEF Serve, ServeOpen, ServeAppend, ServeCommit, ServeCancel, Disconnect,
           ServeOpenTimeout, Refuse, EndConnection
  <1>2. /\ toSidecar \in Seq(Commands) /\ <<>> \in Seq(Commands)
        /\ toSidecar # <<>> => Tail(toSidecar) \in Seq(Commands)
    BY EmptySeq DEF PortInv, Wires
  <1>3. toSidecar' \in {toSidecar, <<>>} \/ (toSidecar # <<>> /\ toSidecar' = Tail(toSidecar))
    BY DEF Serve, ServeOpen, ServeAppend, ServeCommit, ServeCancel, Disconnect,
           ServeOpenTimeout, Refuse, EndConnection, Served, Serving
  <1>4. toSidecar' \in Seq(Commands)
    BY <1>2, <1>3
  <1>5. ASSUME NEW t \in Streams, worker'[t].stage # "none"
        PROVE  t \in Spoken
    <2> DEFINE s == Head(toSidecar).speech
    <2>1. toSidecar # <<>> => s \in Spoken
      <3>1. toSidecar # <<>> => Head(toSidecar) \in Commands
        BY <1>2, HeadTailProperties
      <3> QED
        BY <3>1 DEF Commands
    <2>2. CASE worker'[t].stage = worker[t].stage
      BY <1>5, <2>2 DEF PortInv, Wires
    <2>3. CASE /\ toSidecar # <<>>
               /\ worker' = [worker EXCEPT ![s] =
                    [Unopened EXCEPT !.stage = "fenced", !.fences = Live]]
      BY <1>5, <2>1, <2>3 DEF PortInv, Wires, WorkerShape
    <2>4. CASE worker' = CancelLive
      BY <2>2, <2>4, CancelTyped DEF PortInv
    <2>5. CASE \/ worker' = [worker EXCEPT ![s].chunks = @ + 1, ![s].next = @ + 1]
               \/ worker' = [worker EXCEPT ![s].committed = TRUE]
               \/ worker' = [worker EXCEPT ![s].cancelled = TRUE]
               \/ worker' = worker
      BY <2>2, <2>5 DEF PortInv, WorkerShape, Workers
    <2> QED
      BY <2>3, <2>4, <2>5
         DEF Serve, ServeOpen, ServeAppend, ServeCommit, ServeCancel, Disconnect,
             ServeOpenTimeout, Refuse, EndConnection, Serving
  <1> QED
    BY <1>1, <1>4, <1>5, SidecarKept

LEMMA WorkKept ==
  ASSUME PortInv, WorkerShape', NEW s \in Streams, Work(s) \/ Fault(s)
  PROVE  PortInv' /\ [Port!Next]_Port!portVars
  <1>1. UNCHANGED clientVars /\ UNCHANGED toSidecar
    BY DEF Work, Fault, WorkerCancelled, PassFences, TakeChunk, Audio, EndSpeech,
           ReportPoison, WorkerExit, AdapterFails, FenceTimeout
  <1>2. worker[s].stage # "none" /\ worker[s].generated \in Int
    BY DEF Work, Fault, WorkerCancelled, PassFences, TakeChunk, Audio, EndSpeech,
           ReportPoison, WorkerExit, AdapterFails, FenceTimeout,
           PortInv, WorkerShape, Workers
  <1>3. s \in Spoken
    BY <1>2 DEF PortInv, Wires
  <1>4. \A t \in Streams \ {s} : worker'[t].stage = worker[t].stage
    <2>1. CASE Poison(s)
      BY <2>1, CancelTyped DEF Poison, PortInv
    <2>2. CASE ~Poison(s)
      BY <2>2 DEF Work, Fault, WorkerCancelled, PassFences, TakeChunk, Audio, EndSpeech,
           ReportPoison, WorkerExit, AdapterFails, FenceTimeout, Degrade, Terminal,
           PortInv, WorkerShape
    <2> QED
      BY <2>1, <2>2
  <1>5. \A t \in Streams : worker'[t].stage # "none" => t \in Spoken
    BY <1>3, <1>4 DEF PortInv, Wires
  <1>6. \A type \in {"tts.started", "frame", "tts.ended", "tts.cancelled", "sidecar.failure"} :
          \A n \in Int : [type |-> type, speech |-> s, count |-> n] \in Reports
    BY <1>3 DEF Reports
  <1>7. \/ UNCHANGED toHost
        \/ \E type \in {"tts.started", "frame", "tts.ended", "tts.cancelled", "sidecar.failure"} :
              \E n \in Int : Emit(type, s, n)
    BY <1>2 DEF Work, Fault, WorkerCancelled, PassFences, TakeChunk, Audio, EndSpeech,
           ReportPoison, WorkerExit, AdapterFails, FenceTimeout, Degrade, Poison
  <1>8. toSidecar' \in Seq(Commands)
    BY <1>1 DEF PortInv, Wires
  <1> QED
    BY <1>1, <1>5, <1>6, <1>7, <1>8, SidecarKept

-----------------------------------------------------------------------------
(* The refinement                                                          *)

LEMMA PortStep ==
  FenceInv /\ PortInv /\ [Next]_vars => PortInv' /\ [Port!Next]_Port!portVars
  <1> SUFFICES ASSUME FenceInv, PortInv, [Next]_vars
               PROVE  PortInv' /\ [Port!Next]_Port!portVars
    OBVIOUS
  <1>1. WorkerShape'
    BY FencesStep DEF FenceInv
  <1>2. CASE UNCHANGED vars
    <2>1. PortInv'
      BY <1>2 DEF vars, PortInv, WorkerShape, Records, Queueing, Waiting, Wires, Spoken,
                  Commands, Reports
    <2>2. UNCHANGED Port!portVars
      BY <1>2, AllQuiet DEF vars, Quiet
    <2> QED
      BY <2>1, <2>2
  <1>3. ASSUME NEW s \in Streams, Caller(s)
        PROVE  PortInv' /\ [Port!Next]_Port!portVars
    BY <1>3, BeginKept, BeginAbortedKept, AppendKept, FinishKept, CancelKept, ReleaseKept
       DEF Caller
  <1> QED
    BY <1>1, <1>2, <1>3, ServeKept, WorkKept, HostKept DEF Next

LEMMA PortInit == Init => PortInv /\ Port!Init
  <1> SUFFICES ASSUME Init PROVE PortInv /\ Port!Init
    OBVIOUS
  <1>1. \A s \in Streams : client[s] = Unbegun
    BY DEF Init
  <1>2. Unbegun \in Clients /\ Orderly(Unbegun)
    BY DEF Unbegun, Clients, Settlings, Orderly
  <1>3. Promised(Unbegun) = "unused" /\ Unbegun.sunk = 0
    BY DEF Unbegun, Promised
  <1>4. Records
    BY <1>1, <1>2 DEF Init, Records
  <1>5. Queueing /\ WorkerShape /\ Wires
    BY InitFences, EmptySeq DEF Init, FenceInv, Queueing, Wires, Unopened
  <1>6. Port!Init
    BY <1>1, <1>3, PortSeen DEF Port!Init
  <1> QED
    BY <1>4, <1>5, <1>6 DEF PortInv

(* AudioClient and the sidecar keep what SpeechOutputPort promises         *)
(* (SessionOrchestrator.ts:61-108): `started' and `completion' settle once *)
(* and in order, no frame reaches the browser of a speech that is not      *)
(* alive, and none after it completed or was rejected.                     *)
THEOREM KeepsPromises == Spec => ImplementsPort
  <1>1. Init => FenceInv /\ PortInv /\ Port!Init
    BY InitFences, PortInit
  <1>2. FenceInv /\ PortInv /\ [Next]_vars
            => (FenceInv /\ PortInv)' /\ [Port!Next]_Port!portVars
    BY FencesStep, PortStep
  <1> QED
    BY <1>1, <1>2, PTL DEF Spec, ImplementsPort, Port!Spec

-----------------------------------------------------------------------------
(* Completion.  What the client counted of a speech it did not cut off is  *)
(* what it sank and still holds; what the sidecar reports at the end is    *)
(* what its worker generated, and the worker generates no more.  A speech  *)
(* is opened once, so no later worker takes the place of the one that      *)
(* ended.                                                                  *)

Over(w) == w.stage \in {"terminal", "done"}

Whole(c, w) ==
    /\ ~c.cutoff => c.sunk + c.held = c.received
    /\ c.completion = "resolved" =>
         /\ ~c.cutoff /\ c.held = 0
         /\ Over(w) /\ c.received = w.generated

EndsTell(messages, workers) ==
    \A i \in 1..Len(messages) :
        messages[i].type = "tts.ended" =>
            /\ Over(workers[messages[i].speech])
            /\ messages[i].count = workers[messages[i].speech].generated

OpensOnce(messages, workers) ==
    \A i \in 1..Len(messages) :
        messages[i].type = "tts.open" =>
            /\ workers[messages[i].speech].stage = "none"
            /\ \A j \in 1..Len(messages) :
                 /\ messages[j].type = "tts.open"
                 /\ messages[j].speech = messages[i].speech
                 => i = j

WholeInv ==
    /\ \A s \in Streams : Whole(client[s], worker[s])
    /\ EndsTell(toHost, worker)
    /\ OpensOnce(toSidecar, worker)

(* How a step leaves the counts of a record: as they were, of a speech that *)
(* is cut off, or one frame further.                                        *)
Steady(c, d) ==
    \/ /\ d.cutoff = c.cutoff /\ d.completion = c.completion
       /\ d.sunk = c.sunk /\ d.held = c.held /\ d.received = c.received
    \/ d.cutoff /\ d.completion # "resolved"
    \/ /\ d.cutoff = c.cutoff /\ d.completion # "resolved"
       /\ ~c.cutoff /\ c.sunk + c.held = c.received => d.sunk + d.held = d.received

(* A worker that is over stays over, and adds nothing.                      *)
Stays(w, v) == Over(w) => Over(v) /\ v.generated = w.generated

LEMMA SteadyKeeps ==
  ASSUME NEW c, NEW d, NEW w, NEW v, Whole(c, w), Steady(c, d), Stays(w, v)
  PROVE  Whole(d, v)
  BY DEF Whole, Steady, Stays

Messages ==
    [type : {"tts.open", "tts.append", "tts.commit", "tts.cancel"},
     speech : Streams, sequence : Int, hashed : Int]

LEMMA CommandsAreMessages ==
  PortInv => toSidecar \in Seq(Messages) /\ \A i \in 1..Len(toSidecar) : toSidecar[i].speech \in Spoken
  <1> SUFFICES ASSUME PortInv
               PROVE  toSidecar \in Seq(Messages)
                      /\ \A i \in 1..Len(toSidecar) : toSidecar[i].speech \in Spoken
    OBVIOUS
  <1>1. Commands \subseteq Messages /\ \A m \in Commands : m.speech \in Spoken
    BY DEF Commands, Messages, Spoken
  <1>2. toSidecar \in Seq(Commands)
    BY DEF PortInv, Wires
  <1>3. toSidecar \in Seq(Messages)
    BY <1>1, <1>2, SeqMonotonic
  <1>4. \A i \in 1..Len(toSidecar) : toSidecar[i] \in Commands
    BY <1>2
  <1> QED
    BY <1>1, <1>3, <1>4

(* What is sent of a speech holds its tts.open at the head, if at all, and *)
(* only if nothing was sent of it before.                                  *)
LEMMA SendOpens ==
  ASSUME NEW q \in Seq(Messages), NEW ms \in Seq(Messages), NEW s, NEW ws,
         OpensOnce(q, ws),
         \A j \in 1..Len(ms) : ms[j].type = "tts.open" =>
            /\ j = 1 /\ ms[j].speech = s /\ ws[s].stage = "none"
            /\ \A i \in 1..Len(q) : q[i].speech # s
  PROVE  OpensOnce(q \o ms, ws)
  <1> DEFINE all == q \o ms
             n == Len(q)
  <1>1. /\ Len(all) = n + Len(ms) /\ n \in Nat /\ Len(ms) \in Nat
        /\ \A i \in 1..Len(all) : all[i] = IF i <= n THEN q[i] ELSE ms[i - n]
    BY ConcatProperties, LenProperties
  <1> HIDE DEF all, n
  <1>2. \A i \in 1..Len(all) : i <= n \/ i - n \in 1..Len(ms)
    BY <1>1
  <1>3. \A i \in 1..Len(all) : i <= n => i \in 1..n
    BY <1>1
  <1>4. ASSUME NEW i \in 1..Len(all), all[i].type = "tts.open"
        PROVE  /\ ws[all[i].speech].stage = "none"
               /\ \A j \in 1..Len(all) :
                    all[j].type = "tts.open" /\ all[j].speech = all[i].speech => i = j
    <2> SUFFICES ASSUME NEW j \in 1..Len(all), all[j].type = "tts.open",
                        all[j].speech = all[i].speech
                 PROVE  ws[all[i].speech].stage = "none" /\ i = j
      <3>1. all[i].type = "tts.open" /\ all[i].speech = all[i].speech
        BY <1>4
      <3> QED
        BY <3>1
    <2>1. CASE i <= n /\ j <= n
      <3>1. all[i] = q[i] /\ all[j] = q[j] /\ i \in 1..n /\ j \in 1..n
        BY <1>1, <1>3, <2>1
      <3> QED
        BY <1>4, <3>1 DEF OpensOnce, n
    <2>2. CASE ~(i <= n) /\ ~(j <= n)
      <3>1. /\ all[i] = ms[i - n] /\ all[j] = ms[j - n]
            /\ i - n \in 1..Len(ms) /\ j - n \in 1..Len(ms)
        BY <1>1, <1>2, <2>2
      <3>2. i - n = 1 /\ j - n = 1 /\ ws[all[i].speech].stage = "none"
        BY <1>4, <3>1
      <3> QED
        BY <1>1, <3>2
    <2>3. CASE (i <= n) # (j <= n)
      <3>1. ASSUME NEW a \in 1..Len(all), NEW b \in 1..Len(all), a <= n, ~(b <= n),
                   all[b].type = "tts.open", all[a].speech = all[b].speech
            PROVE  FALSE
        <4>1. all[a] = q[a] /\ a \in 1..n /\ all[b] = ms[b - n] /\ b - n \in 1..Len(ms)
          BY <1>1, <1>2, <1>3, <3>1
        <4>2. q[a].speech # ms[b - n].speech
          BY <3>1, <4>1 DEF n
        <4> QED
          BY <3>1, <4>1, <4>2
      <3> QED
        BY <1>4, <2>3, <3>1
    <2> QED
      BY <2>1, <2>2, <2>3
  <1>5. OpensOnce(all, ws)
    BY <1>4 DEF OpensOnce
  <1> QED
    BY <1>5 DEF all

LEMMA TailOpens ==
  ASSUME NEW q \in Seq(Messages), q # <<>>, NEW ws, OpensOnce(q, ws)
  PROVE  /\ OpensOnce(Tail(q), ws)
         /\ Head(q).type = "tts.open" =>
              /\ ws[Head(q).speech].stage = "none"
              /\ \A i \in 1..Len(Tail(q)) :
                   Tail(q)[i].type = "tts.open" => Tail(q)[i].speech # Head(q).speech
  <1> DEFINE t == Tail(q)
             n == Len(t)
  <1>1. /\ n \in Nat /\ Len(q) = n + 1 /\ Head(q) = q[1]
        /\ \A i \in 1..n : t[i] = q[i + 1]
    BY HeadTailProperties, LenProperties
  <1> HIDE DEF t, n
  <1>2. \A i \in 1..n : i + 1 \in 1..Len(q) /\ i + 1 # 1
    BY <1>1
  <1>3. 1 \in 1..Len(q)
    BY <1>1
  <1>4. \A i, j \in 1..n : i + 1 = j + 1 => i = j
    BY <1>1
  <1>5. OpensOnce(t, ws)
    <2> SUFFICES ASSUME NEW i \in 1..n, t[i].type = "tts.open"
                 PROVE  /\ ws[t[i].speech].stage = "none"
                        /\ \A j \in 1..n : t[j].type = "tts.open" /\ t[j].speech = t[i].speech
                                            => i = j
      BY DEF OpensOnce, n
    <2>1. i + 1 \in 1..Len(q) /\ q[i + 1] = t[i]
      BY <1>1, <1>2
    <2>2. \A j \in 1..n : j + 1 \in 1..Len(q) /\ q[j + 1] = t[j]
      BY <1>1, <1>2
    <2>3. ws[t[i].speech].stage = "none"
      BY <2>1 DEF OpensOnce
    <2>4. ASSUME NEW j \in 1..n, t[j].type = "tts.open", t[j].speech = t[i].speech
          PROVE  i = j
      <3>1. i + 1 = j + 1
        BY <2>1, <2>2, <2>4 DEF OpensOnce
      <3> QED
        BY <1>4, <3>1
    <2> QED
      BY <2>3, <2>4
  <1>6. ASSUME q[1].type = "tts.open"
        PROVE  /\ ws[q[1].speech].stage = "none"
               /\ \A i \in 1..n : t[i].type = "tts.open" => t[i].speech # q[1].speech
    BY <1>1, <1>2, <1>3, <1>6 DEF OpensOnce
  <1> QED
    BY <1>1, <1>5, <1>6 DEF t, n

LEMMA TailEnds ==
  ASSUME NEW M, NEW q \in Seq(M), q # <<>>, NEW ws, EndsTell(q, ws)
  PROVE  /\ EndsTell(Tail(q), ws)
         /\ Head(q).type = "tts.ended" =>
              /\ Over(ws[Head(q).speech])
              /\ Head(q).count = ws[Head(q).speech].generated
  <1> DEFINE t == Tail(q)
             n == Len(t)
  <1>1. /\ n \in Nat /\ Len(q) = n + 1 /\ Head(q) = q[1]
        /\ \A i \in 1..n : t[i] = q[i + 1]
    BY HeadTailProperties, LenProperties
  <1> HIDE DEF t, n
  <1>2. \A i \in 1..n : i + 1 \in 1..Len(q)
    BY <1>1
  <1>3. 1 \in 1..Len(q)
    BY <1>1
  <1>4. EndsTell(t, ws)
    BY <1>1, <1>2 DEF EndsTell, n
  <1>5. q[1].type = "tts.ended" =>
           Over(ws[q[1].speech]) /\ q[1].count = ws[q[1].speech].generated
    BY <1>3 DEF EndsTell
  <1> QED
    BY <1>1, <1>4, <1>5 DEF t

-----------------------------------------------------------------------------
(* The client                                                              *)

(* What a step of the client leaves of the wires and the workers.          *)
ClientSteps ==
    /\ UNCHANGED worker
    /\ toHost' \in {toHost, <<>>} \/ (toHost # <<>> /\ toHost' = Tail(toHost))
    /\ OpensOnce(toSidecar', worker)

LEMMA ClientWhole ==
  ASSUME PortInv, WholeInv, ClientSteps, \A t \in Streams : Whole(client'[t], worker[t])
  PROVE  WholeInv'
  <1>1. worker' = worker
    BY DEF ClientSteps
  <1>2. EndsTell(toHost, worker) /\ toHost \in Seq(Reports)
    BY DEF WholeInv, PortInv, Wires
  <1>3. EndsTell(toHost', worker)
    <2>1. EndsTell(<<>>, worker)
      BY DEF EndsTell
    <2>2. toHost # <<>> => EndsTell(Tail(toHost), worker)
      BY <1>2, TailEnds
    <2> QED
      BY <1>2, <2>1, <2>2 DEF ClientSteps
  <1>4. \A t \in Streams : Whole(client'[t], worker'[t])
    BY <1>1
  <1>5. EndsTell(toHost', worker') /\ OpensOnce(toSidecar', worker')
    BY <1>1, <1>3 DEF ClientSteps
  <1> QED
    BY <1>4, <1>5 DEF WholeInv

(* One record changes.                                                     *)
LEMMA OneWhole ==
  ASSUME PortInv, WholeInv, ClientSteps, NEW s \in Streams, NEW d,
         client' = [client EXCEPT ![s] = d], Whole(d, worker[s])
  PROVE  WholeInv'
  <1>1. client'[s] = d /\ \A t \in Streams \ {s} : client'[t] = client[t]
    BY DEF PortInv, Records
  <1>2. \A t \in Streams : Whole(client'[t], worker[t])
    BY <1>1 DEF WholeInv
  <1> QED
    BY <1>2, ClientWhole

(* What is sent of a speech that is spoken of already opens nothing.       *)
LEMMA QuietSend ==
  ASSUME PortInv, WholeInv, NEW m \in Messages, m.type # "tts.open", Send(<<m>>)
  PROVE  OpensOnce(toSidecar', worker)
  <1> DEFINE ms == <<m>>
  <1>1. ms \in Seq(Messages) /\ \A j \in 1..Len(ms) : ms[j] = m
    OBVIOUS
  <1>2. toSidecar \in Seq(Messages) /\ OpensOnce(toSidecar, worker)
    BY CommandsAreMessages DEF WholeInv
  <1> HIDE DEF ms
  <1>3. OpensOnce(toSidecar \o ms, worker)
    BY <1>1, <1>2, SendOpens
  <1>4. toSidecar' \in {toSidecar, toSidecar \o ms}
    BY DEF Send, ms
  <1> QED
    BY <1>2, <1>3, <1>4

(* The commands of a speech nothing was said of.                           *)
LEMMA FreshSend ==
  ASSUME PortInv, WholeInv, NEW s \in Streams, s \notin Spoken,
         NEW ms \in Seq(Messages), Send(ms),
         \A j \in 1..Len(ms) : ms[j].type = "tts.open" => j = 1 /\ ms[j].speech = s
  PROVE  OpensOnce(toSidecar', worker)
  <1>1. toSidecar \in Seq(Messages) /\ OpensOnce(toSidecar, worker)
    BY CommandsAreMessages DEF WholeInv
  <1>2. \A i \in 1..Len(toSidecar) : toSidecar[i].speech # s
    BY CommandsAreMessages
  <1>3. worker[s].stage = "none"
    BY DEF PortInv, Wires
  <1>4. OpensOnce(toSidecar \o ms, worker)
    BY <1>1, <1>2, <1>3, SendOpens
  <1>5. toSidecar' \in {toSidecar, toSidecar \o ms}
    BY DEF Send
  <1> QED
    BY <1>1, <1>4, <1>5

LEMMA SilentClient ==
  ASSUME PortInv, WholeInv, UNCHANGED <<worker, toSidecar>>,
         toHost' \in {toHost, <<>>} \/ (toHost # <<>> /\ toHost' = Tail(toHost))
  PROVE  ClientSteps
  BY DEF ClientSteps, WholeInv

(* cancel() and failAll(): the record of a speech that is cut off.         *)
LEMMA RejectedWhole ==
  ASSUME NEW c \in Clients, NEW w, Whole(c, w), Orderly(c),
         c.stage \in {"unused", "queued", "admitted"}
  PROVE  /\ Whole(RejectPending(c), w)
         /\ Whole([RejectPending(c) EXCEPT !.stage = "gone"], w)
  <1> DEFINE r == RejectPending(c)
             g == [r EXCEPT !.stage = "gone"]
  <1>1. /\ r \in Clients /\ r.cutoff
        /\ r.completion = IF c.completion = "pending" THEN "rejected" ELSE c.completion
    BY Rejected
  <1>2. c.completion # "resolved"
    BY DEF Whole, Orderly
  <1> HIDE DEF r
  <1>3. g.cutoff = r.cutoff /\ g.completion = r.completion
    BY <1>1 DEF Clients
  <1> HIDE DEF g
  <1>4. r.cutoff /\ r.completion # "resolved" /\ g.cutoff /\ g.completion # "resolved"
    BY <1>1, <1>2, <1>3
  <1>5. Whole(r, w) /\ Whole(g, w)
    BY <1>4 DEF Whole
  <1> QED
    BY <1>5 DEF r, g

LEMMA FailAllWhole ==
  ASSUME PortInv, WholeInv, FailAll, toHost' = <<>>, UNCHANGED <<toSidecar, worker>>
  PROVE  WholeInv'
  <1>1. ASSUME NEW t \in Streams PROVE Whole(client'[t], worker[t])
    <2>1. Whole(client[t], worker[t]) /\ client[t] \in Clients /\ Orderly(client[t])
      BY DEF WholeInv, PortInv, Records
    <2>2. client'[t] = IF Pending(t) THEN [RejectPending(client[t]) EXCEPT !.stage = "gone"]
                       ELSE client[t]
      BY DEF FailAll
    <2>3. Pending(t) => Whole([RejectPending(client[t]) EXCEPT !.stage = "gone"], worker[t])
      BY <2>1, RejectedWhole DEF Pending
    <2> QED
      BY <2>1, <2>2, <2>3
  <1>2. ClientSteps
    BY SilentClient
  <1> QED
    BY <1>1, <1>2, ClientWhole

(* A record that only moves on keeps its counts.                           *)
LEMMA MovedOnWhole ==
  ASSUME NEW c \in Clients, NEW w, Whole(c, w)
  PROVE  /\ \A v : Whole([c EXCEPT !.stage = v], w)
         /\ \A v : Whole([c EXCEPT !.finished = v], w)
         /\ \A m, n : Whole([c EXCEPT !.fed = m, !.buffered = n], w)
         /\ \A m, n : Whole([c EXCEPT !.fed = m, !.appendSequence = n], w)
         /\ \A v, u : Whole([c EXCEPT !.sidecarStarted = v, !.start = u], w)
  <1>1. ASSUME NEW v PROVE Whole([c EXCEPT !.stage = v], w)
    BY DEF Clients, Whole
  <1>2. ASSUME NEW v PROVE Whole([c EXCEPT !.finished = v], w)
    BY DEF Clients, Whole
  <1>3. ASSUME NEW m, NEW n PROVE Whole([c EXCEPT !.fed = m, !.buffered = n], w)
    BY DEF Clients, Whole
  <1>4. ASSUME NEW m, NEW n PROVE Whole([c EXCEPT !.fed = m, !.appendSequence = n], w)
    BY DEF Clients, Whole
  <1>5. ASSUME NEW v, NEW u PROVE Whole([c EXCEPT !.sidecarStarted = v, !.start = u], w)
    BY DEF Clients, Whole
  <1> QED
    BY <1>1, <1>2, <1>3, <1>4, <1>5

LEMMA BeginWhole ==
  ASSUME PortInv, WholeInv, NEW s \in Streams, Begin(s)
  PROVE  WholeInv'
  <1> DEFINE d(stage) == [client[s] EXCEPT !.stage = stage]
  <1>1. /\ client[s] \in Clients /\ Whole(client[s], worker[s])
        /\ client[s].stage = "unused" /\ s \notin Spoken
    BY DEF Begin, MayBegin, PortInv, WholeInv, Records, Spoken
  <1>2. \A v : Whole(d(v), worker[s])
    BY <1>1, MovedOnWhole
  <1>3. UNCHANGED worker /\ UNCHANGED toHost
    BY DEF Begin, sidecarVars
  <1> HIDE DEF d
  <1>4. CASE client' = [client EXCEPT ![s] = d("admitted")] /\ Send(<<Open(s)>>)
    <2> DEFINE ms == <<Open(s)>>
    <2>1. /\ ms \in Seq(Messages)
          /\ \A j \in 1..Len(ms) : j = 1 /\ ms[j].speech = s
      BY DEF Open, Messages
    <2>2. Send(ms)
      BY <1>4
    <2> HIDE DEF ms
    <2>3. OpensOnce(toSidecar', worker)
      BY <1>1, <2>1, <2>2, FreshSend
    <2>4. ClientSteps
      BY <1>3, <2>3 DEF ClientSteps
    <2> QED
      BY <1>2, <1>4, <2>4, OneWhole
  <1>5. CASE client' = [client EXCEPT ![s] = d("queued")] /\ UNCHANGED toSidecar
    <2>1. ClientSteps
      BY <1>3, <1>5, SilentClient
    <2> QED
      BY <1>2, <1>5, <2>1, OneWhole
  <1> QED
    BY <1>4, <1>5 DEF Begin, d

LEMMA BeginAbortedWhole ==
  ASSUME PortInv, WholeInv, NEW s \in Streams, BeginAborted(s)
  PROVE  WholeInv'
  <1> DEFINE d == [RejectPending(client[s]) EXCEPT !.stage = "gone"]
  <1>1. /\ client[s] \in Clients /\ Whole(client[s], worker[s]) /\ Orderly(client[s])
        /\ client[s].stage = "unused"
    BY DEF BeginAborted, MayBegin, PortInv, WholeInv, Records
  <1>2. Whole(d, worker[s])
    BY <1>1, RejectedWhole
  <1>3. client' = [client EXCEPT ![s] = d]
    BY DEF BeginAborted
  <1>4. ClientSteps
    BY SilentClient DEF BeginAborted, sidecarVars
  <1> HIDE DEF d
  <1> QED
    BY <1>2, <1>3, <1>4, OneWhole

LEMMA AppendWhole ==
  ASSUME PortInv, WholeInv, NEW s \in Streams, AppendSpeech(s)
  PROVE  WholeInv'
  <1> DEFINE c == client[s]
             waiting == [c EXCEPT !.fed = @ + 1, !.buffered = @ + 1]
             speaking == [c EXCEPT !.fed = @ + 1, !.appendSequence = @ + 1]
             m == AppendText(s, c.appendSequence)
  <1>1. c \in Clients /\ Whole(c, worker[s])
    BY DEF PortInv, WholeInv, Records
  <1>2. Whole(waiting, worker[s]) /\ Whole(speaking, worker[s])
    <2> DEFINE fed == c.fed + 1
               buffered == c.buffered + 1
               sequence == c.appendSequence + 1
    <2>1. /\ waiting = [c EXCEPT !.fed = fed, !.buffered = buffered]
          /\ speaking = [c EXCEPT !.fed = fed, !.appendSequence = sequence]
      BY <1>1 DEF Clients
    <2> HIDE DEF fed, buffered, sequence
    <2>2. /\ Whole([c EXCEPT !.fed = fed, !.buffered = buffered], worker[s])
          /\ Whole([c EXCEPT !.fed = fed, !.appendSequence = sequence], worker[s])
      BY <1>1, MovedOnWhole
    <2> QED
      BY <2>1, <2>2
  <1>3. \/ client' = [client EXCEPT ![s] = waiting] /\ UNCHANGED toSidecar
        \/ client' = [client EXCEPT ![s] = speaking] /\ Send(<<m>>)
    BY <1>1 DEF AppendSpeech, PortInv, Records, Clients
  <1>4. m \in Messages /\ m.type # "tts.open"
    BY <1>1 DEF AppendText, Messages, Clients
  <1>5. UNCHANGED <<worker, toHost>>
    BY DEF AppendSpeech, sidecarVars
  <1> HIDE DEF waiting, speaking, m
  <1>6. UNCHANGED toSidecar => ClientSteps
    BY <1>5, SilentClient
  <1>7. Send(<<m>>) => ClientSteps
    BY <1>4, <1>5, QuietSend DEF ClientSteps
  <1> QED
    BY <1>2, <1>3, <1>6, <1>7, OneWhole

LEMMA FinishWhole ==
  ASSUME PortInv, WholeInv, NEW s \in Streams, Finish(s)
  PROVE  WholeInv'
  <1> DEFINE c == client[s]
             d == [c EXCEPT !.finished = TRUE]
             m == Commit(s, c.appendSequence, c.fed)
  <1>1. c \in Clients /\ Whole(c, worker[s])
    BY DEF PortInv, WholeInv, Records
  <1>2. Whole(d, worker[s])
    BY <1>1, MovedOnWhole
  <1>3. client' = [client EXCEPT ![s] = d]
    BY DEF Finish
  <1>4. m \in Messages /\ m.type # "tts.open"
    BY <1>1 DEF Commit, Messages, Clients
  <1>5. UNCHANGED <<worker, toHost>> /\ (UNCHANGED toSidecar \/ Send(<<m>>))
    BY DEF Finish, sidecarVars
  <1> HIDE DEF d, m
  <1>6. ClientSteps
    BY <1>4, <1>5, QuietSend, SilentClient DEF ClientSteps
  <1> QED
    BY <1>2, <1>3, <1>6, OneWhole

LEMMA CancelWhole ==
  ASSUME PortInv, WholeInv, NEW s \in Streams, Cancel(s)
  PROVE  WholeInv'
  <1> DEFINE c == client[s]
             r == RejectPending(c)
             d == [r EXCEPT !.stage = "gone"]
             m == CancelTts(s)
  <1>1. /\ c \in Clients /\ Whole(c, worker[s]) /\ Orderly(c)
        /\ c.stage \in {"unused", "queued", "admitted"}
    BY DEF Cancel, Pending, PortInv, WholeInv, Records
  <1>2. Whole(r, worker[s]) /\ Whole(d, worker[s])
    BY <1>1, RejectedWhole
  <1>3. \/ client' = [client EXCEPT ![s] = d] /\ UNCHANGED toSidecar
        \/ client' = [client EXCEPT ![s] = r] /\ Send(<<m>>)
    BY DEF Cancel
  <1>4. m \in Messages /\ m.type # "tts.open"
    BY DEF CancelTts, Messages
  <1>5. UNCHANGED <<worker, toHost>>
    BY DEF Cancel, sidecarVars
  <1> HIDE DEF r, d, m
  <1>6. UNCHANGED toSidecar => ClientSteps
    BY <1>5, SilentClient
  <1>7. Send(<<m>>) => ClientSteps
    BY <1>4, <1>5, QuietSend DEF ClientSteps
  <1> QED
    BY <1>2, <1>3, <1>6, <1>7, OneWhole

(* What is handed over was counted when it came.                           *)
LEMMA ReleaseWhole ==
  ASSUME PortInv, WholeInv, NEW s \in Streams, Release(s)
  PROVE  WholeInv'
  <1> DEFINE c == client[s]
             sunk == c.sunk + c.held
             d == [c EXCEPT !.released = TRUE, !.held = 0, !.sunk = sunk]
  <1>1. c \in Clients /\ Whole(c, worker[s]) /\ Orderly(c) /\ Pending(s) /\ ~c.cutoff
    BY DEF Release, PortInv, WholeInv, Records
  <1>2. sunk = c.received /\ sunk \in Nat /\ c.completion = "pending"
    BY <1>1 DEF Clients, Whole, Orderly, Pending
  <1>3. client' = [client EXCEPT ![s] = d]
    BY <1>1 DEF Release, PortInv, Records, Clients
  <1> HIDE DEF sunk
  <1>4. d.sunk = sunk /\ d.held = 0 /\ d.received = c.received /\ d.completion = c.completion
    BY <1>1 DEF Clients
  <1> HIDE DEF d
  <1>5. Whole(d, worker[s])
    <2>1. d.sunk + d.held = d.received
      BY <1>2, <1>4
    <2> QED
      BY <1>2, <1>4, <2>1 DEF Whole
  <1>6. ClientSteps
    BY SilentClient DEF Release, sidecarVars
  <1> QED
    BY <1>3, <1>5, <1>6, OneWhole

(* The commands of the speech that leaves the queue: one tts.open, first.  *)
LEMMA BacklogOpens ==
  ASSUME PortInv, NEW h \in Streams
  PROVE  /\ Backlog(h) \in Seq(Messages)
         /\ \A j \in 1..Len(Backlog(h)) :
               Backlog(h)[j].type = "tts.open" => j = 1 /\ Backlog(h)[j].speech = h
  <1> DEFINE texts == [i \in 1..client[h].buffered |-> AppendText(h, i - 1)]
             ending == IF client[h].finished
                       THEN <<Commit(h, client[h].buffered, client[h].fed)>>
                       ELSE <<>>
             first == <<Open(h)>>
             Later == {m \in Messages : m.type # "tts.open"}
             rest == texts \o ending
  <1>1. client[h].buffered \in Nat /\ client[h].fed \in Nat
    BY DEF PortInv, Records, Clients
  <1>2. texts \in Seq(Later)
    <2>1. \A i \in 1..client[h].buffered : AppendText(h, i - 1) \in Later
      BY <1>1 DEF AppendText, Messages
    <2> QED
      BY <1>1, <2>1
  <1>3. ending \in Seq(Later)
    <2> DEFINE m == Commit(h, client[h].buffered, client[h].fed)
    <2>1. m \in Later
      BY <1>1 DEF Commit, Messages
    <2> HIDE DEF m, Later
    <2>2. <<m>> \in Seq(Later) /\ <<>> \in Seq(Later)
      BY <2>1
    <2>3. ending = <<m>> \/ ending = <<>>
      BY DEF m
    <2> QED
      BY <2>2, <2>3
  <1>4. first \in Seq(Messages) /\ Len(first) = 1 /\ first[1].speech = h
    BY DEF Open, Messages
  <1>5. Backlog(h) = first \o texts \o ending
    BY DEF Backlog
  <1> HIDE DEF texts, ending, first
  <1>6. rest \in Seq(Later)
    BY <1>2, <1>3, ConcatProperties
  <1>7. texts \in Seq(Messages) /\ ending \in Seq(Messages)
    BY <1>2, <1>3, SeqMonotonic
  <1>8. first \o texts \o ending = first \o rest
    BY <1>4, <1>7, ConcatAssociative
  <1> HIDE DEF rest
  <1>9. rest \in Seq(Messages) /\ \A j \in 1..Len(rest) : rest[j].type # "tts.open"
    BY <1>6, SeqMonotonic
  <1>10. /\ first \o rest \in Seq(Messages)
         /\ Len(first \o rest) = 1 + Len(rest)
         /\ Len(rest) \in Nat
         /\ \A j \in 1..Len(first \o rest) :
               (first \o rest)[j] = IF j <= 1 THEN first[j] ELSE rest[j - 1]
    <2> DEFINE all == first \o rest
    <2>1. rest \in Seq(Messages) /\ first \in Seq(Messages) /\ Len(first) = 1
      BY <1>4, <1>9
    <2>2. Len(rest) \in Nat
      BY <2>1, LenProperties
    <2>3. /\ all \in Seq(Messages)
          /\ Len(all) = Len(first) + Len(rest)
          /\ \A j \in 1..Len(first) + Len(rest) :
                all[j] = IF j <= Len(first) THEN first[j] ELSE rest[j - Len(first)]
      BY <2>1, ConcatProperties
    <2> HIDE DEF all
    <2>4. Len(all) = 1 + Len(rest) /\ \A j \in 1..Len(all) : all[j] = IF j <= 1 THEN first[j] ELSE rest[j - 1]
      BY <2>1, <2>2, <2>3
    <2> QED
      BY <2>2, <2>3, <2>4 DEF all
  <1>11. ASSUME NEW j \in 1..Len(first \o rest), (first \o rest)[j].type = "tts.open"
         PROVE  j = 1 /\ (first \o rest)[j].speech = h
    <2>1. CASE j <= 1
      BY <1>4, <1>10, <2>1
    <2>2. CASE ~(j <= 1)
      <3>1. j - 1 \in 1..Len(rest) /\ (first \o rest)[j] = rest[j - 1]
        BY <1>10, <2>2
      <3> QED
        BY <1>9, <1>11, <3>1
    <2> QED
      BY <2>1, <2>2
  <1> QED
    BY <1>5, <1>8, <1>10, <1>11

(* The end of a speech: its slot is passed on.                             *)
LEMMA RetireWhole ==
  ASSUME PortInv, WholeInv, NEW s \in Streams, s \in Spoken, NEW d, Whole(d, worker[s]),
         Retire(s, d), toHost # <<>>, toHost' = Tail(toHost), UNCHANGED worker
  PROVE  WholeInv'
  <1>1. CASE queued = <<>>
    <2>1. client' = [client EXCEPT ![s] = d] /\ UNCHANGED toSidecar
      BY <1>1 DEF Retire
    <2>2. ClientSteps
      BY <2>1, SilentClient
    <2> QED
      BY <2>1, <2>2, OneWhole
  <1>2. CASE queued # <<>>
    <2> DEFINE h == Head(queued)
               e == [client[h] EXCEPT !.stage = "admitted"]
               ms == Backlog(h)
    <2>1. h \in Waiting /\ h \in Streams /\ h # s /\ h \notin Spoken
      BY <1>2 DEF PortInv, Queueing, Waiting, Spoken
    <2>2. client[h] \in Clients /\ Whole(client[h], worker[h])
      BY <2>1 DEF PortInv, Records, WholeInv
    <2>3. Whole(e, worker[h])
      BY <2>2, MovedOnWhole
    <2>4. client' = [client EXCEPT ![s] = d, ![h] = e] /\ Send(ms)
      BY <1>2, <2>1 DEF Retire, PortInv, Records
    <2>5. /\ ms \in Seq(Messages)
          /\ \A j \in 1..Len(ms) : ms[j].type = "tts.open" => j = 1 /\ ms[j].speech = h
      BY <2>1, BacklogOpens
    <2> HIDE DEF e, ms, h
    <2>6. OpensOnce(toSidecar', worker)
      BY <2>1, <2>4, <2>5, FreshSend
    <2>7. ClientSteps
      BY <2>6 DEF ClientSteps
    <2>8. /\ client'[s] = d /\ client'[h] = e
          /\ \A t \in Streams \ {s, h} : client'[t] = client[t]
      BY <2>1, <2>4 DEF PortInv, Records
    <2>9. \A t \in Streams : Whole(client'[t], worker[t])
      BY <2>3, <2>8 DEF WholeInv
    <2> QED
      BY <2>7, <2>9, ClientWhole
  <1> QED
    BY <1>1, <1>2

LEMMA BrokenWhole ==
  ASSUME PortInv, WholeInv, ProtocolFailure, UNCHANGED worker
  PROVE  WholeInv'
  BY FailAllWhole DEF ProtocolFailure

LEMMA TtsStartedWhole ==
  ASSUME PortInv, WholeInv, TtsStarted
  PROVE  WholeInv'
  <1> DEFINE s == Head(toHost).speech
             c == client[s]
             start == IF c.cutoff THEN c.start ELSE "resolved"
             d == [c EXCEPT !.sidecarStarted = TRUE, !.start = start]
  <1>1. s \in Streams /\ toHost # <<>>
    BY HeadSpoken DEF TtsStarted, Receiving
  <1>2. c \in Clients /\ Whole(c, worker[s])
    BY <1>1 DEF PortInv, Records, WholeInv
  <1>3. UNCHANGED worker
    BY DEF TtsStarted, sidecarVars
  <1>4. CASE Pending(s) /\ ~c.sidecarStarted
    <2>1. client' = [client EXCEPT ![s] = d]
      BY <1>1, <1>2, <1>4 DEF TtsStarted, PortInv, Records, Clients
    <2>2. toHost' = Tail(toHost) /\ UNCHANGED toSidecar
      BY <1>4 DEF TtsStarted
    <2> HIDE DEF start
    <2>3. Whole(d, worker[s])
      BY <1>2, MovedOnWhole
    <2>4. ClientSteps
      BY <1>1, <1>3, <2>2, SilentClient
    <2> HIDE DEF d, s
    <2> QED
      BY <1>1, <2>1, <2>3, <2>4, OneWhole
  <1>5. CASE ProtocolFailure
    BY <1>3, <1>5, BrokenWhole
  <1> QED
    BY <1>4, <1>5 DEF TtsStarted

(* A frame is counted, and unless the speech is cut off kept or passed on. *)
LEMMA FrameWhole ==
  ASSUME NEW c \in Clients, NEW w, Whole(c, w),
         c.completion # "resolved"
  PROVE  Whole(TakenFrame(c), w)
  <1> DEFINE received == c.received + 1
             sunk == IF ~c.cutoff /\ c.released THEN c.sunk + 1 ELSE c.sunk
             held == IF ~c.cutoff /\ ~c.released THEN c.held + 1 ELSE c.held
             d == [c EXCEPT !.received = received, !.sunk = sunk, !.held = held]
  <1>1. ~c.cutoff => sunk + held = received
    BY DEF Clients, Whole
  <1>2. TakenFrame(c) = d
    BY DEF TakenFrame, Clients
  <1> HIDE DEF received, sunk, held
  <1>3. /\ d.received = received /\ d.sunk = sunk /\ d.held = held
        /\ d.cutoff = c.cutoff /\ d.completion = c.completion
    BY DEF Clients
  <1> HIDE DEF d
  <1> QED
    BY <1>1, <1>2, <1>3 DEF Whole

LEMMA HandleBinaryWhole ==
  ASSUME PortInv, WholeInv, HandleBinary
  PROVE  WholeInv'
  <1> DEFINE s == Head(toHost).speech
             c == client[s]
             d == TakenFrame(c)
  <1>1. s \in Streams /\ toHost # <<>>
    BY HeadSpoken DEF HandleBinary, Receiving
  <1>2. c \in Clients /\ Whole(c, worker[s]) /\ Orderly(c)
    BY <1>1 DEF PortInv, Records, WholeInv
  <1>3. UNCHANGED worker
    BY DEF HandleBinary, sidecarVars
  <1>4. CASE /\ Pending(s)
             /\ client' = [client EXCEPT ![s] = TakenFrame(@)]
             /\ toHost' = Tail(toHost) /\ UNCHANGED toSidecar
    <2>1. client' = [client EXCEPT ![s] = d]
      BY <1>4
    <2>2. c.completion # "resolved"
      BY <1>2, <1>4 DEF Whole, Orderly, Pending
    <2>3. Whole(d, worker[s])
      BY <1>2, <2>2, FrameWhole
    <2>4. ClientSteps
      BY <1>1, <1>3, <1>4, SilentClient
    <2> HIDE DEF d, s
    <2> QED
      BY <1>1, <2>1, <2>3, <2>4, OneWhole
  <1>5. CASE ProtocolFailure
    BY <1>3, <1>5, BrokenWhole
  <1> QED
    BY <1>4, <1>5 DEF HandleBinary

(* What the client counted is what the sidecar reports, and what it held   *)
(* back goes out with the end.                                             *)
LEMMA CompletedWhole ==
  ASSUME NEW c \in Clients, NEW w, Whole(c, w), ~c.cutoff, Over(w),
         c.received = w.generated
  PROVE  Whole(Completed(c), w)
  <1> DEFINE sunk == c.sunk + c.held
             d == [c EXCEPT !.stage = "gone", !.completion = "resolved",
                            !.sunk = sunk, !.held = 0]
  <1>1. sunk = c.received /\ sunk + 0 = sunk
    BY DEF Clients, Whole
  <1>2. Completed(c) = d
    BY DEF Completed, Clients
  <1> HIDE DEF sunk
  <1>3. /\ d.received = c.received /\ d.sunk = sunk /\ d.held = 0
        /\ d.cutoff = c.cutoff /\ d.completion = "resolved"
    BY DEF Clients
  <1> HIDE DEF d
  <1>4. Whole(d, w)
    BY <1>1, <1>3 DEF Whole
  <1> QED
    BY <1>2, <1>4

LEMMA TtsEndedWhole ==
  ASSUME PortInv, WholeInv, TtsEnded
  PROVE  WholeInv'
  <1> DEFINE s == Head(toHost).speech
             c == client[s]
             d == IF c.cutoff THEN [c EXCEPT !.stage = "gone"] ELSE Completed(c)
  <1>1. s \in Spoken /\ s \in Streams /\ toHost # <<>> /\ Head(toHost).type = "tts.ended"
    BY HeadSpoken DEF TtsEnded, Receiving
  <1>2. c \in Clients /\ Whole(c, worker[s])
    BY <1>1 DEF PortInv, Records, WholeInv
  <1>3. UNCHANGED worker
    BY DEF TtsEnded, sidecarVars
  <1>4. CASE /\ Head(toHost).count = c.received
             /\ Retire(s, d)
             /\ toHost' = Tail(toHost)
    <2>1. Over(worker[s]) /\ c.received = worker[s].generated
      <3>1. toHost \in Seq(Reports) /\ EndsTell(toHost, worker)
        BY DEF PortInv, Wires, WholeInv
      <3> QED
        BY <1>1, <1>4, <3>1, TailEnds
    <2>2. Whole([c EXCEPT !.stage = "gone"], worker[s])
      BY <1>2, MovedOnWhole
    <2>3. ~c.cutoff => Whole(Completed(c), worker[s])
      BY <1>2, <2>1, CompletedWhole
    <2>4. Whole(d, worker[s])
      BY <2>2, <2>3
    <2> HIDE DEF d, s
    <2> QED
      BY <1>1, <1>3, <1>4, <2>4, RetireWhole
  <1>5. CASE ProtocolFailure
    BY <1>3, <1>5, BrokenWhole
  <1> QED
    BY <1>4, <1>5 DEF TtsEnded

LEMMA TtsCancelledWhole ==
  ASSUME PortInv, WholeInv, TtsCancelled
  PROVE  WholeInv'
  <1> DEFINE s == Head(toHost).speech
             d == [client[s] EXCEPT !.stage = "gone"]
  <1>1. s \in Spoken /\ s \in Streams /\ toHost # <<>>
    BY HeadSpoken DEF TtsCancelled, Receiving
  <1>2. client[s] \in Clients /\ Whole(client[s], worker[s])
    BY <1>1 DEF PortInv, Records, WholeInv
  <1>3. UNCHANGED worker
    BY DEF TtsCancelled, sidecarVars
  <1>4. CASE Retire(s, d) /\ toHost' = Tail(toHost)
    <2>1. Whole(d, worker[s])
      BY <1>2, MovedOnWhole
    <2> HIDE DEF d, s
    <2> QED
      BY <1>1, <1>3, <1>4, <2>1, RetireWhole
  <1>5. CASE ProtocolFailure
    BY <1>3, <1>5, BrokenWhole
  <1> QED
    BY <1>4, <1>5 DEF TtsCancelled

LEMMA HostWhole ==
  ASSUME PortInv, WholeInv, Close \/ HostReceives
  PROVE  WholeInv'
  <1>1. CASE Close \/ SidecarFailure \/ ConnectionFailure
    BY <1>1, FailAllWhole DEF Close, SidecarFailure, ConnectionFailure, sidecarVars
  <1> QED
    BY <1>1, TtsStartedWhole, HandleBinaryWhole, TtsEndedWhole, TtsCancelledWhole
       DEF HostReceives

LEMMA CallerWhole ==
  ASSUME PortInv, WholeInv, NEW s \in Streams, Caller(s)
  PROVE  WholeInv'
  BY BeginWhole, BeginAbortedWhole, AppendWhole, FinishWhole, CancelWhole, ReleaseWhole
     DEF Caller

-----------------------------------------------------------------------------
(* The sidecar                                                             *)

LEMMA EndsStay ==
  ASSUME NEW q \in Seq(Reports), NEW ws, NEW vs, EndsTell(q, ws),
         \A t \in Streams : Stays(ws[t], vs[t])
  PROVE  EndsTell(q, vs)
  <1>1. \A i \in 1..Len(q) : q[i] \in Reports
    OBVIOUS
  <1>2. \A i \in 1..Len(q) : q[i].speech \in Streams
    BY <1>1 DEF Reports, Spoken
  <1> QED
    BY <1>2 DEF EndsTell, Stays

LEMMA OneMoreEnds ==
  ASSUME NEW q \in Seq(Reports), NEW ws, NEW m \in Reports, EndsTell(q, ws),
         m.type = "tts.ended" => Over(ws[m.speech]) /\ m.count = ws[m.speech].generated
  PROVE  EndsTell(Append(q, m), ws)
  <1> DEFINE p == Append(q, m)
  <1>1. /\ Len(p) = Len(q) + 1 /\ Len(q) \in Nat
        /\ \A i \in 1..Len(q) : p[i] = q[i]
        /\ p[Len(q) + 1] = m
    BY AppendProperties
  <1> HIDE DEF p
  <1>2. \A i \in 1..Len(p) : i \in 1..Len(q) \/ i = Len(q) + 1
    BY <1>1
  <1>3. EndsTell(p, ws)
    BY <1>1, <1>2 DEF EndsTell
  <1> QED
    BY <1>3 DEF p

LEMMA OpensStay ==
  ASSUME NEW q \in Seq(Messages), NEW ws, NEW vs, OpensOnce(q, ws),
         \A i \in 1..Len(q) :
            q[i].type = "tts.open" /\ ws[q[i].speech].stage = "none"
                => vs[q[i].speech].stage = "none"
  PROVE  OpensOnce(q, vs)
  BY DEF OpensOnce

(* What the sidecar does adds nothing to a speech that is over.            *)
LEMMA SidecarWhole ==
  ASSUME PortInv, WholeInv, UNCHANGED client,
         \A t \in Streams : Stays(worker[t], worker'[t]),
         EndsTell(toHost', worker'), OpensOnce(toSidecar', worker')
  PROVE  WholeInv'
  <1>1. \A t \in Streams : client'[t] = client[t] /\ Whole(client[t], worker[t])
    BY DEF WholeInv
  <1>2. ASSUME NEW t \in Streams PROVE Whole(client'[t], worker'[t])
    BY <1>1 DEF Whole, Stays
  <1> QED
    BY <1>2 DEF WholeInv

(* Of the commands that are served, only tts.open touches a stage.         *)
SameWork(t) == worker'[t].stage = worker[t].stage /\ worker'[t].generated = worker[t].generated

LEMMA ServedWhole ==
  ASSUME PortInv, WholeInv, UNCHANGED client, UNCHANGED toHost,
         \/ toSidecar' = toSidecar
         \/ toSidecar' = <<>>
         \/ toSidecar # <<>> /\ toSidecar' = Tail(toSidecar),
         \A t \in Streams : SameWork(t)
  PROVE  WholeInv'
  <1>1. \A t \in Streams : Stays(worker[t], worker'[t])
    BY DEF SameWork, Stays, Over
  <1>2. toHost \in Seq(Reports) /\ EndsTell(toHost, worker)
    BY DEF PortInv, Wires, WholeInv
  <1>3. EndsTell(toHost', worker')
    <2>1. EndsTell(toHost, worker')
      BY <1>1, <1>2, EndsStay
    <2> QED
      BY <2>1
  <1>4. toSidecar \in Seq(Messages) /\ OpensOnce(toSidecar, worker)
    BY CommandsAreMessages DEF WholeInv
  <1>5. toSidecar' \in Seq(Messages) /\ OpensOnce(toSidecar', worker)
    <2>1. OpensOnce(<<>>, worker) /\ <<>> \in Seq(Messages)
      BY EmptySeq DEF OpensOnce
    <2>2. toSidecar # <<>> =>
             OpensOnce(Tail(toSidecar), worker) /\ Tail(toSidecar) \in Seq(Messages)
      BY <1>4, TailOpens, HeadTailProperties
    <2> QED
      BY <1>4, <2>1, <2>2
  <1>6. OpensOnce(toSidecar', worker')
    <2>1. \A i \in 1..Len(toSidecar') : toSidecar'[i].speech \in Streams
      <3>1. \A i \in 1..Len(toSidecar') : toSidecar'[i] \in Messages
        BY <1>5
      <3> QED
        BY <3>1 DEF Messages
    <2>2. \A i \in 1..Len(toSidecar') :
             toSidecar'[i].type = "tts.open" /\ worker[toSidecar'[i].speech].stage = "none"
                => worker'[toSidecar'[i].speech].stage = "none"
      BY <2>1 DEF SameWork
    <2> DEFINE q == toSidecar'
               vs == worker'
    <2>3. /\ q \in Seq(Messages) /\ OpensOnce(q, worker)
          /\ \A i \in 1..Len(q) :
                q[i].type = "tts.open" /\ worker[q[i].speech].stage = "none"
                    => vs[q[i].speech].stage = "none"
      BY <1>5, <2>2
    <2> HIDE DEF q, vs
    <2>4. OpensOnce(q, vs)
      BY <2>3, OpensStay
    <2> QED
      BY <2>4 DEF q, vs
  <1> QED
    BY <1>1, <1>3, <1>6, SidecarWhole

LEMMA CancelSame ==
  ASSUME WorkerShape, worker' = CancelLive
  PROVE  \A t \in Streams : SameWork(t)
  BY DEF WorkerShape, Workers, CancelLive, SameWork

LEMMA EndConnectionWhole ==
  ASSUME PortInv, WholeInv, UNCHANGED client, UNCHANGED toHost,
         worker' = CancelLive, toSidecar' = <<>>
  PROVE  WholeInv'
  BY CancelSame, ServedWhole DEF PortInv

(* A tts.open that is admitted gives its speech the first worker it has.   *)
LEMMA ServeOpenWhole ==
  ASSUME PortInv, WholeInv, ServeOpen
  PROVE  WholeInv'
  <1> DEFINE s == Head(toSidecar).speech
             fresh == [Unopened EXCEPT !.stage = "fenced", !.fences = Live]
             t == Tail(toSidecar)
  <1>1. UNCHANGED client /\ UNCHANGED toHost
    BY DEF ServeOpen, Refuse, EndConnection, clientVars
  <1>2. CASE Refuse(s)
    BY <1>1, <1>2, EndConnectionWhole DEF Refuse, EndConnection
  <1>3. CASE UNCHANGED worker /\ UNCHANGED toSidecar
    <2>1. \A u \in Streams : SameWork(u)
      BY <1>3 DEF SameWork
    <2> QED
      BY <1>1, <1>3, <2>1, ServedWhole
  <1>4. CASE worker' = [worker EXCEPT ![s] = fresh] /\ Served
    <2>1. toSidecar # <<>> /\ Head(toSidecar).type = "tts.open"
      BY DEF ServeOpen, Serving
    <2>2. toSidecar \in Seq(Messages) /\ OpensOnce(toSidecar, worker)
      BY CommandsAreMessages DEF WholeInv
    <2>3. /\ worker[s].stage = "none"
          /\ \A i \in 1..Len(t) : t[i].type = "tts.open" => t[i].speech # s
          /\ OpensOnce(t, worker)
      BY <2>1, <2>2, TailOpens
    <2>4. t \in Seq(Messages) /\ Head(toSidecar) \in Messages
      BY <2>1, <2>2, HeadTailProperties
    <2>5. s \in Streams /\ \A i \in 1..Len(t) : t[i].speech \in Streams
      <3>1. \A i \in 1..Len(t) : t[i] \in Messages
        BY <2>4
      <3> QED
        BY <2>4, <3>1 DEF Messages
    <2> HIDE DEF s, t, fresh
    <2>6. \A u \in Streams \ {s} : worker'[u] = worker[u]
      BY <1>4 DEF PortInv, WorkerShape
    <2>7. \A u \in Streams : Stays(worker[u], worker'[u])
      BY <2>3, <2>6 DEF Stays, Over
    <2>8. EndsTell(toHost', worker')
      <3>1. toHost \in Seq(Reports) /\ EndsTell(toHost, worker)
        BY DEF PortInv, Wires, WholeInv
      <3>2. EndsTell(toHost, worker')
        BY <2>7, <3>1, EndsStay
      <3> QED
        BY <1>1, <3>2
    <2>9. OpensOnce(t, worker')
      <3>1. \A i \in 1..Len(t) :
               t[i].type = "tts.open" /\ worker[t[i].speech].stage = "none"
                  => worker'[t[i].speech].stage = "none"
        BY <2>3, <2>5, <2>6
      <3> QED
        BY <2>3, <2>4, <3>1, OpensStay
    <2>10. toSidecar' = t
      BY <1>4 DEF Served, t
    <2>11. OpensOnce(toSidecar', worker')
      BY <2>9, <2>10
    <2> QED
      BY <1>1, <2>7, <2>8, <2>11, SidecarWhole
  <1> QED
    BY <1>2, <1>3, <1>4 DEF ServeOpen

LEMMA ServeWhole ==
  ASSUME PortInv, WholeInv, Serve \/ ServeOpenTimeout
  PROVE  WholeInv'
  <1> DEFINE s == Head(toSidecar).speech
  <1>1. CASE Disconnect \/ ServeOpenTimeout
    BY <1>1, EndConnectionWhole DEF Disconnect, ServeOpenTimeout, EndConnection, clientVars
  <1>2. CASE Refuse(s)
    BY <1>2, EndConnectionWhole DEF Refuse, EndConnection, clientVars
  <1>3. CASE /\ \/ worker' = [worker EXCEPT ![s].chunks = @ + 1, ![s].next = @ + 1]
                \/ worker' = [worker EXCEPT ![s].committed = TRUE]
                \/ worker' = [worker EXCEPT ![s].cancelled = TRUE]
                \/ worker' = worker
             /\ toSidecar # <<>> /\ Served
             /\ UNCHANGED client /\ UNCHANGED toHost
    <2> HIDE DEF s
    <2>1. ASSUME NEW u \in Streams PROVE SameWork(u)
      <3>1. worker \in [Streams -> Workers] /\ worker[u] \in Workers
        BY DEF PortInv, WorkerShape
      <3> DEFINE chunks == worker[s].chunks + 1
                 next == worker[s].next + 1
                 fed == [worker[s] EXCEPT !.chunks = chunks, !.next = next]
      <3>2. CASE worker' = [worker EXCEPT ![s] = fed]
        <4> HIDE DEF chunks, next
        <4>1. u = s => fed.stage = worker[s].stage /\ fed.generated = worker[s].generated
          BY <3>1 DEF Workers
        <4> HIDE DEF fed
        <4> QED
          BY <3>1, <3>2, <4>1 DEF SameWork
      <3>3. CASE worker' = [worker EXCEPT ![s].committed = TRUE]
        BY <3>1, <3>3 DEF SameWork, Workers
      <3>4. CASE worker' = [worker EXCEPT ![s].cancelled = TRUE]
        BY <3>1, <3>4 DEF SameWork, Workers
      <3>5. CASE worker' = worker
        BY <3>5 DEF SameWork
      <3>6. worker' = [worker EXCEPT ![s].chunks = @ + 1, ![s].next = @ + 1]
               => worker' = [worker EXCEPT ![s] = fed] \/ worker' = worker
        <4>1. CASE s \in Streams
          <5>1. worker[s] \in Workers
            BY <3>1, <4>1
          <5> QED
            BY <3>1, <4>1, <5>1 DEF Workers
        <4>2. CASE s \notin Streams
          BY <3>1, <4>2
        <4> QED
          BY <4>1, <4>2
      <3> QED
        BY <1>3, <3>2, <3>3, <3>4, <3>5, <3>6
    <2> QED
      BY <1>3, <2>1, ServedWhole DEF Served
  <1>4. CASE ServeAppend
    BY <1>2, <1>3, <1>4 DEF ServeAppend, Serving, clientVars
  <1>5. CASE ServeCommit
    BY <1>2, <1>3, <1>5 DEF ServeCommit, Serving, clientVars
  <1>6. CASE ServeCancel
    BY <1>3, <1>6 DEF ServeCancel, Serving, clientVars
  <1> QED
    BY <1>1, <1>4, <1>5, <1>6, ServeOpenWhole DEF Serve

(* A worker reports its end with what it generated, and is past generating.*)
LEMMA WorkWhole ==
  ASSUME PortInv, WholeInv, NEW s \in Streams, Work(s) \/ Fault(s)
  PROVE  WholeInv'
  <1> DEFINE m(type, n) == [type |-> type, speech |-> s, count |-> n]
             Others == {"tts.started", "frame", "tts.cancelled", "sidecar.failure"}
  <1>1. UNCHANGED client /\ UNCHANGED toSidecar
    BY DEF Work, Fault, WorkerCancelled, PassFences, TakeChunk, Audio, EndSpeech,
           ReportPoison, WorkerExit, AdapterFails, FenceTimeout, clientVars
  <1>2. worker[s].stage # "none" /\ worker[s].generated \in Int
    BY DEF Work, Fault, WorkerCancelled, PassFences, TakeChunk, Audio, EndSpeech,
           ReportPoison, WorkerExit, AdapterFails, FenceTimeout,
           PortInv, WorkerShape, Workers
  <1>3. s \in Spoken
    BY <1>2 DEF PortInv, Wires
  <1>4. \A u \in Streams \ {s} : SameWork(u)
    <2>1. CASE Poison(s)
      BY <2>1 DEF Poison, CancelLive, SameWork, PortInv, WorkerShape, Workers
    <2>2. CASE ~Poison(s)
      BY <2>2 DEF Work, Fault, WorkerCancelled, PassFences, TakeChunk, Audio, EndSpeech,
           ReportPoison, WorkerExit, AdapterFails, FenceTimeout, Degrade, Terminal,
           PortInv, WorkerShape, SameWork
    <2> QED
      BY <2>1, <2>2
  <1>5. Stays(worker[s], worker'[s])
    <2>1. CASE WorkerExit(s)
      BY <2>1 DEF WorkerExit, PortInv, WorkerShape, Workers, Stays, Over
    <2>2. CASE ~WorkerExit(s)
      BY <2>2 DEF Work, Fault, WorkerCancelled, PassFences, TakeChunk, Audio, EndSpeech,
           ReportPoison, AdapterFails, FenceTimeout, Stays, Over
    <2> QED
      BY <2>1, <2>2
  <1>6. \A u \in Streams : Stays(worker[u], worker'[u])
    BY <1>4, <1>5 DEF SameWork, Stays, Over
  <1>7. \/ UNCHANGED toHost
        \/ \E type \in Others : \E n \in Int : Emit(type, s, n)
        \/ /\ Emit("tts.ended", s, worker[s].generated)
           /\ Terminal(s)
    BY <1>2 DEF Work, Fault, WorkerCancelled, PassFences, TakeChunk, Audio, EndSpeech,
           ReportPoison, WorkerExit, AdapterFails, FenceTimeout, Degrade, Poison
  <1>8. EndsTell(toHost, worker') /\ toHost \in Seq(Reports)
    <2>1. toHost \in Seq(Reports) /\ EndsTell(toHost, worker)
      BY DEF PortInv, Wires, WholeInv
    <2> QED
      BY <1>6, <2>1, EndsStay
  <1>9. EndsTell(toHost', worker')
    <2>1. ASSUME NEW type \in Others, NEW n \in Int, Emit(type, s, n)
          PROVE  EndsTell(toHost', worker')
      <3>1. m(type, n) \in Reports /\ m(type, n).type # "tts.ended"
        BY <1>3 DEF Reports
      <3>2. toHost' = toHost \/ toHost' = Append(toHost, m(type, n))
        BY <2>1 DEF Emit
      <3> HIDE DEF m
      <3>3. EndsTell(Append(toHost, m(type, n)), worker')
        BY <1>8, <3>1, OneMoreEnds
      <3> QED
        BY <1>8, <3>2, <3>3
    <2>2. ASSUME Emit("tts.ended", s, worker[s].generated), Terminal(s)
          PROVE  EndsTell(toHost', worker')
      <3> DEFINE e == m("tts.ended", worker[s].generated)
      <3>1. e \in Reports /\ e.speech = s /\ e.count = worker[s].generated
        BY <1>2, <1>3 DEF Reports
      <3>2. worker'[s].stage = "terminal" /\ worker'[s].generated = worker[s].generated
        BY <2>2 DEF Terminal, PortInv, WorkerShape, Workers
      <3>3. toHost' = toHost \/ toHost' = Append(toHost, e)
        BY <2>2 DEF Emit
      <3> HIDE DEF e
      <3>4. Over(worker'[e.speech]) /\ e.count = worker'[e.speech].generated
        BY <3>1, <3>2 DEF Over
      <3>5. EndsTell(Append(toHost, e), worker')
        BY <1>8, <3>1, <3>4, OneMoreEnds
      <3> QED
        BY <1>8, <3>3, <3>5
    <2> QED
      BY <1>7, <1>8, <2>1, <2>2
  <1>10. OpensOnce(toSidecar', worker')
    <2>1. toSidecar \in Seq(Messages) /\ OpensOnce(toSidecar, worker)
      BY CommandsAreMessages DEF WholeInv
    <2>2. \A i \in 1..Len(toSidecar) : toSidecar[i].speech \in Streams
      <3>1. \A i \in 1..Len(toSidecar) : toSidecar[i] \in Messages
        BY <2>1
      <3> QED
        BY <3>1 DEF Messages
    <2>3. \A i \in 1..Len(toSidecar) :
             toSidecar[i].type = "tts.open" /\ worker[toSidecar[i].speech].stage = "none"
                => worker'[toSidecar[i].speech].stage = "none"
      BY <1>2, <1>4, <2>2 DEF SameWork
    <2>4. OpensOnce(toSidecar, worker')
      BY <2>1, <2>3, OpensStay
    <2> QED
      BY <1>1, <2>4
  <1> QED
    BY <1>1, <1>6, <1>9, <1>10, SidecarWhole

-----------------------------------------------------------------------------
(* The theorem                                                             *)

LEMMA WholeStep ==
  PortInv /\ WholeInv /\ [Next]_vars => WholeInv'
  <1> SUFFICES ASSUME PortInv, WholeInv, [Next]_vars
               PROVE  WholeInv'
    OBVIOUS
  <1>1. CASE UNCHANGED vars
    <2>1. UNCHANGED <<client, toHost, toSidecar, worker>>
      BY <1>1 DEF vars
    <2>2. \A t \in Streams : SameWork(t)
      BY <2>1 DEF SameWork
    <2> QED
      BY <2>1, <2>2, ServedWhole
  <1>2. ASSUME NEW s \in Streams, Caller(s) PROVE WholeInv'
    BY <1>2, CallerWhole
  <1>3. ASSUME NEW s \in Streams, Work(s) \/ Fault(s) PROVE WholeInv'
    BY <1>3, WorkWhole
  <1> QED
    BY <1>1, <1>2, <1>3, HostWhole, ServeWhole DEF Next

LEMMA WholeInit == Init => WholeInv
  <1> SUFFICES ASSUME Init PROVE WholeInv
    OBVIOUS
  <1>1. Whole(Unbegun, Unopened)
    BY DEF Whole, Unbegun, Unopened
  <1>2. \A s \in Streams : client[s] = Unbegun /\ worker[s] = Unopened
    BY DEF Init
  <1>3. EndsTell(toHost, worker) /\ OpensOnce(toSidecar, worker)
    BY DEF Init, EndsTell, OpensOnce
  <1> QED
    BY <1>1, <1>2, <1>3 DEF WholeInv

LEMMA WholeGives ==
  ASSUME Records, WholeInv
  PROVE  CompletionIsWhole
  <1> SUFFICES ASSUME NEW s \in Streams, client[s].completion = "resolved"
               PROVE  client[s].sunk = worker[s].generated /\ client[s].held = 0
    BY DEF CompletionIsWhole
  <1>1. client[s] \in Clients /\ Whole(client[s], worker[s])
    BY DEF Records, WholeInv
  <1>2. /\ client[s].sunk + client[s].held = client[s].received
        /\ client[s].held = 0 /\ client[s].received = worker[s].generated
    BY <1>1 DEF Whole
  <1>3. client[s].sunk + 0 = client[s].sunk
    BY <1>1 DEF Clients
  <1> QED
    BY <1>2, <1>3

(* A speech whose completion resolved (ttsEnded, AudioClient.ts:1412-1450) *)
(* reached the browser whole: each frame its worker generated was sunk,    *)
(* those held back before release() included, and none was left out or     *)
(* sent after the end, whatever was cancelled, queued or failed meanwhile. *)
THEOREM CompletedInFull == Spec => []CompletionIsWhole
  <1>1. Init => FenceInv /\ PortInv /\ WholeInv
    BY InitFences, PortInit, WholeInit
  <1>2. FenceInv /\ PortInv /\ WholeInv /\ [Next]_vars
            => (FenceInv /\ PortInv /\ WholeInv)'
    BY FencesStep, PortStep, WholeStep
  <1>3. PortInv /\ WholeInv => CompletionIsWhole
    BY WholeGives DEF PortInv
  <1> QED
    BY <1>1, <1>2, <1>3, PTL DEF Spec
=============================================================================
