--------------------------- MODULE HostLiveProofs ---------------------------
(***************************************************************************)
(* Proofs about the conversation at the host, the part HostLive of         *)
(* MCParts, for any number of engines, streams, attempts, commands and     *)
(* failures.                                                               *)
(*                                                                         *)
(* The invariant HlInv is about a state h of the part, because a step of   *)
(* the code goes through several before it is over: a failure closes the   *)
(* engine, a begin ends, a stop goes on.                                   *)
(***************************************************************************)
EXTENDS MCParts, TLAPS

-----------------------------------------------------------------------------

-----------------------------------------------------------------------------
(* The conversation at the host (HostLive).                                *)

HlClientRecord ==
    [conn : {"none", "connecting", "up", "closing", "down"},
     ready : {"unseen", "starting", "ready", "failed"}, sent : BOOLEAN, opened : BOOLEAN,
     failed : BOOLEAN, closing : BOOLEAN, side : {"none", "opening", "open", "told", "gone"}]

HlMaybe == Hl!Clients \cup {Hl!None}
HlStream == Hl!Streams \cup {Hl!None}
HlCommand ==
    [at : {"idle", "planning", "connect", "ready", "opened", "catch", "abandon", "rollback"},
     client : HlMaybe, stream : HlStream]

HlPlan ==
    [run : Nat, aborted : BOOLEAN, made : Nat,
     state : {"none", "running", "ready", "failed", "cancelled"},
     notes : Nat, told : Nat, asked : BOOLEAN]

HlState ==
    [open : BOOLEAN, client : [Hl!Clients -> HlClientRecord], made : 0..HlClients,
     audio : HlMaybe, orch : HlMaybe, context : Nat, capture : HlStream,
     begun : HlStream, live : BOOLEAN, cmd : HlCommand, rolling : SUBSET Hl!Clients,
     plan : HlPlan,
     phase : {"none", "prelive", "preparing", "starting_live", "live", "stopped"},
     overlap : BOOLEAN, stop : {"no", "planning", "audio", "pis", "done"}, stopped : BOOLEAN,
     pis : {"none", "alive", "down"}, commands : Nat, trouble : Nat]

HlAttempt == {"connect", "ready", "opened", "catch", "abandon"}

\* the engine that is connected is the one the session has, and the command under way is about it
HlOwned(h) ==
    /\ \A c \in Hl!Clients : Hl!Connection(h, c) => c = h.audio
    /\ h.orch # Hl!None => h.orch = h.audio
    /\ h.cmd.at \in HlAttempt => h.cmd.client = h.audio /\ h.audio # Hl!None
    /\ h.cmd.at \in HlAttempt => h.orch # Hl!None
    /\ ~h.live => h.capture = Hl!None /\ h.begun = Hl!None
    /\ h.live =>
         /\ h.cmd.at = "idle" /\ h.orch # Hl!None /\ h.begun # Hl!None
         /\ ~h.stopped => (h.client[h.audio].opened \/ h.client[h.audio].failed)
    /\ (~h.live /\ h.cmd.at \notin HlAttempt) => h.audio = Hl!None /\ h.orch = Hl!None
    /\ ~h.open => h.orch = Hl!None /\ h.cmd.at = "idle" /\ h.plan.run = Hl!None /\ ~h.live

\* a stream is opened for the command that waits for it, at an engine that was made
HlOpening(h) ==
    /\ \A c \in Hl!Clients :
         /\ c > h.made => h.client[c].conn = "none"
         /\ h.client[c].conn \in {"none", "connecting"} => h.client[c].side = "none"
         /\ (h.client[c].side \in {"opening", "open"} /\ h.client[c].conn = "up") => h.cmd.at = "opened"
    /\ h.cmd.at = "planning" => h.made < HlClients
    /\ h.cmd.at = "abandon" => h.stopped
    /\ h.cmd.at = "rollback" => h.cmd.client \in h.rolling

\* a preparation runs only before a session is live
HlPrepared(h) ==
    /\ h.plan.run # Hl!None => h.orch = Hl!None
    /\ h.cmd.at = "planning" => h.plan.run # Hl!None /\ h.cmd.stream # Hl!None
    /\ h.cmd.at \in HlAttempt => h.plan.run = Hl!None /\ h.cmd.stream # Hl!None
    /\ h.plan.notes = h.plan.told
    /\ h.orch # Hl!None => h.context = h.plan.told

HlStops(h) ==
    /\ h.stopped <=> h.stop # "no"
    /\ h.stop \in {"audio", "pis", "done"} =>
         /\ h.plan.run = Hl!None
         /\ \A c \in Hl!Clients : ~Hl!Connection(h, c)
    /\ h.stop = "done" => h.pis # "alive"

HlPhased(h) ==
    h.open /\ ~h.stopped /\ ~h.overlap =>
       /\ h.plan.run # Hl!None => h.phase = "preparing"
       /\ h.live => h.phase = "live"
       /\ (h.plan.run = Hl!None /\ ~h.live /\ h.cmd.at = "idle" /\ h.rolling = {}) => h.phase = "prelive"

HlInv(h) == h \in HlState /\ HlOwned(h) /\ HlOpening(h) /\ HlPrepared(h) /\ HlStops(h) /\ HlPhased(h)

\* two states that differ at most in their clients, the phase and the counts
HlRest(g, h) ==
    /\ g.open = h.open /\ g.made = h.made
    /\ g.audio = h.audio /\ g.orch = h.orch /\ g.context = h.context /\ g.capture = h.capture
    /\ g.begun = h.begun /\ g.live = h.live /\ g.cmd = h.cmd /\ g.rolling = h.rolling
    /\ g.plan = h.plan /\ g.stop = h.stop /\ g.stopped = h.stopped /\ g.pis = h.pis

HlSame(g, h) == HlRest(g, h) /\ g.client = h.client

HlBase(h) == h \in HlState /\ HlOwned(h) /\ HlOpening(h) /\ HlPrepared(h)
HlCore(h) == h \in HlState /\ HlOwned(h) /\ HlOpening(h) /\ HlPrepared(h) /\ HlStops(h)

LEMMA HlSameKeeps ==
    ASSUME NEW h, HlBase(h), NEW g \in HlState, HlSame(g, h)
    PROVE  HlBase(g) /\ (HlStops(h) => HlStops(g))
<1>1. /\ g.open = h.open /\ g.client = h.client /\ g.made = h.made
      /\ g.audio = h.audio /\ g.orch = h.orch /\ g.context = h.context /\ g.capture = h.capture
      /\ g.begun = h.begun /\ g.live = h.live /\ g.cmd = h.cmd /\ g.rolling = h.rolling
      /\ g.plan = h.plan /\ g.stop = h.stop /\ g.stopped = h.stopped /\ g.pis = h.pis
  BY DEF HlSame, HlRest
<1>2. HlOwned(g)
  BY <1>1 DEF HlBase, HlOwned, Hl!Connection
<1>3. HlOpening(g)
  BY <1>1 DEF HlBase, HlOpening
<1>4. HlPrepared(g)
  BY <1>1 DEF HlBase, HlPrepared
<1>5. HlStops(h) => HlStops(g)
  BY <1>1 DEF HlStops, Hl!Connection
<1> QED BY <1>2, <1>3, <1>4, <1>5 DEF HlBase

LEMMA HlCoreBase == ASSUME NEW h PROVE HlCore(h) <=> (HlBase(h) /\ HlStops(h))
  BY DEF HlCore, HlBase

HlPhases == {"none", "prelive", "preparing", "starting_live", "live", "stopped"}

LEMMA HlTellIs ==
    ASSUME NEW h \in HlState, NEW phase \in HlPhases
    PROVE  /\ Hl!Tell(h, phase) \in HlState /\ HlSame(Hl!Tell(h, phase), h)
           /\ Hl!Tell(h, phase).overlap = h.overlap
           /\ ~h.stopped => Hl!Tell(h, phase).phase = phase
<1> DEFINE g == [h EXCEPT !.phase = phase]
<1>1. g \in HlState
  BY DEF HlState, HlPhases
<1>2. HlSame(g, h) /\ HlSame(h, h) /\ g.overlap = h.overlap /\ g.phase = phase
  BY DEF HlState, HlSame, HlRest
<1>3. Hl!Tell(h, phase) = IF h.stopped THEN h ELSE g
  BY DEF Hl!Tell
<1> HIDE DEF g
<1> QED BY <1>1, <1>2, <1>3

LEMMA HlClientsChange ==
    ASSUME NEW f \in [Hl!Clients -> HlClientRecord], NEW c \in Hl!Clients, NEW v \in HlClientRecord
    PROVE  [f EXCEPT ![c] = v] \in [Hl!Clients -> HlClientRecord]
  OBVIOUS

\* the client of a state that is changed in nothing else
HlWith(h, c, v) == [h EXCEPT !.client[c] = v]

LEMMA HlWithIs ==
    ASSUME NEW h \in HlState, NEW c \in Hl!Clients, NEW v \in HlClientRecord
    PROVE  /\ HlWith(h, c, v) \in HlState
           /\ HlWith(h, c, v).client = [h.client EXCEPT ![c] = v]
           /\ HlWith(h, c, v).client[c] = v
           /\ \A d \in Hl!Clients : d # c => HlWith(h, c, v).client[d] = h.client[d]
           /\ HlRest(HlWith(h, c, v), h)
           /\ HlWith(h, c, v).overlap = h.overlap /\ HlWith(h, c, v).phase = h.phase
<1> DEFINE f == [h.client EXCEPT ![c] = v]
           g == [h EXCEPT !.client = f]
<1>1. h.client \in [Hl!Clients -> HlClientRecord]
  BY DEF HlState
<1>2. f \in [Hl!Clients -> HlClientRecord] /\ f[c] = v
      /\ \A d \in Hl!Clients : d # c => f[d] = h.client[d]
  BY <1>1
<1>3. HlWith(h, c, v) = g
  BY DEF HlWith, HlState
<1> HIDE DEF f
<1>4. g \in HlState
  BY <1>2 DEF HlState
<1>5. g.client = f /\ HlRest(g, h) /\ g.overlap = h.overlap /\ g.phase = h.phase
  BY DEF HlState, HlRest
<1> HIDE DEF g
<1> QED BY <1>2, <1>3, <1>4, <1>5 DEF f, g

LEMMA HlFields ==
    ASSUME NEW h \in HlState
    PROVE  /\ h.client \in [Hl!Clients -> HlClientRecord]
           /\ \A c \in Hl!Clients : h.client[c] \in HlClientRecord
           /\ h.cmd \in HlCommand /\ h.plan \in HlPlan
           /\ h.audio \in HlMaybe /\ h.orch \in HlMaybe /\ h.live \in BOOLEAN
           /\ h.stopped \in BOOLEAN /\ h.open \in BOOLEAN /\ h.overlap \in BOOLEAN
           /\ h.trouble \in Nat /\ h.commands \in Nat /\ h.rolling \in SUBSET Hl!Clients
           /\ h.phase \in HlPhases
<1>1. h.client \in [Hl!Clients -> HlClientRecord]
  BY DEF HlState
<1> QED BY <1>1 DEF HlState, HlPhases

LEMMA HlNone == Hl!None \notin Hl!Clients /\ Hl!None \notin Hl!Streams
  BY DEF Hl!None, Hl!Clients, Hl!Streams

(* What a client of the session may do without the session's knowing.      *)
LEMMA HlWithKeeps ==
    ASSUME NEW h, HlInv(h), NEW c \in Hl!Clients, NEW v \in HlClientRecord,
           v.conn \in {"connecting", "up"} => h.client[c].conn \in {"connecting", "up"},
           v.conn = "connecting" => h.client[c].conn = "connecting",
           v.conn = "none" => h.client[c].conn = "none",
           v.conn # "none" => h.client[c].conn # "none",
           h.live /\ ~h.stopped /\ (h.client[c].opened \/ h.client[c].failed) => (v.opened \/ v.failed),
           v.conn \in {"none", "connecting"} => v.side = "none",
           (v.side \in {"opening", "open"} /\ v.conn = "up") => h.cmd.at = "opened"
    PROVE  HlInv(HlWith(h, c, v))
<1> DEFINE g == HlWith(h, c, v)
<1>1. h \in HlState
  BY DEF HlInv
<1>2. /\ g \in HlState /\ HlRest(g, h) /\ g.client[c] = v
      /\ \A d \in Hl!Clients : d # c => g.client[d] = h.client[d]
      /\ g.overlap = h.overlap /\ g.phase = h.phase
  <2>1. HlWith(h, c, v) \in HlState /\ HlRest(HlWith(h, c, v), h)
    BY <1>1, HlWithIs
  <2>2. HlWith(h, c, v).client[c] = v
    BY <1>1, HlWithIs
  <2>3. \A d \in Hl!Clients : d # c => HlWith(h, c, v).client[d] = h.client[d]
    <3>1. HlWith(h, c, v).client = [h.client EXCEPT ![c] = v]
      BY <1>1, HlWithIs
    <3>2. h.client \in [Hl!Clients -> HlClientRecord]
      BY <1>1, HlFields
    <3> QED BY <3>1, <3>2
  <2>4. HlWith(h, c, v).overlap = h.overlap /\ HlWith(h, c, v).phase = h.phase
    BY <1>1 DEF HlState, HlWith
  <2> QED BY <2>1, <2>2, <2>3, <2>4
<1> HIDE DEF g
<1>3. /\ g.open = h.open /\ g.made = h.made
      /\ g.audio = h.audio /\ g.orch = h.orch /\ g.context = h.context /\ g.capture = h.capture
      /\ g.begun = h.begun /\ g.live = h.live /\ g.cmd = h.cmd /\ g.rolling = h.rolling
      /\ g.plan = h.plan /\ g.stop = h.stop /\ g.stopped = h.stopped /\ g.pis = h.pis
  BY <1>2 DEF HlRest
<1>4. \A d \in Hl!Clients : Hl!Connection(g, d) => Hl!Connection(h, d)
  BY <1>2 DEF Hl!Connection
<1>5. HlOwned(g)
  <2>1. g.live => /\ g.cmd.at = "idle" /\ g.orch # Hl!None /\ g.begun # Hl!None
                  /\ ~g.stopped => (g.client[g.audio].opened \/ g.client[g.audio].failed)
    <3> SUFFICES ASSUME g.live
                 PROVE  /\ g.cmd.at = "idle" /\ g.orch # Hl!None /\ g.begun # Hl!None
                        /\ ~g.stopped => (g.client[g.audio].opened \/ g.client[g.audio].failed)
      OBVIOUS
    <3>1. /\ h.cmd.at = "idle" /\ h.orch # Hl!None /\ h.begun # Hl!None /\ h.orch = h.audio
          /\ ~h.stopped => (h.client[h.audio].opened \/ h.client[h.audio].failed)
      BY <1>3 DEF HlInv, HlOwned
    <3>2. h.audio \in Hl!Clients
      BY <1>1, <3>1, HlFields DEF HlMaybe
    <3> QED BY <1>2, <1>3, <3>1, <3>2
  <2> QED BY <1>3, <1>4, <2>1 DEF HlInv, HlOwned
<1>6. HlOpening(g)
  BY <1>2, <1>3 DEF HlInv, HlOpening
<1>7. HlPrepared(g)
  BY <1>3 DEF HlInv, HlPrepared
<1>8. HlStops(g)
  BY <1>3, <1>4 DEF HlInv, HlStops
<1>9. HlPhased(g)
  BY <1>3, <1>2 DEF HlInv, HlPhased
<1> QED BY <1>2, <1>5, <1>6, <1>7, <1>8, <1>9 DEF HlInv, g

(* The counts bound the environment only.                                  *)
LEMMA HlCountKeeps ==
    ASSUME NEW h, HlInv(h), NEW n \in Nat
    PROVE  HlInv([h EXCEPT !.trouble = n]) /\ HlInv([h EXCEPT !.commands = n])
<1>1. h \in HlState /\ HlCore(h)
  BY DEF HlInv, HlCore
<1>2. ASSUME NEW g \in {[h EXCEPT !.trouble = n], [h EXCEPT !.commands = n]} PROVE HlInv(g)
  <2>1. g \in HlState /\ HlSame(g, h) /\ g.overlap = h.overlap /\ g.phase = h.phase
    BY <1>1, <1>2 DEF HlState, HlSame, HlRest
  <2>2. HlCore(g)
    BY <1>1, <2>1, HlSameKeeps, HlCoreBase
  <2>3. HlPhased(g)
    BY <2>1 DEF HlInv, HlPhased, HlSame, HlRest
  <2> QED BY <2>2, <2>3 DEF HlInv, HlCore
<1> QED BY <1>2

(* The command goes on to wait for the sidecar.                            *)
LEMMA HlReadyKeeps ==
    ASSUME NEW h, HlInv(h), h.cmd.at = "connect" PROVE HlInv([h EXCEPT !.cmd.at = "ready"])
<1> DEFINE g == [h EXCEPT !.cmd.at = "ready"]
<1>1. h \in HlState /\ h.cmd \in HlCommand
  BY HlFields DEF HlInv
<1>2. /\ [h.cmd EXCEPT !.at = "ready"] \in HlCommand
      /\ [h.cmd EXCEPT !.at = "ready"].client = h.cmd.client
      /\ [h.cmd EXCEPT !.at = "ready"].stream = h.cmd.stream
      /\ [h.cmd EXCEPT !.at = "ready"].at = "ready"
  BY <1>1 DEF HlCommand
<1> DEFINE m == [h.cmd EXCEPT !.at = "ready"]
<1>3. /\ g \in HlState /\ g.cmd = m
      /\ g.open = h.open /\ g.made = h.made /\ g.client = h.client
      /\ g.audio = h.audio /\ g.orch = h.orch /\ g.context = h.context /\ g.capture = h.capture
      /\ g.begun = h.begun /\ g.live = h.live /\ g.rolling = h.rolling
      /\ g.plan = h.plan /\ g.stop = h.stop /\ g.stopped = h.stopped /\ g.pis = h.pis
      /\ g.overlap = h.overlap /\ g.phase = h.phase
  BY <1>1, <1>2 DEF HlState
<1>4. m.at = "ready" /\ m.client = h.cmd.client /\ m.stream = h.cmd.stream
  BY <1>2
<1> HIDE DEF g, m
<1>5. HlOwned(g)
  BY <1>3, <1>4 DEF HlInv, HlOwned, HlAttempt, Hl!Connection
<1>6. HlOpening(g)
  BY <1>3, <1>4 DEF HlInv, HlOpening
<1>7. HlPrepared(g)
  BY <1>3, <1>4 DEF HlInv, HlPrepared, HlAttempt
<1>8. HlStops(g)
  BY <1>3 DEF HlInv, HlStops, Hl!Connection
<1>9. HlPhased(g)
  BY <1>3, <1>4 DEF HlInv, HlPhased
<1> QED BY <1>3, <1>5, <1>6, <1>7, <1>8, <1>9 DEF HlInv, g

(* A client that lets go of its connection                                 *)
LEMMA HlCloseIs ==
    ASSUME NEW h \in HlState, NEW c \in Hl!Clients
    PROVE  LET g == Hl!CloseClient(h, c)
           IN  /\ g \in HlState /\ HlRest(g, h)
               /\ g.overlap = h.overlap /\ g.phase = h.phase
               /\ g.client[c].conn = IF Hl!Connection(h, c) THEN "closing" ELSE h.client[c].conn
               /\ g.client[c].side = h.client[c].side
               /\ g.client[c].failed = h.client[c].failed
               /\ ~g.client[c].opened
               /\ \A d \in Hl!Clients : d # c => g.client[d] = h.client[d]
<1> DEFINE o == h.client[c]
           v == [o EXCEPT !.closing = TRUE, !.opened = FALSE, !.sent = FALSE,
                          !.conn = IF Hl!Connection(h, c) THEN "closing" ELSE @]
<1>1. h.client \in [Hl!Clients -> HlClientRecord] /\ o \in HlClientRecord
  BY HlFields
<1>2. v \in HlClientRecord
  BY <1>1 DEF HlClientRecord
<1>3. /\ v.conn = IF Hl!Connection(h, c) THEN "closing" ELSE h.client[c].conn
      /\ v.side = h.client[c].side /\ v.failed = h.client[c].failed /\ ~v.opened
  BY <1>1 DEF HlClientRecord
<1>4. Hl!CloseClient(h, c) = HlWith(h, c, v)
  <2>1. Hl!CloseClient(h, c).client = [h.client EXCEPT ![c] = v]
    BY <1>1 DEF Hl!CloseClient, HlState, HlClientRecord
  <2>2. Hl!CloseClient(h, c) = [h EXCEPT !.client = Hl!CloseClient(h, c).client]
    BY <1>1 DEF Hl!CloseClient, HlState
  <2> QED BY <2>1, <2>2 DEF HlWith, HlState
<1> HIDE DEF v
<1>5. /\ HlWith(h, c, v) \in HlState /\ HlRest(HlWith(h, c, v), h)
      /\ HlWith(h, c, v).client = [h.client EXCEPT ![c] = v]
      /\ HlWith(h, c, v).overlap = h.overlap /\ HlWith(h, c, v).phase = h.phase
  BY <1>2, HlWithIs
<1>6. /\ HlWith(h, c, v).client[c] = v
      /\ \A d \in Hl!Clients : d # c => HlWith(h, c, v).client[d] = h.client[d]
  BY <1>1, <1>5
<1> QED BY <1>3, <1>4, <1>5, <1>6

LEMMA HlNothing ==
    ASSUME NEW h, HlInv(h), h.cmd.at \in HlAttempt
    PROVE  /\ h \in HlState /\ h.audio \in Hl!Clients /\ h.cmd.client = h.audio /\ h.plan.run = Hl!None
           /\ ~h.live /\ h.capture = Hl!None /\ h.begun = Hl!None /\ h.open
           /\ \A c \in Hl!Clients : Hl!Connection(h, c) => c = h.audio
<1>1. h \in HlState /\ h.audio # Hl!None
  BY DEF HlInv, HlOwned
<1>2. h.audio \in Hl!Clients
  BY <1>1, HlFields DEF HlMaybe
<1> QED BY <1>1, <1>2 DEF HlInv, HlOwned, HlPrepared, HlAttempt

(* A begin that fails ends where it began.                                 *)
LEMMA HlRetryableKeeps ==
    ASSUME NEW h, HlInv(h), h.cmd.at \in HlAttempt, ~Hl!Connection(h, h.audio)
    PROVE  HlInv(Hl!Retryable(h))
<1> DEFINE k == [h EXCEPT !.audio = Hl!None, !.orch = Hl!None, !.cmd = Hl!Idle]
           g == Hl!Tell(k, "prelive")
<1>1. /\ h \in HlState /\ h.audio \in Hl!Clients /\ h.cmd.client = h.audio /\ h.plan.run = Hl!None
      /\ ~h.live /\ h.capture = Hl!None /\ h.begun = Hl!None /\ h.open
      /\ \A c \in Hl!Clients : ~Hl!Connection(h, c)
  BY HlNothing
<1>2. Hl!Idle \in HlCommand /\ Hl!Idle.at = "idle"
  BY DEF Hl!Idle, HlCommand, HlMaybe, HlStream
<1>3. /\ k \in HlState
      /\ k.audio = Hl!None /\ k.orch = Hl!None /\ k.cmd = Hl!Idle
      /\ k.open = h.open /\ k.made = h.made /\ k.client = h.client
      /\ k.context = h.context /\ k.capture = h.capture
      /\ k.begun = h.begun /\ k.live = h.live /\ k.rolling = h.rolling
      /\ k.plan = h.plan /\ k.stop = h.stop /\ k.stopped = h.stopped /\ k.pis = h.pis
      /\ k.overlap = h.overlap
  BY <1>1, <1>2 DEF HlState, HlMaybe
<1> HIDE DEF k
<1>4. HlOwned(k)
  BY <1>1, <1>2, <1>3 DEF HlInv, HlOwned, HlAttempt, Hl!Connection
<1>5. HlOpening(k)
  <2>1. \A c \in Hl!Clients : h.client[c].conn # "up"
    BY <1>1 DEF Hl!Connection
  <2> QED BY <1>2, <1>3, <2>1 DEF HlInv, HlOpening
<1>6. HlPrepared(k)
  BY <1>1, <1>2, <1>3 DEF HlInv, HlPrepared, HlAttempt
<1>7. HlStops(k)
  BY <1>3 DEF HlInv, HlStops, Hl!Connection
<1>8. HlCore(k)
  BY <1>3, <1>4, <1>5, <1>6, <1>7 DEF HlCore
<1>9. /\ g \in HlState /\ HlSame(g, k) /\ g.overlap = k.overlap
      /\ ~k.stopped => g.phase = "prelive"
  BY <1>3, HlTellIs DEF HlPhases
<1>10. HlCore(g)
  BY <1>8, <1>9, HlSameKeeps, HlCoreBase
<1>11. HlPhased(g)
  BY <1>1, <1>3, <1>9 DEF HlSame, HlRest, HlPhased
<1>12. g = Hl!Retryable(h)
  BY DEF Hl!Retryable, k
<1> QED BY <1>10, <1>11, <1>12 DEF HlCore, HlInv

(* The command waits for the engine that it closes.                        *)
LEMMA HlCloseKeeps ==
    ASSUME NEW h, HlInv(h), h.cmd.at \in {"connect", "ready", "opened"}, Hl!Connection(h, h.audio),
           NEW next \in {"catch", "abandon"}, next = "abandon" => h.stopped
    PROVE  LET k == Hl!CloseClient(h, h.audio)
           IN  HlInv([k EXCEPT !.cmd = [k.cmd EXCEPT !.at = next]])
<1> DEFINE k == Hl!CloseClient(h, h.audio)
           m == [k.cmd EXCEPT !.at = next]
           g == [k EXCEPT !.cmd = m]
<1>1. /\ h \in HlState /\ h.audio \in Hl!Clients /\ h.cmd.client = h.audio /\ h.plan.run = Hl!None
      /\ ~h.live /\ h.capture = Hl!None /\ h.begun = Hl!None /\ h.open
      /\ \A c \in Hl!Clients : Hl!Connection(h, c) => c = h.audio
      /\ h.cmd.at \in HlAttempt
  <2>1. h.cmd.at \in HlAttempt
    BY DEF HlAttempt
  <2> QED BY <2>1, HlNothing
<1>2. /\ k \in HlState /\ HlRest(k, h)
      /\ k.overlap = h.overlap /\ k.phase = h.phase
      /\ k.client[h.audio].conn = "closing"
      /\ k.client[h.audio].failed = h.client[h.audio].failed
      /\ k.client[h.audio].side = h.client[h.audio].side
      /\ \A d \in Hl!Clients : d # h.audio => k.client[d] = h.client[d]
  BY <1>1, HlCloseIs
<1> HIDE DEF k
<1>3. k.cmd \in HlCommand /\ k.cmd = h.cmd
  BY <1>2, HlFields DEF HlRest
<1>4. m \in HlCommand /\ m.at = next /\ m.client = h.cmd.client /\ m.stream = h.cmd.stream
  BY <1>3 DEF HlCommand
<1> HIDE DEF m
<1>5. /\ g \in HlState /\ g.cmd = m
      /\ g.open = h.open /\ g.made = h.made /\ g.client = k.client
      /\ g.audio = h.audio /\ g.orch = h.orch /\ g.context = h.context /\ g.capture = h.capture
      /\ g.begun = h.begun /\ g.live = h.live /\ g.rolling = h.rolling
      /\ g.plan = h.plan /\ g.stop = h.stop /\ g.stopped = h.stopped /\ g.pis = h.pis
      /\ g.overlap = h.overlap /\ g.phase = h.phase
  BY <1>2, <1>4 DEF HlState, HlRest
<1> HIDE DEF g
<1>6. \A c \in Hl!Clients : ~Hl!Connection(g, c)
  BY <1>1, <1>2, <1>5 DEF Hl!Connection
<1>7. HlOwned(g)
  BY <1>1, <1>4, <1>5, <1>6 DEF HlInv, HlOwned, HlAttempt
<1>8. HlOpening(g)
  <2>1. ASSUME NEW c \in Hl!Clients
        PROVE  /\ c > g.made => g.client[c].conn = "none"
               /\ g.client[c].conn \in {"none", "connecting"} => g.client[c].side = "none"
               /\ g.client[c].conn # "up"
    <3>1. c > g.made => c # h.audio
      BY <1>5 DEF HlInv, HlOpening, Hl!Connection
    <3> QED BY <1>2, <1>5, <1>6, <3>1 DEF HlInv, HlOpening, Hl!Connection
  <2> QED BY <1>4, <1>5, <2>1 DEF HlInv, HlOpening
<1>9. HlPrepared(g)
  BY <1>1, <1>4, <1>5 DEF HlInv, HlPrepared, HlAttempt
<1>10. HlStops(g)
  BY <1>5, <1>6 DEF HlInv, HlStops
<1>11. HlPhased(g)
  BY <1>1, <1>4, <1>5 DEF HlInv, HlPhased
<1> QED BY <1>5, <1>7, <1>8, <1>9, <1>10, <1>11 DEF HlInv, g, m, k

LEMMA HlCatchKeeps ==
    ASSUME NEW h, HlInv(h), h.cmd.at \in {"connect", "ready", "opened"} PROVE HlInv(Hl!Catch(h))
<1>1. /\ h \in HlState /\ h.audio \in Hl!Clients /\ h.capture = Hl!None /\ h.begun = Hl!None
      /\ h.cmd.at \in HlAttempt
  <2>1. h.cmd.at \in HlAttempt
    BY DEF HlAttempt
  <2> QED BY <2>1, HlNothing
<1>2. h = [h EXCEPT !.capture = Hl!None, !.begun = Hl!None]
  BY <1>1 DEF HlState
<1>3. CASE Hl!Connection(h, h.audio)
  <2> DEFINE k == Hl!CloseClient(h, h.audio)
  <2>1. ~Hl!ClosesAtOnce(h, h.audio)
    BY <1>1, <1>3, HlNone DEF Hl!ClosesAtOnce
  <2>2. Hl!Catch(h) = [k EXCEPT !.cmd = [k.cmd EXCEPT !.at = "catch"]]
    BY <1>2, <2>1, Zenon DEF Hl!Catch
  <2> QED BY <1>3, <2>2, HlCloseKeeps
<1>4. CASE ~Hl!Connection(h, h.audio)
  <2>1. Hl!Catch(h) = Hl!Retryable(h)
    BY <1>2, <1>4 DEF Hl!Catch, Hl!ClosesAtOnce
  <2> QED BY <1>1, <1>4, <2>1, HlRetryableKeeps
<1> QED BY <1>3, <1>4

(* A client fails, and the command that waits for it with it.              *)
LEMMA HlFailedKeeps ==
    ASSUME NEW h, HlInv(h), NEW c \in Hl!Clients, Hl!Connection(h, c) PROVE HlInv(Hl!Failed(h, c))
<1> DEFINE o == h.client[c]
           v == [o EXCEPT !.failed = TRUE, !.ready = "failed", !.conn = "down"]
           g == HlWith(h, c, v)
<1>1. h \in HlState /\ h.client \in [Hl!Clients -> HlClientRecord] /\ o \in HlClientRecord
  BY HlFields DEF HlInv
<1>2. v \in HlClientRecord /\ v.conn = "down" /\ v.failed
  BY <1>1 DEF HlClientRecord
<1>3. g = [h EXCEPT !.client[c].failed = TRUE, !.client[c].ready = "failed",
                    !.client[c].conn = "down"]
  BY <1>1 DEF HlWith, HlState, HlClientRecord
<1> HIDE DEF v
<1>4. o.conn # "none"
  BY DEF Hl!Connection
<1>5. HlInv(g)
  BY <1>2, <1>4, HlWithKeeps
<1>6. g.cmd = h.cmd
  BY <1>1, <1>3 DEF HlState
<1>7. Hl!Failed(h, c) = IF g.cmd.client = c /\ g.cmd.at \in {"connect", "opened"} THEN Hl!Catch(g) ELSE g
  BY <1>3, <1>6 DEF Hl!Failed
<1> HIDE DEF g
<1> QED BY <1>5, <1>7, HlCatchKeeps

LEMMA HlTroubleKeeps ==
    ASSUME NEW h, HlInv(h)
    PROVE  /\ HlInv([h EXCEPT !.trouble = @ + 1]) /\ HlInv([h EXCEPT !.commands = @ + 1])
           /\ [h EXCEPT !.trouble = @ + 1].client = h.client
           /\ [h EXCEPT !.trouble = @ + 1].cmd = h.cmd
<1>1. h \in HlState
  BY DEF HlInv
<1>2. h.trouble + 1 \in Nat /\ h.commands + 1 \in Nat
  BY <1>1, HlFields
<1>3. ASSUME NEW n \in Nat
      PROVE  [h EXCEPT !.trouble = n].client = h.client /\ [h EXCEPT !.trouble = n].cmd = h.cmd
  BY <1>1 DEF HlState
<1>4. /\ HlInv([h EXCEPT !.trouble = h.trouble + 1])
      /\ HlInv([h EXCEPT !.commands = h.commands + 1])
  BY <1>2, HlCountKeeps
<1>5. /\ [h EXCEPT !.trouble = h.trouble + 1].client = h.client
      /\ [h EXCEPT !.trouble = h.trouble + 1].cmd = h.cmd
  BY <1>2, <1>3
<1> QED BY <1>4, <1>5

LEMMA HlTroubleFails ==
    ASSUME NEW h, HlInv(h), NEW c \in Hl!Clients, Hl!Connection(h, c)
    PROVE  HlInv(Hl!Failed([h EXCEPT !.trouble = @ + 1], c))
<1> DEFINE k == [h EXCEPT !.trouble = @ + 1]
<1>1. HlInv(k) /\ k.client = h.client
  BY HlTroubleKeeps
<1>2. Hl!Connection(k, c)
  BY <1>1 DEF Hl!Connection
<1> HIDE DEF k
<1>3. HlInv(Hl!Failed(k, c))
  BY <1>1, <1>2, HlFailedKeeps
<1> QED BY <1>3 DEF k

(* The socket of a client opens, or it does not.                           *)
LEMMA HlConnectKeeps == ASSUME HlInv(hl), Hl!Connect PROVE HlInv(hl')
<1>1. PICK c \in Hl!Clients :
        /\ hl.client[c].conn = "connecting"
        /\ \/ hl' = [hl EXCEPT !.client[c].conn = "up",
                               !.cmd.at = IF hl.cmd.client = c /\ @ = "connect" THEN "ready" ELSE @]
           \/ hl' = Hl!Failed([hl EXCEPT !.trouble = @ + 1], c)
  BY DEF Hl!Connect
<1>2. CASE hl' = Hl!Failed([hl EXCEPT !.trouble = @ + 1], c)
  BY <1>1, <1>2, HlTroubleFails DEF Hl!Connection
<1>3. CASE hl' = [hl EXCEPT !.client[c].conn = "up",
                            !.cmd.at = IF hl.cmd.client = c /\ @ = "connect" THEN "ready" ELSE @]
  <2> DEFINE v == [hl.client[c] EXCEPT !.conn = "up"]
             g == HlWith(hl, c, v)
             next == IF hl.cmd.client = c /\ hl.cmd.at = "connect" THEN "ready" ELSE hl.cmd.at
  <2>1. hl \in HlState /\ hl.client \in [Hl!Clients -> HlClientRecord] /\ hl.client[c] \in HlClientRecord
    BY HlFields DEF HlInv
  <2>2. v \in HlClientRecord /\ v.conn = "up" /\ v.side = hl.client[c].side
        /\ v.opened = hl.client[c].opened /\ v.failed = hl.client[c].failed
    BY <2>1 DEF HlClientRecord
  <2>3. g = [hl EXCEPT !.client[c].conn = "up"]
    BY <2>1 DEF HlWith, HlState
  <2>4. v.side = "none"
    BY <1>1, <2>2 DEF HlInv, HlOpening
  <2> HIDE DEF v
  <2>5. HlInv(g)
    BY <1>1, <2>2, <2>4, HlWithKeeps
  <2>6. g.cmd = hl.cmd
    BY <2>1, <2>3 DEF HlState
  <2>7. hl' = [g EXCEPT !.cmd.at = next]
    BY <1>3, <2>1, <2>3 DEF HlState
  <2> HIDE DEF g
  <2>8. CASE hl.cmd.client = c /\ hl.cmd.at = "connect"
    <3>1. hl' = [g EXCEPT !.cmd.at = "ready"]
      BY <2>7, <2>8
    <3> QED BY <2>5, <2>6, <2>8, <3>1, HlReadyKeeps
  <2>9. CASE ~(hl.cmd.client = c /\ hl.cmd.at = "connect")
    <3>1. g.cmd \in HlCommand /\ g \in HlState
      BY <2>5, HlFields DEF HlInv
    <3>2. [g EXCEPT !.cmd.at = g.cmd.at] = g
      BY <3>1 DEF HlState, HlCommand
    <3> QED BY <2>5, <2>6, <2>7, <2>9, <3>2
  <2> QED BY <2>8, <2>9
<1> QED BY <1>1, <1>2, <1>3

\* a client learns of the sidecar without its socket or its stream changing
LEMMA HlLearnsKeeps ==
    ASSUME NEW h, HlInv(h), NEW c \in Hl!Clients, NEW r \in {"unseen", "starting", "ready", "failed"}
    PROVE  HlInv([h EXCEPT !.client[c].ready = r])
<1> DEFINE v == [h.client[c] EXCEPT !.ready = r]
<1>1. h \in HlState /\ h.client \in [Hl!Clients -> HlClientRecord] /\ h.client[c] \in HlClientRecord
  BY HlFields DEF HlInv
<1>2. v \in HlClientRecord /\ v.conn = h.client[c].conn /\ v.side = h.client[c].side
      /\ v.opened = h.client[c].opened /\ v.failed = h.client[c].failed
  BY <1>1 DEF HlClientRecord
<1>3. HlWith(h, c, v) = [h EXCEPT !.client[c].ready = r]
  BY <1>1 DEF HlWith, HlState
<1> HIDE DEF v
<1>4. HlInv(HlWith(h, c, v))
  BY <1>2, HlWithKeeps DEF HlInv, HlOpening
<1> QED BY <1>3, <1>4

LEMMA HlReadinessKeeps == ASSUME HlInv(hl), Hl!Readiness PROVE HlInv(hl')
<1>1. PICK c \in Hl!Clients, r \in {"starting", "ready", "failed", "mismatch"} :
        /\ hl.client[c].conn = "up"
        /\ LET h == [hl EXCEPT !.trouble = IF r \in {"failed", "mismatch"} THEN @ + 1 ELSE @] IN
           hl' = IF r = "mismatch" THEN Hl!Failed(h, c) ELSE [h EXCEPT !.client[c].ready = r]
  BY DEF Hl!Readiness
<1>2. [hl EXCEPT !.trouble = @] = hl
  BY DEF HlInv, HlState
<1>3. CASE r = "mismatch"
  BY <1>1, <1>3, HlTroubleFails DEF Hl!Connection
<1>4. CASE r = "failed"
  BY <1>1, <1>4, HlTroubleKeeps, HlLearnsKeeps
<1>5. CASE r \in {"starting", "ready"}
  BY <1>1, <1>2, <1>5, HlLearnsKeeps
<1> QED BY <1>3, <1>4, <1>5

\* a client whose stream moves on at the sidecar
LEMMA HlSideKeeps ==
    ASSUME NEW h, HlInv(h), NEW c \in Hl!Clients, h.client[c].side # "none",
           NEW s \in {"open", "told", "gone"}, s = "open" => h.client[c].side = "opening"
    PROVE  /\ HlInv([h EXCEPT !.client[c].side = s])
           /\ [h EXCEPT !.client[c].side = s].client[c].conn = h.client[c].conn
           /\ [h EXCEPT !.client[c].side = s].cmd = h.cmd
<1> DEFINE v == [h.client[c] EXCEPT !.side = s]
<1>1. h \in HlState /\ h.client \in [Hl!Clients -> HlClientRecord] /\ h.client[c] \in HlClientRecord
  BY HlFields DEF HlInv
<1>2. v \in HlClientRecord /\ v.conn = h.client[c].conn /\ v.side = s
      /\ v.opened = h.client[c].opened /\ v.failed = h.client[c].failed
  BY <1>1 DEF HlClientRecord
<1>3. HlWith(h, c, v) = [h EXCEPT !.client[c].side = s]
  BY <1>1 DEF HlWith, HlState
<1> HIDE DEF v
<1>4. HlInv(HlWith(h, c, v))
  BY <1>2, HlWithKeeps DEF HlInv, HlOpening
<1>5. HlWith(h, c, v).client[c].conn = h.client[c].conn /\ HlWith(h, c, v).cmd = h.cmd
  BY <1>1, <1>2 DEF HlWith, HlState
<1> QED BY <1>3, <1>4, <1>5

\* who waits for the connection is about the one engine there is
LEMMA HlEngine ==
    ASSUME NEW h, HlInv(h), h.cmd.at \in {"connect", "ready", "opened"}
    PROVE  /\ h \in HlState /\ h.audio \in Hl!Clients /\ h.cmd.client = h.audio /\ h.plan.run = Hl!None
           /\ ~h.live /\ h.capture = Hl!None /\ h.begun = Hl!None /\ h.open
           /\ h.orch = h.audio /\ h.cmd.stream \in Hl!Streams /\ h.cmd \in HlCommand
           /\ \A c \in Hl!Clients : Hl!Connection(h, c) => c = h.audio
<1>1. h.cmd.at \in HlAttempt
  BY DEF HlAttempt
<1>2. h \in HlState /\ h.cmd \in HlCommand
  BY HlFields DEF HlInv
<1>3. h.cmd.stream \in Hl!Streams
  BY <1>1, <1>2 DEF HlInv, HlPrepared, HlCommand, HlStream
<1>4. h.orch = h.audio
  BY DEF HlInv, HlOwned
<1> QED BY <1>1, <1>2, <1>3, <1>4, HlNothing

(* The stream is asked for, on a connection that is up.                    *)
LEMMA HlSendOpenKeeps ==
    ASSUME NEW h, HlInv(h), h.cmd.at = "ready" PROVE HlInv(Hl!SendOpen(h, h.cmd.client))
<1> DEFINE c == h.cmd.client
           v == [h.client[c] EXCEPT !.sent = TRUE, !.side = "opening"]
           m == [h.cmd EXCEPT !.at = "opened"]
           k == HlWith(h, c, v)
           g == [k EXCEPT !.cmd = m]
<1>1. /\ h \in HlState /\ h.audio \in Hl!Clients /\ c = h.audio /\ h.plan.run = Hl!None
      /\ ~h.live /\ h.open /\ h.orch = h.audio /\ h.cmd.stream \in Hl!Streams /\ h.cmd \in HlCommand
      /\ \A d \in Hl!Clients : Hl!Connection(h, d) => d = h.audio
  BY HlEngine
<1>2. CASE h.client[c].closing \/ h.client[c].conn # "up"
  BY <1>2, HlCatchKeeps DEF Hl!SendOpen
<1>3. CASE ~h.client[c].closing /\ h.client[c].conn = "up"
  <2>1. h.client \in [Hl!Clients -> HlClientRecord] /\ h.client[c] \in HlClientRecord
    BY <1>1, HlFields
  <2>2. v \in HlClientRecord /\ v.conn = "up" /\ v.side = "opening"
    BY <1>3, <2>1 DEF HlClientRecord
  <2>3. Hl!SendOpen(h, c) = g
    <3>1. Hl!SendOpen(h, c) = [h EXCEPT !.client[c].sent = TRUE, !.client[c].side = "opening",
                                     !.cmd.at = "opened"]
      BY <1>3 DEF Hl!SendOpen
    <3>2. Hl!SendOpen(h, c).client = [h.client EXCEPT ![c] = v]
      <4>1. Hl!SendOpen(h, c).client = [h.client EXCEPT ![c].sent = TRUE, ![c].side = "opening"]
        BY <1>1, <3>1 DEF HlState
      <4>2. c \in Hl!Clients
        BY <1>1
      <4> HIDE DEF c
      <4>3. h.client[c] \in HlClientRecord /\ c \in DOMAIN h.client
        BY <2>1, <4>2
      <4> QED BY <4>1, <4>3 DEF HlClientRecord
    <3>3. Hl!SendOpen(h, c) = [h EXCEPT !.client = Hl!SendOpen(h, c).client, !.cmd = m]
      BY <1>1, <2>1, <3>1 DEF HlState, HlCommand
    <3> QED BY <1>1, <3>2, <3>3 DEF HlWith, HlState
  <2>4. m \in HlCommand /\ m.at = "opened" /\ m.client = h.cmd.client /\ m.stream = h.cmd.stream
    BY <1>1 DEF HlCommand
  <2> HIDE DEF m, v
  <2>5. /\ k \in HlState /\ HlRest(k, h) /\ k.overlap = h.overlap /\ k.phase = h.phase
        /\ k.client = [h.client EXCEPT ![c] = v]
    BY <1>1, <2>2, HlWithIs
  <2>6. k.client[c] = v /\ \A d \in Hl!Clients : d # c => k.client[d] = h.client[d]
    BY <1>1, <2>1, <2>5
  <2> HIDE DEF k
  <2>7. /\ g \in HlState /\ g.cmd = m
        /\ g.open = h.open /\ g.made = h.made /\ g.client = k.client
        /\ g.audio = h.audio /\ g.orch = h.orch /\ g.context = h.context /\ g.capture = h.capture
        /\ g.begun = h.begun /\ g.live = h.live /\ g.rolling = h.rolling
        /\ g.plan = h.plan /\ g.stop = h.stop /\ g.stopped = h.stopped /\ g.pis = h.pis
        /\ g.overlap = h.overlap /\ g.phase = h.phase
    BY <2>4, <2>5 DEF HlState, HlRest
  <2> HIDE DEF g
  <2>8. \A d \in Hl!Clients : Hl!Connection(g, d) <=> Hl!Connection(h, d)
    <3>1. \A d \in Hl!Clients : g.client[d].conn = h.client[d].conn
      BY <1>3, <2>2, <2>6, <2>7
    <3> QED BY <3>1 DEF Hl!Connection
  <2>9. HlOwned(g)
    BY <1>1, <2>4, <2>7, <2>8 DEF HlInv, HlOwned, HlAttempt
  <2>10. HlOpening(g)
    <3>1. ASSUME NEW d \in Hl!Clients
          PROVE  /\ d > g.made => g.client[d].conn = "none"
                 /\ g.client[d].conn \in {"none", "connecting"} => g.client[d].side = "none"
      BY <1>3, <2>2, <2>6, <2>7 DEF HlInv, HlOpening
    <3> QED BY <2>4, <2>7, <3>1 DEF HlInv, HlOpening
  <2>11. HlPrepared(g)
    BY <1>1, <2>4, <2>7 DEF HlInv, HlPrepared, HlAttempt
  <2>12. HlStops(g)
    BY <2>7, <2>8 DEF HlInv, HlStops
  <2>13. HlPhased(g)
    BY <1>1, <2>4, <2>7 DEF HlInv, HlPhased
  <2> QED BY <2>3, <2>7, <2>9, <2>10, <2>11, <2>12, <2>13 DEF HlInv
<1> QED BY <1>2, <1>3

LEMMA HlWaitKeeps == ASSUME HlInv(hl), Hl!WaitUntilReady PROVE HlInv(hl')
<1> DEFINE c == hl.cmd.client
           n == IF hl.client[c].failed \/ hl.client[c].closing \/ hl.client[c].ready = "failed"
                THEN hl.trouble ELSE hl.trouble + 1
<1>1. /\ hl.cmd.at = "ready"
      /\ \/ hl' = [hl EXCEPT !.client[c].ready = "ready"]
         \/ hl' = Hl!Catch([hl EXCEPT !.trouble = n])
         \/ hl' = Hl!SendOpen(hl, c)
  BY DEF Hl!WaitUntilReady
<1>2. c \in Hl!Clients /\ hl \in HlState
  BY <1>1, HlEngine
<1>3. HlInv([hl EXCEPT !.trouble = n]) /\ [hl EXCEPT !.trouble = n].cmd = hl.cmd
  <2>1. n \in Nat
    BY <1>2, HlFields
  <2> HIDE DEF n
  <2>2. [hl EXCEPT !.trouble = n].cmd = hl.cmd
    BY <1>2, <2>1 DEF HlState
  <2> QED BY <2>1, <2>2, HlCountKeeps
<1> HIDE DEF n
<1>4. CASE hl' = [hl EXCEPT !.client[c].ready = "ready"]
  BY <1>2, <1>4, HlLearnsKeeps
<1>5. CASE hl' = Hl!Catch([hl EXCEPT !.trouble = n])
  BY <1>1, <1>3, <1>5, HlCatchKeeps
<1>6. CASE hl' = Hl!SendOpen(hl, c)
  BY <1>1, <1>6, HlSendOpenKeeps
<1> QED BY <1>1, <1>4, <1>5, <1>6

(* The sidecar opens the stream, or refuses a second one.                  *)
LEMMA HlSidecarKeeps == ASSUME HlInv(hl), Hl!SidecarOpens \/ Hl!SidecarCloses \/ Hl!SidecarFails PROVE HlInv(hl')
<1>1. CASE Hl!SidecarOpens
  <2>1. PICK c \in Hl!Clients :
          /\ hl.client[c].side = "opening"
          /\ LET h == [hl EXCEPT !.client[c].side = "gone"]
             IN  \/ hl' = h
                 \/ h.client[c].conn = "up" /\ hl' = Hl!Failed(h, c)
                 \/ hl' = [hl EXCEPT !.client[c].side = "open"]
    BY <1>1 DEF Hl!SidecarOpens
  <2>2. HlInv([hl EXCEPT !.client[c].side = "gone"]) /\ HlInv([hl EXCEPT !.client[c].side = "open"])
    BY <2>1, HlSideKeeps
  <2> QED BY <2>1, <2>2, HlFailedKeeps DEF Hl!Connection
<1>2. CASE Hl!SidecarCloses
  <2>1. PICK c \in Hl!Clients : /\ hl.client[c].side \in {"open", "told"}
                             /\ hl' = [hl EXCEPT !.client[c].side = "gone"]
    BY <1>2 DEF Hl!SidecarCloses
  <2> QED BY <2>1, HlSideKeeps
<1>3. CASE Hl!SidecarFails
  <2>1. PICK c \in Hl!Clients : hl.client[c].conn = "up"
                             /\ hl' = Hl!Failed([hl EXCEPT !.trouble = @ + 1], c)
    BY <1>3 DEF Hl!SidecarFails
  <2> QED BY <2>1, HlTroubleFails DEF Hl!Connection
<1> QED BY <1>1, <1>2, <1>3

(* The stream is open: the session is live, unless it was stopped.         *)
LEMMA HlOpenedKeeps ==
    ASSUME NEW h, HlInv(h), h.cmd.at = "opened", NEW c \in Hl!Clients, Hl!Connection(h, c),
           h.client[c].side = "told"
    PROVE  HlInv(Hl!Opened(h, c))
<1> DEFINE v == [h.client[c] EXCEPT !.opened = TRUE]
           g == HlWith(h, c, v)
           k == [g EXCEPT !.capture = h.cmd.stream, !.begun = h.cmd.stream,
                          !.live = TRUE, !.cmd = Hl!Idle]
<1>1. /\ h \in HlState /\ h.audio \in Hl!Clients /\ h.cmd.client = h.audio /\ h.plan.run = Hl!None
      /\ ~h.live /\ h.open /\ h.orch = h.audio /\ h.cmd.stream \in Hl!Streams /\ h.cmd \in HlCommand
      /\ c = h.audio
  BY HlEngine
<1>2. h.client \in [Hl!Clients -> HlClientRecord] /\ h.client[c] \in HlClientRecord
  BY <1>1, HlFields
<1>3. v \in HlClientRecord /\ v.conn = h.client[c].conn /\ v.side = h.client[c].side
      /\ v.opened /\ v.failed = h.client[c].failed
  BY <1>2 DEF HlClientRecord
<1>4. g = [h EXCEPT !.client[c].opened = TRUE]
  BY <1>2 DEF HlWith, HlState
<1> HIDE DEF v
<1>5. HlInv(g)
  BY <1>3, HlWithKeeps DEF HlInv, HlOpening
<1>6. HlRest(g, h) /\ g.client = [h.client EXCEPT ![c] = v] /\ g.overlap = h.overlap
  BY <1>1, <1>3, HlWithIs
<1>7. g.client[c] = v
  BY <1>2, <1>6
<1>8. Hl!Opened(h, c) = IF g.stopped THEN [Hl!CloseClient(g, c) EXCEPT !.cmd.at = "abandon"]
                     ELSE Hl!Tell(k, "live")
  BY <1>4 DEF Hl!Opened
<1> HIDE DEF g
<1>9. CASE g.stopped
  <2> DEFINE w == Hl!CloseClient(g, c)
  <2>1. g.audio = c /\ g.cmd.at = "opened" /\ Hl!Connection(g, c)
    BY <1>1, <1>3, <1>6, <1>7 DEF HlRest, Hl!Connection
  <2>2. HlInv([w EXCEPT !.cmd = [w.cmd EXCEPT !.at = "abandon"]])
    BY <1>5, <1>9, <2>1, HlCloseKeeps
  <2>3. w \in HlState
    BY <1>5, HlCloseIs DEF HlInv
  <2> HIDE DEF w
  <2>4. [w EXCEPT !.cmd.at = "abandon"] = [w EXCEPT !.cmd = [w.cmd EXCEPT !.at = "abandon"]]
    BY <2>3 DEF HlState
  <2> QED BY <1>8, <1>9, <2>2, <2>4 DEF w
<1>10. CASE ~g.stopped
  <2>1. Hl!Idle \in HlCommand /\ Hl!Idle.at = "idle"
    BY DEF Hl!Idle, HlCommand, HlMaybe, HlStream
  <2>2. h.cmd.stream \in HlStream /\ h.cmd.stream # Hl!None
    BY <1>1, HlNone DEF HlStream
  <2>3. g \in HlState
    BY <1>5 DEF HlInv
  <2>4. /\ k \in HlState /\ k.cmd = Hl!Idle /\ k.capture = h.cmd.stream /\ k.begun = h.cmd.stream
        /\ k.live = TRUE /\ k.client = g.client /\ k.open = g.open /\ k.made = g.made
        /\ k.audio = g.audio /\ k.orch = g.orch /\ k.context = g.context
        /\ k.rolling = g.rolling /\ k.plan = g.plan /\ k.stop = g.stop /\ k.stopped = g.stopped
        /\ k.pis = g.pis /\ k.overlap = g.overlap
    BY <2>1, <2>2, <2>3 DEF HlState
  <2>5. /\ g.audio = c /\ g.orch = c /\ c # Hl!None /\ g.open /\ g.plan.run = Hl!None
        /\ g.cmd.at = "opened" /\ g.client[g.audio].opened
    BY <1>1, <1>3, <1>6, <1>7, HlNone DEF HlRest
  <2> HIDE DEF k
  <2>6. HlOwned(k)
    BY <1>5, <2>1, <2>2, <2>4, <2>5 DEF HlInv, HlOwned, HlAttempt, Hl!Connection
  <2>7. HlOpening(k)
    <3>1. ASSUME NEW d \in Hl!Clients
          PROVE  ~(g.client[d].side \in {"opening", "open"} /\ g.client[d].conn = "up")
      <4>1. CASE d = c
        BY <1>3, <1>7, <4>1
      <4>2. CASE d # c
        <5>1. ~Hl!Connection(g, d)
          BY <1>5, <2>5, <4>2 DEF HlInv, HlOwned
        <5> QED BY <5>1 DEF Hl!Connection
      <4> QED BY <4>1, <4>2
    <3> QED BY <1>5, <2>1, <2>4, <3>1 DEF HlInv, HlOpening
  <2>8. HlPrepared(k)
    BY <1>5, <2>1, <2>4, <2>5 DEF HlInv, HlPrepared, HlAttempt
  <2>9. HlStops(k)
    BY <1>5, <2>4 DEF HlInv, HlStops, Hl!Connection
  <2>10. HlCore(k)
    BY <2>4, <2>6, <2>7, <2>8, <2>9 DEF HlCore
  <2> DEFINE t == Hl!Tell(k, "live")
  <2>11. t \in HlState /\ HlSame(t, k) /\ t.phase = "live"
    BY <1>10, <2>4, HlTellIs DEF HlPhases
  <2> HIDE DEF t
  <2>12. HlCore(t)
    BY <2>10, <2>11, HlSameKeeps, HlCoreBase
  <2>13. HlPhased(t)
    BY <2>4, <2>5, <2>11 DEF HlSame, HlRest, HlPhased
  <2>14. Hl!Opened(h, c) = t
    BY <1>8, <1>10 DEF t, k
  <2> QED BY <2>12, <2>13, <2>14 DEF HlCore, HlInv
<1> QED BY <1>9, <1>10

LEMMA HlStreamOpenedKeeps == ASSUME HlInv(hl), Hl!StreamOpened PROVE HlInv(hl')
<1>1. PICK c \in Hl!Clients :
        /\ hl.client[c].side = "open"
        /\ LET h == [hl EXCEPT !.client[c].side = "told"] IN
           hl' = IF h.client[c].closing \/ h.client[c].conn # "up" THEN h ELSE Hl!Opened(h, c)
  BY DEF Hl!StreamOpened
<1> DEFINE h == [hl EXCEPT !.client[c].side = "told"]
<1>2. HlInv(h) /\ h.client[c].conn = hl.client[c].conn /\ h.cmd = hl.cmd
  BY <1>1, HlSideKeeps
<1>3. h.client[c].side = "told"
  <2>1. hl \in HlState /\ hl.client \in [Hl!Clients -> HlClientRecord] /\ hl.client[c] \in HlClientRecord
    BY HlFields DEF HlInv
  <2> QED BY <2>1 DEF HlState, HlClientRecord
<1> HIDE DEF h
<1>4. hl' = IF h.client[c].closing \/ h.client[c].conn # "up" THEN h ELSE Hl!Opened(h, c)
  BY <1>1 DEF h
<1>5. CASE h.client[c].conn = "up"
  <2>1. h.cmd.at = "opened" /\ Hl!Connection(h, c)
    BY <1>1, <1>2, <1>5 DEF HlInv, HlOpening, Hl!Connection
  <2> QED BY <1>2, <1>3, <1>4, <2>1, HlOpenedKeeps
<1>6. CASE h.client[c].conn # "up"
  BY <1>2, <1>4, <1>6
<1> QED BY <1>5, <1>6

(* The end of a rollback tells the browser what the session is by then.    *)
LEMMA HlRolledBackKeeps ==
    ASSUME NEW h, HlCore(h)
    PROVE  /\ HlInv(Hl!RolledBack(h))
           /\ Hl!RolledBack(h).cmd = h.cmd /\ Hl!RolledBack(h).client = h.client
           /\ Hl!RolledBack(h).audio = h.audio /\ Hl!RolledBack(h).stopped = h.stopped
<1> DEFINE o == h.overlap \/ (~h.stopped /\ (h.orch # Hl!None \/ h.plan.run # Hl!None))
           k == [h EXCEPT !.overlap = o]
           g == Hl!Tell(k, "prelive")
<1>1. h \in HlState /\ h.overlap \in BOOLEAN
  BY HlFields DEF HlCore
<1>2. o \in BOOLEAN
  OBVIOUS
<1>3. Hl!RolledBack(h) = g
  BY DEF Hl!RolledBack
<1>4. ~o => (h.stopped \/ (h.orch = Hl!None /\ h.plan.run = Hl!None))
  OBVIOUS
<1> HIDE DEF o
<1>5. k \in HlState /\ HlSame(k, h) /\ k.overlap = o
  BY <1>1, <1>2 DEF HlState, HlSame, HlRest
<1> HIDE DEF k
<1>6. g \in HlState /\ HlSame(g, k) /\ g.overlap = o /\ (~k.stopped => g.phase = "prelive")
  BY <1>5, HlTellIs DEF HlPhases
<1> HIDE DEF g
<1>7. HlCore(g)
  BY <1>5, <1>6, HlSameKeeps, HlCoreBase
<1>8. /\ g.stopped = h.stopped /\ k.stopped = h.stopped /\ g.orch = h.orch /\ g.plan = h.plan
      /\ g.cmd = h.cmd /\ g.client = h.client /\ g.audio = h.audio
  BY <1>5, <1>6 DEF HlSame, HlRest
<1>9. HlPhased(g)
  BY <1>4, <1>6, <1>7, <1>8 DEF HlPhased, HlCore, HlOwned
<1> QED BY <1>3, <1>7, <1>8, <1>9 DEF HlCore, HlInv

(* The session lets go of its engine.                                      *)
LEMMA HlRollbackKeeps ==
    ASSUME NEW h, HlInv(h), h.cmd.at = "idle", ~h.stopped, h.open, NEW waits \in BOOLEAN
    PROVE  HlInv(Hl!Rollback(h, waits))
<1> DEFINE a == h.audio
           told == IF h.orch # Hl!None THEN Hl!Tell(h, "stopped") ELSE h
           g == [told EXCEPT !.capture = Hl!None, !.begun = Hl!None, !.live = FALSE,
                             !.orch = Hl!None, !.audio = Hl!None]
<1>1. h \in HlState /\ HlCore(h)
  BY DEF HlInv, HlCore
<1>2. told \in HlState /\ HlSame(told, h) /\ told.overlap = h.overlap
  BY <1>1, HlTellIs DEF HlPhases, HlSame, HlRest
<1>3. /\ told.open = h.open /\ told.made = h.made
      /\ told.client = h.client /\ told.context = h.context /\ told.cmd = h.cmd
      /\ told.rolling = h.rolling /\ told.plan = h.plan /\ told.stop = h.stop
      /\ told.stopped = h.stopped /\ told.pis = h.pis
  BY <1>2 DEF HlSame, HlRest
<1> HIDE DEF told
<1>4. /\ g \in HlState
      /\ g.open = h.open /\ g.made = h.made /\ g.client = h.client /\ g.context = h.context
      /\ g.cmd = h.cmd /\ g.rolling = h.rolling /\ g.plan = h.plan /\ g.stop = h.stop
      /\ g.stopped = h.stopped /\ g.pis = h.pis
      /\ g.capture = Hl!None /\ g.begun = Hl!None /\ g.live = FALSE /\ g.orch = Hl!None /\ g.audio = Hl!None
  <2>1. Hl!None \in HlMaybe /\ Hl!None \in HlStream
    BY DEF HlMaybe, HlStream
  <2> QED BY <1>2, <1>3, <2>1 DEF HlState
<1>5. Hl!Rollback(h, waits) =
        IF Hl!ClosesAtOnce(h, a) THEN Hl!RolledBack(g)
        ELSE [Hl!CloseClient(g, a) EXCEPT
                 !.rolling = @ \cup {a},
                 !.cmd = IF waits THEN [at |-> "rollback", client |-> a, stream |-> Hl!None] ELSE @]
  BY Zenon DEF Hl!Rollback, told
<1> HIDE DEF g
<1>6. CASE Hl!ClosesAtOnce(h, a)
  <2>1. \A c \in Hl!Clients : ~Hl!Connection(h, c)
    BY <1>6, HlNone DEF Hl!ClosesAtOnce, HlInv, HlOwned
  <2>2. HlOwned(g)
    BY <1>1, <1>4, <2>1 DEF HlCore, HlOwned, HlAttempt, Hl!Connection
  <2>3. HlOpening(g)
    BY <1>1, <1>4 DEF HlCore, HlOpening
  <2>4. HlPrepared(g)
    BY <1>1, <1>4 DEF HlCore, HlPrepared, HlAttempt
  <2>5. HlStops(g)
    BY <1>1, <1>4 DEF HlCore, HlStops, Hl!Connection
  <2>6. HlCore(g)
    BY <1>4, <2>2, <2>3, <2>4, <2>5 DEF HlCore
  <2> QED BY <1>5, <1>6, <2>6, HlRolledBackKeeps
<1>7. CASE ~Hl!ClosesAtOnce(h, a)
  <2> DEFINE k == Hl!CloseClient(g, a)
             m == IF waits THEN [at |-> "rollback", client |-> a, stream |-> Hl!None] ELSE h.cmd
             q == [k EXCEPT !.rolling = h.rolling \cup {a}, !.cmd = m]
  <2>1. a \in Hl!Clients /\ Hl!Connection(h, a) /\ h.plan.run = Hl!None
    <3>1. a # Hl!None /\ Hl!Connection(h, a)
      BY <1>7 DEF Hl!ClosesAtOnce
    <3>2. a \in Hl!Clients
      BY <1>1, <3>1, HlFields DEF HlMaybe
    <3>3. h.live
      BY <3>1 DEF HlInv, HlOwned, HlAttempt
    <3>4. h.orch # Hl!None
      BY <3>3 DEF HlInv, HlOwned
    <3> QED BY <3>1, <3>2, <3>4 DEF HlInv, HlPrepared
  <2>2. Hl!Connection(g, a)
    BY <1>4, <2>1 DEF Hl!Connection
  <2>3. /\ k \in HlState /\ HlRest(k, g)
        /\ k.client[a].conn = "closing" /\ k.client[a].side = h.client[a].side
        /\ \A d \in Hl!Clients : d # a => k.client[d] = h.client[d]
    BY <1>4, <2>1, <2>2, HlCloseIs
  <2> HIDE DEF k
  <2>4. k.rolling = h.rolling /\ k.cmd = h.cmd
    BY <1>4, <2>3 DEF HlRest
  <2>5. Hl!Rollback(h, waits) = q
    BY <1>5, <1>7, <2>4, Zenon DEF k
  <2>6. m \in HlCommand /\ m.at \in {"idle", "rollback"} /\ (m.at = "rollback" => m.client = a)
    BY <1>1, <2>1, HlFields DEF HlCommand, HlMaybe, HlStream
  <2> HIDE DEF m
  <2>7. h.rolling \cup {a} \in SUBSET Hl!Clients
    BY <1>1, <2>1, HlFields
  <2>8. /\ q \in HlState /\ q.cmd = m /\ q.rolling = h.rolling \cup {a}
        /\ q.client = k.client /\ q.open = g.open /\ q.made = g.made /\ q.context = g.context
        /\ q.plan = g.plan /\ q.stop = g.stop /\ q.stopped = g.stopped /\ q.pis = g.pis
        /\ q.capture = g.capture /\ q.begun = g.begun /\ q.live = g.live
        /\ q.orch = g.orch /\ q.audio = g.audio
    BY <2>3, <2>6, <2>7 DEF HlState, HlRest
  <2> HIDE DEF q
  <2>9. \A c \in Hl!Clients : ~Hl!Connection(q, c)
    BY <2>3, <2>8 DEF HlInv, HlOwned, Hl!Connection
  <2>10. HlOwned(q)
    BY <1>4, <2>6, <2>8, <2>9 DEF HlOwned, HlAttempt
  <2>11. HlOpening(q)
    <3>1. ASSUME NEW c \in Hl!Clients
          PROVE  /\ c > q.made => q.client[c].conn = "none"
                 /\ q.client[c].conn \in {"none", "connecting"} => q.client[c].side = "none"
                 /\ q.client[c].conn # "up"
      <4>1. c > q.made => c # a
        BY <1>4, <2>1, <2>8 DEF HlInv, HlOpening, Hl!Connection
      <4>2. q.client[c].conn # "up"
        BY <2>9 DEF Hl!Connection
      <4> QED BY <1>4, <2>3, <2>8, <4>1, <4>2 DEF HlInv, HlOpening
    <3> QED BY <2>6, <2>8, <3>1 DEF HlOpening
  <2>12. HlPrepared(q)
    BY <1>4, <2>6, <2>8 DEF HlInv, HlPrepared, HlAttempt
  <2>13. HlStops(q)
    BY <1>4, <2>8, <2>9 DEF HlInv, HlStops
  <2>14. HlPhased(q)
    BY <1>4, <2>1, <2>8 DEF HlPhased
  <2> QED BY <2>5, <2>8, <2>10, <2>11, <2>12, <2>13, <2>14 DEF HlInv
<1> QED BY <1>6, <1>7

(* The conversation is over: the engine is closed, then the children.      *)
LEMMA HlStopEngineKeeps ==
    ASSUME NEW h, HlBase(h), h.stopped, h.plan.run = Hl!None
    PROVE  HlInv(Hl!StopEngine(h))
<1>1. h \in HlState
  BY DEF HlBase
<1>2. ASSUME NEW k \in HlState, HlRest(k, h), NEW s \in {"pis", "audio"},
             \A c \in Hl!Clients : ~Hl!Connection(k, c),
             \A c \in Hl!Clients : /\ k.client[c].conn = "none" <=> h.client[c].conn = "none"
                                /\ k.client[c].side = h.client[c].side
      PROVE  HlInv([k EXCEPT !.stop = s])
  <2> DEFINE g == [k EXCEPT !.stop = s]
  <2>1. /\ g \in HlState /\ g.stop = s /\ g.client = k.client
        /\ g.open = h.open /\ g.made = h.made
        /\ g.audio = h.audio /\ g.orch = h.orch /\ g.context = h.context /\ g.capture = h.capture
        /\ g.begun = h.begun /\ g.live = h.live /\ g.cmd = h.cmd /\ g.rolling = h.rolling
        /\ g.plan = h.plan /\ g.stopped = h.stopped /\ g.pis = h.pis
    BY <1>2 DEF HlState, HlRest
  <2> HIDE DEF g
  <2>2. \A c \in Hl!Clients : ~Hl!Connection(g, c)
    BY <1>2, <2>1 DEF Hl!Connection
  <2>3. HlOwned(g)
    BY <2>1, <2>2 DEF HlBase, HlOwned
  <2>4. HlOpening(g)
    <3>1. ASSUME NEW c \in Hl!Clients
          PROVE  /\ c > g.made => g.client[c].conn = "none"
                 /\ g.client[c].conn \in {"none", "connecting"} => g.client[c].side = "none"
                 /\ g.client[c].conn # "up"
      BY <1>2, <2>1, <2>2 DEF HlBase, HlOpening, Hl!Connection
    <3> QED BY <2>1, <3>1 DEF HlBase, HlOpening
  <2>5. HlPrepared(g)
    BY <2>1 DEF HlBase, HlPrepared
  <2>6. HlStops(g) /\ HlPhased(g)
    BY <2>1, <2>2 DEF HlStops, HlPhased
  <2> QED BY <2>1, <2>3, <2>4, <2>5, <2>6 DEF HlInv, g
<1>3. CASE Hl!ClosesAtOnce(h, h.audio)
  <2>1. \A c \in Hl!Clients : ~Hl!Connection(h, c)
    BY <1>3, HlNone DEF Hl!ClosesAtOnce, HlBase, HlOwned
  <2>2. HlInv([h EXCEPT !.stop = "pis"])
    BY <1>1, <1>2, <2>1 DEF HlRest
  <2> QED BY <1>3, <2>2 DEF Hl!StopEngine
<1>4. CASE ~Hl!ClosesAtOnce(h, h.audio)
  <2> DEFINE k == Hl!CloseClient(h, h.audio)
             g == [k EXCEPT !.stop = "audio"]
  <2>1. h.audio \in Hl!Clients /\ Hl!Connection(h, h.audio)
    BY <1>1, <1>4, HlFields DEF Hl!ClosesAtOnce, HlMaybe
  <2>2. /\ k \in HlState /\ HlRest(k, h)
        /\ k.client[h.audio].conn = "closing" /\ k.client[h.audio].side = h.client[h.audio].side
        /\ \A d \in Hl!Clients : d # h.audio => k.client[d] = h.client[d]
    BY <1>1, <2>1, HlCloseIs
  <2>3. Hl!StopEngine(h) = IF h.cmd.at = "opened" THEN Hl!Catch(g) ELSE g
    BY <1>4 DEF Hl!StopEngine
  <2> HIDE DEF k
  <2>4. \A c \in Hl!Clients : ~Hl!Connection(k, c)
    BY <2>2 DEF HlBase, HlOwned, Hl!Connection
  <2>5. \A c \in Hl!Clients : /\ k.client[c].conn = "none" <=> h.client[c].conn = "none"
                           /\ k.client[c].side = h.client[c].side
    BY <2>1, <2>2 DEF Hl!Connection
  <2>6. HlInv(g)
    BY <1>2, <2>2, <2>4, <2>5
  <2>7. g.cmd = h.cmd
    BY <2>2 DEF HlState, HlRest
  <2> HIDE DEF g
  <2> QED BY <2>3, <2>6, <2>7, HlCatchKeeps
<1> QED BY <1>3, <1>4

LEMMA HlStopKeeps == ASSUME HlInv(hl), Hl!SessionStop PROVE HlInv(hl')
<1> DEFINE p == [hl.plan EXCEPT !.aborted = IF hl.plan.run # Hl!None THEN TRUE ELSE @]
           k == [hl EXCEPT !.stopped = TRUE, !.plan = p]
           g == [k EXCEPT !.stop = "planning"]
<1>1. hl \in HlState /\ hl.plan \in HlPlan
  BY HlFields DEF HlInv
<1>2. /\ p \in HlPlan /\ p.run = hl.plan.run /\ p.notes = hl.plan.notes /\ p.told = hl.plan.told
  BY <1>1 DEF HlPlan
<1>3. hl' = IF k.plan.run # Hl!None THEN g ELSE Hl!StopEngine(k)
  BY <1>1 DEF Hl!SessionStop, Hl!Stop, HlState
<1> HIDE DEF p
<1>4. /\ k \in HlState /\ k.plan = p /\ k.stopped = TRUE
      /\ k.open = hl.open /\ k.made = hl.made /\ k.client = hl.client
      /\ k.audio = hl.audio /\ k.orch = hl.orch /\ k.context = hl.context
      /\ k.capture = hl.capture /\ k.begun = hl.begun /\ k.live = hl.live /\ k.cmd = hl.cmd
      /\ k.rolling = hl.rolling /\ k.pis = hl.pis
  BY <1>1, <1>2 DEF HlState
<1> HIDE DEF k
<1>5. HlOwned(k)
  BY <1>2, <1>4 DEF HlInv, HlOwned, HlAttempt, Hl!Connection
<1>6. HlOpening(k)
  BY <1>4 DEF HlInv, HlOpening
<1>7. HlPrepared(k)
  BY <1>2, <1>4 DEF HlInv, HlPrepared, HlAttempt
<1>8. HlBase(k)
  BY <1>4, <1>5, <1>6, <1>7 DEF HlBase
<1>9. CASE k.plan.run = Hl!None
  BY <1>3, <1>4, <1>8, <1>9, HlStopEngineKeeps
<1>10. CASE k.plan.run # Hl!None
  <2>1. g \in HlState /\ g.client = k.client
        /\ g.stop = "planning" /\ g.stopped = TRUE
        /\ g.open = k.open /\ g.made = k.made
        /\ g.audio = k.audio /\ g.orch = k.orch /\ g.context = k.context
        /\ g.capture = k.capture /\ g.begun = k.begun /\ g.live = k.live /\ g.cmd = k.cmd
        /\ g.rolling = k.rolling /\ g.pis = k.pis /\ g.plan = k.plan
    BY <1>4 DEF HlState, HlRest
  <2>2. hl' = g
    BY <1>3, <1>10
  <2> HIDE DEF g
  <2>3. HlOwned(g)
    BY <1>5, <2>1 DEF HlOwned, Hl!Connection
  <2>4. HlOpening(g)
    BY <1>6, <2>1 DEF HlOpening
  <2>5. HlPrepared(g)
    BY <1>7, <2>1 DEF HlPrepared
  <2>6. HlStops(g) /\ HlPhased(g)
    BY <2>1 DEF HlStops, HlPhased
  <2> QED BY <2>1, <2>2, <2>3, <2>4, <2>5, <2>6 DEF HlInv
<1> QED BY <1>9, <1>10

LEMMA HlPisKeeps == ASSUME HlInv(hl), Hl!PisDown PROVE HlInv(hl')
<1> DEFINE n == IF hl.pis = "alive" THEN "down" ELSE hl.pis
           g == [hl EXCEPT !.stop = "done", !.pis = n]
<1>1. hl \in HlState /\ hl' = g /\ hl.stop = "pis"
  BY DEF HlInv, Hl!PisDown
<1>2. n \in {"none", "alive", "down"} /\ n # "alive"
  BY <1>1 DEF HlState
<1> HIDE DEF n
<1>3. /\ g \in HlState /\ g.stop = "done" /\ g.pis = n
      /\ g.open = hl.open /\ g.made = hl.made /\ g.client = hl.client
      /\ g.audio = hl.audio /\ g.orch = hl.orch /\ g.context = hl.context
      /\ g.capture = hl.capture /\ g.begun = hl.begun /\ g.live = hl.live /\ g.cmd = hl.cmd
      /\ g.rolling = hl.rolling /\ g.plan = hl.plan /\ g.stopped = hl.stopped
  BY <1>1, <1>2 DEF HlState
<1> HIDE DEF g
<1>4. HlOwned(g)
  BY <1>3 DEF HlInv, HlOwned, HlAttempt, Hl!Connection
<1>5. HlOpening(g)
  BY <1>3 DEF HlInv, HlOpening
<1>6. HlPrepared(g)
  BY <1>3 DEF HlInv, HlPrepared, HlAttempt
<1>7. HlStops(g)
  BY <1>1, <1>2, <1>3 DEF HlInv, HlStops, Hl!Connection
<1>8. HlPhased(g)
  BY <1>1, <1>3, <1>7 DEF HlInv, HlStops, HlPhased
<1> QED BY <1>1, <1>3, <1>4, <1>5, <1>6, <1>7, <1>8 DEF HlInv

(* The socket of a closed client is gone.                                  *)
LEMMA HlDownKeeps ==
    ASSUME NEW h, HlInv(h), NEW c \in Hl!Clients, h.client[c].conn = "closing"
    PROVE  LET g == [h EXCEPT !.client[c].conn = "down"]
           IN  /\ HlInv(g) /\ g.cmd = h.cmd /\ g.audio = h.audio /\ g.client[c].conn = "down"
               /\ g.stop = h.stop
<1> DEFINE v == [h.client[c] EXCEPT !.conn = "down"]
<1>1. h \in HlState /\ h.client \in [Hl!Clients -> HlClientRecord] /\ h.client[c] \in HlClientRecord
  BY HlFields DEF HlInv
<1>2. v \in HlClientRecord /\ v.conn = "down" /\ v.side = h.client[c].side
      /\ v.opened = h.client[c].opened /\ v.failed = h.client[c].failed
  BY <1>1 DEF HlClientRecord
<1>3. HlWith(h, c, v) = [h EXCEPT !.client[c].conn = "down"]
  BY <1>1 DEF HlWith, HlState
<1> HIDE DEF v
<1>4. HlInv(HlWith(h, c, v))
  BY <1>2, HlWithKeeps
<1>5. /\ HlWith(h, c, v).cmd = h.cmd /\ HlWith(h, c, v).audio = h.audio
      /\ HlWith(h, c, v).client[c].conn = "down" /\ HlWith(h, c, v).stop = h.stop
  BY <1>1, <1>2 DEF HlWith, HlState
<1> QED BY <1>3, <1>4, <1>5

LEMMA HlPisNext ==
    ASSUME NEW h, HlInv(h), h.stop = "audio"
    PROVE  LET g == [h EXCEPT !.stop = "pis"]
           IN  /\ HlInv(g) /\ g.cmd = h.cmd /\ g.audio = h.audio /\ g.client = h.client
<1> DEFINE g == [h EXCEPT !.stop = "pis"]
<1>1. h \in HlState
  BY DEF HlInv
<1>2. /\ g \in HlState /\ g.stop = "pis" /\ g.pis = h.pis
      /\ g.open = h.open /\ g.made = h.made /\ g.client = h.client
      /\ g.audio = h.audio /\ g.orch = h.orch /\ g.context = h.context
      /\ g.capture = h.capture /\ g.begun = h.begun /\ g.live = h.live /\ g.cmd = h.cmd
      /\ g.rolling = h.rolling /\ g.plan = h.plan /\ g.stopped = h.stopped
  BY <1>1 DEF HlState
<1> HIDE DEF g
<1>3. HlOwned(g)
  BY <1>2 DEF HlInv, HlOwned, HlAttempt, Hl!Connection
<1>4. HlOpening(g)
  BY <1>2 DEF HlInv, HlOpening
<1>5. HlPrepared(g)
  BY <1>2 DEF HlInv, HlPrepared, HlAttempt
<1>6. HlStops(g)
  BY <1>2 DEF HlInv, HlStops, Hl!Connection
<1>7. HlPhased(g)
  BY <1>2, <1>6 DEF HlStops, HlPhased
<1> QED BY <1>2, <1>3, <1>4, <1>5, <1>6, <1>7 DEF HlInv, g

\* a rollback ends whose command is another, or none
LEMMA HlRolls ==
    ASSUME NEW h, HlInv(h), NEW c \in h.rolling, NEW m \in {h.cmd, Hl!Idle},
           m = Hl!Idle => h.cmd.at \in {"rollback", "idle"},
           h.cmd.at = "rollback" /\ h.cmd.client = c => m = Hl!Idle
    PROVE  LET k == [h EXCEPT !.rolling = @ \ {c}, !.cmd = m]
           IN  /\ HlInv(Hl!RolledBack(k)) /\ Hl!RolledBack(k).cmd = m
               /\ Hl!RolledBack(k).client = h.client /\ Hl!RolledBack(k).audio = h.audio
<1> DEFINE k == [h EXCEPT !.rolling = h.rolling \ {c}, !.cmd = m]
<1>1. h \in HlState /\ h.cmd \in HlCommand
  BY HlFields DEF HlInv
<1>2. m \in HlCommand /\ (m = h.cmd \/ m.at = "idle")
  BY <1>1 DEF Hl!Idle, HlCommand, HlMaybe, HlStream
<1>3. h.rolling \ {c} \in SUBSET Hl!Clients
  BY <1>1, HlFields
<1>4. /\ k \in HlState /\ k.cmd = m /\ k.rolling = h.rolling \ {c}
      /\ k.open = h.open /\ k.made = h.made /\ k.client = h.client
      /\ k.audio = h.audio /\ k.orch = h.orch /\ k.context = h.context
      /\ k.capture = h.capture /\ k.begun = h.begun /\ k.live = h.live
      /\ k.plan = h.plan /\ k.stop = h.stop /\ k.stopped = h.stopped /\ k.pis = h.pis
  BY <1>1, <1>2, <1>3 DEF HlState
<1> HIDE DEF k
<1>5. m.at = "idle" \/ (m = h.cmd /\ ~(h.cmd.at = "rollback" /\ h.cmd.client = c))
  BY <1>2 DEF Hl!Idle
<1>6. HlOwned(k)
  BY <1>2, <1>4 DEF HlInv, HlOwned, HlAttempt, Hl!Connection, Hl!Idle
<1>7. HlOpening(k)
  BY <1>4, <1>5, <1>2 DEF HlInv, HlOpening, Hl!Idle
<1>8. HlPrepared(k)
  BY <1>2, <1>4 DEF HlInv, HlPrepared, HlAttempt
<1>9. HlStops(k)
  BY <1>4 DEF HlInv, HlStops, Hl!Connection
<1>10. HlCore(k)
  BY <1>4, <1>6, <1>7, <1>8, <1>9 DEF HlCore
<1> QED BY <1>4, <1>10, HlRolledBackKeeps DEF k

LEMMA HlAbandonKeeps ==
    ASSUME NEW h, HlInv(h), h.cmd.at = "abandon", ~Hl!Connection(h, h.audio)
    PROVE  HlInv([h EXCEPT !.cmd = Hl!Idle, !.audio = Hl!None, !.orch = Hl!None])
<1> DEFINE k == [h EXCEPT !.cmd = Hl!Idle, !.audio = Hl!None, !.orch = Hl!None]
<1>1. /\ h \in HlState /\ h.audio \in Hl!Clients /\ h.cmd.client = h.audio /\ h.plan.run = Hl!None
      /\ ~h.live /\ h.capture = Hl!None /\ h.begun = Hl!None /\ h.open
      /\ \A c \in Hl!Clients : ~Hl!Connection(h, c)
      /\ h.stopped
  <2>1. h.cmd.at \in HlAttempt /\ h.stopped
    BY DEF HlAttempt, HlInv, HlOpening
  <2> QED BY <2>1, HlNothing
<1>2. Hl!Idle \in HlCommand /\ Hl!Idle.at = "idle"
  BY DEF Hl!Idle, HlCommand, HlMaybe, HlStream
<1>3. /\ k \in HlState
      /\ k.audio = Hl!None /\ k.orch = Hl!None /\ k.cmd = Hl!Idle
      /\ k.open = h.open /\ k.made = h.made /\ k.client = h.client
      /\ k.context = h.context /\ k.capture = h.capture
      /\ k.begun = h.begun /\ k.live = h.live /\ k.rolling = h.rolling
      /\ k.plan = h.plan /\ k.stop = h.stop /\ k.stopped = h.stopped /\ k.pis = h.pis
  BY <1>1, <1>2 DEF HlState, HlMaybe
<1> HIDE DEF k
<1>4. HlOwned(k)
  BY <1>1, <1>2, <1>3 DEF HlInv, HlOwned, HlAttempt, Hl!Connection
<1>5. HlOpening(k)
  <2>1. \A c \in Hl!Clients : h.client[c].conn # "up"
    BY <1>1 DEF Hl!Connection
  <2> QED BY <1>2, <1>3, <2>1 DEF HlInv, HlOpening
<1>6. HlPrepared(k)
  BY <1>1, <1>2, <1>3 DEF HlInv, HlPrepared, HlAttempt
<1>7. HlStops(k) /\ HlPhased(k)
  BY <1>1, <1>3 DEF HlInv, HlStops, HlPhased, Hl!Connection
<1> QED BY <1>3, <1>4, <1>5, <1>6, <1>7 DEF HlInv, k

LEMMA HlSocketClosedKeeps == ASSUME HlInv(hl), Hl!SocketClosed PROVE HlInv(hl')
<1>1. PICK c \in Hl!Clients :
       /\ hl.client[c].conn = "closing"
       /\ LET h0 == [hl EXCEPT !.client[c].conn = "down"]
              h1 == IF h0.stop = "audio" /\ h0.audio \in {c, Hl!None}
                    THEN [h0 EXCEPT !.stop = "pis"] ELSE h0
              h2 == IF c \in h1.rolling
                    THEN Hl!RolledBack([h1 EXCEPT !.rolling = @ \ {c}]) ELSE h1
              mine == h2.cmd.client = c
          IN hl' = IF ~mine THEN h2
                   ELSE IF h2.cmd.at = "rollback" THEN [h2 EXCEPT !.cmd = Hl!Idle]
                   ELSE IF h2.cmd.at = "catch" THEN Hl!Retryable(h2)
                   ELSE IF h2.cmd.at = "abandon"
                   THEN [h2 EXCEPT !.cmd = Hl!Idle, !.audio = Hl!None, !.orch = Hl!None]
                   ELSE IF h2.cmd.at = "connect" THEN Hl!Catch(h2)
                   ELSE h2
  BY DEF Hl!SocketClosed
<1> DEFINE h0 == [hl EXCEPT !.client[c].conn = "down"]
           h1 == IF h0.stop = "audio" /\ h0.audio \in {c, Hl!None}
                 THEN [h0 EXCEPT !.stop = "pis"] ELSE h0
           h2 == IF c \in h1.rolling
                 THEN Hl!RolledBack([h1 EXCEPT !.rolling = @ \ {c}]) ELSE h1
<1>2. hl' = IF ~(h2.cmd.client = c) THEN h2
            ELSE IF h2.cmd.at = "rollback" THEN [h2 EXCEPT !.cmd = Hl!Idle]
            ELSE IF h2.cmd.at = "catch" THEN Hl!Retryable(h2)
            ELSE IF h2.cmd.at = "abandon"
            THEN [h2 EXCEPT !.cmd = Hl!Idle, !.audio = Hl!None, !.orch = Hl!None]
            ELSE IF h2.cmd.at = "connect" THEN Hl!Catch(h2)
            ELSE h2
  BY <1>1
<1>3. /\ HlInv(h0) /\ h0.cmd = hl.cmd /\ h0.audio = hl.audio /\ h0.client[c].conn = "down"
      /\ h0.stop = hl.stop
  BY <1>1, HlDownKeeps
<1> HIDE DEF h0
<1>4. HlInv(h1) /\ h1.cmd = hl.cmd /\ h1.audio = hl.audio /\ h1.client[c].conn = "down"
  BY <1>3, HlPisNext
<1> HIDE DEF h1
<1>5. h1 \in HlState /\ h1.cmd \in HlCommand
  BY <1>4, HlFields DEF HlInv
<1>6. CASE c \in h1.rolling /\ h1.cmd.at = "rollback" /\ h1.cmd.client = c
  <2> DEFINE k == [h1 EXCEPT !.rolling = @ \ {c}, !.cmd = Hl!Idle]
             j == [h1 EXCEPT !.rolling = @ \ {c}]
  <2>1. HlInv(Hl!RolledBack(k))
    BY <1>4, <1>6, HlRolls
  <2>2. h2 = Hl!RolledBack(j)
    BY <1>6
  <2>3. j \in HlState /\ j.cmd = h1.cmd /\ k = [j EXCEPT !.cmd = Hl!Idle]
    <3>1. h1.rolling \ {c} \in SUBSET Hl!Clients
      BY <1>5, HlFields
    <3> QED BY <1>5, <3>1 DEF HlState
  <2> HIDE DEF j
  <2>4. h2.cmd = h1.cmd /\ Hl!RolledBack(k) = [h2 EXCEPT !.cmd = Hl!Idle]
    <3> DEFINE o == j.overlap \/ (~j.stopped /\ (j.orch # Hl!None \/ j.plan.run # Hl!None))
    <3>1. Hl!RolledBack(j) = Hl!Tell([j EXCEPT !.overlap = o], "prelive")
      BY <2>3 DEF Hl!RolledBack
    <3>2. k.overlap = j.overlap /\ k.stopped = j.stopped /\ k.orch = j.orch /\ k.plan = j.plan
      BY <2>3 DEF HlState
    <3>3. Hl!RolledBack(k) = Hl!Tell([k EXCEPT !.overlap = o], "prelive")
      BY <2>3, <3>2 DEF Hl!RolledBack, HlState
    <3>4. j.overlap \in BOOLEAN /\ o \in BOOLEAN
      BY <2>3, HlFields
    <3> HIDE DEF k, o
    <3>5. CASE j.stopped
      <4>1. Hl!RolledBack(j) = [j EXCEPT !.overlap = o]
        BY <2>3, <3>1, <3>4, <3>5 DEF Hl!Tell, HlState
      <4>2. Hl!RolledBack(k) = [[j EXCEPT !.cmd = Hl!Idle] EXCEPT !.overlap = o]
        BY <2>3, <3>2, <3>3, <3>4, <3>5 DEF Hl!Tell, HlState
      <4>3. [[j EXCEPT !.cmd = Hl!Idle] EXCEPT !.overlap = o] = [[j EXCEPT !.overlap = o] EXCEPT !.cmd = Hl!Idle]
        BY <2>3 DEF HlState
      <4>4. [j EXCEPT !.overlap = o].cmd = j.cmd
        BY <2>3 DEF HlState
      <4> QED BY <2>2, <2>3, <4>1, <4>2, <4>3, <4>4, Zenon
    <3>6. CASE ~j.stopped
      <4>1. Hl!RolledBack(j) = [[j EXCEPT !.overlap = o] EXCEPT !.phase = "prelive"]
        BY <2>3, <3>1, <3>4, <3>6 DEF Hl!Tell, HlState
      <4>2. Hl!RolledBack(k) = [[[j EXCEPT !.cmd = Hl!Idle] EXCEPT !.overlap = o] EXCEPT !.phase = "prelive"]
        BY <2>3, <3>2, <3>3, <3>4, <3>6 DEF Hl!Tell, HlState
      <4>3. [[[j EXCEPT !.cmd = Hl!Idle] EXCEPT !.overlap = o] EXCEPT !.phase = "prelive"]
             = [[[j EXCEPT !.overlap = o] EXCEPT !.phase = "prelive"] EXCEPT !.cmd = Hl!Idle]
        BY <2>3 DEF HlState
      <4>4. [[j EXCEPT !.overlap = o] EXCEPT !.phase = "prelive"].cmd = j.cmd
        BY <2>3 DEF HlState
      <4> QED BY <2>2, <2>3, <4>1, <4>2, <4>3, <4>4, Zenon
    <3> QED BY <3>5, <3>6
  <2> QED BY <1>2, <1>6, <2>1, <2>4
<1>7. CASE ~(c \in h1.rolling /\ h1.cmd.at = "rollback" /\ h1.cmd.client = c)
  <2>1. HlInv(h2) /\ h2.cmd = hl.cmd /\ h2.audio = hl.audio /\ h2.client[c].conn = "down"
    <3>1. CASE c \in h1.rolling
      <4>1. [h1 EXCEPT !.rolling = @ \ {c}, !.cmd = h1.cmd] = [h1 EXCEPT !.rolling = @ \ {c}]
        BY <1>5 DEF HlState
      <4>2. ~(h1.cmd.at = "rollback" /\ h1.cmd.client = c)
        BY <1>7, <3>1
      <4>3. h1.cmd = Hl!Idle => h1.cmd.at = "idle"
        BY DEF Hl!Idle
      <4> DEFINE k == [h1 EXCEPT !.rolling = @ \ {c}, !.cmd = h1.cmd]
      <4>4. /\ HlInv(Hl!RolledBack(k)) /\ Hl!RolledBack(k).cmd = h1.cmd
            /\ Hl!RolledBack(k).client = h1.client /\ Hl!RolledBack(k).audio = h1.audio
        BY <1>4, <3>1, <4>2, <4>3, HlRolls
      <4> QED BY <1>4, <3>1, <4>1, <4>4
    <3>2. CASE c \notin h1.rolling
      BY <1>4, <3>2
    <3> QED BY <3>1, <3>2
  <2> HIDE DEF h2
  <2>2. CASE h2.cmd.client # c
    BY <1>2, <2>1, <2>2
  <2>3. CASE h2.cmd.client = c
    <3>1. h2.cmd.at # "rollback"
      BY <1>4, <1>7, <2>1, <2>3 DEF HlInv, HlOpening
    <3>2. h2.cmd.at \in HlAttempt => ~Hl!Connection(h2, h2.audio)
      BY <2>1, <2>3 DEF HlInv, HlOwned, Hl!Connection
    <3>3. h2.cmd.at = "catch" => HlInv(Hl!Retryable(h2))
      BY <2>1, <3>2, HlRetryableKeeps DEF HlAttempt
    <3>4. h2.cmd.at = "abandon" =>
            HlInv([h2 EXCEPT !.cmd = Hl!Idle, !.audio = Hl!None, !.orch = Hl!None])
      BY <2>1, <3>2, HlAbandonKeeps DEF HlAttempt
    <3>5. h2.cmd.at = "connect" => HlInv(Hl!Catch(h2))
      BY <2>1, HlCatchKeeps
    <3> QED BY <1>2, <2>1, <2>3, <3>1, <3>3, <3>4, <3>5
  <2> QED BY <2>2, <2>3
<1> QED BY <1>6, <1>7

-----------------------------------------------------------------------------
(* Preparation and the commands                                            *)

(* A preparation begins, before the session is live.                       *)
LEMMA HlPlanKeeps ==
    ASSUME NEW h, HlCore(h), h.orch = Hl!None, h.plan.run = Hl!None, ~h.stopped, h.open,
           h.cmd.at # "planning", h.cmd.at \notin HlAttempt
    PROVE  HlInv(Hl!Plan(h))
<1> DEFINE n == h.plan.made + 1
           p == [h.plan EXCEPT !.run = n, !.made = n, !.aborted = FALSE, !.state = "running"]
           k == [h EXCEPT !.plan = p]
           g == Hl!Tell(k, "preparing")
<1>1. h \in HlState /\ h.plan \in HlPlan
  BY HlFields DEF HlCore
<1>2. n \in Nat /\ n # Hl!None
  BY <1>1 DEF HlPlan, Hl!None
<1> HIDE DEF n
<1>3. p \in HlPlan /\ p.run = n /\ p.notes = h.plan.notes /\ p.told = h.plan.told
  BY <1>1, <1>2 DEF HlPlan
<1> HIDE DEF p
<1>4. /\ k \in HlState /\ k.plan = p
      /\ k.open = h.open /\ k.made = h.made /\ k.client = h.client
      /\ k.audio = h.audio /\ k.orch = h.orch /\ k.context = h.context
      /\ k.capture = h.capture /\ k.begun = h.begun /\ k.live = h.live /\ k.cmd = h.cmd
      /\ k.rolling = h.rolling /\ k.stop = h.stop /\ k.stopped = h.stopped /\ k.pis = h.pis
  BY <1>1, <1>3 DEF HlState
<1>5. Hl!Plan(h) = g
  BY <1>1 DEF Hl!Plan, HlState, n, p
<1> HIDE DEF k
<1>6. HlOwned(k)
  BY <1>4 DEF HlCore, HlOwned, HlAttempt, Hl!Connection
<1>7. HlOpening(k)
  BY <1>4 DEF HlCore, HlOpening
<1>8. HlPrepared(k)
  BY <1>3, <1>4 DEF HlCore, HlPrepared
<1>9. HlStops(k)
  BY <1>4 DEF HlCore, HlStops
<1>10. HlCore(k)
  BY <1>4, <1>6, <1>7, <1>8, <1>9 DEF HlCore
<1>11. g \in HlState /\ HlSame(g, k) /\ (~k.stopped => g.phase = "preparing")
  BY <1>4, HlTellIs DEF HlPhases
<1> HIDE DEF g
<1>12. HlCore(g)
  BY <1>10, <1>11, HlSameKeeps, HlCoreBase
<1>13. g.plan.run = n /\ ~g.live /\ g.phase = "preparing"
  <2>1. ~h.live
    BY DEF HlCore, HlOwned
  <2> QED BY <1>3, <1>4, <1>11, <2>1 DEF HlSame, HlRest
<1>14. HlPhased(g)
  BY <1>2, <1>13 DEF HlPhased
<1> QED BY <1>5, <1>12, <1>14 DEF HlCore, HlInv

(* The engine of a begin is the only one.                                  *)
LEMMA HlStartKeeps ==
    ASSUME HlClients \in Nat, NEW h, HlBase(h), HlStops(h), ~h.stopped, h.cmd.at = "idle", ~h.live,
           h.plan.run = Hl!None, h.open, h.made < HlClients, NEW s \in Hl!Streams
    PROVE  HlInv(Hl!StartLive(h, s))
<1> DEFINE c == h.made + 1
           v == [h.client[c] EXCEPT !.conn = "connecting"]
           m == [at |-> "connect", client |-> c, stream |-> s]
           w == HlWith(h, c, v)
           k == [w EXCEPT !.made = c, !.audio = c, !.orch = c, !.context = h.plan.notes,
                          !.cmd = m]
           g == Hl!Tell(k, "starting_live")
<1>1. /\ h \in HlState /\ h.plan \in HlPlan /\ h.made \in 0..HlClients
      /\ h.client \in [Hl!Clients -> HlClientRecord]
  BY HlFields DEF HlBase, HlState
<1>2. /\ c \in Hl!Clients /\ c \in 0..HlClients /\ c # Hl!None /\ c > h.made
      /\ \A d \in Hl!Clients : d > c => d > h.made
  BY <1>1 DEF Hl!Clients, Hl!None
<1>3. h.client[c].conn = "none" /\ h.client[c].side = "none" /\ h.client[c] \in HlClientRecord
  BY <1>1, <1>2 DEF HlBase, HlOpening
<1>4. v \in HlClientRecord /\ v.conn = "connecting" /\ v.side = "none"
  BY <1>3 DEF HlClientRecord
<1>5. m \in HlCommand /\ m.at = "connect" /\ m.client = c /\ m.stream = s /\ s # Hl!None
  BY <1>2, HlNone DEF HlCommand, HlMaybe, HlStream
<1>6. h.plan.notes \in Nat /\ h.plan.notes = h.plan.told
  BY <1>1 DEF HlPlan, HlBase, HlPrepared
<1>7. Hl!StartLive(h, s) = g
  <2>1. w = [h EXCEPT !.client[c].conn = "connecting"]
    BY <1>1 DEF HlWith, HlState
  <2> HIDE DEF c, m, w
  <2>2. Hl!StartLive(h, s) =
          Hl!Tell([h EXCEPT !.made = c, !.audio = c, !.orch = c, !.context = h.plan.notes,
                         !.client[c].conn = "connecting", !.cmd = m], "starting_live")
    BY DEF Hl!StartLive, c, m
  <2>3. [h EXCEPT !.made = c, !.audio = c, !.orch = c, !.context = h.plan.notes,
                  !.client[c].conn = "connecting", !.cmd = m] = k
    BY <1>1, <2>1 DEF HlState
  <2> QED BY <2>2, <2>3
<1> HIDE DEF v, m
<1>8. /\ w \in HlState /\ HlRest(w, h) /\ w.client = [h.client EXCEPT ![c] = v]
  BY <1>1, <1>2, <1>4, HlWithIs
<1>9. w.client[c] = v /\ \A d \in Hl!Clients : d # c => w.client[d] = h.client[d]
  BY <1>1, <1>2, <1>8
<1> HIDE DEF w, c
<1>10. /\ k \in HlState /\ k.made = c /\ k.audio = c /\ k.orch = c /\ k.context = h.plan.notes
       /\ k.cmd = m /\ k.client = w.client /\ k.open = h.open
       /\ k.capture = h.capture /\ k.begun = h.begun /\ k.live = h.live
       /\ k.rolling = h.rolling /\ k.plan = h.plan /\ k.stop = h.stop
       /\ k.stopped = h.stopped /\ k.pis = h.pis
  BY <1>2, <1>5, <1>6, <1>8 DEF HlState, HlRest, HlMaybe
<1> HIDE DEF k
<1>11. \A d \in Hl!Clients : Hl!Connection(k, d) => d = c
  <2>1. \A d \in Hl!Clients : ~Hl!Connection(h, d)
    BY HlNone DEF HlBase, HlOwned, HlAttempt
  <2> QED BY <1>9, <1>10, <2>1 DEF Hl!Connection
<1>12. HlOwned(k)
  BY <1>2, <1>5, <1>10, <1>11 DEF HlBase, HlOwned, HlAttempt
<1>13. HlOpening(k)
  <2>1. ASSUME NEW d \in Hl!Clients
        PROVE  /\ d > k.made => k.client[d].conn = "none"
               /\ k.client[d].conn \in {"none", "connecting"} => k.client[d].side = "none"
               /\ k.client[d].conn # "up"
    <3>1. CASE d = c
      <4>1. ~(d > k.made)
        BY <1>2, <1>10, <3>1
      <4> QED BY <1>4, <1>9, <1>10, <3>1, <4>1
    <3>2. CASE d # c
      <4>1. ~Hl!Connection(k, d)
        BY <1>11, <3>2
      <4> QED BY <1>2, <1>9, <1>10, <3>2, <4>1 DEF HlBase, HlOpening, Hl!Connection
    <3> QED BY <3>1, <3>2
  <2> QED BY <1>5, <1>10, <2>1 DEF HlOpening
<1>14. HlPrepared(k)
  BY <1>5, <1>6, <1>10 DEF HlPrepared, HlAttempt
<1>15. HlStops(k)
  BY <1>10 DEF HlStops
<1>16. HlCore(k)
  BY <1>10, <1>12, <1>13, <1>14, <1>15 DEF HlCore
<1>17. g \in HlState /\ HlSame(g, k)
  BY <1>10, HlTellIs DEF HlPhases
<1> HIDE DEF g
<1>18. HlCore(g)
  BY <1>16, <1>17, HlSameKeeps, HlCoreBase
<1>19. HlPhased(g)
  BY <1>5, <1>10, <1>17 DEF HlPhased, HlSame, HlRest
<1> QED BY <1>7, <1>18, <1>19 DEF HlCore, HlInv

\* the attempt of h is over in k, which differs in nothing else but the command that waited
HlOver(k, h) ==
    /\ k.open = h.open /\ k.made = h.made /\ k.client = h.client
    /\ k.audio = h.audio /\ k.orch = h.orch /\ k.context = h.context
    /\ k.capture = h.capture /\ k.begun = h.begun /\ k.live = h.live
    /\ k.rolling = h.rolling /\ k.stop = h.stop /\ k.stopped = h.stopped /\ k.pis = h.pis
    /\ k.plan.run = Hl!None /\ k.plan.notes = k.plan.told
    /\ k.cmd = Hl!Idle \/ (k.cmd = h.cmd /\ k.cmd.at # "planning")

LEMMA HlOverKeeps ==
    ASSUME NEW h, HlInv(h), h.plan.run # Hl!None, NEW k \in HlState, HlOver(k, h)
    PROVE  HlBase(k) /\ (h.stop # "planning" => HlStops(k)) /\ ~k.live
<1>1. h.orch = Hl!None /\ ~h.live /\ h.open /\ h.cmd.at \notin HlAttempt
  BY DEF HlInv, HlPrepared, HlOwned
<1>2. k.cmd.at \notin HlAttempt /\ (k.cmd.at = "idle" \/ k.cmd = h.cmd) /\ k.cmd.at # "planning"
  BY <1>1 DEF HlOver, Hl!Idle, HlAttempt
<1>3. HlOwned(k)
  BY <1>1, <1>2 DEF HlInv, HlOwned, HlAttempt, Hl!Connection, HlOver
<1>4. HlOpening(k)
  <2>1. \A c \in Hl!Clients : ~(h.client[c].side \in {"opening", "open"} /\ h.client[c].conn = "up")
    BY <1>1 DEF HlInv, HlOpening, HlAttempt
  <2> QED BY <1>2, <2>1 DEF HlInv, HlOpening, HlOver
<1>5. HlPrepared(k)
  BY <1>1, <1>2 DEF HlInv, HlPrepared, HlOver
<1>6. h.stop # "planning" => HlStops(k)
  BY DEF HlInv, HlStops, Hl!Connection, HlOver
<1> QED BY <1>1, <1>3, <1>4, <1>5, <1>6 DEF HlBase, HlOver

LEMMA HlPlanningEndsKeeps ==
    ASSUME HlClients \in Nat, HlInv(hl), Hl!PlanningEnds PROVE HlInv(hl')
<1>1. PICK result \in {"ready", "failed"} :
       /\ hl.plan.run # Hl!None
       /\ LET h == Hl!Ended(hl, result)
              g == IF h.cmd.at # "planning" THEN h
                   ELSE IF h.stopped THEN [h EXCEPT !.cmd = Hl!Idle]
                   ELSE Hl!StartLive(h, h.cmd.stream)
          IN hl' = IF h.stop = "planning" THEN Hl!StopEngine(g) ELSE g
  BY DEF Hl!PlanningEnds
<1> DEFINE r == IF hl.plan.aborted \/ hl.stopped THEN "cancelled" ELSE result
           n == IF r = "ready" THEN hl.plan.run ELSE Hl!None
           p == [hl.plan EXCEPT !.run = Hl!None, !.state = r, !.notes = n, !.told = n]
           k == [hl EXCEPT !.plan = p]
           h == Hl!Ended(hl, result)
           g == IF hl.cmd.at # "planning" THEN h
                ELSE IF h.stopped THEN [h EXCEPT !.cmd = Hl!Idle]
                ELSE Hl!StartLive(h, hl.cmd.stream)
<1>2. hl \in HlState /\ hl.plan \in HlPlan /\ hl.cmd \in HlCommand
  BY HlFields DEF HlInv
<1>3. r \in {"ready", "failed", "cancelled"} /\ n \in Nat
  BY <1>2 DEF HlPlan, Hl!None
<1>4. h = Hl!Tell(k, "prelive")
  BY <1>2 DEF Hl!Ended, HlState, HlPlan
<1> HIDE DEF r, n
<1>13. p \in HlPlan /\ p.run = Hl!None /\ p.notes = p.told
  BY <1>2, <1>3 DEF HlPlan, Hl!None
<1> HIDE DEF p
<1>5. /\ k \in HlState /\ k.plan = p /\ k.cmd = hl.cmd
      /\ k.open = hl.open /\ k.made = hl.made /\ k.client = hl.client
      /\ k.audio = hl.audio /\ k.orch = hl.orch /\ k.context = hl.context
      /\ k.capture = hl.capture /\ k.begun = hl.begun /\ k.live = hl.live
      /\ k.rolling = hl.rolling /\ k.stop = hl.stop /\ k.stopped = hl.stopped /\ k.pis = hl.pis
  BY <1>2, <1>13 DEF HlState
<1> HIDE DEF k
<1>6. h \in HlState /\ HlSame(h, k) /\ (~k.stopped => h.phase = "prelive")
  <2> HIDE DEF h
  <2>1. "prelive" \in HlPhases
    BY DEF HlPhases
  <2>2. /\ Hl!Tell(k, "prelive") \in HlState /\ HlSame(Hl!Tell(k, "prelive"), k)
        /\ ~k.stopped => Hl!Tell(k, "prelive").phase = "prelive"
    BY <1>5, <2>1, HlTellIs
  <2> QED BY <1>4, <2>2
<1> HIDE DEF h
<1>7. h.stopped = hl.stopped /\ h.cmd = hl.cmd /\ h.stop = hl.stop
  BY <1>5, <1>6 DEF HlSame, HlRest
<1>8. hl' = IF hl.stop = "planning" THEN Hl!StopEngine(g) ELSE g
  BY <1>1, <1>7 DEF h
<1>9. Hl!Idle \in HlCommand /\ Hl!Idle.at = "idle"
  BY DEF Hl!Idle, HlCommand, HlMaybe, HlStream
<1>10. hl.stopped <=> hl.stop # "no"
  BY DEF HlInv, HlStops
<1>11. CASE hl.cmd.at # "planning"
  <2>1. HlOver(k, hl)
    BY <1>5, <1>11, <1>13 DEF HlOver
  <2>2. /\ HlBase(k) /\ (hl.stop # "planning" => HlStops(k)) /\ ~k.live /\ k.plan.run = Hl!None
    BY <1>1, <1>5, <1>13, <2>1, HlOverKeeps
  <2>3. /\ HlBase(h) /\ (hl.stop # "planning" => HlStops(h))
        /\ h.plan.run = Hl!None /\ ~h.live
    BY <1>6, <2>2, HlSameKeeps DEF HlSame, HlRest
  <2>4. g = h
    BY <1>11
  <2>5. CASE hl.stop = "planning"
    BY <1>7, <1>8, <1>10, <2>3, <2>4, <2>5, HlStopEngineKeeps
  <2>6. CASE hl.stop # "planning"
    <3>1. HlPhased(h)
      BY <1>5, <1>6, <1>7, <2>3 DEF HlPhased
    <3> QED BY <1>8, <2>3, <2>4, <2>6, <3>1 DEF HlInv, HlBase
  <2> QED BY <2>5, <2>6
<1>12. CASE hl.cmd.at = "planning"
  <2> DEFINE ki == [k EXCEPT !.cmd = Hl!Idle]
             hi == [h EXCEPT !.cmd = Hl!Idle]
  <2>7. /\ ki \in HlState /\ ki.plan = p /\ ki.cmd = Hl!Idle
        /\ ki.open = hl.open /\ ki.made = hl.made /\ ki.client = hl.client
        /\ ki.audio = hl.audio /\ ki.orch = hl.orch /\ ki.context = hl.context
        /\ ki.capture = hl.capture /\ ki.begun = hl.begun /\ ki.live = hl.live
        /\ ki.rolling = hl.rolling /\ ki.stop = hl.stop /\ ki.stopped = hl.stopped /\ ki.pis = hl.pis
    BY <1>5, <1>9 DEF HlState
  <2>2. hi \in HlState /\ HlSame(hi, ki) /\ hi.stopped = h.stopped
    BY <1>5, <1>6, <1>9 DEF HlState, HlSame, HlRest
  <2> HIDE DEF ki
  <2>8. HlOver(ki, hl)
    BY <1>13, <2>7 DEF HlOver
  <2>1. HlBase(ki) /\ (hl.stop # "planning" => HlStops(ki)) /\ ~ki.live
    BY <1>1, <2>7, <2>8, HlOverKeeps
  <2>3. /\ HlBase(hi) /\ (hl.stop # "planning" => HlStops(hi)) /\ hi.plan.run = Hl!None
        /\ hi.cmd = Hl!Idle /\ hi.stopped = hl.stopped /\ hi.open = hl.open /\ hi.made = hl.made
        /\ ~hi.live
    BY <1>13, <2>1, <2>2, <2>7, HlSameKeeps DEF HlSame, HlRest
  <2>4. hl.open /\ hl.made < HlClients /\ hl.cmd.stream \in Hl!Streams
    <3>1. hl.cmd.stream # Hl!None
      BY <1>12 DEF HlInv, HlPrepared
    <3>2. hl.cmd.stream \in Hl!Streams
      BY <1>2, <3>1 DEF HlCommand, HlStream
    <3> QED BY <1>12, <3>2 DEF HlInv, HlOwned, HlOpening
  <2>5. CASE hl.stopped
    <3>1. hl.stop = "planning"
      BY <1>1, <1>10, <2>5 DEF HlInv, HlStops, HlState
    <3>2. g = hi
      BY <1>7, <1>12, <2>5
    <3> QED BY <1>8, <2>3, <2>5, <3>1, <3>2, HlStopEngineKeeps
  <2>6. CASE ~hl.stopped
    <3>1. hl.stop # "planning" /\ g = Hl!StartLive(h, hl.cmd.stream)
      BY <1>7, <1>10, <1>12, <2>6
    <3>2. Hl!StartLive(h, hl.cmd.stream) = Hl!StartLive(hi, hl.cmd.stream)
      <4> DEFINE s == hl.cmd.stream
                 c == h.made + 1
                 m == [at |-> "connect", client |-> c, stream |-> s]
      <4>1. hi.made = h.made /\ hi.plan = h.plan
        BY <1>6, <1>9 DEF HlState
      <4> HIDE DEF c, m
      <4>2. Hl!StartLive(h, s) =
              Hl!Tell([h EXCEPT !.made = c, !.audio = c, !.orch = c, !.context = h.plan.notes,
                             !.client[c].conn = "connecting", !.cmd = m], "starting_live")
        BY DEF Hl!StartLive, c, m
      <4>3. Hl!StartLive(hi, s) =
              Hl!Tell([hi EXCEPT !.made = c, !.audio = c, !.orch = c, !.context = h.plan.notes,
                              !.client[c].conn = "connecting", !.cmd = m], "starting_live")
        BY <4>1, Zenon DEF Hl!StartLive, c, m
      <4>4. [hi EXCEPT !.made = c, !.audio = c, !.orch = c, !.context = h.plan.notes,
                       !.client[c].conn = "connecting", !.cmd = m] =
            [h EXCEPT !.made = c, !.audio = c, !.orch = c, !.context = h.plan.notes,
                      !.client[c].conn = "connecting", !.cmd = m]
        BY <1>6 DEF HlState
      <4> QED BY <4>2, <4>3, <4>4
    <3>3. HlInv(Hl!StartLive(hi, hl.cmd.stream))
      <4> HIDE DEF hi
      <4> QED BY <1>9, <2>3, <2>4, <2>6, <3>1, HlStartKeeps
    <3> QED BY <1>8, <3>1, <3>2, <3>3
  <2> QED BY <2>5, <2>6
<1> QED BY <1>11, <1>12

-----------------------------------------------------------------------------
(* The commands                                                            *)

(* A preparation is told to stop; a begin may wait for it.                 *)
LEMMA HlAbortKeeps ==
    ASSUME NEW h, HlInv(h), h.plan.run # Hl!None, NEW m \in HlCommand,
           \/ m = h.cmd
           \/ /\ h.cmd.at = "idle" /\ ~h.stopped /\ h.made < HlClients
              /\ m.at = "planning" /\ m.stream # Hl!None
    PROVE  HlInv([h EXCEPT !.plan.aborted = TRUE, !.cmd = m])
<1> DEFINE p == [h.plan EXCEPT !.aborted = TRUE]
           k == [h EXCEPT !.plan = p, !.cmd = m]
<1>1. h \in HlState /\ h.plan \in HlPlan
  BY HlFields DEF HlInv
<1>2. p \in HlPlan /\ p.run = h.plan.run /\ p.notes = h.plan.notes /\ p.told = h.plan.told
  BY <1>1 DEF HlPlan
<1>3. [h EXCEPT !.plan.aborted = TRUE, !.cmd = m] = k
  BY <1>1 DEF HlState
<1> HIDE DEF p
<1>4. /\ k \in HlState /\ k.plan = p /\ k.cmd = m
      /\ k.open = h.open /\ k.made = h.made /\ k.client = h.client
      /\ k.audio = h.audio /\ k.orch = h.orch /\ k.context = h.context
      /\ k.capture = h.capture /\ k.begun = h.begun /\ k.live = h.live
      /\ k.rolling = h.rolling /\ k.stop = h.stop /\ k.stopped = h.stopped /\ k.pis = h.pis
      /\ k.overlap = h.overlap /\ k.phase = h.phase
  BY <1>1, <1>2 DEF HlState
<1> HIDE DEF k
<1>5. h.orch = Hl!None /\ ~h.live /\ h.cmd.at \notin HlAttempt /\ h.open
  BY DEF HlInv, HlPrepared, HlOwned
<1>6. m.at \notin HlAttempt
  BY <1>5 DEF HlAttempt
<1>7. HlOwned(k)
  BY <1>4, <1>5, <1>6 DEF HlInv, HlOwned, Hl!Connection
<1>8. HlOpening(k)
  <2>1. \A c \in Hl!Clients : ~(h.client[c].side \in {"opening", "open"} /\ h.client[c].conn = "up")
    BY <1>5 DEF HlInv, HlOpening, HlAttempt
  <2>2. CASE m = h.cmd
    BY <1>4, <2>2 DEF HlInv, HlOpening
  <2>3. CASE m # h.cmd
    BY <1>4, <2>1, <2>3 DEF HlInv, HlOpening
  <2> QED BY <2>2, <2>3
<1>9. HlPrepared(k)
  BY <1>2, <1>4, <1>5, <1>6 DEF HlInv, HlPrepared
<1>10. HlStops(k)
  BY <1>2, <1>4 DEF HlInv, HlStops, Hl!Connection
<1>11. HlPhased(k)
  BY <1>2, <1>4, <1>5 DEF HlInv, HlPhased
<1> QED BY <1>3, <1>4, <1>7, <1>8, <1>9, <1>10, <1>11 DEF HlInv

LEMMA HlPlanningControlKeeps == ASSUME HlInv(hl), Hl!PlanningControl PROVE HlInv(hl')
<1> DEFINE h == [hl EXCEPT !.commands = @ + 1]
<1>1. /\ hl.open /\ ~hl.stopped
      /\ \/ /\ hl.plan.run # Hl!None
            /\ hl' = [h EXCEPT !.plan.aborted = TRUE]
         \/ /\ hl.orch = Hl!None /\ hl.plan.run = Hl!None
            /\ hl' = Hl!Plan(h)
  BY DEF Hl!PlanningControl
<1>2. HlInv(h)
  BY HlTroubleKeeps
<1>3. hl \in HlState
  BY DEF HlInv
<1>4. h.plan = hl.plan /\ h.orch = hl.orch /\ h.stopped = hl.stopped /\ h.open = hl.open
  BY <1>3 DEF HlState
<1> HIDE DEF h
<1>5. h \in HlState /\ h.cmd \in HlCommand /\ HlCore(h)
  BY <1>2, HlFields DEF HlInv, HlCore
<1>6. CASE hl.plan.run # Hl!None
  <2>1. [h EXCEPT !.plan.aborted = TRUE] = [h EXCEPT !.plan.aborted = TRUE, !.cmd = h.cmd]
    BY <1>5 DEF HlState
  <2>2. HlInv([h EXCEPT !.plan.aborted = TRUE, !.cmd = h.cmd])
    BY <1>2, <1>4, <1>5, <1>6, HlAbortKeeps
  <2> QED BY <1>1, <1>6, <2>1, <2>2
<1>7. CASE hl.plan.run = Hl!None
  <2>1. h.cmd.at # "planning" /\ h.cmd.at \notin HlAttempt
    BY <1>1, <1>2, <1>4, <1>7 DEF HlInv, HlPrepared, HlOwned, HlAttempt
  <2> QED BY <1>1, <1>2, <1>4, <1>5, <1>7, <2>1, HlPlanKeeps
<1> QED BY <1>6, <1>7

(* The session opens at its start.                                         *)
LEMMA HlOpensKeeps ==
    ASSUME NEW h, HlInv(h), ~h.open, ~h.stopped, NEW p \in HlPlan, p.run = Hl!None, p.notes = p.told
    PROVE  LET k == [h EXCEPT !.open = TRUE, !.pis = "alive", !.plan = p]
           IN  HlCore(k) /\ k.orch = Hl!None /\ k.plan.run = Hl!None /\ ~k.stopped /\ k.open /\ k.cmd.at = "idle" /\ ~k.live
<1> DEFINE k == [h EXCEPT !.open = TRUE, !.pis = "alive", !.plan = p]
<1>1. h \in HlState
  BY DEF HlInv
<1>2. /\ k \in HlState /\ k.plan = p /\ k.open /\ k.pis = "alive" /\ k.cmd = h.cmd
      /\ k.made = h.made /\ k.client = h.client
      /\ k.audio = h.audio /\ k.orch = h.orch /\ k.context = h.context
      /\ k.capture = h.capture /\ k.begun = h.begun /\ k.live = h.live
      /\ k.rolling = h.rolling /\ k.stop = h.stop /\ k.stopped = h.stopped
  BY <1>1 DEF HlState
<1> HIDE DEF k
<1>3. h.orch = Hl!None /\ h.cmd.at = "idle" /\ ~h.live
  BY DEF HlInv, HlOwned
<1>4. HlOwned(k)
  BY <1>2, <1>3 DEF HlInv, HlOwned, HlAttempt, Hl!Connection
<1>5. HlOpening(k)
  BY <1>2 DEF HlInv, HlOpening
<1>6. HlPrepared(k)
  BY <1>2, <1>3 DEF HlPrepared, HlAttempt
<1>7. HlStops(k)
  BY <1>2 DEF HlInv, HlStops
<1> QED BY <1>2, <1>3, <1>4, <1>5, <1>6, <1>7 DEF HlCore, k

LEMMA HlPreliveKeeps ==
    ASSUME NEW h, HlCore(h), ~h.stopped, h.plan.run = Hl!None, ~h.live
    PROVE  HlInv(Hl!Tell(h, "prelive"))
<1> DEFINE g == Hl!Tell(h, "prelive")
<1>1. h \in HlState
  BY DEF HlCore
<1>2. g \in HlState /\ HlSame(g, h) /\ g.phase = "prelive"
  BY <1>1, HlTellIs DEF HlPhases
<1> HIDE DEF g
<1>3. HlCore(g)
  BY <1>2, HlSameKeeps, HlCoreBase
<1>4. HlPhased(g)
  BY <1>2 DEF HlPhased, HlSame, HlRest
<1> QED BY <1>3, <1>4 DEF HlCore, HlInv, g

LEMMA HlOpenKeeps == ASSUME HlAttempts \in Nat, HlInv(hl), Hl!Open PROVE HlInv(hl')
<1> DEFINE h == [hl EXCEPT !.open = TRUE, !.pis = "alive"]
           k(p) == [hl EXCEPT !.open = TRUE, !.pis = "alive", !.plan = p]
           q == [hl.plan EXCEPT !.asked = TRUE]
           w(n) == [hl.plan EXCEPT !.asked = TRUE, !.notes = n, !.told = n]
<1>1. /\ ~hl.open /\ ~hl.stopped
      /\ \/ hl' = Hl!Tell(h, "prelive")
         \/ \E notes \in {Hl!None, Hl!Saved} :
               hl' = Hl!Tell([h EXCEPT !.plan.asked = TRUE, !.plan.notes = notes,
                                    !.plan.told = notes], "prelive")
         \/ hl' = Hl!Plan([h EXCEPT !.plan.asked = TRUE])
  BY DEF Hl!Open
<1>2. hl \in HlState /\ hl.plan \in HlPlan
  BY HlFields DEF HlInv
<1>3. hl.plan.run = Hl!None /\ hl.plan.notes = hl.plan.told
  BY <1>1 DEF HlInv, HlOwned, HlPrepared
<1>4. ASSUME NEW p \in HlPlan, p.run = Hl!None, p.notes = p.told
      PROVE  /\ HlInv(Hl!Tell(k(p), "prelive"))
             /\ HlInv(Hl!Plan(k(p)))
  <2> DEFINE g == k(p)
  <2>1. HlCore(g) /\ g.orch = Hl!None /\ g.plan.run = Hl!None /\ ~g.stopped /\ g.open /\ g.cmd.at = "idle" /\ ~g.live
    BY <1>1, <1>4, HlOpensKeeps
  <2> HIDE DEF g
  <2>2. HlInv(Hl!Tell(g, "prelive"))
    BY <2>1, HlPreliveKeeps
  <2>3. g.cmd.at # "planning" /\ g.cmd.at \notin HlAttempt
    BY <2>1 DEF HlAttempt
  <2>4. HlInv(Hl!Plan(g))
    BY <2>1, <2>3, HlPlanKeeps
  <2> QED BY <2>2, <2>4 DEF g
<1>5. CASE hl' = Hl!Tell(h, "prelive")
  <2>1. h = k(hl.plan)
    BY <1>2 DEF HlState
  <2> HIDE DEF h, k
  <2> QED BY <1>2, <1>3, <1>4, <1>5, <2>1
<1>6. ASSUME NEW notes \in {Hl!None, Hl!Saved},
             hl' = Hl!Tell([h EXCEPT !.plan.asked = TRUE, !.plan.notes = notes, !.plan.told = notes],
                        "prelive")
      PROVE  HlInv(hl')
  <2>1. notes \in Nat
    BY <1>6 DEF Hl!None, Hl!Saved
  <2>2. w(notes) \in HlPlan /\ w(notes).run = Hl!None /\ w(notes).notes = w(notes).told
    BY <1>2, <1>3, <2>1 DEF HlPlan
  <2>3. [h EXCEPT !.plan.asked = TRUE, !.plan.notes = notes, !.plan.told = notes] = k(w(notes))
    BY <1>2 DEF HlState, HlPlan
  <2> HIDE DEF h, k, w
  <2> QED BY <1>4, <1>6, <2>2, <2>3
<1>7. CASE hl' = Hl!Plan([h EXCEPT !.plan.asked = TRUE])
  <2>1. q \in HlPlan /\ q.run = Hl!None /\ q.notes = q.told
    BY <1>2, <1>3 DEF HlPlan
  <2>2. [h EXCEPT !.plan.asked = TRUE] = k(q)
    BY <1>2 DEF HlState
  <2> HIDE DEF h, k, q
  <2> QED BY <1>4, <1>7, <2>1, <2>2
<1> QED BY <1>1, <1>5, <1>6, <1>7

(* The commands are counted.                                               *)
LEMMA HlCounted ==
    ASSUME NEW h, HlInv(h), NEW k, k = [h EXCEPT !.commands = @ + 1]
    PROVE  /\ HlInv(k)
           /\ k.open = h.open /\ k.made = h.made /\ k.orch = h.orch /\ k.live = h.live
           /\ k.cmd = h.cmd /\ k.plan = h.plan /\ k.stopped = h.stopped
<1>1. h \in HlState
  BY DEF HlInv
<1> QED BY <1>1, HlTroubleKeeps DEF HlState

LEMMA HlBeginKeeps ==
    ASSUME HlClients \in Nat, HlInv(hl), NEW s \in Hl!Streams, Hl!Begin(s) PROVE HlInv(hl')
<1> DEFINE h == [hl EXCEPT !.commands = @ + 1]
           m == [at |-> "planning", client |-> Hl!None, stream |-> s]
<1>1. /\ hl.open /\ ~hl.stopped /\ hl.cmd.at = "idle" /\ (hl.orch # Hl!None \/ hl.made < HlClients)
      /\ \/ h.orch # Hl!None /\ hl' = h
         \/ /\ h.orch = Hl!None /\ h.plan.run # Hl!None
            /\ hl' = [h EXCEPT !.plan.aborted = TRUE, !.cmd = m]
         \/ /\ h.orch = Hl!None /\ h.plan.run = Hl!None
            /\ hl' = Hl!StartLive(h, s)
  BY DEF Hl!Begin, Hl!Handled
<1>2. /\ HlInv(h)
      /\ h.open = hl.open /\ h.made = hl.made /\ h.orch = hl.orch /\ h.live = hl.live
      /\ h.cmd = hl.cmd /\ h.plan = hl.plan /\ h.stopped = hl.stopped
  BY HlCounted
<1>3. m \in HlCommand /\ m.at = "planning" /\ m.stream # Hl!None
  BY HlNone DEF HlCommand, HlMaybe, HlStream
<1> HIDE DEF h, m
<1>4. CASE h.orch # Hl!None
  BY <1>1, <1>2, <1>4
<1>5. CASE h.orch = Hl!None /\ h.plan.run # Hl!None
  <2>1. HlInv([h EXCEPT !.plan.aborted = TRUE, !.cmd = m])
    BY <1>1, <1>2, <1>3, <1>5, HlAbortKeeps
  <2> QED BY <1>1, <1>5, <2>1
<1>6. CASE h.orch = Hl!None /\ h.plan.run = Hl!None
  <2>1. HlBase(h) /\ HlStops(h) /\ ~h.live
    BY <1>2, <1>6 DEF HlInv, HlBase, HlOwned
  <2>2. HlInv(Hl!StartLive(h, s))
    BY <1>1, <1>2, <1>6, <2>1, HlStartKeeps
  <2> QED BY <1>1, <1>6, <2>2
<1> QED BY <1>4, <1>5, <1>6

LEMMA HlAudioStartKeeps ==
    ASSUME HlInv(hl), NEW s \in Hl!Streams, Hl!AudioStart(s) PROVE HlInv(hl')
<1> DEFINE h == [hl EXCEPT !.commands = @ + 1]
<1>1. /\ hl.open /\ ~hl.stopped /\ hl.cmd.at = "idle"
      /\ \/ hl' = h
         \/ h.orch # Hl!None /\ hl' = [h EXCEPT !.capture = s]
         \/ h.orch # Hl!None /\ hl' = [h EXCEPT !.capture = Hl!None]
  BY DEF Hl!AudioStart, Hl!Handled
<1>2. HlInv(h) /\ h.cmd = hl.cmd
  BY HlCounted
<1> HIDE DEF h
<1>3. h \in HlState
  BY <1>2 DEF HlInv
<1>4. ASSUME h.orch # Hl!None, NEW t \in HlStream PROVE HlInv([h EXCEPT !.capture = t])
  <2> DEFINE k == [h EXCEPT !.capture = t]
  <2>1. h.live
    BY <1>1, <1>2, <1>4 DEF HlInv, HlOwned, HlAttempt
  <2>2. /\ k \in HlState /\ k.plan = h.plan /\ k.cmd = h.cmd
        /\ k.open = h.open /\ k.made = h.made /\ k.client = h.client
        /\ k.audio = h.audio /\ k.orch = h.orch /\ k.context = h.context
        /\ k.begun = h.begun /\ k.live = h.live
        /\ k.rolling = h.rolling /\ k.stop = h.stop /\ k.stopped = h.stopped /\ k.pis = h.pis
        /\ k.overlap = h.overlap /\ k.phase = h.phase
    BY <1>3, <1>4 DEF HlState
  <2> HIDE DEF k
  <2>3. HlOwned(k)
    BY <1>2, <2>1, <2>2 DEF HlInv, HlOwned, HlAttempt, Hl!Connection
  <2>4. HlOpening(k)
    BY <1>2, <2>2 DEF HlInv, HlOpening
  <2>5. HlPrepared(k)
    BY <1>2, <2>2 DEF HlInv, HlPrepared
  <2>6. HlStops(k)
    BY <1>2, <2>2 DEF HlInv, HlStops, Hl!Connection
  <2>7. HlPhased(k)
    BY <1>2, <2>2 DEF HlInv, HlPhased
  <2> QED BY <2>2, <2>3, <2>4, <2>5, <2>6, <2>7 DEF HlInv, k
<1>5. s \in HlStream /\ Hl!None \in HlStream
  BY DEF HlStream
<1> QED BY <1>1, <1>2, <1>4, <1>5

LEMMA HlAudioStopKeeps ==
    ASSUME HlInv(hl), NEW s \in Hl!Streams, Hl!AudioStop(s) PROVE HlInv(hl')
<1> DEFINE h == [hl EXCEPT !.commands = @ + 1]
<1>1. hl.open /\ ~hl.stopped /\ hl.cmd.at = "idle" /\ hl' = Hl!Rollback(h, FALSE)
  BY DEF Hl!AudioStop, Hl!Handled
<1>2. HlInv(h) /\ h.cmd = hl.cmd /\ h.open = hl.open /\ h.stopped = hl.stopped
  BY HlCounted
<1> HIDE DEF h
<1> QED BY <1>1, <1>2, HlRollbackKeeps

LEMMA HlRollbackBeginKeeps == ASSUME HlInv(hl), Hl!RollbackBegin PROVE HlInv(hl')
<1> DEFINE h == [hl EXCEPT !.commands = @ + 1]
<1>1. hl.open /\ ~hl.stopped /\ hl.cmd.at = "idle" /\ hl' = Hl!Rollback(h, TRUE)
  BY DEF Hl!RollbackBegin, Hl!Handled
<1>2. HlInv(h) /\ h.cmd = hl.cmd /\ h.open = hl.open /\ h.stopped = hl.stopped
  BY HlCounted
<1> HIDE DEF h
<1> QED BY <1>1, <1>2, HlRollbackKeeps

-----------------------------------------------------------------------------
LEMMA HlInit == ASSUME HlClients \in Nat, Hl!Init PROVE HlInv(hl)
<1>1. hl \in HlState
  BY DEF Hl!Init, Hl!Client, Hl!Idle, Hl!None, HlState, HlClientRecord, HlMaybe, HlStream, HlCommand, HlPlan
<1>2. /\ \A c \in Hl!Clients : hl.client[c].conn = "none" /\ hl.client[c].side = "none"
      /\ hl.audio = Hl!None /\ hl.orch = Hl!None /\ hl.capture = Hl!None /\ hl.begun = Hl!None /\ ~hl.live
      /\ hl.cmd = Hl!Idle /\ hl.plan.run = Hl!None /\ hl.plan.notes = hl.plan.told /\ ~hl.open
      /\ ~hl.stopped /\ hl.stop = "no"
  BY DEF Hl!Init, Hl!Client
<1> QED BY <1>1, <1>2 DEF HlInv, HlOwned, HlOpening, HlPrepared, HlStops, HlPhased, HlAttempt,
                          Hl!Idle, Hl!Connection

LEMMA HlKept ==
    ASSUME HlClients \in Nat, HlAttempts \in Nat, HlInv(hl), Hl!Next PROVE HlInv(hl')
<1>1. CASE Hl!Connect
  BY <1>1, HlConnectKeeps
<1>2. CASE Hl!Readiness
  BY <1>2, HlReadinessKeeps
<1>3. CASE Hl!WaitUntilReady
  BY <1>3, HlWaitKeeps
<1>4. CASE Hl!StreamOpened
  BY <1>4, HlStreamOpenedKeeps
<1>5. CASE Hl!SocketClosed
  BY <1>5, HlSocketClosedKeeps
<1>6. CASE Hl!SidecarOpens \/ Hl!SidecarCloses \/ Hl!SidecarFails
  BY <1>6, HlSidecarKeeps
<1>7. CASE Hl!PlanningEnds
  BY <1>7, HlPlanningEndsKeeps
<1>8. CASE Hl!PlanningControl
  BY <1>8, HlPlanningControlKeeps
<1>9. CASE Hl!Open
  BY <1>9, HlOpenKeeps
<1>10. ASSUME NEW s \in Hl!Streams, Hl!Begin(s) \/ Hl!AudioStart(s) \/ Hl!AudioStop(s) PROVE HlInv(hl')
  BY <1>10, HlBeginKeeps, HlAudioStartKeeps, HlAudioStopKeeps
<1>11. CASE Hl!RollbackBegin
  BY <1>11, HlRollbackBeginKeeps
<1>12. CASE Hl!SessionStop
  BY <1>12, HlStopKeeps
<1>13. CASE Hl!PisDown
  BY <1>13, HlPisKeeps
<1> QED BY <1>1, <1>2, <1>3, <1>4, <1>5, <1>6, <1>7, <1>8, <1>9, <1>10, <1>11, <1>12, <1>13 DEF Hl!Next

LEMMA HlOwnsItsEngine == ASSUME HlInv(hl) PROVE Hl!EngineIsOwned
<1>1. \A c \in Hl!Clients : Hl!Connection(hl, c) => c = hl.audio
  BY DEF HlInv, HlOwned
<1>2. hl.live /\ ~hl.stopped =>
         /\ hl.orch # Hl!None /\ hl.orch = hl.audio
         /\ hl.client[hl.audio].opened \/ hl.client[hl.audio].failed
         /\ hl.begun # Hl!None \/ hl.client[hl.audio].failed
  BY DEF HlInv, HlOwned
<1>3. ~hl.live /\ hl.cmd.at = "idle" /\ ~hl.stopped =>
         hl.audio = Hl!None /\ hl.orch = Hl!None /\ hl.capture = Hl!None /\ hl.begun = Hl!None
  BY DEF HlInv, HlOwned, HlAttempt
<1>4. hl.stop = "done" =>
         /\ \A c \in Hl!Clients : ~Hl!Connection(hl, c)
         /\ hl.plan.run = Hl!None /\ hl.pis # "alive"
  BY DEF HlInv, HlStops
<1> QED BY <1>1, <1>2, <1>3, <1>4 DEF Hl!EngineIsOwned

LEMMA HlTells == ASSUME HlInv(hl) PROVE Hl!BrowserIsTold
<1>1. hl.plan.notes = hl.plan.told /\ (hl.orch # Hl!None => hl.context = hl.plan.told)
  BY DEF HlInv, HlPrepared
<1>2. hl.live => hl.plan.run = Hl!None
  BY DEF HlInv, HlPrepared, HlOwned
<1>3. hl.open /\ ~hl.stopped /\ hl.cmd.at = "idle" /\ hl.rolling = {} /\ ~hl.overlap =>
         hl.phase = IF hl.live THEN "live"
                    ELSE IF hl.plan.run # Hl!None THEN "preparing" ELSE "prelive"
  BY <1>2 DEF HlInv, HlPhased
<1> QED BY <1>1, <1>3 DEF Hl!BrowserIsTold

-----------------------------------------------------------------------------
HostPart == IF subject = "hl" THEN HlInv(hl) ELSE hl = Off

LEMMA HostPartStarts == ASSUME HlClients \in Nat PROVE PartsInit => HostPart
  BY HlInit DEF PartsInit, HostPart

LEMMA HostPartStays ==
    ASSUME HlClients \in Nat, HlAttempts \in Nat
    PROVE  HostPart /\ [PartsNext]_<<vars, parts>> => HostPart'
<1> SUFFICES ASSUME HostPart, [PartsNext]_<<vars, parts>> PROVE HostPart'
  OBVIOUS
<1>1. subject' = subject /\ (hl' = hl \/ (subject = "hl" /\ Hl!Next))
  BY DEF PartsNext, parts
<1>2. CASE subject = "hl"
  <2>1. HlInv(hl)
    BY <1>2 DEF HostPart
  <2>2. HlInv(hl')
    BY <1>1, <1>2, <2>1, HlKept
  <2> QED BY <1>1, <1>2, <2>2 DEF HostPart
<1>3. CASE subject # "hl"
  BY <1>1, <1>3 DEF HostPart
<1> QED BY <1>2, <1>3

(* Whatever failed, and whoever stopped the conversation meanwhile, no     *)
(* engine is left that nobody owns (BrowserSession.ts:524-526, 736-738).   *)
THEOREM EngineOwned ==
    ASSUME HlClients \in Nat, HlAttempts \in Nat PROVE PartsSpec => []EngineIsOwned
<1>1. PartsInit => HostPart
  BY HostPartStarts
<1>2. HostPart /\ [PartsNext]_<<vars, parts>> => HostPart'
  BY HostPartStays
<1>3. HostPart => EngineIsOwned
  BY HlOwnsItsEngine DEF HostPart, EngineIsOwned
<1> QED BY <1>1, <1>2, <1>3, PTL DEF PartsSpec

(* The browser knows where the session is, except while a rollback nobody  *)
(* waits for reports over what came after it (BrowserSession.ts:739, 750). *)
THEOREM BrowserTold ==
    ASSUME HlClients \in Nat, HlAttempts \in Nat PROVE PartsSpec => []BrowserIsTold
<1>1. PartsInit => HostPart
  BY HostPartStarts
<1>2. HostPart /\ [PartsNext]_<<vars, parts>> => HostPart'
  BY HostPartStays
<1>3. HostPart => BrowserIsTold
  BY HlTells DEF HostPart, BrowserIsTold
<1> QED BY <1>1, <1>2, <1>3, PTL DEF PartsSpec
=============================================================================
