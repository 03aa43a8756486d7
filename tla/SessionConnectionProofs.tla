----------------------- MODULE SessionConnectionProofs -----------------------
(***************************************************************************)
(* Proofs about SessionConnection, for any number of sockets, commands,    *)
(* frames and cuts.  The invariants are layers, each over the one before:  *)
(* what the transport may be (TransportInv), who is admitted               *)
(* (AdmissionInv), which sockets were greeted (GreetedInv), in which order *)
(* commands wait (CommandsInv) and in which order frames do (FramesInv).   *)
(***************************************************************************)
EXTENDS SessionConnection, SequenceTheorems, WellFoundedInduction, TLAPS

Talks == 0..MaxSockets
Commands == 1..MaxCommands
ToHost == [type : {"auth", "close"}] \cup [type : {"cmd"}, n : Commands]
Frames == [type : {"frame"}, talk : Talks, n : 1..MaxFrames]
ToBrowser == [type : {"authenticated", "close"}] \cup Frames
Handled == [n : Commands, talk : Talks]
Browsers ==
    [sock : 0..MaxSockets, opened : 0..MaxSockets, connected : BOOLEAN,
     reconnecting : BOOLEAN, timer : BOOLEAN, watchdog : 0..MaxSockets,
     settled : BOOLEAN, refused : BOOLEAN, told : BOOLEAN, left : BOOLEAN]

\* The types of the state, the messages on the way included.
TypeInv ==
    /\ TypeOK
    /\ toHost \in [Sockets -> Seq(ToHost)]
    /\ toBrowser \in [Sockets -> Seq(ToBrowser)]
    /\ held \in Seq(Frames)
    /\ chain \in Seq(Handled) /\ done \in Seq(Handled)
    /\ seen \in Seq([talk : Talks, n : 1..MaxFrames])

\* A transport's socket is the last it opened; it retries only while it
\* reconnects, and without a socket; it is connected, or waits for the greeting.
Ready(b) ==
    /\ b.sock \in {None, b.opened}
    /\ b.sock = None /\ ~b.left => b.timer \/ b.told
    /\ b.timer => b.reconnecting /\ b.sock = None
    /\ b.reconnecting => b.settled
    /\ b.connected => b.sock # None /\ b.settled
    /\ b.sock # None /\ b.settled => b.connected \/ b.reconnecting

\* Commands are queued only while the transport reconnects; the sockets that
\* exist are those it opened.
Transport ==
    /\ Ready(browser)
    /\ queue # <<>> => browser.settled /\ ~browser.connected
    /\ \A s \in Sockets : s > browser.opened <=> near[s] = "none"

TransportInv == TypeInv /\ Transport

-----------------------------------------------------------------------------
(* What the helpers of the transport do to it.                             *)

LEMMA Bounds ==
    /\ MaxSockets \in Nat \ {0} /\ MaxCommands \in Nat \ {0}
    /\ MaxQueued \in Nat \ {0} /\ MaxFrames \in Nat \ {0}
    /\ MaxHeld \in Nat \ {0} /\ MaxCuts \in Nat
    /\ Keyed \subseteq 2..MaxCommands /\ Controls \subseteq 2..MaxCommands
    /\ Keyed \cap Controls = {}
    /\ None \notin Sockets /\ Sockets \subseteq Nat
  BY ConnectionConstantsOK DEF Sockets, None

(* A channel stays typed when a message, or several, are written to it.    *)
LEMMA CarryTyped ==
    ASSUME NEW S, NEW channel \in [Sockets -> Seq(S)], NEW s \in Sockets, NEW m \in S
    PROVE  Carry(channel, s, m) \in [Sockets -> Seq(S)]
  BY AppendProperties DEF Carry

LEMMA WriteTyped ==
    ASSUME NEW S, NEW channel \in [Sockets -> Seq(S)], NEW s \in Sockets, NEW f \in Seq(S)
    PROVE  WriteFrames(channel, s, f) \in [Sockets -> Seq(S)]
  BY ConcatProperties DEF WriteFrames

LEMMA TakenTyped ==
    ASSUME NEW S, NEW channel \in [Sockets -> Seq(S)], NEW s \in Sockets, channel[s] # <<>>
    PROVE  [channel EXCEPT ![s] = Tail(@)] \in [Sockets -> Seq(S)]
  BY HeadTailProperties

LEMMA EmptiedTyped ==
    ASSUME NEW S, NEW channel \in [Sockets -> Seq(S)], NEW s \in Sockets
    PROVE  [channel EXCEPT ![s] = <<>>] \in [Sockets -> Seq(S)]
  BY EmptySeq

LEMMA ClosesAreMessages ==
    /\ [type |-> "close"] \in ToHost /\ [type |-> "auth"] \in ToHost
    /\ [type |-> "close"] \in ToBrowser /\ [type |-> "authenticated"] \in ToBrowser
    /\ \A c \in Commands : [type |-> "cmd", n |-> c] \in ToHost
    /\ Frames \subseteq ToBrowser
  BY DEF ToHost, ToBrowser

LEMMA CloseTyped ==
    ASSUME TypeInv, NEW S, CloseFar(S)
    PROVE  /\ far' \in [Sockets -> FarStates]
           /\ toBrowser' \in [Sockets -> Seq(ToBrowser)]
<1>1. far' \in [Sockets -> FarStates]
  BY DEF CloseFar, TypeInv, TypeOK, FarStates
<1>2. toBrowser' \in [Sockets -> Seq(ToBrowser)]
  BY AppendProperties, ClosesAreMessages DEF CloseFar, TypeInv
<1> QED BY <1>1, <1>2

(* A transport that was ready is ready after it may have to retry.         *)
LEMMA RetryReady ==
    ASSUME NEW b \in Browsers, b.sock = None, ~b.connected, ~b.timer, b.reconnecting,
           b.settled, NEW c \in ScheduleReconnect(b)
    PROVE  /\ c \in Browsers /\ Ready(c) /\ ~c.connected
           /\ c.settled /\ c.opened = b.opened /\ c.sock = None
  BY DEF ScheduleReconnect, Ready, Browsers, None

(* And after the failure of its socket.                                    *)
LEMMA FailureReady ==
    ASSUME NEW b \in Browsers, NEW s \in Sockets, Ready(b), NEW c \in SocketFailure(b, s)
    PROVE  /\ c \in Browsers /\ Ready(c) /\ c.opened = b.opened
           /\ c.sock = b.sock \/ c.sock = None
           /\ b.sock = s => c.sock = None /\ ~c.connected
           /\ b.sock # s => c = b
           /\ b.settled => c.settled
           /\ c.connected => b.connected
<1> DEFINE lost == [b EXCEPT !.sock = None, !.connected = FALSE]
<1>1. None \in 0..MaxSockets /\ s # None
  BY Bounds DEF None
<1>2. lost \in Browsers /\ lost.sock = None /\ ~lost.connected /\ lost.opened = b.opened
  BY <1>1 DEF Browsers
<1>3. CASE b.sock # s
  BY <1>3 DEF SocketFailure
<1>4. CASE b.sock = s
  <2>1. ~b.timer
    BY <1>1, <1>4 DEF Ready
  <2>2. CASE b.left
    BY <1>1, <1>2, <1>4, <2>1, <2>2 DEF SocketFailure, Ready, Browsers
  <2>3. CASE ~b.left /\ ~b.settled
    BY <1>1, <1>2, <1>4, <2>1, <2>3 DEF SocketFailure, Ready, Browsers
  <2>4. CASE ~b.left /\ b.settled /\ b.refused
    BY <1>1, <1>2, <1>4, <2>1, <2>4 DEF SocketFailure, Ready, Browsers
  <2>5. CASE ~b.left /\ b.settled /\ ~b.refused /\ b.reconnecting
    <3>1. c \in ScheduleReconnect(lost)
      BY <1>4, <2>5 DEF SocketFailure
    <3>2. lost.reconnecting /\ ~lost.timer /\ lost.settled
      BY <2>1, <2>5 DEF Browsers
    <3> QED BY <1>2, <1>4, <3>1, <3>2, RetryReady, <1>1
  <2>6. CASE ~b.left /\ b.settled /\ ~b.refused /\ ~b.reconnecting
    BY <1>1, <1>2, <1>4, <2>1, <2>6 DEF SocketFailure, Ready, Browsers
  <2> QED BY <2>2, <2>3, <2>4, <2>5, <2>6
<1> QED BY <1>3, <1>4

-----------------------------------------------------------------------------
(* The transport is ready, and everything typed.                           *)

LEMMA TransportInit == Init => TransportInv
<1> SUFFICES ASSUME Init PROVE TransportInv
  OBVIOUS
<1>1. TypeInv
  BY Bounds, EmptySeq DEF Init, TypeInv, TypeOK, Sockets, None, NearStates, FarStates, Plans
<1>2. Transport
  BY Bounds DEF Init, Transport, Ready, Sockets, None
<1> QED BY <1>1, <1>2 DEF TransportInv

(* The host's fields stay typed when they are not touched, and likewise    *)
(* the browser's.                                                          *)
LEMMA HostStill ==
    ASSUME TypeInv, UNCHANGED hostVars,
           browser' \in Browsers, queue' \in Seq(Commands), Len(queue') <= MaxQueued,
           made' \in 0..MaxCommands, near' \in [Sockets -> NearStates],
           greeted' \in [Sockets -> BOOLEAN], path' \in [Sockets -> BOOLEAN],
           toHost' \in [Sockets -> Seq(ToHost)], toBrowser' \in [Sockets -> Seq(ToBrowser)],
           seen' \in Seq([talk : Talks, n : 1..MaxFrames]), cuts' \in 0..MaxCuts
    PROVE  TypeInv'
  BY DEF TypeInv, TypeOK, hostVars, Browsers, Commands

LEMMA BrowserStill ==
    ASSUME TypeInv, UNCHANGED <<browserVars, path, seen, cuts>>,
           far' \in [Sockets -> FarStates], alive' \in [Sockets -> BOOLEAN],
           session' \in [sockets : SUBSET Sockets, auth : BOOLEAN,
                         active : 0..MaxSockets, grace : BOOLEAN,
                         stopping : BOOLEAN, known : BOOLEAN, expired : BOOLEAN],
           talk' \in [id : 0..MaxSockets, stopped : BOOLEAN, opened : BOOLEAN,
                      plan : Plans, socket : 0..MaxSockets, frames : 0..MaxFrames],
           held' \in Seq(Frames), Len(held') <= MaxHeld,
           chain' \in Seq(Handled), done' \in Seq(Handled),
           toHost' \in [Sockets -> Seq(ToHost)], toBrowser' \in [Sockets -> Seq(ToBrowser)]
    PROVE  TypeInv'
  BY DEF TypeInv, TypeOK, browserVars

LEMMA BrowserTyped == TransportInv => browser \in Browsers /\ Ready(browser)
  BY DEF TransportInv, TypeInv, TypeOK, Transport, Browsers

LEMMA SocketsTyped ==
    ASSUME TransportInv
    PROVE  /\ near \in [Sockets -> NearStates] /\ far \in [Sockets -> FarStates]
           /\ browser.opened \in 0..MaxSockets /\ browser.sock \in 0..MaxSockets
           /\ queue \in Seq(Commands) /\ Len(queue) <= MaxQueued
           /\ made \in 0..MaxCommands
  BY DEF TransportInv, TypeInv, TypeOK, Commands

(* A socket that exists may go on to any stage; the others stay.           *)
LEMMA OneSocketMoves ==
    ASSUME TransportInv, Ready(browser'), browser'.opened = browser.opened,
           queue' # <<>> => browser'.settled /\ ~browser'.connected,
           NEW s \in Sockets, near[s] # "none", near'[s] # "none",
           \A u \in Sockets \ {s} : near'[u] = near[u]
    PROVE  Transport'
<1>1. ASSUME NEW u \in Sockets PROVE u > browser'.opened <=> near'[u] = "none"
  BY DEF TransportInv, Transport
<1> QED BY <1>1 DEF Transport

LEMMA Unwatched ==
    ASSUME NEW b \in Browsers, Ready(b)
    PROVE  LET c == [b EXCEPT !.watchdog = None]
           IN  /\ c \in Browsers /\ Ready(c) /\ c.opened = b.opened
               /\ c.settled = b.settled /\ c.connected = b.connected /\ c.sock = b.sock
<1>1. None \in 0..MaxSockets
  BY Bounds DEF None
<1> QED BY <1>1 DEF Browsers, Ready

(* What an onerror, an onclose or the watchdog leaves.                     *)
LEMMA FailureKeeps ==
    ASSUME TransportInv, NEW s \in Sockets,
           NEW c \in SocketFailure([browser EXCEPT !.watchdog = None], s)
    PROVE  /\ c \in Browsers /\ Ready(c) /\ c.opened = browser.opened
           /\ browser.settled => c.settled
           /\ c.connected => browser.connected
           /\ c.sock = browser.sock \/ c.sock = None
           /\ browser.sock = s => c.sock = None /\ ~c.connected
<1> DEFINE b == [browser EXCEPT !.watchdog = None]
<1>1. /\ b \in Browsers /\ Ready(b) /\ b.opened = browser.opened
      /\ b.settled = browser.settled /\ b.connected = browser.connected /\ b.sock = browser.sock
  BY BrowserTyped, Unwatched
<1>2. c \in SocketFailure(b, s)
  OBVIOUS
<1> HIDE DEF b
<1> QED BY <1>1, <1>2, FailureReady

LEMMA OpenSocketTransport ==
    ASSUME TransportInv, NEW b \in Browsers, Ready(b), b.opened = browser.opened,
           b.timer, OpenSocket(b)
    PROVE  TransportInv'
<1>1. b.opened + 1 \in Sockets /\ b.opened \in Nat
  BY Bounds DEF OpenSocket, Sockets, Browsers
<1>2. browser' \in Browsers
  <2>1. b.opened + 1 \in 0..MaxSockets
    BY <1>1, Bounds DEF Sockets
  <2> QED BY <2>1 DEF OpenSocket, Browsers
<1>3. near' \in [Sockets -> NearStates]
  BY <1>1 DEF OpenSocket, TransportInv, TypeInv, TypeOK, NearStates
<1>4. TypeInv'
  BY <1>2, <1>3, HostStill DEF OpenSocket, TransportInv, TypeInv, TypeOK, hostVars, Commands
<1>5. Ready(browser')
  BY <1>1, Bounds DEF OpenSocket, Ready, None, Browsers, Sockets
<1>6. /\ browser'.opened = browser.opened + 1 /\ browser'.settled = b.settled
      /\ browser'.connected = b.connected /\ b.settled /\ ~b.connected
      /\ near' = [near EXCEPT ![browser.opened + 1] = "connecting"]
      /\ UNCHANGED <<queue, far>>
  BY DEF OpenSocket, Ready, hostVars, Browsers
<1>7. Transport'
  <2>1. /\ Sockets \subseteq Nat /\ browser.opened + 1 \in Sockets /\ browser.opened \in Nat
        /\ near \in [Sockets -> NearStates]
    BY <1>1, Bounds, SocketsTyped
  <2>2. ASSUME NEW s \in Sockets PROVE s > browser'.opened <=> near'[s] = "none"
    <3>1. s \in Nat /\ (s > browser.opened <=> near[s] = "none")
      BY <2>1 DEF TransportInv, Transport
    <3> QED BY <1>6, <2>1, <3>1
  <2> QED BY <1>5, <1>6, <2>2 DEF Transport
<1> QED BY <1>4, <1>7 DEF TransportInv

LEMMA RetryDueTransport == TransportInv /\ RetryDue => TransportInv'
<1> SUFFICES ASSUME TransportInv, RetryDue PROVE TransportInv'
  OBVIOUS
<1>1. browser \in Browsers /\ Ready(browser) /\ browser.timer
  BY DEF TransportInv, TypeInv, TypeOK, Transport, RetryDue, Browsers
<1>2. CASE OpenSocket(browser)
  BY <1>1, <1>2, OpenSocketTransport
<1>3. CASE ~OpenSocket(browser)
  <2> DEFINE b == [browser EXCEPT !.timer = FALSE]
  <2>1. /\ browser' \in ScheduleReconnect(b)
        /\ UNCHANGED <<queue, made, near, greeted, path, toHost, toBrowser, hostVars, seen, cuts>>
    BY <1>3 DEF RetryDue
  <2>2. /\ b \in Browsers /\ b.sock = None /\ ~b.connected /\ ~b.timer /\ b.reconnecting
        /\ b.settled /\ b.opened = browser.opened
    BY <1>1 DEF Browsers, Ready
  <2>3. /\ browser' \in Browsers /\ Ready(browser') /\ ~browser'.connected
        /\ browser'.settled /\ browser'.opened = browser.opened
    BY <2>1, <2>2, RetryReady
  <2>4. TypeInv'
    BY <2>1, <2>3, HostStill DEF TransportInv, TypeInv, TypeOK, Commands
  <2>5. Transport'
    BY <2>1, <2>3 DEF TransportInv, Transport, hostVars
  <2> QED BY <2>4, <2>5 DEF TransportInv
<1> QED BY <1>2, <1>3

LEMMA WatchdogFiresTransport == TransportInv /\ WatchdogFires => TransportInv'
<1> SUFFICES ASSUME TransportInv, WatchdogFires PROVE TransportInv'
  OBVIOUS
<1>1. browser.watchdog \in Sockets
  BY BrowserTyped, Bounds DEF WatchdogFires, None, Sockets, Browsers
<1>2. \/ browser' = [browser EXCEPT !.watchdog = None]
      \/ browser' \in SocketFailure([browser EXCEPT !.watchdog = None], browser.watchdog)
  BY DEF WatchdogFires
<1>3. /\ browser' \in Browsers /\ Ready(browser') /\ browser'.opened = browser.opened
      /\ browser.settled => browser'.settled
      /\ browser'.connected => browser.connected
  <2>1. CASE browser' = [browser EXCEPT !.watchdog = None]
    BY <2>1, BrowserTyped, Unwatched
  <2>2. CASE browser' \in SocketFailure([browser EXCEPT !.watchdog = None], browser.watchdog)
    BY <1>1, <2>2, FailureKeeps
  <2> QED BY <1>2, <2>1, <2>2
<1>4. TypeInv'
  BY <1>3, HostStill DEF TransportInv, TypeInv, TypeOK, WatchdogFires, Commands
<1>5. Transport'
  BY <1>3 DEF TransportInv, Transport, WatchdogFires, hostVars
<1> QED BY <1>4, <1>5 DEF TransportInv

LEMMA SocketGoneTransport ==
    ASSUME TransportInv, NEW s \in Sockets, SocketGone(s) PROVE TransportInv'
<1>1. /\ browser' \in Browsers /\ Ready(browser') /\ browser'.opened = browser.opened
      /\ browser.settled => browser'.settled
      /\ browser'.connected => browser.connected
  BY FailureKeeps DEF SocketGone, Fail
<1>2. near' \in [Sockets -> NearStates] /\ near' = [near EXCEPT ![s] = "gone"]
  BY DEF SocketGone, TransportInv, TypeInv, TypeOK, NearStates
<1>3. /\ toHost' \in [Sockets -> Seq(ToHost)]
      /\ toBrowser' \in [Sockets -> Seq(ToBrowser)]
  BY CarryTyped, EmptiedTyped, ClosesAreMessages DEF SocketGone, TransportInv, TypeInv
<1>4. TypeInv'
  BY <1>1, <1>2, <1>3, HostStill DEF TransportInv, TypeInv, TypeOK, SocketGone, Commands
<1>5. near[s] # "none"
  BY DEF SocketGone
<1>6. Transport'
  <2>1. UNCHANGED <<queue, far>>
    BY DEF SocketGone, hostVars
  <2>2. queue' # <<>> => browser'.settled /\ ~browser'.connected
    BY <1>1, <2>1 DEF TransportInv, Transport
  <2> QED BY <1>1, <1>2, <1>5, <2>1, <2>2, SocketsTyped, OneSocketMoves
<1> QED BY <1>4, <1>6 DEF TransportInv

LEMMA SocketOpensTransport ==
    ASSUME TransportInv, NEW s \in Sockets, SocketOpens(s) PROVE TransportInv'
<1>1. near' \in [Sockets -> NearStates] /\ near' = [near EXCEPT ![s] = "open"]
  BY DEF SocketOpens, TransportInv, TypeInv, TypeOK, NearStates
<1>2. far' \in [Sockets -> FarStates]
      /\ far' = [far EXCEPT ![s] = IF session.known THEN "pending" ELSE "stranger"]
  BY DEF SocketOpens, TransportInv, TypeInv, TypeOK, FarStates
<1>3. toHost' \in [Sockets -> Seq(ToHost)]
  BY CarryTyped, ClosesAreMessages DEF SocketOpens, TransportInv, TypeInv
<1>4. TypeInv'
  BY <1>1, <1>2, <1>3 DEF SocketOpens, TransportInv, TypeInv, TypeOK
<1>5. near[s] # "none"
  BY DEF SocketOpens
<1>6. Transport'
  <2>1. Ready(browser') /\ UNCHANGED <<browser, queue>>
    BY BrowserTyped DEF SocketOpens
  <2>2. queue' # <<>> => browser'.settled /\ ~browser'.connected
    BY <2>1 DEF TransportInv, Transport
  <2> QED BY <1>1, <1>2, <1>5, <2>1, <2>2, SocketsTyped, OneSocketMoves
<1> QED BY <1>4, <1>6 DEF TransportInv

(* What the greeting of a socket makes of the transport.                   *)
LEMMA GreetingReady ==
    ASSUME TransportInv, NEW s \in Sockets, browser.sock = s, ~browser.left,
           TakeAuthenticated(s)
    PROVE  /\ browser' \in Browsers /\ Ready(browser') /\ browser'.opened = browser.opened
           /\ browser'.settled /\ browser'.connected /\ browser'.sock = s
           /\ queue' = <<>>
<1>1. None \in 0..MaxSockets
  BY Bounds DEF None
<1>2. browser \in Browsers /\ Ready(browser) /\ s # None
  BY BrowserTyped, Bounds
<1>3. CASE browser.settled /\ browser.reconnecting
  BY <1>1, <1>2, <1>3 DEF TakeAuthenticated, Ready, Browsers
<1>4. CASE ~(browser.settled /\ browser.reconnecting)
  <2>1. queue = <<>> /\ ~browser.reconnecting
    BY <1>2, <1>4 DEF TransportInv, Transport, Ready
  <2> QED BY <1>1, <1>2, <1>4, <2>1 DEF TakeAuthenticated, Ready, Browsers
<1> QED BY <1>3, <1>4

(* The backlog is a sequence of messages to the host.                      *)
LEMMA BacklogTyped ==
    ASSUME NEW q \in Seq(Commands)
    PROVE  /\ [i \in DOMAIN q |-> [type |-> "cmd", n |-> q[i]]] \in Seq(ToHost)
           /\ Len([i \in DOMAIN q |-> [type |-> "cmd", n |-> q[i]]]) = Len(q)
<1>1. DOMAIN q = 1..Len(q) /\ Len(q) \in Nat /\ \A i \in 1..Len(q) : q[i] \in Commands
  BY LenProperties, ElementOfSeq
<1>2. \A i \in 1..Len(q) : [type |-> "cmd", n |-> q[i]] \in ToHost
  BY <1>1, ClosesAreMessages
<1> QED BY <1>1, <1>2

LEMMA GreetingTyped ==
    ASSUME TransportInv, NEW s \in Sockets, TakeAuthenticated(s)
    PROVE  /\ toHost' \in [Sockets -> Seq(ToHost)] /\ greeted' \in [Sockets -> BOOLEAN]
           /\ UNCHANGED <<made, seen>>
<1> DEFINE backlog == [i \in DOMAIN queue |-> [type |-> "cmd", n |-> queue[i]]]
<1>1. backlog \in Seq(ToHost)
  BY BacklogTyped DEF TransportInv, TypeInv, TypeOK, Commands
<1>2. \/ toHost' = [toHost EXCEPT ![s] = @ \o backlog]
      \/ toHost' = toHost
  BY DEF TakeAuthenticated
<1>3. toHost' \in [Sockets -> Seq(ToHost)]
  <2> HIDE DEF backlog
  <2>1. toHost \in [Sockets -> Seq(ToHost)]
    BY DEF TransportInv, TypeInv
  <2>2. toHost[s] \o backlog \in Seq(ToHost)
    BY <1>1, <2>1, ConcatProperties
  <2> QED BY <1>2, <2>1, <2>2
<1> QED BY <1>3 DEF TakeAuthenticated, TransportInv, TypeInv, TypeOK

LEMMA BrowserReceiveTransport ==
    ASSUME TransportInv, NEW s \in Sockets, BrowserReceive(s) PROVE TransportInv'
<1> DEFINE m == Head(toBrowser[s])
           listens == near[s] = "open" /\ browser.sock = s /\ ~browser.left
<1>1. /\ m \in ToBrowser /\ m.type # "close"
      /\ toBrowser' \in [Sockets -> Seq(ToBrowser)]
  BY HeadTailProperties, TakenTyped DEF BrowserReceive, TransportInv, TypeInv
<1>2. /\ browser' \in Browsers /\ Ready(browser') /\ browser'.opened = browser.opened
      /\ browser.settled => browser'.settled
      /\ queue' \in Seq(Commands) /\ Len(queue') <= MaxQueued
      /\ queue' # <<>> => browser'.settled /\ ~browser'.connected
      /\ toHost' \in [Sockets -> Seq(ToHost)]
      /\ seen' \in Seq([talk : Talks, n : 1..MaxFrames])
      /\ made' = made
      /\ greeted' \in [Sockets -> BOOLEAN]
  <2>1. CASE listens /\ m.type = "authenticated"
    <3>1. TakeAuthenticated(s)
      BY <2>1 DEF BrowserReceive
    <3>2. <<>> \in Seq(Commands) /\ Len(<<>>) <= MaxQueued
      BY EmptySeq, Bounds
    <3> QED BY <2>1, <3>1, <3>2, GreetingReady, GreetingTyped DEF TransportInv, TypeInv
  <2>2. CASE ~listens
    BY <2>2, BrowserTyped DEF BrowserReceive, Discard, TransportInv, Transport, TypeInv, TypeOK, Commands
  <2>3. CASE listens /\ m.type # "authenticated"
    <3>1. TakeFrame(s, m)
      BY <2>3 DEF BrowserReceive
    <3>2. m \in Frames
      BY <1>1, <2>3 DEF ToBrowser
    <3>3. [talk |-> m.talk, n |-> m.n] \in [talk : Talks, n : 1..MaxFrames]
      BY <3>2 DEF Frames
    <3>4. seen' \in Seq([talk : Talks, n : 1..MaxFrames])
      BY <3>1, <3>3, AppendProperties DEF TakeFrame, TransportInv, TypeInv
    <3> QED BY <3>1, <3>4, BrowserTyped DEF TakeFrame, TransportInv, Transport, TypeInv, TypeOK, Commands
  <2> QED BY <2>1, <2>2, <2>3
<1>3. TypeInv'
  BY <1>1, <1>2, HostStill DEF BrowserReceive, TransportInv, TypeInv, TypeOK
<1>4. Transport'
  BY <1>2 DEF BrowserReceive, TransportInv, Transport, hostVars
<1> QED BY <1>3, <1>4 DEF TransportInv

(* The smallest of some indices is one of them.                            *)
LEMMA MinIsOne ==
    ASSUME NEW S \in SUBSET Nat, S # {}
    PROVE  Min(S) \in S /\ \A x \in S : Min(S) <= x
<1>1. \E x \in S : \A y \in S : <<y, x>> \notin OpToRel(<, Nat)
  BY NatLessThanWellFounded, WFMin
<1>2. ASSUME NEW x \in Nat, NEW y \in Nat, y < x PROVE <<y, x>> \in OpToRel(<, Nat)
  <2>1. <<y, x>> \in Nat \X Nat /\ <<y, x>>[1] = y /\ <<y, x>>[2] = x
    OBVIOUS
  <2> QED BY <1>2, <2>1 DEF OpToRel
<1>3. PICK x \in S : \A y \in S : <<y, x>> \notin OpToRel(<, Nat)
  BY <1>1
<1>4. \A y \in S : ~(y < x) /\ x \in Nat /\ y \in Nat
  BY <1>2, <1>3
<1>5. \A y \in S : x <= y
  BY <1>4
<1> QED BY <1>5 DEF Min

(* A sequence without one of its elements: the rest moves up.              *)
LEMMA RemoveTyped ==
    ASSUME NEW S, NEW q \in Seq(S), NEW i \in 1..Len(q)
    PROVE  /\ RemoveAt(q, i) \in Seq(S) /\ Len(RemoveAt(q, i)) = Len(q) - 1
           /\ \A j \in 1..Len(q) - 1 :
                RemoveAt(q, i)[j] = IF j < i THEN q[j] ELSE q[j + 1]
<1> DEFINE a == SubSeq(q, 1, i - 1)
           b == SubSeq(q, i + 1, Len(q))
<1>1. Len(q) \in Nat /\ \A j \in 1..Len(q) : q[j] \in S
  BY LenProperties, ElementOfSeq
<1>2. /\ a \in Seq(S) /\ Len(a) = i - 1
      /\ \A j \in 1..i - 1 : a[j] = q[j]
  BY <1>1, SubSeqProperties
<1>3. /\ b \in Seq(S) /\ Len(b) = Len(q) - i
      /\ \A j \in 1..Len(q) - i : b[j] = q[i + j]
  BY <1>1, SubSeqProperties
<1> HIDE DEF a, b
<1>4. /\ a \o b \in Seq(S) /\ Len(a \o b) = Len(a) + Len(b)
      /\ \A j \in 1..Len(a) + Len(b) :
            (a \o b)[j] = IF j <= Len(a) THEN a[j] ELSE b[j - Len(a)]
  BY <1>2, <1>3, ConcatProperties
<1>5. ASSUME NEW j \in 1..Len(q) - 1
      PROVE  (a \o b)[j] = IF j < i THEN q[j] ELSE q[j + 1]
  <2>1. CASE j < i
    BY <1>1, <1>2, <1>3, <1>4, <2>1
  <2>2. CASE ~(j < i)
    <3>1. j - (i - 1) \in 1..Len(q) - i /\ i + (j - (i - 1)) = j + 1 /\ ~(j <= i - 1)
      BY <1>1, <2>2
    <3>2. (a \o b)[j] = b[j - (i - 1)]
      BY <1>1, <1>2, <1>3, <1>4, <3>1
    <3>3. b[j - (i - 1)] = q[i + (j - (i - 1))]
      BY <1>3, <3>1
    <3> QED BY <2>2, <3>1, <3>2, <3>3
  <2> QED BY <2>1, <2>2
<1>6. Len(a \o b) = Len(q) - 1
  BY <1>1, <1>2, <1>3, <1>4
<1>7. RemoveAt(q, i) = a \o b
  BY DEF RemoveAt, a, b
<1> QED BY <1>4, <1>5, <1>6, <1>7

(* A command is queued behind the others, in the place of a report, or not *)
(* at all.                                                                 *)
LEMMA EnqueueKeeps ==
    ASSUME NEW q \in Seq(Commands), queue = q, Len(q) <= MaxQueued, NEW c \in Commands
    PROVE  LET e == Enqueue(c)
           IN  /\ e.queue \in Seq(Commands) /\ Len(e.queue) <= MaxQueued /\ e.told \in BOOLEAN
               /\ \/ e.queue = q
                  \/ e.queue = Append(q, c)
                  \/ /\ c \in Keyed
                     /\ \E i \in 1..Len(q) : q[i] \in Keyed /\ e.queue = [q EXCEPT ![i] = c]
                  \/ \E i \in 1..Len(q) : e.queue = Append(RemoveAt(q, i), c)
<1> DEFINE same == {i \in DOMAIN q : {c, q[i]} \subseteq Keyed}
           reports == {i \in DOMAIN q : q[i] \in Keyed}
<1>1. DOMAIN q = 1..Len(q) /\ Len(q) \in Nat /\ MaxQueued \in Nat
  BY LenProperties, Bounds
<1>2. /\ same \in SUBSET 1..Len(q) /\ reports \in SUBSET 1..Len(q)
      /\ 1..Len(q) \subseteq Nat
  BY <1>1
<1>3. Enqueue(c) =
        IF same # {} THEN [queue |-> [q EXCEPT ![Min(same)] = c], told |-> FALSE]
        ELSE IF Len(q) < MaxQueued THEN [queue |-> Append(q, c), told |-> FALSE]
        ELSE IF reports # {}
        THEN [queue |-> Append(RemoveAt(q, Min(reports)), c), told |-> FALSE]
        ELSE [queue |-> q, told |-> TRUE]
  BY DEF Enqueue
<1>4. CASE same # {}
  <2> DEFINE i == Min(same)
             r == [q EXCEPT ![i] = c]
  <2>1. i \in same
    BY <1>2, <1>4, MinIsOne
  <2>2. i \in 1..Len(q) /\ q[i] \in Keyed /\ c \in Keyed
    BY <1>1, <2>1
  <2>3. Enqueue(c) = [queue |-> r, told |-> FALSE]
    BY <1>3, <1>4
  <2> HIDE DEF i
  <2>4. r \in Seq(Commands) /\ Len(r) = Len(q)
    BY <2>2, ExceptSeq
  <2>5. \E j \in 1..Len(q) : q[j] \in Keyed /\ r = [q EXCEPT ![j] = c]
    BY <2>2
  <2> HIDE DEF r
  <2>6. Enqueue(c).queue = r /\ Enqueue(c).told = FALSE
    BY <2>3
  <2> QED BY <2>2, <2>4, <2>5, <2>6
<1>5. CASE same = {} /\ Len(q) < MaxQueued
  <2>1. Append(q, c) \in Seq(Commands) /\ Len(Append(q, c)) = Len(q) + 1
    BY AppendProperties
  <2>2. Enqueue(c) = [queue |-> Append(q, c), told |-> FALSE]
    BY <1>3, <1>5
  <2>3. Len(Append(q, c)) <= MaxQueued
    BY <1>1, <1>5, <2>1
  <2> QED BY <2>1, <2>2, <2>3
<1>6. CASE same = {} /\ ~(Len(q) < MaxQueued) /\ reports # {}
  <2> DEFINE i == Min(reports)
             r == Append(RemoveAt(q, i), c)
  <2>1. i \in 1..Len(q)
    BY <1>2, <1>6, MinIsOne
  <2>2. Enqueue(c) = [queue |-> r, told |-> FALSE]
    BY <1>3, <1>6
  <2> HIDE DEF i
  <2>3. RemoveAt(q, i) \in Seq(Commands) /\ Len(RemoveAt(q, i)) = Len(q) - 1
    BY <1>1, <2>1, RemoveTyped
  <2>4. r \in Seq(Commands) /\ Len(r) = Len(RemoveAt(q, i)) + 1
    BY <2>3, AppendProperties
  <2>5. \E j \in 1..Len(q) : r = Append(RemoveAt(q, j), c)
    BY <2>1
  <2>6. Len(r) <= MaxQueued
    BY <1>1, <2>3, <2>4
  <2> HIDE DEF r
  <2>7. Enqueue(c).queue = r /\ Enqueue(c).told = FALSE
    BY <2>2
  <2> QED BY <2>4, <2>5, <2>6, <2>7
<1>7. CASE same = {} /\ ~(Len(q) < MaxQueued) /\ reports = {}
  BY <1>3, <1>7
<1> QED BY <1>4, <1>5, <1>6, <1>7

LEMMA SendCommandTransport == TransportInv /\ SendCommand => TransportInv'
<1> SUFFICES ASSUME TransportInv, SendCommand PROVE TransportInv'
  OBVIOUS
<1> DEFINE c == made + 1
           q == Enqueue(c)
           told == [browser EXCEPT !.told = @ \/ q.told]
<1>1. /\ c \in Commands /\ c \in 0..MaxCommands
      /\ browser \in Browsers /\ Ready(browser)
      /\ queue \in Seq(Commands) /\ Len(queue) <= MaxQueued
  BY Bounds, SocketsTyped, BrowserTyped DEF SendCommand, Commands
<1>2. /\ q.queue \in Seq(Commands) /\ Len(q.queue) <= MaxQueued /\ q.told \in BOOLEAN
  BY <1>1, EnqueueKeeps
<1>3. /\ told \in Browsers /\ Ready(told) /\ told.opened = browser.opened
      /\ told.settled = browser.settled /\ told.connected = browser.connected
      /\ told.sock = browser.sock /\ told.reconnecting = browser.reconnecting
  <2> HIDE DEF q
  <2> QED BY <1>1, <1>2 DEF Browsers, Ready
<1>4. made' = c /\ UNCHANGED <<near, greeted, path, toBrowser, hostVars, seen, cuts>>
  BY DEF SendCommand
<1>5. /\ browser' \in Browsers /\ Ready(browser') /\ browser'.opened = browser.opened
      /\ queue' \in Seq(Commands) /\ Len(queue') <= MaxQueued
      /\ queue' # <<>> => browser'.settled /\ ~browser'.connected
      /\ toHost' \in [Sockets -> Seq(ToHost)]
  <2>1. CASE /\ browser.connected /\ near[browser.sock] = "open"
             /\ toHost' = Carry(toHost, browser.sock, [type |-> "cmd", n |-> c])
             /\ UNCHANGED <<browser, queue>>
    <3>1. browser.sock \in Sockets
      BY <1>1, <2>1, Bounds DEF Ready, Browsers, Sockets, None
    <3>2. toHost' \in [Sockets -> Seq(ToHost)]
      BY <1>1, <2>1, <3>1, CarryTyped, ClosesAreMessages DEF TransportInv, TypeInv
    <3> QED BY <1>1, <2>1, <3>2 DEF TransportInv, Transport
  <2>2. CASE /\ browser.connected /\ near[browser.sock] # "open"
             /\ queue' = q.queue /\ browser' \in SocketFailure(told, browser.sock)
             /\ UNCHANGED toHost
    <3>1. browser.sock \in Sockets /\ browser.settled
      BY <1>1, <2>2, Bounds DEF Ready, Browsers, Sockets, None
    <3> HIDE DEF told, q
    <3>2. /\ browser' \in Browsers /\ Ready(browser') /\ browser'.opened = told.opened
          /\ ~browser'.connected /\ browser'.settled
      BY <1>3, <2>2, <3>1, FailureReady
    <3> QED BY <1>2, <1>3, <2>2, <3>2 DEF TransportInv, TypeInv
  <2>3. CASE /\ ~browser.connected /\ browser.reconnecting
             /\ queue' = q.queue /\ browser' = told /\ UNCHANGED toHost
    <3> HIDE DEF told, q
    <3> QED BY <1>1, <1>2, <1>3, <2>3 DEF Ready, TransportInv, TypeInv
  <2> QED BY <2>1, <2>2, <2>3 DEF SendCommand
<1> HIDE DEF c, q, told
<1>6. TypeInv'
  BY <1>1, <1>4, <1>5, HostStill DEF TransportInv, TypeInv, TypeOK
<1>7. Transport'
  BY <1>4, <1>5 DEF TransportInv, Transport, hostVars
<1> QED BY <1>6, <1>7 DEF TransportInv

LEMMA RefuseHostTransport == TransportInv /\ RefuseHost => TransportInv'
<1> SUFFICES ASSUME TransportInv, RefuseHost PROVE TransportInv'
  OBVIOUS
<1>1. browser \in Browsers /\ Ready(browser) /\ browser.connected
  BY BrowserTyped DEF RefuseHost
<1>2. browser.sock \in Sockets
  BY <1>1, Bounds DEF Ready, Browsers, Sockets, None
<1>3. /\ browser' \in Browsers /\ Ready(browser') /\ browser'.opened = browser.opened
      /\ browser'.settled = browser.settled /\ browser'.connected = browser.connected
  BY <1>1 DEF RefuseHost, Browsers, Ready
<1>4. near' \in [Sockets -> NearStates] /\ near' = [near EXCEPT ![browser.sock] = "closing"]
  BY SocketsTyped DEF RefuseHost, NearStates
<1>5. TypeInv'
  BY <1>3, <1>4, HostStill DEF TransportInv, TypeInv, TypeOK, RefuseHost, Commands
<1>6. Transport'
  <2>1. near[browser.sock] # "none" /\ UNCHANGED <<queue, far>>
    BY DEF RefuseHost, hostVars
  <2>2. queue' # <<>> => browser'.settled /\ ~browser'.connected
    BY <1>3, <2>1 DEF TransportInv, Transport
  <2> QED BY <1>2, <1>3, <1>4, <2>1, <2>2, SocketsTyped, OneSocketMoves
<1> QED BY <1>5, <1>6 DEF TransportInv

LEMMA DisconnectTransport == TransportInv /\ Disconnect => TransportInv'
<1> SUFFICES ASSUME TransportInv, Disconnect PROVE TransportInv'
  OBVIOUS
<1>1. browser \in Browsers /\ None \in 0..MaxSockets
  BY BrowserTyped, Bounds DEF None
<1>2. /\ browser' \in Browsers /\ Ready(browser') /\ browser'.opened = browser.opened
  BY <1>1 DEF Disconnect, Browsers, Ready
<1>3. near' \in [Sockets -> NearStates]
  BY SocketsTyped DEF Disconnect, NearStates
<1>4. <<>> \in Seq(Commands) /\ Len(<<>>) <= MaxQueued /\ queue' = <<>>
  BY EmptySeq, Bounds DEF Disconnect
<1>5. TypeInv'
  BY <1>2, <1>3, <1>4, HostStill DEF TransportInv, TypeInv, TypeOK, Disconnect
<1>6. Transport'
  <2>1. ASSUME NEW s \in Sockets, near'[s] # near[s]
        PROVE  near'[s] = "closing" /\ s = browser.opened /\ near[s] # "none"
    <3>1. /\ near' = [near EXCEPT ![browser.sock] = "closing"] /\ s = browser.sock
          /\ browser.sock # None
      BY <2>1, SocketsTyped DEF Disconnect
    <3>2. browser.sock = browser.opened
      BY <3>1, BrowserTyped DEF Ready
    <3>3. near[s] # "none"
      BY <3>1, <3>2, SocketsTyped, Bounds DEF TransportInv, Transport
    <3>4. near'[s] = "closing"
      <4>1. near' = [near EXCEPT ![s] = "closing"]
        BY <3>1
      <4> QED BY <4>1, SocketsTyped
    <3> QED BY <3>1, <3>2, <3>3, <3>4
  <2> QED BY <1>2, <1>4, <2>1, SocketsTyped, Bounds DEF TransportInv, Transport
<1> QED BY <1>5, <1>6 DEF TransportInv

-----------------------------------------------------------------------------
(* The same for the steps of the host and of the network.                  *)

Sessions ==
    [sockets : SUBSET Sockets, auth : BOOLEAN, active : 0..MaxSockets, grace : BOOLEAN,
     stopping : BOOLEAN, known : BOOLEAN, expired : BOOLEAN]
Conversations ==
    [id : Talks, stopped : BOOLEAN, opened : BOOLEAN, plan : Plans,
     socket : 0..MaxSockets, frames : 0..MaxFrames]

LEMMA HostTyped ==
    ASSUME TransportInv
    PROVE  /\ session \in Sessions /\ talk \in Conversations
           /\ alive \in [Sockets -> BOOLEAN] /\ path \in [Sockets -> BOOLEAN]
           /\ far \in [Sockets -> FarStates]
           /\ held \in Seq(Frames) /\ Len(held) <= MaxHeld
           /\ chain \in Seq(Handled) /\ done \in Seq(Handled)
           /\ toHost \in [Sockets -> Seq(ToHost)]
           /\ toBrowser \in [Sockets -> Seq(ToBrowser)]
           /\ None \in 0..MaxSockets /\ Sockets \subseteq 0..MaxSockets
<1>1. None \in 0..MaxSockets /\ Sockets \subseteq 0..MaxSockets
  BY Bounds DEF None, Sockets
<1> QED BY <1>1 DEF TransportInv, TypeInv, TypeOK, Sessions, Conversations, Talks

(* A step of the host leaves the transport as it is, and keeps everything  *)
(* typed when it writes typed values.                                      *)
LEMMA HostMoves ==
    ASSUME TransportInv, UNCHANGED <<browserVars, path, seen, cuts>>,
           far' \in [Sockets -> FarStates], alive' \in [Sockets -> BOOLEAN],
           session' \in Sessions, talk' \in Conversations,
           held' \in Seq(Frames), Len(held') <= MaxHeld,
           chain' \in Seq(Handled), done' \in Seq(Handled),
           toHost' \in [Sockets -> Seq(ToHost)], toBrowser' \in [Sockets -> Seq(ToBrowser)]
    PROVE  TransportInv'
<1>1. TypeInv'
  BY BrowserStill DEF TransportInv, Sessions, Conversations, Talks
<1>2. Transport'
  BY DEF TransportInv, Transport, browserVars
<1> QED BY <1>1, <1>2 DEF TransportInv

LEMMA CloseMoves ==
    ASSUME TransportInv, NEW S, CloseFar(S)
    PROVE  /\ far' \in [Sockets -> FarStates] /\ toBrowser' \in [Sockets -> Seq(ToBrowser)]
  BY CloseTyped DEF TransportInv

LEMMA EmptyHeld == <<>> \in Seq(Frames) /\ Len(<<>>) <= MaxHeld
  BY EmptySeq, Bounds

LEMMA DetachedTyped ==
    ASSUME TransportInv, NEW t \in Conversations, NEW s
    PROVE  Detached(t, s) \in Conversations
  BY HostTyped DEF Detached, Conversations

LEMMA HeldTyped ==
    ASSUME TransportInv
    PROVE  /\ held \in Seq(ToBrowser)
           /\ <<[type |-> "authenticated"]>> \o held \in Seq(ToBrowser)
<1>1. held \in Seq(ToBrowser)
  BY HostTyped, SeqMonotonic, ClosesAreMessages
<1>2. <<[type |-> "authenticated"]>> \in Seq(ToBrowser)
  BY ClosesAreMessages
<1> QED BY <1>1, <1>2, ConcatProperties

\* What command n may do to the conversation: nothing but close a socket, or
\* be acted on.
Reacts(n) ==
    \/ /\ UNCHANGED <<talk, held, done>>
       /\ UNCHANGED <<far, toBrowser>> \/ \E S : CloseFar(S)
    \/ /\ UNCHANGED <<far, toBrowser>>
       /\ done' = Append(done, [n |-> n, talk |-> talk.id])
       /\ talk' \in Conversations /\ (held' = held \/ held' = <<>>)
       /\ talk'.id = talk.id /\ talk'.socket = talk.socket
       /\ talk'.frames = talk.frames /\ (talk.stopped => talk'.stopped)
       /\ talk'.opened <=> talk.opened \/ n = 1

LEMMA ActReacts ==
    ASSUME TransportInv, NEW n, NEW t \in Conversations, Act(n, t),
           t.id = talk.id, t.socket = talk.socket, t.frames = talk.frames,
           talk.stopped => t.stopped, t.opened <=> talk.opened \/ n = 1
    PROVE  Reacts(n)
  BY DEF Act, Reacts

LEMMA SteerReacts ==
    ASSUME TransportInv, NEW n \in Commands, Steer(n) PROVE Reacts(n)
<1>1. talk \in Conversations
  BY HostTyped
<1>2. CASE RefuseTalk \/ UNCHANGED <<far, toBrowser, talk, held, done>>
  BY <1>2 DEF RefuseTalk, Reacts
<1>3. CASE talk.opened /\ Act(n, talk)
  BY <1>1, <1>3, ActReacts
<1>4. CASE talk.opened /\ Act(n, [talk EXCEPT !.plan = "running"])
  <2> DEFINE t == [talk EXCEPT !.plan = "running"]
  <2>1. /\ t \in Conversations /\ t.id = talk.id /\ t.socket = talk.socket
        /\ t.frames = talk.frames /\ t.stopped = talk.stopped /\ t.opened = talk.opened
    BY <1>1 DEF Conversations, Plans
  <2>2. Act(n, t) /\ talk.opened
    BY <1>4
  <2> HIDE DEF t
  <2> QED BY <2>1, <2>2, ActReacts
<1>5. CASE talk.opened /\ Act(n, Stopped(talk))
  <2>1. /\ Stopped(talk) \in Conversations /\ Stopped(talk).id = talk.id
        /\ Stopped(talk).socket = talk.socket /\ Stopped(talk).frames = talk.frames
        /\ Stopped(talk).stopped /\ Stopped(talk).opened = talk.opened
    BY <1>1 DEF Conversations, Stopped
  <2> QED BY <1>5, <2>1, ActReacts
<1> QED BY <1>2, <1>3, <1>4, <1>5 DEF Steer

LEMMA ObeyedReacts ==
    ASSUME TransportInv, NEW n \in Commands, NEW t \in Obeyed(n), Act(n, t),
           talk.opened \/ n \in {1} \cup Controls
    PROVE  Reacts(n)
<1>1. talk \in Conversations /\ 1 \notin Controls
  BY HostTyped, Bounds
<1>2. CASE n = 1
  <2>1. PICK p \in {"none", "running"} : t = [talk EXCEPT !.opened = TRUE, !.plan = p]
    BY <1>2 DEF Obeyed
  <2>2. /\ t \in Conversations /\ t.id = talk.id /\ t.socket = talk.socket
        /\ t.frames = talk.frames /\ t.stopped = talk.stopped /\ t.opened
    BY <1>1, <2>1 DEF Conversations, Plans
  <2> QED BY <1>2, <2>2, ActReacts
<1>3. CASE n # 1 /\ n \in Controls
  <2>1. t = Stopped(talk)
    BY <1>3 DEF Obeyed
  <2>2. /\ t \in Conversations /\ t.id = talk.id /\ t.socket = talk.socket
        /\ t.frames = talk.frames /\ t.stopped /\ t.opened = talk.opened
    BY <1>1, <2>1 DEF Conversations, Stopped
  <2> QED BY <1>3, <2>2, ActReacts
<1>4. CASE n # 1 /\ n \notin Controls
  <2>1. t = talk \/ \E p \in {"ending", "none"} : t = [talk EXCEPT !.plan = p]
    BY <1>4 DEF Obeyed
  <2>2. /\ t \in Conversations /\ t.id = talk.id /\ t.socket = talk.socket
        /\ t.frames = talk.frames /\ t.stopped = talk.stopped /\ t.opened = talk.opened
    BY <1>1, <2>1 DEF Conversations, Plans
  <2> QED BY <1>4, <2>2, ActReacts
<1> QED BY <1>2, <1>3, <1>4

(* What is written and kept when a command is reacted to stays typed.      *)
LEMMA ReactsTyped ==
    ASSUME TransportInv, NEW n \in Commands, Reacts(n)
    PROVE  /\ talk' \in Conversations /\ done' \in Seq(Handled)
           /\ held' \in Seq(Frames) /\ Len(held') <= MaxHeld
           /\ far' \in [Sockets -> FarStates] /\ toBrowser' \in [Sockets -> Seq(ToBrowser)]
<1>1. [n |-> n, talk |-> talk.id] \in Handled
  BY HostTyped DEF Handled, Conversations
<1>2. CASE /\ UNCHANGED <<talk, held, done>>
           /\ UNCHANGED <<far, toBrowser>> \/ \E S : CloseFar(S)
  BY <1>2, HostTyped, CloseMoves
<1>3. CASE /\ UNCHANGED <<far, toBrowser>>
           /\ done' = Append(done, [n |-> n, talk |-> talk.id])
           /\ talk' \in Conversations /\ (held' = held \/ held' = <<>>)
  BY <1>1, <1>3, HostTyped, EmptyHeld, AppendProperties
<1> QED BY <1>2, <1>3 DEF Reacts

LEMMA HostReceivesReacts ==
    ASSUME TransportInv, NEW s \in Sockets, HostReceives(s)
    PROVE  LET n == Head(toHost[s]).n IN
           /\ toHost[s] # <<>> /\ Head(toHost[s]).type = "cmd" /\ n \in Commands
           /\ far[s] = "member" /\ toHost' = [toHost EXCEPT ![s] = Tail(@)]
           /\ UNCHANGED <<browserVars, path, alive, session, seen, cuts>>
           /\ \/ /\ chain' = chain /\ Reacts(n)
                 /\ n \in Controls \/ UNCHANGED <<talk, held, done>>
              \/ /\ chain' = Append(chain, [n |-> n, talk |-> talk.id])
                 /\ UNCHANGED <<far, toBrowser, talk, held, done>>
<1> DEFINE n == Head(toHost[s]).n
<1>1. toHost[s] # <<>> /\ Head(toHost[s]).type = "cmd" /\ Head(toHost[s]) \in ToHost
  BY HostTyped, HeadTailProperties DEF HostReceives
<1>2. n \in Commands
  BY <1>1 DEF ToHost
<1>3. CASE ~(session.known /\ ~session.expired)
  <2>1. CloseFar({s}) /\ UNCHANGED <<chain, talk, held, done>>
    BY <1>3 DEF HostReceives
  <2>2. Reacts(n)
    BY <2>1 DEF Reacts
  <2> QED BY <1>1, <1>2, <2>1, <2>2 DEF HostReceives
<1>4. CASE session.known /\ ~session.expired
  <2>1. PICK ahead \in Bypasses(n) :
           IF ahead
           THEN Steer(n) /\ UNCHANGED chain
           ELSE /\ chain' = Append(chain, [n |-> n, talk |-> talk.id])
                /\ UNCHANGED <<far, toBrowser, talk, held, done>>
    BY <1>4 DEF HostReceives
  <2>2. ahead => n \in Controls
    BY DEF Bypasses
  <2>3. CASE ahead
    BY <1>1, <1>2, <2>1, <2>2, <2>3, SteerReacts DEF HostReceives
  <2>4. CASE ~ahead
    BY <1>1, <1>2, <2>1, <2>4 DEF HostReceives
  <2> QED BY <2>3, <2>4
<1> QED BY <1>3, <1>4

LEMMA HandleReacts ==
    ASSUME TransportInv, Handle
    PROVE  LET c == Head(chain) IN
           /\ chain # <<>> /\ chain' = Tail(chain) /\ c \in Handled /\ c.n \in Commands
           /\ UNCHANGED <<browserVars, path, toHost, alive, session, seen, cuts>>
           /\ Reacts(c.n)
           /\ c.talk = talk.id \/ UNCHANGED <<talk, held, done>>
           /\ UNCHANGED done \/ talk.opened \/ c.n \in {1} \cup Controls
<1> DEFINE c == Head(chain)
<1>1. /\ chain # <<>> /\ chain' = Tail(chain) /\ c \in Handled
      /\ UNCHANGED <<browserVars, path, toHost, alive, session, seen, cuts>>
  BY HostTyped, HeadTailProperties DEF Handle
<1>2. c.n \in Commands
  BY <1>1 DEF Handled
<1>3. \/ /\ c.talk = talk.id /\ (talk.opened \/ c.n \in {1} \cup Controls)
         /\ \E t \in Obeyed(c.n) : Act(c.n, t)
      \/ RefuseTalk
      \/ UNCHANGED <<far, toBrowser, talk, held, done>>
  BY DEF Handle
<1> HIDE DEF c
<1>4. CASE /\ c.talk = talk.id /\ (talk.opened \/ c.n \in {1} \cup Controls)
           /\ \E t \in Obeyed(c.n) : Act(c.n, t)
  <2>1. Reacts(c.n)
    BY <1>2, <1>4, ObeyedReacts
  <2> QED BY <1>1, <1>2, <1>4, <2>1 DEF c
<1>5. CASE RefuseTalk \/ UNCHANGED <<far, toBrowser, talk, held, done>>
  <2>1. Reacts(c.n) /\ UNCHANGED <<talk, held, done>>
    BY <1>5 DEF Reacts, RefuseTalk
  <2> QED BY <1>1, <1>2, <2>1 DEF c
<1> QED BY <1>3, <1>4, <1>5

LEMMA AdmitTyped ==
    ASSUME TransportInv, NEW s \in Sockets, NEW sess \in Sessions, NEW t \in Conversations,
           Admit(s, sess, t)
    PROVE  /\ session' \in Sessions /\ talk' \in Conversations
           /\ held' = <<>> /\ toBrowser' \in [Sockets -> Seq(ToBrowser)]
<1>1. s \in 0..MaxSockets /\ 0 \in 0..MaxFrames /\ s \in Talks
  BY HostTyped, Bounds DEF Talks
<1>2. session' \in Sessions
  BY <1>1 DEF Admit, Sessions, Conversations
<1>3. CASE t.id = 0 \/ t.stopped
  <2>1. /\ talk' = [id |-> s, stopped |-> FALSE, opened |-> FALSE, plan |-> "none",
                    socket |-> s, frames |-> 0]
        /\ held' = <<>>
        /\ toBrowser' = Carry(toBrowser, s, [type |-> "authenticated"])
    BY <1>3 DEF Admit
  <2>2. toBrowser' \in [Sockets -> Seq(ToBrowser)]
    BY <2>1, HostTyped, CarryTyped, ClosesAreMessages
  <2> QED BY <1>1, <1>2, <2>1, <2>2 DEF Conversations, Plans
<1>4. CASE ~(t.id = 0 \/ t.stopped)
  <2>1. /\ talk' = [t EXCEPT !.socket = s] /\ held' = <<>>
        /\ toBrowser' = WriteFrames(toBrowser, s, <<[type |-> "authenticated"]>> \o held)
    BY <1>4 DEF Admit
  <2>2. toBrowser' \in [Sockets -> Seq(ToBrowser)]
    BY <2>1, HostTyped, WriteTyped, HeldTyped
  <2> QED BY <1>1, <1>2, <2>1, <2>2 DEF Conversations
<1> QED BY <1>3, <1>4

LEMMA HostAuthenticatesTransport ==
    ASSUME TransportInv, NEW s \in Sockets, HostAuthenticates(s) PROVE TransportInv'
<1>1. /\ far[s] \in {"stranger", "pending"} /\ toHost[s] # <<>>
      /\ toHost' = [toHost EXCEPT ![s] = Tail(@)]
      /\ UNCHANGED <<browserVars, path, alive, chain, done, seen, cuts>>
  BY DEF HostAuthenticates
<1>2. toHost' \in [Sockets -> Seq(ToHost)]
  BY <1>1, HostTyped, TakenTyped
<1>3. PICK late \in BOOLEAN :
        /\ late => MayTakeOver
        /\ LET old == session.active
               sess == IF late THEN TakenOver ELSE session
               t == IF late THEN Detached(talk, old) ELSE talk
               ends == IF late THEN [far EXCEPT ![old] = "dead"] ELSE far
           IN \/ /\ Admit(s, sess, t)
                 /\ far' = [ends EXCEPT ![s] = "member"]
              \/ /\ far' = [ends EXCEPT ![s] = "closing"]
                 /\ toBrowser' = Carry(toBrowser, s, [type |-> "close"])
                 /\ session' = sess /\ talk' = t
                 /\ UNCHANGED held
  BY DEF HostAuthenticates
<1> DEFINE old == session.active
           sess == IF late THEN TakenOver ELSE session
           t == IF late THEN Detached(talk, old) ELSE talk
           ends == IF late THEN [far EXCEPT ![old] = "dead"] ELSE far
<1>4. sess \in Sessions
  BY HostTyped DEF TakenOver, Sessions
<1>5. t \in Conversations
  BY HostTyped, DetachedTyped
<1>6. ends \in [Sockets -> FarStates]
  BY HostTyped DEF FarStates
<1>7. /\ session' \in Sessions /\ talk' \in Conversations
      /\ held' \in Seq(Frames) /\ Len(held') <= MaxHeld
      /\ toBrowser' \in [Sockets -> Seq(ToBrowser)]
      /\ far' \in [Sockets -> FarStates]
  <2> HIDE DEF sess, t, ends
  <2>1. CASE Admit(s, sess, t) /\ far' = [ends EXCEPT ![s] = "member"]
    BY <1>4, <1>5, <1>6, <2>1, AdmitTyped, EmptyHeld DEF FarStates
  <2>2. CASE /\ far' = [ends EXCEPT ![s] = "closing"]
             /\ toBrowser' = Carry(toBrowser, s, [type |-> "close"])
             /\ session' = sess /\ talk' = t /\ UNCHANGED held
    BY <1>4, <1>5, <1>6, <2>2, HostTyped, CarryTyped, ClosesAreMessages DEF FarStates
  <2> QED BY <1>3, <2>1, <2>2 DEF sess, t, ends
<1> QED BY <1>1, <1>2, <1>7, HostMoves, HostTyped

LEMMA HostReceivesTransport ==
    ASSUME TransportInv, NEW s \in Sockets, HostReceives(s) PROVE TransportInv'
<1> DEFINE n == Head(toHost[s]).n
<1>1. /\ toHost[s] # <<>> /\ n \in Commands /\ toHost' = [toHost EXCEPT ![s] = Tail(@)]
      /\ UNCHANGED <<browserVars, path, alive, session, seen, cuts>>
      /\ \/ chain' = chain /\ Reacts(n)
         \/ /\ chain' = Append(chain, [n |-> n, talk |-> talk.id])
            /\ UNCHANGED <<far, toBrowser, talk, held, done>>
  BY HostReceivesReacts
<1> HIDE DEF n
<1>2. toHost' \in [Sockets -> Seq(ToHost)]
  BY <1>1, HostTyped, TakenTyped
<1>3. CASE chain' = chain /\ Reacts(n)
  BY <1>1, <1>2, <1>3, HostTyped, ReactsTyped, HostMoves
<1>4. CASE /\ chain' = Append(chain, [n |-> n, talk |-> talk.id])
           /\ UNCHANGED <<far, toBrowser, talk, held, done>>
  <2>1. [n |-> n, talk |-> talk.id] \in Handled
    BY <1>1, HostTyped DEF Handled, Conversations
  <2>2. chain' \in Seq(Handled)
    BY <1>4, <2>1, HostTyped, AppendProperties
  <2> QED BY <1>1, <1>2, <1>4, <2>2, HostTyped, HostMoves
<1> QED BY <1>1, <1>3, <1>4

LEMMA HostClosedTransport ==
    ASSUME TransportInv, NEW s \in Sockets, HostClosed(s) PROVE TransportInv'
<1> DEFINE rest == session.sockets \ {s}
           less == [session EXCEPT !.sockets = rest,
                                   !.active = IF @ = s THEN None ELSE @]
<1>1. /\ far' = [far EXCEPT ![s] = "gone"]
      /\ \/ UNCHANGED <<session, talk>>
         \/ session' = less /\ UNCHANGED talk
         \/ /\ talk' = Detached(talk, s)
            /\ session' = Schedule([less EXCEPT !.auth = FALSE], talk)
      /\ toHost' = [toHost EXCEPT ![s] = <<>>]
      /\ toBrowser' = toBrowser \/ toBrowser' = Carry(toBrowser, s, [type |-> "close"])
      /\ alive' = [alive EXCEPT ![s] = TRUE]
      /\ UNCHANGED <<browserVars, path, held, chain, done, seen, cuts>>
  BY DEF HostClosed
<1>2. far' \in [Sockets -> FarStates] /\ alive' \in [Sockets -> BOOLEAN]
  BY <1>1, HostTyped DEF FarStates
<1>3. toHost' \in [Sockets -> Seq(ToHost)] /\ toBrowser' \in [Sockets -> Seq(ToBrowser)]
  <2>1. toHost' \in [Sockets -> Seq(ToHost)]
    BY <1>1, HostTyped, EmptiedTyped
  <2>2. Carry(toBrowser, s, [type |-> "close"]) \in [Sockets -> Seq(ToBrowser)]
    BY HostTyped, CarryTyped, ClosesAreMessages
  <2> QED BY <1>1, <2>1, <2>2, HostTyped
<1>4. less \in Sessions
  BY HostTyped DEF Sessions
<1>5. Schedule([less EXCEPT !.auth = FALSE], talk) \in Sessions
  <2> HIDE DEF less
  <2> QED BY <1>4, HostTyped DEF Schedule, Sessions, Conversations
<1>6. session' \in Sessions /\ talk' \in Conversations
  BY <1>1, <1>4, <1>5, HostTyped, DetachedTyped
<1> QED BY <1>1, <1>2, <1>3, <1>6, HostTyped, HostMoves

LEMMA AuthTimeoutTransport ==
    ASSUME TransportInv, NEW s \in Sockets, AuthTimeout(s) PROVE TransportInv'
  BY HostTyped, CloseMoves, HostMoves DEF AuthTimeout

LEMMA HeartbeatTransport ==
    ASSUME TransportInv, NEW s \in Sockets, Heartbeat(s) PROVE TransportInv'
<1>1. /\ far' \in [Sockets -> FarStates] /\ alive' \in [Sockets -> BOOLEAN]
      /\ talk' \in Conversations
  <2>1. Detached(talk, s) \in Conversations
    BY HostTyped, DetachedTyped
  <2> QED BY <2>1, HostTyped DEF Heartbeat, FarStates
<1> QED BY <1>1, HostTyped, HostMoves DEF Heartbeat

LEMMA PongTransport ==
    ASSUME TransportInv, NEW s \in Sockets, Pong(s) PROVE TransportInv'
<1>1. /\ alive' \in [Sockets -> BOOLEAN]
      /\ UNCHANGED <<browserVars, path, toHost, session, chain, done, seen, cuts>>
  BY HostTyped DEF Pong
<1>2. /\ far' \in [Sockets -> FarStates] /\ talk' \in Conversations
      /\ held' \in Seq(Frames) /\ Len(held') <= MaxHeld
      /\ toBrowser' \in [Sockets -> Seq(ToBrowser)]
  <2>1. CASE session.active = s /\ talk.stopped
    <3>1. /\ far' = [far EXCEPT ![s] = "closing"] /\ UNCHANGED <<talk, held>>
          /\ toBrowser' = Carry(toBrowser, s, [type |-> "close"])
      BY <2>1 DEF Pong, Attach
    <3>2. far' \in [Sockets -> FarStates]
      BY <3>1, HostTyped DEF FarStates
    <3> QED BY <3>1, <3>2, HostTyped, CarryTyped, ClosesAreMessages
  <2>2. CASE session.active = s /\ ~talk.stopped
    <3>1. talk' \in Conversations /\ far' = far /\ held' = <<>>
          /\ toBrowser' = WriteFrames(toBrowser, s, held)
      BY <2>2, HostTyped DEF Pong, Attach, Conversations
    <3> QED BY <3>1, HostTyped, WriteTyped, HeldTyped, EmptyHeld
  <2>3. CASE session.active # s
    BY <2>3, HostTyped DEF Pong
  <2> QED BY <2>1, <2>2, <2>3
<1> QED BY <1>1, <1>2, HostTyped, HostMoves

LEMMA StopsTransport ==
    ASSUME TransportInv, GraceEnds \/ StopSettles \/ ApiStop \/ Expire
    PROVE  TransportInv'
<1>1. Stopped(talk) \in Conversations
  BY HostTyped DEF Stopped, Conversations
<1>2. CASE GraceEnds \/ ApiStop
  <2>1. session' \in Sessions /\ talk' \in Conversations /\ held' = <<>>
    BY <1>1, <1>2, HostTyped DEF GraceEnds, ApiStop, Sessions
  <2> QED BY <1>2, <2>1, HostTyped, EmptyHeld, HostMoves DEF GraceEnds, ApiStop
<1>3. CASE StopSettles \/ Expire
  <2>1. session' \in Sessions /\ \E S : CloseFar(S)
    BY <1>3, HostTyped DEF StopSettles, Expire, Sessions
  <2> QED BY <1>3, <2>1, HostTyped, CloseMoves, HostMoves DEF StopSettles, Expire
<1> QED BY <1>2, <1>3

LEMMA HandleTransport == TransportInv /\ Handle => TransportInv'
<1> SUFFICES ASSUME TransportInv, Handle PROVE TransportInv'
  OBVIOUS
<1> DEFINE c == Head(chain)
<1>1. /\ chain # <<>> /\ chain' = Tail(chain) /\ c.n \in Commands /\ Reacts(c.n)
      /\ UNCHANGED <<browserVars, path, toHost, alive, session, seen, cuts>>
  BY HandleReacts
<1>2. chain' \in Seq(Handled)
  BY <1>1, HostTyped, HeadTailProperties
<1> HIDE DEF c
<1> QED BY <1>1, <1>2, HostTyped, ReactsTyped, HostMoves

LEMMA PreparationTransport == TransportInv /\ PreparationEnds => TransportInv'
<1> SUFFICES ASSUME TransportInv, PreparationEnds PROVE TransportInv'
  OBVIOUS
<1>1. talk' \in Conversations
  BY HostTyped DEF PreparationEnds, Conversations, Plans
<1> QED BY <1>1, HostTyped, HostMoves DEF PreparationEnds

LEMMA EmitFrameTransport == TransportInv /\ EmitFrame => TransportInv'
<1> SUFFICES ASSUME TransportInv, EmitFrame PROVE TransportInv'
  OBVIOUS
<1> DEFINE f == [type |-> "frame", talk |-> talk.id, n |-> talk.frames + 1]
<1>1. f \in Frames /\ f \in ToBrowser /\ talk.frames + 1 \in 0..MaxFrames
  BY HostTyped, Bounds DEF EmitFrame, Frames, ToBrowser, Conversations
<1>2. talk' \in Conversations
  BY <1>1, HostTyped DEF EmitFrame, Conversations
<1>3. /\ held' \in Seq(Frames) /\ Len(held') <= MaxHeld
      /\ toBrowser' \in [Sockets -> Seq(ToBrowser)]
  <2> HIDE DEF f
  <2>1. CASE talk.socket # None /\ far[talk.socket] = "member"
    <3>1. talk.socket \in Sockets
      BY <2>1, HostTyped, Bounds DEF Conversations, Sockets, None
    <3>2. toBrowser' = Carry(toBrowser, talk.socket, f) /\ UNCHANGED held
      BY <2>1 DEF EmitFrame, f
    <3> QED BY <1>1, <3>1, <3>2, HostTyped, CarryTyped
  <2>2. CASE ~(talk.socket # None /\ far[talk.socket] = "member")
    <3>1. held' = Append(IF Len(held) >= MaxHeld THEN Tail(held) ELSE held, f)
          /\ UNCHANGED toBrowser
      BY <2>2 DEF EmitFrame, f
    <3>2. CASE Len(held) >= MaxHeld
      <4>1. held # <<>> /\ MaxHeld \in Nat \ {0} /\ Len(held) \in Nat
        BY <3>2, HostTyped, Bounds, LenProperties
      <4>2. Tail(held) \in Seq(Frames) /\ Len(Tail(held)) = Len(held) - 1
        BY <4>1, HostTyped, HeadTailProperties
      <4> QED BY <1>1, <3>1, <3>2, <4>1, <4>2, HostTyped, AppendProperties
    <3>3. CASE ~(Len(held) >= MaxHeld)
      <4>1. MaxHeld \in Nat \ {0} /\ Len(held) \in Nat
        BY HostTyped, Bounds, LenProperties
      <4> QED BY <1>1, <3>1, <3>3, <4>1, HostTyped, AppendProperties
    <3> QED BY <3>2, <3>3
  <2> QED BY <2>1, <2>2
<1> QED BY <1>2, <1>3, HostTyped, HostMoves DEF EmitFrame

LEMMA CutTransport ==
    ASSUME TransportInv, NEW s \in Sockets, Cut(s) PROVE TransportInv'
<1>1. /\ toHost' \in [Sockets -> Seq(ToHost)] /\ toBrowser' \in [Sockets -> Seq(ToBrowser)]
      /\ path' \in [Sockets -> BOOLEAN] /\ cuts' \in 0..MaxCuts
  <2>1. /\ toHost' = [toHost EXCEPT ![s] = <<>>] /\ toBrowser' = [toBrowser EXCEPT ![s] = <<>>]
        /\ path' = [path EXCEPT ![s] = FALSE] /\ cuts' = cuts + 1 /\ cuts < MaxCuts
    BY DEF Cut
  <2>2. toHost' \in [Sockets -> Seq(ToHost)] /\ toBrowser' \in [Sockets -> Seq(ToBrowser)]
    BY <2>1, HostTyped, EmptiedTyped
  <2>3. cuts \in 0..MaxCuts
    BY DEF TransportInv, TypeInv, TypeOK
  <2>4. cuts' \in 0..MaxCuts
    BY <2>1, <2>3, Bounds
  <2>5. path' \in [Sockets -> BOOLEAN]
    BY <2>1, HostTyped
  <2> QED BY <2>2, <2>4, <2>5
<1>2. TypeInv'
  BY <1>1, HostStill DEF Cut, TransportInv, TypeInv, TypeOK, browserVars, Browsers, Commands
<1>3. Transport'
  BY DEF Cut, TransportInv, Transport, browserVars
<1> QED BY <1>2, <1>3 DEF TransportInv

LEMMA TransportKept == TransportInv /\ [Next]_vars => TransportInv'
<1> SUFFICES ASSUME TransportInv, [Next]_vars PROVE TransportInv'
  OBVIOUS
<1>1. CASE UNCHANGED vars
  <2>1. TypeInv'
    BY <1>1 DEF TransportInv, TypeInv, TypeOK, vars, browserVars, hostVars
  <2>2. Transport'
    BY <1>1 DEF TransportInv, Transport, vars, browserVars
  <2> QED BY <2>1, <2>2 DEF TransportInv
<1>2. CASE BrowserStep
  BY <1>2, RetryDueTransport, WatchdogFiresTransport, SendCommandTransport,
     RefuseHostTransport, DisconnectTransport, SocketOpensTransport, SocketGoneTransport,
     BrowserReceiveTransport DEF BrowserStep
<1>3. CASE ConversationStep
  BY <1>3, StopsTransport, HandleTransport, PreparationTransport, EmitFrameTransport
     DEF ConversationStep
<1>4. CASE \E s \in Sockets : HostStep(s) \/ Cut(s)
  BY <1>4, HostAuthenticatesTransport, HostReceivesTransport, HostClosedTransport,
     AuthTimeoutTransport, HeartbeatTransport, PongTransport, CutTransport DEF HostStep
<1> QED BY <1>1, <1>2, <1>3, <1>4 DEF Next

(* Every field stays well typed, the queues within their bounds            *)
(* (MAX_QUEUED_COMMANDS, MAX_RECONNECT_QUEUE_MESSAGES).                    *)
THEOREM ConnectionTypes == Spec => []TypeOK
<1>1. TransportInv => TypeOK
  BY DEF TransportInv, TypeInv
<1> QED BY <1>1, TransportInit, TransportKept, PTL DEF Spec

(* A transport without a socket has a retry pending or has told the user   *)
(* that the connection is over (handleSocketFailure, scheduleReconnect).   *)
THEOREM NeverStuck == Spec => []NeverSilentlyStuck
<1>1. TransportInv => NeverSilentlyStuck
  BY DEF TransportInv, Transport, Ready, NeverSilentlyStuck
<1> QED BY <1>1, TransportInit, TransportKept, PTL DEF Spec

-----------------------------------------------------------------------------
(* One socket of the session at a time.                                    *)

Unadmitted == {"none", "stranger", "pending"}

\* The gateway counts the one socket it admitted, which was alive when it was;
\* the conversation writes to that one, while its pings are answered.
Admission ==
    /\ \A s \in Sockets : near[s] \in {"none", "connecting"} => far[s] = "none"
    /\ session.sockets = IF session.active = None THEN {} ELSE {session.active}
    /\ session.auth => session.active # None
    /\ session.active # None => far[session.active] \in {"member", "closing", "dead"}
    /\ \A s \in Sockets : far[s] = "member" => s = session.active
    /\ \A s \in Sockets : far[s] \in Unadmitted => alive[s]
    /\ talk.socket # None => talk.socket = session.active
    /\ talk.socket # None /\ far[talk.socket] = "member" => alive[talk.socket]

\* While a session is being stopped, so is its conversation.
Ending ==
    /\ session.stopping => talk.stopped
    /\ AbandonedStops

AdmissionInv == TransportInv /\ Admission /\ Ending

LEMMA AdmissionInit == Init => AdmissionInv
<1> SUFFICES ASSUME Init PROVE AdmissionInv
  OBVIOUS
<1>1. Admission
  BY Bounds DEF Init, Admission, None, Sockets
<1>2. Ending
  BY DEF Init, Ending, AbandonedStops
<1> QED BY <1>1, <1>2, TransportInit DEF AdmissionInv

(* The steps of the browser and the network do not touch the gateway, and  *)
(* none takes a socket back to where it was before it opened.              *)
LEMMA NotTheGateway ==
    ASSUME AdmissionInv, UNCHANGED <<far, alive, session, talk>>,
           \A s \in Sockets : near'[s] \in {"none", "connecting"}
                                => near[s] \in {"none", "connecting"}
    PROVE  Admission' /\ Ending'
  BY DEF AdmissionInv, Admission, Ending, AbandonedStops

LEMMA BrowserAdmission ==
    ASSUME AdmissionInv, RetryDue \/ WatchdogFires \/ SendCommand \/ RefuseHost \/ Disconnect
    PROVE  Admission' /\ Ending'
<1>1. UNCHANGED <<far, alive, session, talk>>
  BY DEF RetryDue, OpenSocket, WatchdogFires, SendCommand, RefuseHost, Disconnect, hostVars
<1>2. near \in [Sockets -> NearStates] /\ TransportInv
  BY SocketsTyped DEF AdmissionInv
<1>3. ASSUME NEW s \in Sockets, near'[s] \in {"none", "connecting"}
      PROVE  near[s] \in {"none", "connecting"}
  <2>1. CASE near' = near
    BY <1>3, <2>1
  <2>2. CASE OpenSocket(browser)
    <3>1. near[browser.opened + 1] = "none" \/ near'[s] = near[s]
      <4>1. browser.opened \in Nat /\ browser.opened + 1 \in Sockets
        BY <2>2, BrowserTyped, Bounds, <1>2 DEF OpenSocket, Browsers, Sockets
      <4>2. browser.opened + 1 > browser.opened
        BY <4>1
      <4> QED BY <1>2, <4>1, <4>2 DEF TransportInv, Transport
    <3>2. near' = [near EXCEPT ![browser.opened + 1] = "connecting"]
      BY <2>2 DEF OpenSocket
    <3> QED BY <1>2, <1>3, <3>1, <3>2
  <2>3. CASE near' = [near EXCEPT ![browser.sock] = "closing"]
    BY <1>2, <1>3, <2>3
  <2> QED BY <2>1, <2>2, <2>3 DEF RetryDue, WatchdogFires, SendCommand, RefuseHost, Disconnect
<1> QED BY <1>1, <1>3, NotTheGateway

LEMMA SocketAdmission ==
    ASSUME AdmissionInv, NEW s \in Sockets, SocketGone(s) \/ BrowserReceive(s) \/ Cut(s)
    PROVE  Admission' /\ Ending'
<1>1. UNCHANGED <<far, alive, session, talk>>
  BY DEF SocketGone, BrowserReceive, Cut, hostVars
<1>2. near \in [Sockets -> NearStates]
  BY SocketsTyped DEF AdmissionInv
<1>3. near' = near \/ near' = [near EXCEPT ![s] = "gone"]
  BY DEF SocketGone, BrowserReceive, Cut, browserVars
<1> QED BY <1>1, <1>2, <1>3, NotTheGateway

(* What is admitted may only become less.                                  *)
LEMMA GatewayKept ==
    ASSUME AdmissionInv, UNCHANGED alive,
           session'.active = session.active, session'.sockets = session.sockets,
           session'.auth = session.auth, talk'.socket = talk.socket,
           \A s \in Sockets : near'[s] \in {"none", "connecting"} => far'[s] = "none",
           session.active # None => far'[session.active] = far[session.active],
           \A s \in Sockets : far'[s] = "member" => far[s] = "member",
           \A s \in Sockets : far'[s] \in Unadmitted => far[s] \in Unadmitted
    PROVE  Admission'
<1>1. \A s \in Sockets : far'[s] = "member" => s = session.active
  BY DEF AdmissionInv, Admission
<1>2. \A s \in Sockets : far'[s] \in Unadmitted => alive[s]
  BY DEF AdmissionInv, Admission
<1>3. talk.socket # None /\ far'[talk.socket] = "member" => alive[talk.socket]
  BY DEF AdmissionInv, Admission
<1> QED BY <1>1, <1>2, <1>3 DEF AdmissionInv, Admission

LEMMA SocketOpensAdmission ==
    ASSUME AdmissionInv, NEW s \in Sockets, SocketOpens(s)
    PROVE  Admission' /\ Ending'
<1>1. /\ near \in [Sockets -> NearStates] /\ far \in [Sockets -> FarStates]
      /\ talk \in Conversations /\ session \in Sessions
  BY SocketsTyped, HostTyped DEF AdmissionInv
<1>2. far[s] = "none"
  BY DEF SocketOpens, AdmissionInv, Admission
<1>3. /\ far'[s] \in {"pending", "stranger"} /\ near'[s] = "open"
      /\ \A u \in Sockets \ {s} : far'[u] = far[u] /\ near'[u] = near[u]
      /\ UNCHANGED <<alive, session, talk>>
  BY <1>1 DEF SocketOpens
<1>4. session.active # s
  BY <1>2, Bounds DEF AdmissionInv, Admission
<1>5. session.active # None => session.active \in Sockets
  BY <1>1, Bounds DEF Sessions, Sockets, None
<1>6. Admission'
  <2>1. \A u \in Sockets : near'[u] \in {"none", "connecting"} => far'[u] = "none"
    BY <1>3 DEF AdmissionInv, Admission
  <2>2. session.active # None => far'[session.active] = far[session.active]
    BY <1>3, <1>4, <1>5
  <2>3. \A u \in Sockets : far'[u] = "member" => far[u] = "member"
    BY <1>3
  <2>4. \A u \in Sockets : far'[u] \in Unadmitted => far[u] \in Unadmitted
    BY <1>2, <1>3 DEF Unadmitted
  <2> QED BY <1>3, <2>1, <2>2, <2>3, <2>4, GatewayKept
<1> QED BY <1>3, <1>6 DEF AdmissionInv, Ending, AbandonedStops

(* Sockets that are closed or given up do not matter to who is admitted.   *)
LEMMA Lowered ==
    ASSUME AdmissionInv, UNCHANGED <<near, alive>>,
           session'.active = session.active, session'.sockets = session.sockets,
           session'.auth = session.auth, talk'.socket = talk.socket,
           \A s \in Sockets : \/ far'[s] = far[s]
                              \/ far[s] # "none" /\ far'[s] \in {"closing", "dead"}
    PROVE  Admission'
<1>1. /\ talk \in Conversations /\ session \in Sessions
  BY HostTyped DEF AdmissionInv
<1>2. /\ session.active # None => session.active \in Sockets
      /\ talk.socket # None => talk.socket \in Sockets
  BY <1>1, Bounds DEF Sessions, Conversations, Sockets, None
<1> QED BY <1>2 DEF AdmissionInv, Admission, Unadmitted

LEMMA CloseLowers ==
    ASSUME NEW S, CloseFar(S)
    PROVE  \A s \in Sockets : \/ far'[s] = far[s]
                              \/ far[s] # "none" /\ far'[s] \in {"closing", "dead"}
  BY DEF CloseFar, Open

LEMMA ClosesAdmission ==
    ASSUME AdmissionInv, NEW s \in Sockets, AuthTimeout(s)
    PROVE  Admission' /\ Ending'
<1>1. UNCHANGED <<near, alive, session, talk>>
  BY DEF AuthTimeout, browserVars
<1>2. \A u \in Sockets : \/ far'[u] = far[u]
                         \/ far[u] # "none" /\ far'[u] \in {"closing", "dead"}
  BY CloseLowers DEF AuthTimeout
<1>3. Admission'
  BY <1>1, <1>2, Lowered
<1> QED BY <1>1, <1>3 DEF AdmissionInv, Ending, AbandonedStops

(* Commands may close the admitted socket and stop the conversation, and   *)
(* leave the gateway as it is.                                             *)
LEMMA ReactsAdmission ==
    ASSUME AdmissionInv, NEW n \in Commands, Reacts(n), UNCHANGED <<near, alive, session>>
    PROVE  Admission' /\ Ending'
<1>1. /\ talk'.socket = talk.socket /\ talk'.id = talk.id
      /\ talk.stopped => talk'.stopped
  BY DEF Reacts
<1>2. \A u \in Sockets : \/ far'[u] = far[u]
                         \/ far[u] # "none" /\ far'[u] \in {"closing", "dead"}
  BY CloseLowers DEF Reacts
<1>3. Admission'
  BY <1>1, <1>2, Lowered
<1> QED BY <1>1, <1>3 DEF AdmissionInv, Ending, AbandonedStops

LEMMA HostReceivesAdmission ==
    ASSUME AdmissionInv, NEW s \in Sockets, HostReceives(s)
    PROVE  Admission' /\ Ending'
<1>1. TransportInv
  BY DEF AdmissionInv
<1>2. UNCHANGED <<near, alive, session>>
  BY DEF HostReceives, browserVars
<1>3. \/ Head(toHost[s]).n \in Commands /\ Reacts(Head(toHost[s]).n)
      \/ UNCHANGED <<far, talk>>
  BY <1>1, HostReceivesReacts
<1>4. CASE UNCHANGED <<far, talk>>
  BY <1>2, <1>4, NotTheGateway
<1> QED BY <1>2, <1>3, <1>4, ReactsAdmission

LEMMA StopsAdmission ==
    ASSUME AdmissionInv, GraceEnds \/ StopSettles \/ ApiStop \/ Expire
    PROVE  Admission' /\ Ending'
<1>1. talk \in Conversations /\ session \in Sessions
  BY HostTyped DEF AdmissionInv
<1>2. UNCHANGED <<near, alive>>
  BY DEF GraceEnds, StopSettles, ApiStop, Expire, browserVars
<1>3. /\ session'.active = session.active /\ session'.sockets = session.sockets
      /\ session'.auth = session.auth /\ talk'.socket = talk.socket
  BY <1>1 DEF GraceEnds, StopSettles, ApiStop, Expire, Sessions, Conversations, Stopped
<1>4. \A u \in Sockets : \/ far'[u] = far[u]
                         \/ far[u] # "none" /\ far'[u] \in {"closing", "dead"}
  BY CloseLowers DEF GraceEnds, StopSettles, ApiStop, Expire
<1>5. Admission'
  BY <1>2, <1>3, <1>4, Lowered
<1>6. CASE GraceEnds \/ ApiStop
  BY <1>1, <1>5, <1>6 DEF GraceEnds, ApiStop, Stopped, Conversations, Ending, AbandonedStops
<1>7. CASE StopSettles \/ Expire
  BY <1>1, <1>5, <1>7 DEF StopSettles, Expire, Sessions, AdmissionInv, Ending, AbandonedStops
<1> QED BY <1>6, <1>7

LEMMA TalkAdmission ==
    ASSUME AdmissionInv, Handle \/ PreparationEnds \/ EmitFrame
    PROVE  Admission' /\ Ending'
<1>1. talk \in Conversations /\ session \in Sessions /\ TransportInv
  BY HostTyped DEF AdmissionInv
<1>2. UNCHANGED <<near, alive, session>>
  BY DEF Handle, PreparationEnds, EmitFrame, browserVars
<1>3. CASE Handle
  BY <1>1, <1>2, <1>3, HandleReacts, ReactsAdmission
<1>4. CASE PreparationEnds \/ EmitFrame
  <2>1. /\ talk'.socket = talk.socket /\ talk'.id = talk.id /\ talk'.stopped = talk.stopped
        /\ far' = far
    BY <1>1, <1>4 DEF PreparationEnds, EmitFrame, Conversations
  <2>2. Admission'
    BY <1>2, <2>1, Lowered
  <2> QED BY <1>2, <2>1, <2>2 DEF AdmissionInv, Ending, AbandonedStops
<1> QED BY <1>3, <1>4

LEMMA HeartbeatAdmission ==
    ASSUME AdmissionInv, NEW s \in Sockets, Heartbeat(s)
    PROVE  Admission' /\ Ending'
<1>1. /\ talk \in Conversations /\ session \in Sessions
      /\ far \in [Sockets -> FarStates] /\ alive \in [Sockets -> BOOLEAN]
  BY HostTyped DEF AdmissionInv
<1>2. s = session.active /\ far[s] = "member" /\ s # None
  BY Bounds DEF AdmissionInv, Admission, Heartbeat
<1>3. UNCHANGED <<near, session>>
  BY DEF Heartbeat, browserVars
<1>4. talk'.id = talk.id /\ talk'.stopped = talk.stopped
  BY <1>1 DEF Heartbeat, Detached, Conversations
<1>5. CASE alive[s]
  <2>1. /\ alive' = [alive EXCEPT ![s] = FALSE] /\ talk' = Detached(talk, s) /\ far' = far
    BY <1>2, <1>5 DEF Heartbeat
  <2>2. talk'.socket = None
    BY <1>1, <1>2, <2>1 DEF Detached, Conversations, AdmissionInv, Admission
  <2>3. Admission'
    BY <1>1, <1>2, <1>3, <2>1, <2>2 DEF AdmissionInv, Admission, Unadmitted
  <2> QED BY <1>3, <1>4, <2>3 DEF AdmissionInv, Ending, AbandonedStops
<1>6. CASE ~alive[s]
  <2>1. UNCHANGED <<alive, talk>> /\ far' = [far EXCEPT ![s] = "dead"]
    BY <1>6 DEF Heartbeat
  <2>2. Admission'
    BY <1>1, <1>2, <1>3, <2>1, Lowered
  <2> QED BY <1>3, <1>4, <2>2 DEF AdmissionInv, Ending, AbandonedStops
<1> QED BY <1>5, <1>6

LEMMA PongAdmission ==
    ASSUME AdmissionInv, NEW s \in Sockets, Pong(s)
    PROVE  Admission' /\ Ending'
<1>1. /\ talk \in Conversations /\ session \in Sessions
      /\ far \in [Sockets -> FarStates] /\ alive \in [Sockets -> BOOLEAN]
  BY HostTyped DEF AdmissionInv
<1>2. s = session.active /\ far[s] = "member" /\ s # None
  BY Bounds DEF AdmissionInv, Admission, Pong
<1>3. UNCHANGED <<near, session>> /\ alive' = [alive EXCEPT ![s] = TRUE] /\ Attach(s, toBrowser)
  BY <1>2 DEF Pong, browserVars
<1>4. CASE talk.stopped
  <2>1. UNCHANGED talk /\ far' = [far EXCEPT ![s] = "closing"]
    BY <1>3, <1>4 DEF Attach
  <2>2. Admission'
    BY <1>1, <1>2, <1>3, <2>1 DEF AdmissionInv, Admission, Unadmitted
  <2> QED BY <1>3, <2>1, <2>2 DEF AdmissionInv, Ending, AbandonedStops
<1>5. CASE ~talk.stopped
  <2>1. talk' = [talk EXCEPT !.socket = s] /\ far' = far
    BY <1>3, <1>5 DEF Attach
  <2>2. talk'.socket = s /\ talk'.id = talk.id /\ talk'.stopped = talk.stopped
    BY <1>1, <2>1 DEF Conversations
  <2>3. Admission'
    BY <1>1, <1>2, <1>3, <2>1, <2>2 DEF AdmissionInv, Admission, Unadmitted
  <2> QED BY <1>3, <2>2, <2>3 DEF AdmissionInv, Ending, AbandonedStops
<1> QED BY <1>4, <1>5

LEMMA HostClosedAdmission ==
    ASSUME AdmissionInv, NEW s \in Sockets, HostClosed(s)
    PROVE  Admission' /\ Ending'
<1> DEFINE rest == session.sockets \ {s}
           less == [session EXCEPT !.sockets = rest,
                                   !.active = IF @ = s THEN None ELSE @]
           idle == [less EXCEPT !.auth = FALSE]
<1>1. /\ talk \in Conversations /\ session \in Sessions
      /\ far \in [Sockets -> FarStates] /\ alive \in [Sockets -> BOOLEAN] /\ s # None
  BY HostTyped, Bounds DEF AdmissionInv
<1>2. /\ far' = [far EXCEPT ![s] = "gone"] /\ far[s] # "none"
      /\ alive' = [alive EXCEPT ![s] = TRUE] /\ UNCHANGED near
  BY DEF HostClosed, Open, browserVars
<1>9. \A u \in Sockets : alive[u] => alive'[u]
  BY <1>1, <1>2
<1>3. /\ less.sockets = rest /\ less.active = (IF session.active = s THEN None ELSE session.active)
      /\ less.auth = session.auth /\ less.stopping = session.stopping
      /\ less.grace = session.grace /\ less \in Sessions
  BY <1>1, HostTyped DEF Sessions, AdmissionInv
<1>4. /\ \A u \in Sockets : far'[u] = "member" => far[u] = "member" /\ u # s
      /\ \A u \in Sockets : far'[u] \in Unadmitted => far[u] \in Unadmitted
      /\ \A u \in Sockets : near'[u] \in {"none", "connecting"} => far'[u] = "none"
      /\ \A u \in Sockets : u # s => far'[u] = far[u]
  BY <1>1, <1>2 DEF AdmissionInv, Admission, Unadmitted
<1>5. /\ session.active # None => session.active \in Sockets
      /\ talk.socket # None => talk.socket \in Sockets
  BY <1>1, Bounds DEF Sessions, Conversations, Sockets, None
<1>6. CASE far[s] = "stranger"
  <2>1. UNCHANGED <<session, talk>>
    BY <1>6 DEF HostClosed
  <2>2. session.active # s
    BY <1>1, <1>6 DEF AdmissionInv, Admission
  <2>3. Admission'
    BY <1>2, <1>4, <1>5, <1>9, <2>1, <2>2 DEF AdmissionInv, Admission
  <2> QED BY <2>1, <2>3 DEF AdmissionInv, Ending, AbandonedStops
<1>7. CASE far[s] # "stranger" /\ rest # {}
  <2>1. session' = less /\ UNCHANGED talk
    BY <1>7 DEF HostClosed
  <2>2. session.active # s /\ rest = session.sockets
    BY <1>1, <1>7 DEF AdmissionInv, Admission
  <2> HIDE DEF less, rest
  <2>3. /\ session'.active = session.active /\ session'.sockets = session.sockets
        /\ session'.auth = session.auth /\ session'.stopping = session.stopping
        /\ session'.grace = session.grace
    BY <1>3, <2>1, <2>2
  <2>4. Admission'
    BY <1>2, <1>4, <1>5, <1>9, <2>1, <2>2, <2>3 DEF AdmissionInv, Admission
  <2> QED BY <2>1, <2>3, <2>4 DEF AdmissionInv, Ending, AbandonedStops
<1>8. CASE far[s] # "stranger" /\ rest = {}
  <2>1. talk' = Detached(talk, s) /\ session' = Schedule(idle, talk)
    BY <1>8 DEF HostClosed
  <2>2. session.active = None \/ session.active = s
    BY <1>8 DEF AdmissionInv, Admission
  <2> HIDE DEF less, rest
  <2>3. /\ idle.sockets = {} /\ idle.active = None /\ idle.auth = FALSE
        /\ idle.stopping = session.stopping /\ idle.grace = session.grace
        /\ idle \in Sessions
    BY <1>3, <1>8, <2>2 DEF Sessions
  <2>4. /\ session'.active = None /\ session'.sockets = {} /\ session'.auth = FALSE
        /\ session'.stopping = session.stopping
        /\ ~session.stopping /\ talk.id # 0 => session'.grace
    <3> HIDE DEF idle
    <3> QED BY <1>1, <2>1, <2>3 DEF Schedule, Sessions, Conversations
  <2>5. talk'.id = talk.id /\ talk'.stopped = talk.stopped /\ talk'.socket = None
    BY <1>1, <2>1, <2>2 DEF Detached, Conversations, AdmissionInv, Admission
  <2>6. Admission'
    <3>1. \A u \in Sockets : far'[u] # "member"
      BY <1>1, <1>4, <2>2, Bounds DEF AdmissionInv, Admission
    <3> QED BY <1>2, <1>4, <1>9, <2>4, <2>5, <3>1 DEF AdmissionInv, Admission
  <2> QED BY <2>4, <2>5, <2>6 DEF AdmissionInv, Ending, AbandonedStops
<1> QED BY <1>6, <1>7, <1>8

(* The takeover leaves a session without a socket.                         *)
LEMMA TakenOverVacant ==
    ASSUME AdmissionInv, MayTakeOver
    PROVE  /\ TakenOver \in Sessions /\ Vacant(TakenOver) /\ TakenOver.active = None
           /\ TakenOver.stopping = session.stopping
           /\ Detached(talk, session.active).socket = None
           /\ session.active \in Sockets
<1>1. talk \in Conversations /\ session \in Sessions /\ None \in 0..MaxSockets
  BY HostTyped DEF AdmissionInv
<1>2. /\ TakenOver \in Sessions /\ TakenOver.active = None /\ ~TakenOver.auth
      /\ TakenOver.sockets = session.sockets \ {session.active}
      /\ TakenOver.stopping = session.stopping
  BY <1>1 DEF TakenOver, Sessions
<1>3. session.sockets = {session.active} /\ session.active # None
  BY DEF AdmissionInv, Admission, MayTakeOver
<1>4. Detached(talk, session.active).socket = None
  BY <1>1 DEF Detached, Conversations, AdmissionInv, Admission
<1>5. session.active \in Sockets
  BY <1>1, <1>3, Bounds DEF Sessions, Sockets, None
<1> QED BY <1>2, <1>3, <1>4, <1>5 DEF Vacant

(* Who a first message may be admitted to: the session as it is, or as a   *)
(* takeover leaves it.                                                     *)
LEMMA HostAuthenticatesCases ==
    ASSUME AdmissionInv, NEW s \in Sockets, HostAuthenticates(s)
    PROVE  \E sess \in Sessions, t \in Conversations, ends \in [Sockets -> FarStates] :
             /\ \/ sess = session /\ t = talk /\ ends = far
                \/ /\ MayTakeOver /\ sess = TakenOver
                   /\ t = Detached(talk, session.active)
                   /\ ends = [far EXCEPT ![session.active] = "dead"]
             /\ \/ /\ far[s] = "pending" /\ Vacant(sess) /\ Admit(s, sess, t)
                   /\ far' = [ends EXCEPT ![s] = "member"]
                \/ /\ sess = session /\ t = talk /\ ends = far
                   /\ far' = [far EXCEPT ![s] = "closing"]
                   /\ toBrowser' = Carry(toBrowser, s, [type |-> "close"])
                   /\ UNCHANGED <<session, talk, held>>
<1>1. /\ talk \in Conversations /\ session \in Sessions /\ far \in [Sockets -> FarStates]
  BY HostTyped DEF AdmissionInv
<1>2. PICK late \in IF far[s] = "pending" /\ ~session.expired /\ MayTakeOver
                    THEN BOOLEAN ELSE {FALSE} :
         LET old == session.active
             sess == IF late THEN TakenOver ELSE session
             t == IF late THEN Detached(talk, old) ELSE talk
             ends == IF late THEN [far EXCEPT ![old] = "dead"] ELSE far
         IN IF far[s] = "pending" /\ ~session.expired /\ Vacant(sess)
            THEN /\ Admit(s, sess, t)
                 /\ far' = [ends EXCEPT ![s] = "member"]
            ELSE /\ far' = [ends EXCEPT ![s] = "closing"]
                 /\ toBrowser' = Carry(toBrowser, s, [type |-> "close"])
                 /\ session' = sess /\ talk' = t
                 /\ UNCHANGED held
  BY DEF HostAuthenticates
<1>3. CASE late
  <2>1. MayTakeOver /\ far[s] = "pending" /\ ~session.expired
    BY <1>2, <1>3
  <2>2. TakenOver \in Sessions /\ Vacant(TakenOver)
    BY <2>1, TakenOverVacant
  <2>3. Detached(talk, session.active) \in Conversations
    BY <1>1, DetachedTyped DEF AdmissionInv
  <2>4. [far EXCEPT ![session.active] = "dead"] \in [Sockets -> FarStates]
    BY <1>1 DEF FarStates
  <2>5. /\ Admit(s, TakenOver, Detached(talk, session.active))
        /\ far' = [[far EXCEPT ![session.active] = "dead"] EXCEPT ![s] = "member"]
    BY <1>2, <1>3, <2>1, <2>2
  <2> QED BY <2>1, <2>2, <2>3, <2>4, <2>5
<1>4. CASE ~late
  <2>1. \/ /\ far[s] = "pending" /\ Vacant(session) /\ Admit(s, session, talk)
           /\ far' = [far EXCEPT ![s] = "member"]
        \/ /\ far' = [far EXCEPT ![s] = "closing"]
           /\ toBrowser' = Carry(toBrowser, s, [type |-> "close"])
           /\ UNCHANGED <<session, talk, held>>
    BY <1>2, <1>4
  <2> QED BY <1>1, <2>1
<1> QED BY <1>3, <1>4

LEMMA HostAuthenticatesAdmission ==
    ASSUME AdmissionInv, NEW s \in Sockets, HostAuthenticates(s)
    PROVE  Admission' /\ Ending'
<1>1. /\ talk \in Conversations /\ session \in Sessions /\ far \in [Sockets -> FarStates]
      /\ s # None /\ UNCHANGED <<near, alive>> /\ far[s] \in {"stranger", "pending"}
  BY HostTyped, Bounds DEF AdmissionInv, HostAuthenticates, browserVars
<1>2. PICK sess \in Sessions, t \in Conversations, ends \in [Sockets -> FarStates] :
        /\ \/ sess = session /\ t = talk /\ ends = far
           \/ /\ MayTakeOver /\ sess = TakenOver
              /\ t = Detached(talk, session.active)
              /\ ends = [far EXCEPT ![session.active] = "dead"]
        /\ \/ /\ far[s] = "pending" /\ Vacant(sess) /\ Admit(s, sess, t)
              /\ far' = [ends EXCEPT ![s] = "member"]
           \/ /\ sess = session /\ t = talk /\ ends = far
              /\ far' = [far EXCEPT ![s] = "closing"]
              /\ toBrowser' = Carry(toBrowser, s, [type |-> "close"])
              /\ UNCHANGED <<session, talk, held>>
  BY HostAuthenticatesCases
<1>3. session.active # s
  BY <1>1 DEF AdmissionInv, Admission
<1>4. CASE far' = [far EXCEPT ![s] = "closing"] /\ UNCHANGED <<session, talk>>
  <2>1. \A u \in Sockets : \/ far'[u] = far[u]
                           \/ far[u] # "none" /\ far'[u] \in {"closing", "dead"}
    BY <1>1, <1>4
  <2>2. Admission'
    BY <1>1, <1>4, <2>1, Lowered
  <2> QED BY <1>4, <2>2 DEF AdmissionInv, Ending, AbandonedStops
<1>5. CASE /\ far[s] = "pending" /\ Vacant(sess) /\ Admit(s, sess, t)
           /\ far' = [ends EXCEPT ![s] = "member"]
  <2>1. /\ \A u \in Sockets : u # s => ends[u] # "member"
        /\ \A u \in Sockets : ends[u] = far[u] \/ (ends[u] = "dead" /\ far[u] # "none")
        /\ sess.stopping = session.stopping /\ t.stopped = talk.stopped
    <3>1. CASE sess = session /\ t = talk /\ ends = far
      <4>1. session.sockets = {}
        BY <1>5, <3>1 DEF Vacant
      <4>2. session.active = None
        BY <4>1 DEF AdmissionInv, Admission
      <4>3. \A u \in Sockets : far[u] # "member"
        BY <4>2, Bounds DEF AdmissionInv, Admission
      <4> QED BY <3>1, <4>3
    <3>2. CASE /\ MayTakeOver /\ sess = TakenOver /\ t = Detached(talk, session.active)
               /\ ends = [far EXCEPT ![session.active] = "dead"]
      <4>1. TakenOver.stopping = session.stopping /\ session.active \in Sockets
        BY <3>2, TakenOverVacant
      <4>2. far[session.active] # "none"
        BY <4>1, Bounds DEF AdmissionInv, Admission
      <4>3. t.stopped = talk.stopped
        BY <1>1, <3>2 DEF Detached, Conversations
      <4>4. \A u \in Sockets : ends[u] = IF u = session.active THEN "dead" ELSE far[u]
        BY <1>1, <3>2
      <4>5. \A u \in Sockets : far[u] = "member" => u = session.active
        BY DEF AdmissionInv, Admission
      <4> QED BY <3>2, <4>1, <4>2, <4>3, <4>4, <4>5
    <3> QED BY <1>2, <3>1, <3>2
  <2>2. /\ session'.active = s /\ session'.sockets = {s}
        /\ session'.stopping = (sess.stopping /\ ~(t.id = 0 \/ t.stopped))
    <3>1. sess.sockets = {}
      BY <1>5 DEF Vacant
    <3> QED BY <1>1, <1>5, <3>1 DEF Admit, Sessions
  <2>3. /\ talk'.socket = s
        /\ ~(t.id = 0 \/ t.stopped) => talk'.stopped = t.stopped
    BY <1>1, <1>5 DEF Admit, Conversations
  <2>4. /\ far'[s] = "member" /\ \A u \in Sockets : far'[u] = "member" => u = s
        /\ \A u \in Sockets : far'[u] \in Unadmitted => far[u] \in Unadmitted
        /\ \A u \in Sockets : near[u] \in {"none", "connecting"} => far'[u] = "none"
    <3>1. far'[s] = "member" /\ \A u \in Sockets : u # s => far'[u] = ends[u]
      BY <1>5
    <3>2. near[s] \notin {"none", "connecting"}
      BY <1>1 DEF AdmissionInv, Admission
    <3> QED BY <2>1, <3>1, <3>2 DEF AdmissionInv, Admission, Unadmitted
  <2>5. alive[s]
    BY <1>5 DEF AdmissionInv, Admission, Unadmitted
  <2>6. Admission'
    <3>1. \A u \in Sockets : far'[u] \in Unadmitted => alive'[u]
      BY <1>1, <2>4 DEF AdmissionInv, Admission
    <3> QED BY <1>1, <2>2, <2>3, <2>4, <2>5, <3>1 DEF Admission
  <2>7. Ending'
    BY <1>1, <2>1, <2>2, <2>3 DEF AdmissionInv, Ending, AbandonedStops
  <2> QED BY <2>6, <2>7
<1> QED BY <1>2, <1>4, <1>5

LEMMA AdmissionKept == AdmissionInv /\ [Next]_vars => AdmissionInv'
<1> SUFFICES ASSUME AdmissionInv, [Next]_vars PROVE Admission' /\ Ending'
  BY TransportKept DEF AdmissionInv
<1>1. CASE UNCHANGED vars
  BY <1>1, NotTheGateway DEF vars, browserVars, hostVars
<1>2. CASE BrowserStep
  BY <1>2, BrowserAdmission, SocketOpensAdmission, SocketAdmission DEF BrowserStep
<1>3. CASE ConversationStep
  BY <1>3, StopsAdmission, TalkAdmission DEF ConversationStep
<1>4. CASE \E s \in Sockets : HostStep(s) \/ Cut(s)
  BY <1>4, HostAuthenticatesAdmission, HostReceivesAdmission, ClosesAdmission, HostClosedAdmission,
     HeartbeatAdmission, PongAdmission, SocketAdmission DEF HostStep
<1> QED BY <1>1, <1>2, <1>3, <1>4 DEF Next

(* At most one socket of a session is admitted at a time, and the          *)
(* conversation writes to no other, nor to one whose ping is unanswered    *)
(* (the takeover in the message handler, app.ts:728).                      *)
THEOREM OneOwner == Spec => []SoleOwner
<1>1. AdmissionInv => SoleOwner
  BY DEF AdmissionInv, Admission, SoleOwner
<1> QED BY <1>1, AdmissionInit, AdmissionKept, PTL DEF Spec

(* A conversation left without a socket is stopped or about to be, through *)
(* refused attempts, takeovers and stops in progress                       *)
(* (scheduleConversationStop).                                             *)
THEOREM AbandonedConversationStops == Spec => []AbandonedStops
<1>1. AdmissionInv => AbandonedStops
  BY DEF AdmissionInv, Ending
<1> QED BY <1>1, AdmissionInit, AdmissionKept, PTL DEF Spec

-----------------------------------------------------------------------------
(* Sequences that respect a relation: what is on the way is in an order    *)
(* that writing at the end, taking from the front, replacing and removing  *)
(* an element keep.                                                        *)

Sorted(q, R) == \A i, j \in DOMAIN q : i < j => <<q[i], q[j]>> \in R

LEMMA EmptySorted == ASSUME NEW R PROVE Sorted(<<>>, R) /\ Range(<<>>) = {}
  BY DEF Sorted, Range

LEMMA SortedAppend ==
    ASSUME NEW S, NEW q \in Seq(S), NEW m \in S, NEW R
    PROVE  /\ Range(Append(q, m)) = Range(q) \cup {m}
           /\ Sorted(q, R) /\ (\A x \in Range(q) : <<x, m>> \in R) => Sorted(Append(q, m), R)
<1> DEFINE r == Append(q, m)
<1>1. /\ r \in Seq(S) /\ Len(r) = Len(q) + 1 /\ r[Len(q) + 1] = m
      /\ \A i \in 1..Len(q) : r[i] = q[i]
      /\ Len(q) \in Nat /\ DOMAIN q = 1..Len(q) /\ DOMAIN r = 1..Len(q) + 1
  BY AppendProperties, LenProperties
<1> HIDE DEF r
<1>2. Range(r) = Range(q) \cup {m}
  BY <1>1 DEF Range
<1>3. ASSUME Sorted(q, R), \A x \in Range(q) : <<x, m>> \in R,
             NEW i \in DOMAIN r, NEW j \in DOMAIN r, i < j
      PROVE  <<r[i], r[j]>> \in R
  <2>1. i \in 1..Len(q) /\ r[i] = q[i] /\ q[i] \in Range(q)
    BY <1>1, <1>3 DEF Range
  <2>2. CASE j = Len(q) + 1
    BY <1>1, <1>3, <2>1, <2>2
  <2>3. CASE j \in 1..Len(q)
    BY <1>1, <1>3, <2>1, <2>3 DEF Sorted
  <2> QED BY <1>1, <2>2, <2>3
<1> QED BY <1>2, <1>3 DEF Sorted, r

LEMMA SortedTail ==
    ASSUME NEW S, NEW q \in Seq(S), q # <<>>, NEW R
    PROVE  /\ Range(Tail(q)) \subseteq Range(q) /\ Head(q) \in Range(q)
           /\ Sorted(q, R) => /\ Sorted(Tail(q), R)
                              /\ \A x \in Range(Tail(q)) : <<Head(q), x>> \in R
<1> DEFINE r == Tail(q)
<1>1. /\ r \in Seq(S) /\ Len(r) = Len(q) - 1 /\ \A i \in 1..Len(r) : r[i] = q[i + 1]
      /\ Len(q) \in Nat \ {0} /\ DOMAIN q = 1..Len(q) /\ DOMAIN r = 1..Len(q) - 1
      /\ Head(q) = q[1]
  BY HeadTailProperties, LenProperties, EmptySeq
<1> HIDE DEF r
<1>2. Range(r) \subseteq Range(q) /\ Head(q) \in Range(q)
  <2>1. \A i \in DOMAIN r : i + 1 \in DOMAIN q /\ r[i] = q[i + 1]
    BY <1>1
  <2>2. 1 \in DOMAIN q
    BY <1>1
  <2> QED BY <1>1, <2>1, <2>2 DEF Range
<1>3. ASSUME Sorted(q, R) PROVE Sorted(r, R) /\ \A x \in Range(r) : <<Head(q), x>> \in R
  <2>1. \A i \in DOMAIN r : i + 1 \in DOMAIN q /\ r[i] = q[i + 1] /\ 1 \in DOMAIN q /\ 1 < i + 1
    BY <1>1
  <2>2. \A i, j \in DOMAIN r : i < j => i + 1 < j + 1
    BY <1>1
  <2> QED BY <1>1, <1>3, <2>1, <2>2 DEF Sorted, Range
<1> QED BY <1>2, <1>3 DEF r

LEMMA SortedConcat ==
    ASSUME NEW S, NEW q \in Seq(S), NEW p \in Seq(S), NEW R
    PROVE  /\ Range(q \o p) = Range(q) \cup Range(p)
           /\ Sorted(q, R) /\ Sorted(p, R) /\ (\A x \in Range(q), y \in Range(p) : <<x, y>> \in R)
                => Sorted(q \o p, R)
<1> DEFINE r == q \o p
<1>1. /\ r \in Seq(S) /\ Len(r) = Len(q) + Len(p)
      /\ \A i \in 1..Len(q) + Len(p) : r[i] = IF i <= Len(q) THEN q[i] ELSE p[i - Len(q)]
      /\ Len(q) \in Nat /\ DOMAIN q = 1..Len(q) /\ Len(p) \in Nat /\ DOMAIN p = 1..Len(p)
      /\ DOMAIN r = 1..Len(q) + Len(p)
  BY ConcatProperties, LenProperties
<1> HIDE DEF r
<1>2. ASSUME Sorted(q, R), Sorted(p, R), \A x \in Range(q), y \in Range(p) : <<x, y>> \in R,
             NEW i \in DOMAIN r, NEW j \in DOMAIN r, i < j
      PROVE  <<r[i], r[j]>> \in R
  <2>1. CASE j <= Len(q)
    <3>1. i \in DOMAIN q /\ j \in DOMAIN q /\ r[i] = q[i] /\ r[j] = q[j]
      BY <1>1, <1>2, <2>1
    <3> QED BY <1>2, <3>1 DEF Sorted
  <2>2. CASE i <= Len(q) /\ ~(j <= Len(q))
    <3>1. i \in DOMAIN q /\ j - Len(q) \in DOMAIN p /\ r[i] = q[i] /\ r[j] = p[j - Len(q)]
      BY <1>1, <1>2, <2>2
    <3> QED BY <1>2, <3>1 DEF Range
  <2>3. CASE ~(i <= Len(q)) /\ ~(j <= Len(q))
    <3>1. /\ i - Len(q) \in DOMAIN p /\ j - Len(q) \in DOMAIN p
          /\ r[i] = p[i - Len(q)] /\ r[j] = p[j - Len(q)]
          /\ i - Len(q) < j - Len(q)
      BY <1>1, <1>2, <2>3
    <3> QED BY <1>2, <3>1 DEF Sorted
  <2> QED BY <1>1, <1>2, <2>1, <2>2, <2>3
<1>3. Range(r) = Range(q) \cup Range(p)
  BY RangeConcatenation DEF r
<1> QED BY <1>2, <1>3 DEF Sorted, r

LEMMA SortedReplace ==
    ASSUME NEW S, NEW q \in Seq(S), NEW i \in 1..Len(q), NEW c \in S, NEW R, Sorted(q, R),
           \A x \in Range(q) : <<x, c>> \in R,
           \A x \in Range(q) : <<q[i], x>> \in R => <<c, x>> \in R
    PROVE  /\ Sorted([q EXCEPT ![i] = c], R)
           /\ Range([q EXCEPT ![i] = c]) \subseteq Range(q) \cup {c}
<1>1. Len(q) \in Nat /\ DOMAIN q = 1..Len(q) /\ DOMAIN [q EXCEPT ![i] = c] = 1..Len(q)
      /\ \A j \in 1..Len(q) : [q EXCEPT ![i] = c][j] = IF j = i THEN c ELSE q[j]
  BY LenProperties
<1>2. \A j \in 1..Len(q) : q[j] \in Range(q)
  BY <1>1 DEF Range
<1>3. ASSUME NEW j \in 1..Len(q), NEW k \in 1..Len(q), j < k
      PROVE  <<[q EXCEPT ![i] = c][j], [q EXCEPT ![i] = c][k]>> \in R
  <2>1. j # k /\ <<q[j], q[k]>> \in R
    BY <1>1, <1>3 DEF Sorted
  <2> QED BY <1>1, <1>2, <2>1
<1> QED BY <1>1, <1>3 DEF Sorted, Range

LEMMA SortedRemove ==
    ASSUME NEW S, NEW q \in Seq(S), NEW i \in 1..Len(q), NEW R
    PROVE  /\ Range(RemoveAt(q, i)) \subseteq Range(q)
           /\ Sorted(q, R) => Sorted(RemoveAt(q, i), R)
<1> DEFINE r == RemoveAt(q, i)
<1>1. /\ Len(q) \in Nat /\ DOMAIN q = 1..Len(q) /\ DOMAIN r = 1..Len(q) - 1
      /\ \A j \in 1..Len(q) - 1 : r[j] = IF j < i THEN q[j] ELSE q[j + 1]
  BY LenProperties, RemoveTyped
<1> HIDE DEF r
<1>2. \A j \in DOMAIN r : /\ j < i => j \in DOMAIN q /\ r[j] = q[j]
                          /\ ~(j < i) => j + 1 \in DOMAIN q /\ r[j] = q[j + 1]
  BY <1>1
<1>3. Range(r) \subseteq Range(q)
  BY <1>2 DEF Range
<1>4. ASSUME Sorted(q, R), NEW j \in DOMAIN r, NEW k \in DOMAIN r, j < k
      PROVE  <<r[j], r[k]>> \in R
  <2>1. CASE k < i
    BY <1>1, <1>2, <1>4, <2>1 DEF Sorted
  <2>2. CASE j < i /\ ~(k < i)
    <3>1. /\ j \in DOMAIN q /\ r[j] = q[j] /\ k + 1 \in DOMAIN q /\ r[k] = q[k + 1]
          /\ j < k + 1
      BY <1>1, <1>2, <1>4, <2>2
    <3> QED BY <1>4, <3>1 DEF Sorted
  <2>3. CASE ~(j < i) /\ ~(k < i)
    <3>1. /\ j + 1 \in DOMAIN q /\ r[j] = q[j + 1] /\ k + 1 \in DOMAIN q /\ r[k] = q[k + 1]
          /\ j + 1 < k + 1
      BY <1>1, <1>2, <1>4, <2>3
    <3> QED BY <1>4, <3>1 DEF Sorted
  <2> QED BY <1>1, <1>4, <2>1, <2>2, <2>3
<1> QED BY <1>3, <1>4 DEF Sorted, r

-----------------------------------------------------------------------------
(* The greeting: commands are sent on a socket that was admitted, and none *)
(* is sent on one that a later socket has taken over from.                 *)

LEMMA AppendRange ==
    ASSUME NEW S, NEW q \in Seq(S), NEW m \in S
    PROVE  Range(Append(q, m)) = Range(q) \cup {m}
  BY SortedAppend

LEMMA CarryRange ==
    ASSUME NEW S, NEW channel \in [Sockets -> Seq(S)], NEW s \in Sockets, NEW m \in S,
           NEW u \in Sockets
    PROVE  \A x \in Range(Carry(channel, s, m)[u]) :
              x \in Range(channel[u]) \/ (u = s /\ x = m)
<1>1. channel[s] \in Seq(S)
  OBVIOUS
<1>2. Range(Append(channel[s], m)) = Range(channel[s]) \cup {m}
  BY <1>1, AppendRange
<1>3. Carry(channel, s, m)[u] = channel[u] \/ (u = s /\ Carry(channel, s, m)[u] = Append(channel[s], m))
  BY DEF Carry
<1> QED BY <1>2, <1>3

LEMMA WriteRange ==
    ASSUME NEW S, NEW channel \in [Sockets -> Seq(S)], NEW s \in Sockets, NEW f \in Seq(S),
           NEW u \in Sockets
    PROVE  \A x \in Range(WriteFrames(channel, s, f)[u]) :
              x \in Range(channel[u]) \/ (u = s /\ x \in Range(f))
<1>1. channel[s] \in Seq(S)
  OBVIOUS
<1>2. Range(channel[s] \o f) = Range(channel[s]) \cup Range(f)
  BY <1>1, SortedConcat
<1>3. \/ WriteFrames(channel, s, f)[u] = channel[u]
      \/ u = s /\ WriteFrames(channel, s, f)[u] = channel[s] \o f
  BY DEF WriteFrames
<1> QED BY <1>2, <1>3

LEMMA TakenRange ==
    ASSUME NEW S, NEW channel \in [Sockets -> Seq(S)], NEW s \in Sockets, channel[s] # <<>>,
           NEW u \in Sockets
    PROVE  /\ \A x \in Range([channel EXCEPT ![s] = Tail(@)][u]) : x \in Range(channel[u])
           /\ Head(channel[s]) \in Range(channel[s])
  BY SortedTail

LEMMA EmptiedRange ==
    ASSUME NEW S, NEW channel \in [Sockets -> Seq(S)], NEW s \in Sockets, NEW u \in Sockets
    PROVE  \A x \in Range([channel EXCEPT ![s] = <<>>][u]) : x \in Range(channel[u])
<1>1. Range(<<>>) = {}
  BY DEF Range
<1> QED BY <1>1

LEMMA CloseRange ==
    ASSUME TransportInv, NEW S, CloseFar(S), NEW u \in Sockets
    PROVE  \A x \in Range(toBrowser'[u]) :
              x \in Range(toBrowser[u]) \/ x = [type |-> "close"]
<1>1. /\ toBrowser[u] \in Seq(ToBrowser)
      /\ \/ toBrowser'[u] = Append(toBrowser[u], [type |-> "close"])
         \/ toBrowser'[u] = toBrowser[u]
  BY HostTyped DEF CloseFar, TransportInv
<1>2. ASSUME NEW m, m = [type |-> "close"]
      PROVE  Range(Append(toBrowser[u], m)) = Range(toBrowser[u]) \cup {m}
  BY <1>1, <1>2, AppendRange, ClosesAreMessages
<1> QED BY <1>1, <1>2

Hello(s) == greeted[s] \/ \E m \in Range(toBrowser[s]) : m.type = "authenticated"

Greeted ==
    /\ browser.connected => greeted[browser.sock]
    /\ \A s \in Sockets :
        /\ Hello(s) => far[s] \notin Unadmitted
        /\ \A m \in Range(toHost[s]) : m.type = "cmd" => greeted[s]
        /\ \A u \in Sockets : s < u /\ far[s] = "member" /\ Hello(u) => ~greeted[s]

GreetedInv == AdmissionInv /\ Greeted

LEMMA GreetedInit == Init => GreetedInv
<1> SUFFICES ASSUME Init PROVE Greeted
  BY AdmissionInit DEF GreetedInv
<1>1. Range(<<>>) = {}
  BY DEF Range
<1> QED BY <1>1 DEF Init, Greeted, Hello

(* Steps that greet nobody.                                                *)
LEMMA GreetsNobody ==
    ASSUME GreetedInv, greeted' = greeted,
           browser'.connected => browser.connected /\ browser'.sock = browser.sock,
           \A s \in Sockets : \A m \in Range(toBrowser'[s]) :
                m \in Range(toBrowser[s]) \/ m.type # "authenticated",
           \A s \in Sockets : \A m \in Range(toHost'[s]) :
                m \in Range(toHost[s]) \/ m.type # "cmd" \/ greeted[s],
           \A s \in Sockets : far'[s] \in Unadmitted => far[s] \in Unadmitted,
           \A s \in Sockets : far'[s] = "member" => far[s] = "member"
    PROVE  Greeted'
<1>1. \A s \in Sockets : Hello(s)' => Hello(s)
  BY DEF Hello
<1>2. browser'.connected => greeted'[browser'.sock]
  BY DEF GreetedInv, Greeted
<1>3. ASSUME NEW s \in Sockets, NEW m \in Range(toHost'[s]), m.type = "cmd" PROVE greeted'[s]
  BY <1>3 DEF GreetedInv, Greeted
<1>4. ASSUME NEW s \in Sockets, NEW u \in Sockets, s < u, far'[s] = "member", Hello(u)'
      PROVE  ~greeted'[s]
  BY <1>1, <1>4 DEF GreetedInv, Greeted
<1>5. ASSUME NEW s \in Sockets, Hello(s)' PROVE far'[s] \notin Unadmitted
  BY <1>1, <1>5 DEF GreetedInv, Greeted
<1> QED BY <1>2, <1>3, <1>4, <1>5 DEF Greeted

(* The transport's own steps: it may lose its socket, not gain one.        *)
LEMMA TransportLoses ==
    ASSUME TransportInv, RetryDue \/ WatchdogFires \/ SendCommand \/ RefuseHost \/ Disconnect
    PROVE  browser'.connected => browser.connected /\ browser'.sock = browser.sock
<1>1. browser \in Browsers /\ Ready(browser)
  BY BrowserTyped
<1>2. CASE RetryDue
  <2>1. ~browser.connected
    BY <1>1, <1>2 DEF RetryDue, Ready
  <2>2. CASE OpenSocket(browser)
    BY <1>1, <2>1, <2>2 DEF OpenSocket, Browsers
  <2>3. CASE browser' \in ScheduleReconnect([browser EXCEPT !.timer = FALSE])
    BY <1>1, <2>1, <2>3 DEF ScheduleReconnect, Browsers
  <2> QED BY <1>2, <2>2, <2>3 DEF RetryDue
<1>3. CASE WatchdogFires
  <2>1. browser.watchdog \in Sockets
    BY <1>1, <1>3, Bounds DEF WatchdogFires, None, Sockets, Browsers
  <2>2. CASE browser' = [browser EXCEPT !.watchdog = None]
    BY <1>1, <2>2 DEF Browsers
  <2>3. CASE browser' \in SocketFailure([browser EXCEPT !.watchdog = None], browser.watchdog)
    <3>1. Ready(browser') /\ (browser'.connected => browser.connected)
          /\ (browser'.sock = browser.sock \/ browser'.sock = None)
      BY <2>1, <2>3, FailureKeeps
    <3> QED BY <3>1 DEF Ready
  <2> QED BY <1>3, <2>2, <2>3 DEF WatchdogFires
<1>4. CASE SendCommand
  <2> DEFINE q == Enqueue(made + 1)
             told == [browser EXCEPT !.told = @ \/ q.told]
  <2>1. CASE UNCHANGED browser
    BY <2>1
  <2>2. CASE browser' = told
    <3> HIDE DEF q
    <3> QED BY <1>1, <2>2 DEF Browsers
  <2>3. CASE browser.connected /\ browser' \in SocketFailure(told, browser.sock)
    <3>1. browser.sock \in Sockets
      BY <1>1, <2>3, Bounds DEF Ready, Browsers, Sockets, None
    <3>2. told \in Browsers /\ Ready(told) /\ told.sock = browser.sock
      <4>1. made + 1 \in Commands /\ queue \in Seq(Commands) /\ Len(queue) <= MaxQueued
        BY <1>4, SocketsTyped, Bounds DEF SendCommand, Commands
      <4>2. q.told \in BOOLEAN
        BY <4>1, EnqueueKeeps
      <4> HIDE DEF q
      <4> QED BY <1>1, <4>2 DEF Browsers, Ready
    <3> HIDE DEF told
    <3> QED BY <2>3, <3>1, <3>2, FailureReady
  <2> QED BY <1>4, <2>1, <2>2, <2>3 DEF SendCommand
<1>5. CASE RefuseHost \/ Disconnect
  BY <1>1, <1>5 DEF RefuseHost, Disconnect, Browsers
<1> QED BY <1>2, <1>3, <1>4, <1>5

LEMMA TransportGreeted ==
    ASSUME GreetedInv, RetryDue \/ WatchdogFires \/ SendCommand \/ RefuseHost \/ Disconnect
    PROVE  Greeted'
<1>1. TransportInv /\ browser \in Browsers /\ Ready(browser)
  BY BrowserTyped DEF GreetedInv, AdmissionInv
<1>2. UNCHANGED <<greeted, far, toBrowser>>
  BY DEF RetryDue, OpenSocket, WatchdogFires, SendCommand, RefuseHost, Disconnect, hostVars
<1>3. \A s \in Sockets : \A m \in Range(toHost'[s]) : m \in Range(toHost[s]) \/ greeted[s]
  <2>1. CASE toHost' = toHost
    BY <2>1
  <2>2. CASE browser.connected
             /\ toHost' = Carry(toHost, browser.sock, [type |-> "cmd", n |-> made + 1])
             /\ made < MaxCommands
    <3>1. browser.sock \in Sockets /\ greeted[browser.sock]
      BY <1>1, <2>2, Bounds DEF Ready, Browsers, Sockets, None, GreetedInv, Greeted
    <3>2. [type |-> "cmd", n |-> made + 1] \in ToHost
      BY <1>1, <2>2, SocketsTyped, ClosesAreMessages, Bounds DEF Commands
    <3>3. toHost \in [Sockets -> Seq(ToHost)]
      BY <1>1, HostTyped
    <3>4. ASSUME NEW s \in Sockets, NEW m \in Range(toHost'[s])
          PROVE  m \in Range(toHost[s]) \/ s = browser.sock
      <4> DEFINE c == [type |-> "cmd", n |-> made + 1]
      <4>1. c \in ToHost /\ m \in Range(Carry(toHost, browser.sock, c)[s])
        BY <2>2, <3>2, <3>4
      <4> HIDE DEF c
      <4> QED BY <3>1, <3>3, <4>1, CarryRange
    <3> QED BY <3>1, <3>4
  <2> QED BY <2>1, <2>2 DEF RetryDue, OpenSocket, WatchdogFires, SendCommand, RefuseHost, Disconnect
<1>4. browser'.connected => browser.connected /\ browser'.sock = browser.sock
  BY <1>1, TransportLoses
<1> QED BY <1>2, <1>3, <1>4, GreetsNobody

(* Most steps take messages from a channel, if anything, and write at most *)
(* a control message.                                                      *)
Dwindles(q, r, K) ==
    \/ r = q \/ r = <<>>
    \/ q # <<>> /\ r = Tail(q)
    \/ \E m \in K : r = Append(q, m)

Signals == {[type |-> "auth"], [type |-> "close"]}
Closes == {[type |-> "close"]}

LEMMA Dwindled ==
    ASSUME NEW S, NEW q \in Seq(S), NEW K, K \subseteq S, NEW r, Dwindles(q, r, K),
           NEW R, \A m \in K, x \in S : <<x, m>> \in R
    PROVE  /\ \A x \in Range(r) : x \in Range(q) \/ x \in K
           /\ Sorted(q, R) => Sorted(r, R)
<1>1. CASE r = q
  BY <1>1
<1>2. CASE r = <<>>
  BY <1>2, EmptySorted
<1>3. CASE q # <<>> /\ r = Tail(q)
  BY <1>3, SortedTail
<1>4. CASE \E m \in K : r = Append(q, m)
  <2>1. PICK m \in K : r = Append(q, m)
    BY <1>4
  <2>2. \A x \in Range(q) : <<x, m>> \in R
    BY RangeEquality
  <2> QED BY <2>1, <2>2, SortedAppend
<1> QED BY <1>1, <1>2, <1>3, <1>4 DEF Dwindles

LEMMA DwindledRange ==
    ASSUME NEW S, NEW q \in Seq(S), NEW K, K \subseteq S, NEW r, Dwindles(q, r, K)
    PROVE  \A x \in Range(r) : x \in Range(q) \/ x \in K
<1> DEFINE R == S \X S
<1>1. \A m \in K, x \in S : <<x, m>> \in R
  OBVIOUS
<1> HIDE DEF R
<1> QED BY <1>1, Dwindled

LEMMA CarryDwindles ==
    ASSUME NEW S, NEW channel \in [Sockets -> Seq(S)], NEW s \in Sockets, NEW u \in Sockets,
           NEW K, NEW m \in K
    PROVE  Dwindles(channel[u], Carry(channel, s, m)[u], K)
  BY DEF Carry, Dwindles

LEMMA ToHostDwindles ==
    ASSUME TransportInv, NEW u \in Sockets, NEW s \in Sockets,
           \/ RetryDue \/ WatchdogFires \/ RefuseHost \/ Disconnect
           \/ SocketOpens(s) \/ SocketGone(s) \/ HostStep(s) \/ Cut(s) \/ ConversationStep
    PROVE  Dwindles(toHost[u], toHost'[u], Signals)
<1>1. toHost \in [Sockets -> Seq(ToHost)]
  BY HostTyped
<1>2. CASE toHost' = toHost
  BY <1>2 DEF Dwindles
<1>3. CASE toHost' = [toHost EXCEPT ![s] = Tail(@)] /\ toHost[s] # <<>>
  BY <1>1, <1>3 DEF Dwindles
<1>4. CASE toHost' = [toHost EXCEPT ![s] = <<>>]
  BY <1>1, <1>4 DEF Dwindles
<1>5. CASE \E m \in Signals : toHost' = Carry(toHost, s, m)
  BY <1>1, <1>5, CarryDwindles
<1>6. [type |-> "auth"] \in Signals /\ [type |-> "close"] \in Signals
  BY DEF Signals
<1>7. CASE RetryDue \/ WatchdogFires \/ RefuseHost \/ Disconnect
  BY <1>2, <1>7 DEF RetryDue, OpenSocket, WatchdogFires, RefuseHost, Disconnect
<1>8. CASE SocketOpens(s) \/ SocketGone(s) \/ Cut(s)
  BY <1>2, <1>4, <1>5, <1>6, <1>8 DEF SocketOpens, SocketGone, Cut
<1>9. CASE HostStep(s)
  BY <1>2, <1>3, <1>4, <1>9
     DEF HostStep, HostAuthenticates, HostReceives, HostClosed, AuthTimeout, Heartbeat, Pong
<1>10. CASE ConversationStep
  BY <1>2, <1>10 DEF ConversationStep, GraceEnds, StopSettles, ApiStop, Expire, Handle,
                     PreparationEnds, EmitFrame
<1> QED BY <1>7, <1>8, <1>9, <1>10

LEMMA CloseDwindles ==
    ASSUME NEW S, CloseFar(S), NEW u \in Sockets
    PROVE  Dwindles(toBrowser[u], toBrowser'[u], Closes)
<1>1. [type |-> "close"] \in Closes
  BY DEF Closes
<1> QED BY <1>1 DEF CloseFar, Dwindles

LEMMA ToBrowserDwindles ==
    ASSUME TransportInv, NEW u \in Sockets, NEW s \in Sockets,
           \/ RetryDue \/ WatchdogFires \/ SendCommand \/ RefuseHost \/ Disconnect
           \/ SocketOpens(s) \/ SocketGone(s) \/ BrowserReceive(s)
           \/ HostReceives(s) \/ HostClosed(s) \/ AuthTimeout(s) \/ Heartbeat(s) \/ Cut(s)
           \/ GraceEnds \/ StopSettles \/ ApiStop \/ Expire \/ Handle \/ PreparationEnds
    PROVE  Dwindles(toBrowser[u], toBrowser'[u], Closes)
<1>1. toBrowser \in [Sockets -> Seq(ToBrowser)]
  BY HostTyped
<1>2. CASE toBrowser' = toBrowser
  BY <1>2 DEF Dwindles
<1>3. CASE toBrowser' = [toBrowser EXCEPT ![s] = Tail(@)] /\ toBrowser[s] # <<>>
  BY <1>1, <1>3 DEF Dwindles
<1>4. CASE toBrowser' = [toBrowser EXCEPT ![s] = <<>>]
  BY <1>1, <1>4 DEF Dwindles
<1>5. CASE \E S : CloseFar(S)
  BY <1>5, CloseDwindles
<1>6. CASE toBrowser' = Carry(toBrowser, s, [type |-> "close"])
  BY <1>1, <1>6, CarryDwindles DEF Closes
<1>7. CASE \/ RetryDue \/ WatchdogFires \/ SendCommand \/ RefuseHost \/ Disconnect
           \/ SocketOpens(s)
  BY <1>2, <1>7 DEF RetryDue, OpenSocket, WatchdogFires, SendCommand, RefuseHost, Disconnect, SocketOpens
<1>8. CASE SocketGone(s) \/ BrowserReceive(s) \/ Cut(s)
  BY <1>3, <1>4, <1>8 DEF SocketGone, BrowserReceive, Cut
<1>9. CASE HostClosed(s) \/ AuthTimeout(s) \/ Heartbeat(s)
  BY <1>2, <1>5, <1>6, <1>9 DEF HostClosed, AuthTimeout, Heartbeat
<1>10. CASE GraceEnds \/ StopSettles \/ ApiStop \/ Expire \/ PreparationEnds
  BY <1>2, <1>5, <1>10 DEF GraceEnds, StopSettles, ApiStop, Expire, PreparationEnds
<1>11. CASE HostReceives(s) \/ Handle
  <2>1. (\E n : Reacts(n)) \/ toBrowser' = toBrowser
    BY <1>11, HostReceivesReacts, HandleReacts
  <2> QED BY <1>2, <1>5, <2>1 DEF Reacts
<1> QED BY <1>7, <1>8, <1>9, <1>10, <1>11

(* Steps that at most take from the channels, and leave the transport on   *)
(* the socket it has.                                                      *)
LEMMA DwindlingGreeted ==
    ASSUME GreetedInv, greeted' = greeted,
           browser'.connected => browser.connected /\ browser'.sock = browser.sock,
           \A u \in Sockets : Dwindles(toHost[u], toHost'[u], Signals),
           \A u \in Sockets : Dwindles(toBrowser[u], toBrowser'[u], Closes),
           \A u \in Sockets : far'[u] \in Unadmitted => far[u] \in Unadmitted,
           \A u \in Sockets : far'[u] = "member" => far[u] = "member"
    PROVE  Greeted'
<1>1. toHost \in [Sockets -> Seq(ToHost)] /\ toBrowser \in [Sockets -> Seq(ToBrowser)]
  BY HostTyped DEF GreetedInv, AdmissionInv
<1>2. Signals \subseteq ToHost /\ Closes \subseteq ToBrowser
  BY ClosesAreMessages DEF Signals, Closes
<1>3. ASSUME NEW u \in Sockets, NEW m \in Range(toHost'[u])
      PROVE  m \in Range(toHost[u]) \/ m \in Signals
  BY <1>1, <1>2, <1>3, DwindledRange
<1>4. ASSUME NEW u \in Sockets, NEW m \in Range(toBrowser'[u])
      PROVE  m \in Range(toBrowser[u]) \/ m \in Closes
  BY <1>1, <1>2, <1>4, DwindledRange
<1>5. (\A m \in Signals : m.type # "cmd") /\ (\A m \in Closes : m.type # "authenticated")
  BY DEF Signals, Closes
<1> QED BY <1>3, <1>4, <1>5, GreetsNobody

(* How a host step that admits nobody leaves the host's ends.              *)
LEMMA FarLowers ==
    ASSUME TransportInv, NEW s \in Sockets,
           \/ HostReceives(s) \/ HostClosed(s) \/ AuthTimeout(s) \/ Heartbeat(s) \/ Pong(s)
           \/ Cut(s) \/ ConversationStep
    PROVE  \A u \in Sockets : /\ far'[u] \in Unadmitted => far[u] \in Unadmitted
                              /\ far'[u] = "member" => far[u] = "member"
                              /\ far'[u] = "none" <=> far[u] = "none"
<1>1. far \in [Sockets -> FarStates]
  BY SocketsTyped
<1>2. CASE far' = far
  BY <1>2
<1>3. CASE \E S : CloseFar(S)
  BY <1>3, CloseLowers DEF Unadmitted
<1>4. CASE far[s] # "none" /\ \E a \in {"gone", "dead", "closing"} : far' = [far EXCEPT ![s] = a]
  BY <1>1, <1>4 DEF Unadmitted
<1>5. CASE HostReceives(s) \/ AuthTimeout(s) \/ Handle
  <2>1. (\E n : Reacts(n)) \/ far' = far \/ \E S : CloseFar(S)
    BY <1>5, HostReceivesReacts, HandleReacts DEF AuthTimeout
  <2> QED BY <1>2, <1>3, <2>1 DEF Reacts
<1>6. CASE HostClosed(s) \/ Heartbeat(s) \/ Pong(s)
  BY <1>2, <1>4, <1>6 DEF HostClosed, Heartbeat, Pong, Attach, Open
<1>7. CASE Cut(s) \/ (ConversationStep /\ ~Handle)
  BY <1>2, <1>3, <1>7
     DEF Cut, hostVars, ConversationStep, GraceEnds, StopSettles, ApiStop, Expire,
         PreparationEnds, EmitFrame
<1> QED BY <1>5, <1>6, <1>7

LEMMA QuietGreeted ==
    ASSUME GreetedInv, NEW s \in Sockets,
           \/ SocketOpens(s) \/ SocketGone(s)
           \/ HostReceives(s) \/ HostClosed(s) \/ AuthTimeout(s) \/ Heartbeat(s) \/ Cut(s)
           \/ GraceEnds \/ StopSettles \/ ApiStop \/ Expire \/ Handle \/ PreparationEnds
    PROVE  Greeted'
<1>1. TransportInv /\ AdmissionInv
  BY DEF GreetedInv, AdmissionInv
<1>2. \A u \in Sockets : Dwindles(toHost[u], toHost'[u], Signals)
  BY <1>1, ToHostDwindles DEF HostStep, ConversationStep
<1>3. \A u \in Sockets : Dwindles(toBrowser[u], toBrowser'[u], Closes)
  BY <1>1, ToBrowserDwindles
<1>4. greeted' = greeted
  BY DEF SocketOpens, SocketGone, HostReceives, HostClosed, AuthTimeout, Heartbeat, Cut,
         GraceEnds, StopSettles, ApiStop, Expire, Handle, PreparationEnds, browserVars
<1>5. CASE SocketOpens(s)
  <2>1. far[s] = "none" /\ far \in [Sockets -> FarStates]
    BY <1>1, <1>5, SocketsTyped DEF SocketOpens, AdmissionInv, Admission
  <2>2. \A u \in Sockets : /\ far'[u] \in Unadmitted => far[u] \in Unadmitted
                           /\ far'[u] = "member" => far[u] = "member"
    BY <1>5, <2>1 DEF SocketOpens, Unadmitted
  <2>3. browser' = browser
    BY <1>5 DEF SocketOpens
  <2> QED BY <1>2, <1>3, <1>4, <2>2, <2>3, DwindlingGreeted
<1>6. CASE SocketGone(s)
  <2>1. /\ Ready(browser') /\ (browser'.connected => browser.connected)
        /\ browser'.sock = browser.sock \/ browser'.sock = None
    BY <1>1, <1>6, FailureKeeps DEF SocketGone, Fail
  <2>2. browser'.connected => browser.connected /\ browser'.sock = browser.sock
    BY <2>1 DEF Ready
  <2>3. far' = far
    BY <1>6 DEF SocketGone, hostVars
  <2> QED BY <1>2, <1>3, <1>4, <2>2, <2>3, DwindlingGreeted
<1>7. CASE ~SocketOpens(s) /\ ~SocketGone(s)
  <2>1. browser' = browser
    BY <1>7 DEF HostReceives, HostClosed, AuthTimeout, Heartbeat, Cut, GraceEnds, StopSettles,
                ApiStop, Expire, Handle, PreparationEnds, browserVars
  <2>2. \A u \in Sockets : /\ far'[u] \in Unadmitted => far[u] \in Unadmitted
                           /\ far'[u] = "member" => far[u] = "member"
    BY <1>1, <1>7, FarLowers DEF ConversationStep
  <2> QED BY <1>2, <1>3, <1>4, <2>1, <2>2, DwindlingGreeted
<1> QED BY <1>5, <1>6, <1>7

(* Output written to a socket greets nobody either.                        *)
LEMMA FramesAreFrames == \A m \in Range(held) : held \in Seq(Frames) => m.type = "frame"
<1> SUFFICES ASSUME NEW m \in Range(held), held \in Seq(Frames) PROVE m.type = "frame"
  OBVIOUS
<1>1. m \in Frames
  BY RangeEquality
<1> QED BY <1>1 DEF Frames

LEMMA OutputGreeted ==
    ASSUME GreetedInv, NEW s \in Sockets, Pong(s) \/ EmitFrame
    PROVE  Greeted'
<1>1. TransportInv
  BY DEF GreetedInv, AdmissionInv
<1>2. \A u \in Sockets : /\ far'[u] \in Unadmitted => far[u] \in Unadmitted
                         /\ far'[u] = "member" => far[u] = "member"
  BY <1>1, FarLowers DEF ConversationStep
<1>3. UNCHANGED <<greeted, browser, toHost>>
  BY DEF Pong, EmitFrame, browserVars
<1>4. /\ toBrowser \in [Sockets -> Seq(ToBrowser)] /\ held \in Seq(Frames)
      /\ held \in Seq(ToBrowser) /\ talk \in Conversations
  BY <1>1, HostTyped, HeldTyped
<1>5. ASSUME NEW u \in Sockets, NEW m \in Range(toBrowser'[u])
      PROVE  m \in Range(toBrowser[u]) \/ m.type # "authenticated"
  <2>1. CASE toBrowser' = toBrowser
    BY <1>5, <2>1
  <2>2. CASE toBrowser' = Carry(toBrowser, s, [type |-> "close"])
    <3> DEFINE c == [type |-> "close"]
    <3>1. c \in ToBrowser /\ c.type # "authenticated" /\ m \in Range(Carry(toBrowser, s, c)[u])
      BY <1>5, <2>2, ClosesAreMessages
    <3> HIDE DEF c
    <3>2. m \in Range(toBrowser[u]) \/ m = c
      BY <1>4, <3>1, CarryRange
    <3> QED BY <3>1, <3>2
  <2>3. CASE toBrowser' = WriteFrames(toBrowser, s, held)
    <3>1. m \in Range(toBrowser[u]) \/ m \in Range(held)
      BY <1>4, <1>5, <2>3, WriteRange
    <3> QED BY <1>4, <3>1, FramesAreFrames
  <2>4. CASE EmitFrame /\ talk.socket # None
             /\ toBrowser' = Carry(toBrowser, talk.socket,
                    [type |-> "frame", talk |-> talk.id, n |-> talk.frames + 1])
    <3> DEFINE f == [type |-> "frame", talk |-> talk.id, n |-> talk.frames + 1]
    <3>1. f \in ToBrowser
      <4>1. /\ talk.id \in Talks /\ talk.frames \in 0..MaxFrames
            /\ talk.frames < MaxFrames
        BY <1>4, <2>4 DEF EmitFrame, Conversations
      <4>2. talk.frames + 1 \in 1..MaxFrames
        BY <4>1, Bounds
      <4> QED BY <4>1, <4>2 DEF Frames, ToBrowser
    <3>2. f.type # "authenticated" /\ m \in Range(Carry(toBrowser, talk.socket, f)[u])
      BY <1>5, <2>4
    <3>3. talk.socket \in Sockets
      BY <1>4, <2>4, Bounds DEF Conversations, Sockets, None
    <3> HIDE DEF f
    <3>4. m \in Range(toBrowser[u]) \/ m = f
      BY <1>4, <3>1, <3>2, <3>3, CarryRange
    <3> QED BY <3>2, <3>4
  <2> QED BY <2>1, <2>2, <2>3, <2>4 DEF Pong, Attach, EmitFrame
<1> QED BY <1>2, <1>3, <1>5, GreetsNobody

(* The greeting itself: it was admitted, and no later socket exists.       *)
LEMMA BrowserReceiveGreeted ==
    ASSUME GreetedInv, NEW s \in Sockets, BrowserReceive(s)
    PROVE  Greeted'
<1>1. TransportInv /\ AdmissionInv
  BY DEF GreetedInv, AdmissionInv
<1>2. \A u \in Sockets : Dwindles(toBrowser[u], toBrowser'[u], Closes)
  BY <1>1, ToBrowserDwindles
<1>3. UNCHANGED <<far, near>>
  BY DEF BrowserReceive, hostVars
<1>4. CASE UNCHANGED <<browser, greeted, toHost>>
  <2>1. \A u \in Sockets : Dwindles(toHost[u], toHost'[u], Signals)
    BY <1>4 DEF Dwindles
  <2> QED BY <1>2, <1>3, <1>4, <2>1, DwindlingGreeted
<1>5. CASE /\ TakeAuthenticated(s) /\ browser.sock = s /\ ~browser.left
           /\ Head(toBrowser[s]).type = "authenticated"
  <2>1. toBrowser \in [Sockets -> Seq(ToBrowser)] /\ toBrowser[s] # <<>>
        /\ toHost \in [Sockets -> Seq(ToHost)]
        /\ toBrowser' = [toBrowser EXCEPT ![s] = Tail(@)]
    BY <1>1, HostTyped DEF BrowserReceive
  <2>2. /\ \A u \in Sockets : \A m \in Range(toBrowser'[u]) : m \in Range(toBrowser[u])
        /\ Head(toBrowser[s]) \in Range(toBrowser[s])
    BY <2>1, TakenRange
  <2>3. greeted' = [greeted EXCEPT ![s] = TRUE] /\ greeted \in [Sockets -> BOOLEAN]
    BY <1>1, <1>5 DEF TakeAuthenticated, TransportInv, TypeInv, TypeOK
  <2>4. Hello(s) /\ \A u \in Sockets : Hello(u)' => Hello(u)
    BY <1>5, <2>2, <2>3 DEF Hello
  <2>5. browser'.connected => greeted'[browser'.sock]
    BY <1>1, <1>5, <2>3, GreetingReady
  <2>6. ASSUME NEW u \in Sockets, NEW m \in Range(toHost'[u]), m.type = "cmd"
        PROVE  greeted'[u]
    <3>1. CASE u = s
      BY <2>3, <3>1
    <3>2. CASE u # s
      <4>1. toHost'[u] = toHost[u]
        BY <1>5, <2>1, <3>2 DEF TakeAuthenticated
      <4> QED BY <2>3, <2>6, <3>2, <4>1 DEF GreetedInv, Greeted
    <3> QED BY <3>1, <3>2
  <2>7. ASSUME NEW w \in Sockets, NEW u \in Sockets, w < u, far'[w] = "member", Hello(u)'
        PROVE  ~greeted'[w]
    <3>1. ~greeted[w] /\ far[u] \notin Unadmitted
      BY <1>3, <2>4, <2>7 DEF GreetedInv, Greeted
    <3>2. CASE w = s
      <4>1. u > browser.opened
        BY <1>1, <1>5, <2>7, <3>2, BrowserTyped, Bounds DEF Ready
      <4>2. near[u] = "none"
        BY <1>1, <4>1 DEF TransportInv, Transport
      <4> QED BY <1>1, <3>1, <4>2 DEF AdmissionInv, Admission, Unadmitted
    <3> QED BY <2>3, <3>1, <3>2
  <2> QED BY <1>3, <2>4, <2>5, <2>6, <2>7 DEF GreetedInv, Greeted
<1> QED BY <1>4, <1>5 DEF BrowserReceive, Discard, TakeFrame

(* Who is admitted has not been greeted, and is the only one admitted.     *)
LEMMA HostAuthenticatesGreeted ==
    ASSUME GreetedInv, NEW s \in Sockets, HostAuthenticates(s)
    PROVE  Greeted'
<1>1. TransportInv /\ AdmissionInv
  BY DEF GreetedInv, AdmissionInv
<1>2. /\ UNCHANGED <<greeted, browser>> /\ far[s] \in {"stranger", "pending"}
      /\ \A u \in Sockets : Dwindles(toHost[u], toHost'[u], Signals)
      /\ toHost' = [toHost EXCEPT ![s] = Tail(@)] /\ toHost[s] # <<>>
  BY <1>1, ToHostDwindles DEF HostAuthenticates, browserVars, HostStep
<1>3. /\ talk \in Conversations /\ far \in [Sockets -> FarStates]
      /\ toBrowser \in [Sockets -> Seq(ToBrowser)] /\ toHost \in [Sockets -> Seq(ToHost)]
      /\ held \in Seq(Frames)
      /\ <<[type |-> "authenticated"]>> \o held \in Seq(ToBrowser)
  BY <1>1, HostTyped, HeldTyped
<1>4. PICK sess \in Sessions, t \in Conversations, ends \in [Sockets -> FarStates] :
        /\ \/ sess = session /\ t = talk /\ ends = far
           \/ /\ MayTakeOver /\ sess = TakenOver
              /\ t = Detached(talk, session.active)
              /\ ends = [far EXCEPT ![session.active] = "dead"]
        /\ \/ /\ far[s] = "pending" /\ Vacant(sess) /\ Admit(s, sess, t)
              /\ far' = [ends EXCEPT ![s] = "member"]
           \/ /\ sess = session /\ t = talk /\ ends = far
              /\ far' = [far EXCEPT ![s] = "closing"]
              /\ toBrowser' = Carry(toBrowser, s, [type |-> "close"])
              /\ UNCHANGED <<session, talk, held>>
  BY <1>1, HostAuthenticatesCases
<1>5. CASE /\ far' = [far EXCEPT ![s] = "closing"]
           /\ toBrowser' = Carry(toBrowser, s, [type |-> "close"])
  <2>1. \A u \in Sockets : Dwindles(toBrowser[u], toBrowser'[u], Closes)
    BY <1>3, <1>5, CarryDwindles DEF Closes
  <2>2. \A u \in Sockets : /\ far'[u] \in Unadmitted => far[u] \in Unadmitted
                           /\ far'[u] = "member" => far[u] = "member"
    BY <1>3, <1>5 DEF Unadmitted
  <2> QED BY <1>2, <2>1, <2>2, DwindlingGreeted
<1>6. CASE /\ far[s] = "pending" /\ Admit(s, sess, t)
           /\ far' = [ends EXCEPT ![s] = "member"]
  <2>1. \A u \in Sockets : ends[u] = far[u] \/ ends[u] = "dead"
    BY <1>3, <1>4
  <2>2. /\ far'[s] = "member"
        /\ \A u \in Sockets : far'[u] = "member" => u = s
    <3>1. far'[s] = "member"
      BY <1>6
    <3>2. Admission'
      BY <1>1, HostAuthenticatesAdmission
    <3> QED BY <3>1, <3>2 DEF Admission
  <2>3. ~Hello(s)
    BY <1>6 DEF GreetedInv, Greeted, Unadmitted
  <2>4. ASSUME NEW u \in Sockets, u # s PROVE toBrowser'[u] = toBrowser[u]
    BY <1>3, <1>6, <2>4 DEF Admit, Carry, WriteFrames
  <2>5. ASSUME NEW u \in Sockets, Hello(u)' PROVE far'[u] \notin Unadmitted
    <3>1. CASE u = s
      BY <2>2, <3>1 DEF Unadmitted
    <3>2. CASE u # s
      <4>1. Hello(u)
        BY <1>2, <2>4, <2>5, <3>2 DEF Hello
      <4>2. far[u] \notin Unadmitted
        BY <4>1 DEF GreetedInv, Greeted
      <4> QED BY <1>6, <2>1, <3>2, <4>2 DEF Unadmitted
    <3> QED BY <3>1, <3>2
  <2>6. ASSUME NEW u \in Sockets, NEW m \in Range(toHost'[u]), m.type = "cmd"
        PROVE  greeted'[u]
    <3>1. m \in Range(toHost[u])
      BY <1>2, <1>3, <2>6, TakenRange
    <3> QED BY <1>2, <2>6, <3>1 DEF GreetedInv, Greeted
  <2>7. ASSUME NEW w \in Sockets, NEW u \in Sockets, w < u, far'[w] = "member", Hello(u)'
        PROVE  ~greeted'[w]
    <3>1. w = s
      BY <2>2, <2>7
    <3> QED BY <1>2, <2>3, <3>1 DEF Hello
  <2>8. browser'.connected => greeted'[browser'.sock]
    BY <1>2 DEF GreetedInv, Greeted
  <2> QED BY <2>5, <2>6, <2>7, <2>8 DEF Greeted
<1> QED BY <1>4, <1>5, <1>6

LEMMA GreetedKept == GreetedInv /\ [Next]_vars => GreetedInv'
<1> SUFFICES ASSUME GreetedInv, [Next]_vars PROVE Greeted'
  BY AdmissionKept DEF GreetedInv
<1>1. CASE UNCHANGED vars
  <2>1. UNCHANGED <<browser, greeted, toHost, toBrowser, far>>
    BY <1>1 DEF vars, browserVars, hostVars
  <2> QED BY <2>1 DEF GreetedInv, Greeted, Hello
<1>2. CASE BrowserStep
  BY <1>2, TransportGreeted, QuietGreeted, BrowserReceiveGreeted DEF BrowserStep
<1>3. CASE ConversationStep
  <2>1. CASE GraceEnds \/ StopSettles \/ ApiStop \/ Expire \/ Handle \/ PreparationEnds
    <3>1. 1 \in Sockets
      BY Bounds DEF Sockets
    <3> QED BY <2>1, <3>1, QuietGreeted
  <2>2. CASE EmitFrame
    <3>1. 1 \in Sockets
      BY Bounds DEF Sockets
    <3> QED BY <2>2, <3>1, OutputGreeted
  <2> QED BY <1>3, <2>1, <2>2 DEF ConversationStep
<1>4. CASE \E s \in Sockets : HostStep(s) \/ Cut(s)
  BY <1>4, HostAuthenticatesGreeted, QuietGreeted, OutputGreeted DEF HostStep
<1> QED BY <1>1, <1>2, <1>3, <1>4 DEF Next

-----------------------------------------------------------------------------
(* Commands.  From the oldest to the newest they are done, in the chain,   *)
(* on the wire of the admitted socket, and in the queue; what was sent to  *)
(* a socket before it is not sent again, so that a socket is admitted      *)
(* without commands on its wire.  A control may go from the wire to what   *)
(* is done ahead of the chain.                                             *)

\* what may be handled after what: a report may overtake, but only in the
\* place of an older one, and so may a control
Precedes(a, b) ==
    \/ a < b
    \/ a > b /\ a \in Keyed /\ \E k \in Keyed : k < b
    \/ a > b /\ a \in Controls

QueueOrder == {p \in Commands \X Commands : Precedes(p[1], p[2])}
HandledOrder == {p \in Handled \X Handled : Precedes(p[1].n, p[2].n)}
WireOrder ==
    {p \in ToHost \X ToHost :
        p[1].type = "cmd" /\ p[2].type = "cmd" => Precedes(p[1].n, p[2].n)}

Before(A, B) == \A a \in A, b \in B : Precedes(a, b)
Done == {c.n : c \in Range(done)}
Chained == {c.n : c \in Range(chain)}
Queued == Range(queue)
Wired(s) == {m.n : m \in {x \in Range(toHost[s]) : x.type = "cmd"}}

Ordered ==
    /\ Sorted(done, HandledOrder) /\ Sorted(chain, HandledOrder) /\ Sorted(queue, QueueOrder)
    /\ Before(Done, Chained) /\ Before(Done, Queued) /\ Before(Chained, Queued)
    /\ \A a \in Done \cup Chained \cup Queued : a <= made

WireOrdered(s) ==
    /\ Sorted(toHost[s], WireOrder)
    /\ Before(Done, Wired(s)) /\ Before(Chained, Wired(s)) /\ Before(Wired(s), Queued)
    /\ \A a \in Wired(s) : a <= made

CommandsOrdered == Ordered /\ \A s \in Sockets : far[s] = "member" => WireOrdered(s)

CommandsInv == GreetedInv /\ CommandsOrdered

LEMMA CommandsInit == Init => CommandsInv
<1> SUFFICES ASSUME Init PROVE CommandsOrdered
  BY GreetedInit DEF CommandsInv
<1>1. done = <<>> /\ chain = <<>> /\ queue = <<>> /\ \A s \in Sockets : far[s] # "member"
  BY DEF Init
<1>2. Range(done) = {} /\ Range(chain) = {} /\ Range(queue) = {}
  BY <1>1, EmptySorted
<1>3. Sorted(done, HandledOrder) /\ Sorted(chain, HandledOrder) /\ Sorted(queue, QueueOrder)
  BY <1>1, EmptySorted
<1> QED BY <1>1, <1>2, <1>3 DEF CommandsOrdered, Ordered, Before, Done, Chained, Queued

LEMMA RangeIn == ASSUME NEW S, NEW q \in Seq(S) PROVE Range(q) \subseteq S
  BY RangeEquality

LEMMA CommandsTyped ==
    ASSUME TransportInv
    PROVE  /\ made \in Nat /\ made \in 0..MaxCommands
           /\ queue \in Seq(Commands) /\ done \in Seq(Handled) /\ chain \in Seq(Handled)
           /\ toHost \in [Sockets -> Seq(ToHost)]
           /\ Done \subseteq Commands /\ Chained \subseteq Commands /\ Queued \subseteq Commands
           /\ \A s \in Sockets : Wired(s) \subseteq Commands
           /\ Commands \subseteq Nat
<1>1. /\ made \in 0..MaxCommands /\ queue \in Seq(Commands) /\ done \in Seq(Handled)
      /\ chain \in Seq(Handled) /\ toHost \in [Sockets -> Seq(ToHost)]
  BY SocketsTyped, HostTyped
<1>2. Range(done) \subseteq Handled /\ Range(chain) \subseteq Handled /\ Range(queue) \subseteq Commands
  BY <1>1, RangeIn
<1>3. \A s \in Sockets : Range(toHost[s]) \subseteq ToHost
  BY <1>1, RangeEquality
<1>4. \A m \in ToHost : m.type = "cmd" => m.n \in Commands
  BY DEF ToHost
<1>5. \A c \in Handled : c.n \in Commands
  BY DEF Handled
<1> QED BY <1>1, <1>2, <1>3, <1>4, <1>5, Bounds DEF Done, Chained, Queued, Wired, Commands

LEMMA UnwiredOrdered ==
    ASSUME TransportInv, NEW s \in Sockets, Wired(s) = {}
    PROVE  Sorted(toHost[s], WireOrder)
<1>1. toHost[s] \in Seq(ToHost)
  BY CommandsTyped
<1>2. \A i \in DOMAIN toHost[s] : toHost[s][i] \in ToHost /\ toHost[s][i] \in Range(toHost[s])
  BY <1>1, RangeEquality, ElementOfSeq DEF Range
<1>3. \A x \in Range(toHost[s]) : x.type # "cmd"
  BY DEF Wired
<1> QED BY <1>2, <1>3 DEF Sorted, WireOrder

LEMMA DwindlingWire ==
    ASSUME TransportInv, NEW s \in Sockets, Dwindles(toHost[s], toHost'[s], Signals)
    PROVE  /\ Wired(s)' \subseteq Wired(s)
           /\ Sorted(toHost[s], WireOrder) => Sorted(toHost'[s], WireOrder)
<1>1. toHost[s] \in Seq(ToHost)
  BY CommandsTyped
<1>2. Signals \subseteq ToHost /\ \A m \in Signals : m.type # "cmd"
  BY ClosesAreMessages DEF Signals
<1>3. \A m \in Signals, x \in ToHost : <<x, m>> \in WireOrder
  BY <1>2 DEF WireOrder
<1>4. /\ \A x \in Range(toHost'[s]) : x \in Range(toHost[s]) \/ x \in Signals
      /\ Sorted(toHost[s], WireOrder) => Sorted(toHost'[s], WireOrder)
  BY <1>1, <1>2, <1>3, Dwindled
<1> QED BY <1>2, <1>4 DEF Wired

(* Steps that send and handle nothing.                                     *)
LEMMA CommandsKeep ==
    ASSUME CommandsInv, UNCHANGED <<done, chain, made>>, queue' = queue \/ queue' = <<>>,
           \A s \in Sockets : Dwindles(toHost[s], toHost'[s], Signals),
           \A s \in Sockets : far'[s] = "member" => far[s] = "member" \/ Wired(s) = {}
    PROVE  CommandsOrdered'
<1>1. TransportInv
  BY DEF CommandsInv, GreetedInv, AdmissionInv
<1>2. Queued' \subseteq Queued /\ Done' = Done /\ Chained' = Chained
  BY EmptySorted DEF Queued, Done, Chained
<1>3. Sorted(queue', QueueOrder)
  BY EmptySorted DEF CommandsInv, CommandsOrdered, Ordered
<1>4. Ordered'
  BY <1>2, <1>3 DEF CommandsInv, CommandsOrdered, Ordered, Before
<1>5. ASSUME NEW s \in Sockets, far'[s] = "member" PROVE WireOrdered(s)'
  <2>1. WireOrdered(s) \/ (Wired(s) = {} /\ Sorted(toHost[s], WireOrder))
    BY <1>1, <1>5, UnwiredOrdered DEF CommandsInv, CommandsOrdered
  <2>2. Wired(s)' \subseteq Wired(s) /\ Sorted(toHost'[s], WireOrder)
    BY <1>1, <2>1, DwindlingWire DEF WireOrdered
  <2>3. CASE Wired(s) = {}
    BY <2>2, <2>3 DEF WireOrdered, Before
  <2>4. CASE WireOrdered(s)
    BY <1>2, <2>2, <2>4 DEF WireOrdered, Before
  <2> QED BY <2>1, <2>3, <2>4
<1> QED BY <1>4, <1>5 DEF CommandsOrdered

LEMMA QuietCommands ==
    ASSUME CommandsInv, NEW s \in Sockets,
           \/ RetryDue \/ WatchdogFires \/ RefuseHost \/ Disconnect
           \/ SocketOpens(s) \/ SocketGone(s) \/ HostAuthenticates(s)
           \/ HostClosed(s) \/ AuthTimeout(s) \/ Heartbeat(s) \/ Pong(s)
           \/ Cut(s) \/ GraceEnds \/ StopSettles \/ ApiStop \/ Expire \/ PreparationEnds
           \/ EmitFrame
    PROVE  CommandsOrdered'
<1>1. TransportInv /\ AdmissionInv /\ GreetedInv
  BY DEF CommandsInv, GreetedInv, AdmissionInv
<1>2. \A u \in Sockets : Dwindles(toHost[u], toHost'[u], Signals)
  BY <1>1, ToHostDwindles DEF HostStep, ConversationStep
<1>3. UNCHANGED <<done, chain, made>> /\ (queue' = queue \/ queue' = <<>>)
  BY DEF RetryDue, OpenSocket, WatchdogFires, RefuseHost, Disconnect, SocketOpens, SocketGone,
         HostAuthenticates, HostClosed, AuthTimeout, Heartbeat, Pong, Cut, GraceEnds,
         StopSettles, ApiStop, Expire, PreparationEnds, EmitFrame, hostVars, browserVars
<1>4. \A u \in Sockets : far'[u] = "member" => far[u] = "member" \/ Wired(u) = {}
  <2>1. CASE HostAuthenticates(s)
    <3>1. /\ far[s] \in {"stranger", "pending"}
          /\ \A u \in Sockets : far'[u] = "member" => far[u] = "member" \/ u = s
      <4>1. /\ far \in [Sockets -> FarStates] /\ far[s] \in {"stranger", "pending"}
            /\ \E ends \in [Sockets -> FarStates] :
                 /\ \A u \in Sockets : ends[u] = far[u] \/ ends[u] = "dead"
                 /\ \/ far' = [ends EXCEPT ![s] = "member"]
                    \/ far' = [far EXCEPT ![s] = "closing"]
        <5>1. far \in [Sockets -> FarStates] /\ far[s] \in {"stranger", "pending"}
          BY <1>1, <2>1, HostTyped DEF HostAuthenticates
        <5>2. PICK sess \in Sessions, t \in Conversations, ends \in [Sockets -> FarStates] :
                /\ ends = far \/ ends = [far EXCEPT ![session.active] = "dead"]
                /\ \/ far' = [ends EXCEPT ![s] = "member"]
                   \/ far' = [far EXCEPT ![s] = "closing"]
          BY <1>1, <2>1, HostAuthenticatesCases
        <5>3. \A u \in Sockets : ends[u] = far[u] \/ ends[u] = "dead"
          BY <5>1, <5>2
        <5> QED BY <5>1, <5>2, <5>3
      <4> QED BY <4>1
    <3>2. Wired(s) = {}
      BY <3>1 DEF GreetedInv, Greeted, Hello, Unadmitted, Wired, CommandsInv
    <3> QED BY <3>1, <3>2
  <2>2. CASE SocketOpens(s)
    <3>1. far \in [Sockets -> FarStates]
      BY <1>1, HostTyped
    <3> QED BY <2>2, <3>1 DEF SocketOpens
  <2>3. CASE far' = far
    BY <2>3
  <2>4. CASE \/ HostReceives(s) \/ HostClosed(s) \/ AuthTimeout(s) \/ Heartbeat(s) \/ Pong(s)
             \/ Cut(s) \/ ConversationStep
    BY <1>1, <2>4, FarLowers
  <2> QED BY <2>1, <2>2, <2>3, <2>4
          DEF RetryDue, OpenSocket, WatchdogFires, RefuseHost, Disconnect, SocketGone,
              ConversationStep, hostVars
<1> QED BY <1>2, <1>3, <1>4, CommandsKeep

(* The oldest command of the wire joins the end of the chain, or is a      *)
(* control that is acted on at once.                                       *)
LEMMA HostReceivesCommands ==
    ASSUME CommandsInv, NEW s \in Sockets, HostReceives(s)
    PROVE  CommandsOrdered'
<1>1. TransportInv /\ AdmissionInv
  BY DEF CommandsInv, GreetedInv, AdmissionInv
<1>2. \A u \in Sockets : Dwindles(toHost[u], toHost'[u], Signals)
  BY <1>1, ToHostDwindles DEF HostStep
<1>3. \A u \in Sockets : far'[u] = "member" => far[u] = "member"
  BY <1>1, FarLowers
<1> DEFINE h == Head(toHost[s])
           c == [n |-> h.n, talk |-> talk.id]
<1>4. /\ toHost[s] # <<>> /\ h.type = "cmd" /\ h.n \in Commands
      /\ far[s] = "member" /\ toHost' = [toHost EXCEPT ![s] = Tail(@)]
      /\ UNCHANGED <<made, queue>>
      /\ \/ chain' = chain /\ Reacts(h.n) /\ (h.n \in Controls \/ UNCHANGED <<talk, held, done>>)
         \/ chain' = Append(chain, c) /\ UNCHANGED <<far, toBrowser, talk, held, done>>
  BY <1>1, HostReceivesReacts DEF browserVars
<1>5. CASE UNCHANGED <<chain, done>>
  BY <1>2, <1>3, <1>4, <1>5, CommandsKeep
<1>6. /\ toHost[s] \in Seq(ToHost) /\ toHost \in [Sockets -> Seq(ToHost)]
      /\ talk \in Conversations /\ chain \in Seq(Handled) /\ done \in Seq(Handled)
      /\ c \in Handled /\ c.n = h.n
  BY <1>1, <1>4, HostTyped DEF Handled, Conversations
<1>7. WireOrdered(s) /\ Ordered
  BY <1>4 DEF CommandsInv, CommandsOrdered
<1>8. /\ Range(toHost'[s]) \subseteq Range(toHost[s]) /\ h \in Range(toHost[s])
      /\ Sorted(toHost'[s], WireOrder)
      /\ \A x \in Range(toHost'[s]) : <<h, x>> \in WireOrder
  <2>1. toHost'[s] = Tail(toHost[s])
    BY <1>4, <1>6
  <2> QED BY <1>4, <1>6, <1>7, <2>1, SortedTail DEF WireOrdered
<1>9. /\ h.n \in Wired(s) /\ Wired(s)' \subseteq Wired(s)
      /\ \A a \in Wired(s)' : Precedes(h.n, a)
  BY <1>4, <1>8 DEF Wired, WireOrder
<1>10. \A u \in Sockets : far'[u] = "member" => u = s
  BY <1>1, <1>3, <1>4 DEF AdmissionInv, Admission
<1>11. /\ \A x \in Range(chain) : x \in Handled /\ x.n \in Chained
       /\ \A x \in Range(done) : x \in Handled /\ x.n \in Done
       /\ Chained \subseteq Commands /\ Done \subseteq Commands /\ Commands \subseteq Nat
  BY <1>1, <1>6, RangeIn, CommandsTyped DEF Chained, Done
<1> HIDE DEF c, h
<1>12. CASE chain' = Append(chain, c) /\ UNCHANGED <<far, toBrowser, talk, held, done>>
  <2>1. \A x \in Range(chain) : <<x, c>> \in HandledOrder
    BY <1>6, <1>7, <1>9, <1>11 DEF WireOrdered, Before, HandledOrder
  <2>2. Range(chain') = Range(chain) \cup {c} /\ Sorted(chain', HandledOrder)
    BY <1>6, <1>7, <1>12, <2>1, SortedAppend DEF Ordered
  <2>3. Chained' = Chained \cup {h.n} /\ Done' = Done /\ Queued' = Queued
    BY <1>4, <1>6, <1>12, <2>2 DEF Chained, Done, Queued
  <2>4. Ordered'
    BY <1>4, <1>7, <1>9, <1>12, <2>2, <2>3 DEF Ordered, WireOrdered, Before
  <2>5. WireOrdered(s)'
    BY <1>4, <1>7, <1>8, <1>9, <2>3 DEF WireOrdered, Before
  <2> QED BY <1>10, <2>4, <2>5 DEF CommandsOrdered
<1>13. CASE chain' = chain /\ done' = Append(done, c) /\ h.n \in Controls
  <2>1. \A x \in Range(done) : <<x, c>> \in HandledOrder
    BY <1>6, <1>7, <1>9, <1>11 DEF WireOrdered, Before, HandledOrder
  <2>2. Range(done') = Range(done) \cup {c} /\ Sorted(done', HandledOrder)
    BY <1>6, <1>7, <1>13, <2>1, SortedAppend DEF Ordered
  <2>3. Done' = Done \cup {h.n} /\ Chained' = Chained /\ Queued' = Queued
    BY <1>4, <1>6, <1>13, <2>2 DEF Chained, Done, Queued
  <2>4. \A a \in Chained : Precedes(h.n, a)
    <3>1. \A a \in Chained : Precedes(a, h.n) /\ a \in Nat /\ h.n \in Nat
      BY <1>4, <1>7, <1>9, <1>11 DEF WireOrdered, Before
    <3> QED BY <1>13, <3>1 DEF Precedes
  <2>5. Ordered'
    BY <1>4, <1>7, <1>9, <1>13, <2>2, <2>3, <2>4 DEF Ordered, WireOrdered, Before
  <2>6. WireOrdered(s)'
    BY <1>4, <1>7, <1>8, <1>9, <2>3 DEF WireOrdered, Before
  <2> QED BY <1>10, <2>5, <2>6 DEF CommandsOrdered
<1>14. CASE chain' = chain /\ Reacts(h.n) /\ h.n \in Controls
  BY <1>5, <1>13, <1>14 DEF Reacts, c
<1> QED BY <1>4, <1>5, <1>12, <1>14

(* The oldest of the chain is done, or refused.                            *)
LEMMA HandleCommands == CommandsInv /\ Handle => CommandsOrdered'
<1> SUFFICES ASSUME CommandsInv, Handle PROVE CommandsOrdered'
  OBVIOUS
<1>1. TransportInv
  BY DEF CommandsInv, GreetedInv, AdmissionInv
<1> DEFINE c == Head(chain)
<1>2. /\ chain \in Seq(Handled) /\ done \in Seq(Handled) /\ chain # <<>> /\ chain' = Tail(chain)
      /\ UNCHANGED <<made, queue, toHost>> /\ Reacts(c.n) /\ c \in Handled
      /\ c.talk = talk.id \/ UNCHANGED <<talk, held, done>>
  BY <1>1, HostTyped, HandleReacts DEF browserVars
<1>3. \A u \in Sockets : far'[u] = "member" => far[u] = "member"
  <2>1. 1 \in Sockets
    BY Bounds DEF Sockets
  <2> QED BY <1>1, <2>1, FarLowers DEF ConversationStep
<1>4. Sorted(done, HandledOrder) /\ Sorted(chain, HandledOrder)
  BY DEF CommandsInv, CommandsOrdered, Ordered
<1>5. /\ Range(chain') \subseteq Range(chain) /\ c \in Range(chain)
      /\ Sorted(chain', HandledOrder)
      /\ \A x \in Range(chain') : <<c, x>> \in HandledOrder
  BY <1>2, <1>4, SortedTail
<1>6. /\ Chained' \subseteq Chained /\ c.n \in Chained
      /\ \A a \in Chained' : Precedes(c.n, a)
      /\ c \in Handled
  BY <1>2, <1>5, RangeIn DEF Chained, HandledOrder
<1> HIDE DEF c
<1>7. done' = done \/ done' = Append(done, c)
  <2>1. c.talk = talk.id => [n |-> c.n, talk |-> talk.id] = c
    BY <1>2 DEF Handled
  <2> QED BY <1>2, <2>1 DEF Reacts
<1>8. Sorted(done', HandledOrder) /\ Done' \subseteq Done \cup {c.n}
  <2>1. \A x \in Range(done) : <<x, c>> \in HandledOrder
    <3>1. \A x \in Range(done) : x \in Handled /\ x.n \in Done
      BY <1>2, RangeIn DEF Done
    <3> QED BY <1>6, <3>1 DEF CommandsInv, CommandsOrdered, Ordered, Before, HandledOrder
  <2>2. CASE done' = done
    BY <1>4, <2>2 DEF Done
  <2>3. CASE done' = Append(done, c)
    <3>1. Range(done') = Range(done) \cup {c} /\ Sorted(done', HandledOrder)
      BY <1>2, <1>4, <1>6, <2>1, <2>3, SortedAppend
    <3> QED BY <3>1 DEF Done
  <2> QED BY <1>7, <2>2, <2>3
<1>9. Queued' = Queued /\ Sorted(queue', QueueOrder)
  BY <1>2 DEF Queued, CommandsInv, CommandsOrdered, Ordered
<1>10. Ordered'
  BY <1>2, <1>5, <1>6, <1>8, <1>9 DEF CommandsInv, CommandsOrdered, Ordered, Before
<1>11. ASSUME NEW u \in Sockets, far'[u] = "member" PROVE WireOrdered(u)'
  <2>1. WireOrdered(u) /\ Wired(u)' = Wired(u)
    BY <1>2, <1>3, <1>11 DEF CommandsInv, CommandsOrdered, Wired
  <2> QED BY <1>2, <1>6, <1>8, <1>9, <2>1 DEF WireOrdered, Before
<1> QED BY <1>10, <1>11 DEF CommandsOrdered

(* A new command goes behind the queue, or takes the place of a report.    *)
LEMMA EnqueueSorted ==
    ASSUME NEW q \in Seq(Commands), queue = q, Len(q) <= MaxQueued, NEW c \in Commands,
           Sorted(q, QueueOrder), \A x \in Range(q) : x < c
    PROVE  /\ Sorted(Enqueue(c).queue, QueueOrder)
           /\ Range(Enqueue(c).queue) \subseteq Range(q) \cup {c}
<1>1. Range(q) \subseteq Commands /\ Commands \subseteq Nat /\ Keyed \subseteq Commands
  BY RangeIn, Bounds DEF Commands
<1>2. \A x \in Range(q) : <<x, c>> \in QueueOrder
  BY <1>1 DEF QueueOrder, Precedes
<1>3. \/ Enqueue(c).queue = q
      \/ Enqueue(c).queue = Append(q, c)
      \/ /\ c \in Keyed
         /\ \E i \in 1..Len(q) : q[i] \in Keyed /\ Enqueue(c).queue = [q EXCEPT ![i] = c]
      \/ \E i \in 1..Len(q) : Enqueue(c).queue = Append(RemoveAt(q, i), c)
  BY EnqueueKeeps
<1>4. CASE Enqueue(c).queue = q
  BY <1>4
<1>5. CASE Enqueue(c).queue = Append(q, c)
  BY <1>2, <1>5, SortedAppend
<1>6. CASE /\ c \in Keyed
           /\ \E i \in 1..Len(q) : q[i] \in Keyed /\ Enqueue(c).queue = [q EXCEPT ![i] = c]
  <2>1. PICK i \in 1..Len(q) : q[i] \in Keyed /\ Enqueue(c).queue = [q EXCEPT ![i] = c]
    BY <1>6
  <2>2. ASSUME NEW x \in Range(q), <<q[i], x>> \in QueueOrder PROVE <<c, x>> \in QueueOrder
    <3>1. Precedes(q[i], x) /\ x \in Commands /\ q[i] \in Commands
      BY <1>1, <2>1, <2>2 DEF QueueOrder
    <3>2. \E k \in Keyed : k < x
      BY <2>1, <3>1, Bounds DEF Precedes
    <3>3. c > x
      BY <1>1
    <3> QED BY <1>6, <3>1, <3>2, <3>3 DEF QueueOrder, Precedes
  <2>3. \A x \in Range(q) : <<q[i], x>> \in QueueOrder => <<c, x>> \in QueueOrder
    BY <2>2
  <2>4. /\ Sorted([q EXCEPT ![i] = c], QueueOrder)
        /\ Range([q EXCEPT ![i] = c]) \subseteq Range(q) \cup {c}
    BY <1>2, <2>3, SortedReplace
  <2> QED BY <2>1, <2>4
<1>7. CASE \E i \in 1..Len(q) : Enqueue(c).queue = Append(RemoveAt(q, i), c)
  <2>1. PICK i \in 1..Len(q) : Enqueue(c).queue = Append(RemoveAt(q, i), c)
    BY <1>7
  <2>2. /\ RemoveAt(q, i) \in Seq(Commands) /\ Range(RemoveAt(q, i)) \subseteq Range(q)
        /\ Sorted(RemoveAt(q, i), QueueOrder)
    BY RemoveTyped, SortedRemove
  <2>3. \A x \in Range(RemoveAt(q, i)) : <<x, c>> \in QueueOrder
    BY <1>2, <2>2
  <2> HIDE DEF QueueOrder
  <2> DEFINE r == RemoveAt(q, i)
  <2> HIDE DEF r
  <2>4. r \in Seq(Commands) /\ Range(r) \subseteq Range(q) /\ Sorted(r, QueueOrder)
        /\ \A x \in Range(r) : <<x, c>> \in QueueOrder
    BY <2>2, <2>3 DEF r
  <2>5. Range(Append(r, c)) = Range(r) \cup {c} /\ Sorted(Append(r, c), QueueOrder)
    BY <2>4, SortedAppend
  <2> QED BY <2>1, <2>4, <2>5 DEF r
<1> QED BY <1>3, <1>4, <1>5, <1>6, <1>7

LEMMA SendCommandCommands == CommandsInv /\ SendCommand => CommandsOrdered'
<1> SUFFICES ASSUME CommandsInv, SendCommand PROVE CommandsOrdered'
  OBVIOUS
<1> DEFINE c == made + 1
<1>1. TransportInv
  BY DEF CommandsInv, GreetedInv, AdmissionInv
<1>2. /\ made \in Nat /\ c \in Commands /\ made' = c /\ Commands \subseteq Nat
      /\ queue \in Seq(Commands) /\ Len(queue) <= MaxQueued
      /\ toHost \in [Sockets -> Seq(ToHost)]
      /\ Done \subseteq Commands /\ Chained \subseteq Commands /\ Queued \subseteq Commands
      /\ \A s \in Sockets : Wired(s) \subseteq Commands
  BY <1>1, CommandsTyped, SocketsTyped, Bounds DEF SendCommand, Commands
<1>3. /\ UNCHANGED <<done, chain, far>> /\ Done' = Done /\ Chained' = Chained
  BY DEF SendCommand, hostVars, Done, Chained
<1>4. Ordered /\ \A s \in Sockets : far[s] = "member" => WireOrdered(s)
  BY DEF CommandsInv, CommandsOrdered
<1>5. \A a \in Done \cup Chained \cup Queued : a < c /\ Precedes(a, c) /\ a <= c
  BY <1>2, <1>4 DEF Ordered, Precedes
<1>6. \A s \in Sockets : far[s] = "member" => \A a \in Wired(s) : a < c /\ Precedes(a, c) /\ a <= c
  <2>1. ASSUME NEW s \in Sockets, far[s] = "member", NEW a \in Wired(s)
        PROVE  a < c /\ Precedes(a, c) /\ a <= c
    <3>1. a <= made /\ a \in Nat
      BY <1>2, <1>4, <2>1 DEF WireOrdered
    <3> QED BY <1>2, <3>1 DEF Precedes
  <2> QED BY <2>1
<1>7. CASE /\ browser.connected /\ near[browser.sock] = "open" /\ UNCHANGED <<browser, queue>>
           /\ toHost' = Carry(toHost, browser.sock, [type |-> "cmd", n |-> c])
  <2> DEFINE m == [type |-> "cmd", n |-> c]
             b == browser.sock
  <2>1. queue = <<>> /\ b \in Sockets
    BY <1>1, <1>7, BrowserTyped, Bounds DEF TransportInv, Transport, Ready, Browsers, Sockets, None
  <2>2. Queued = {} /\ Queued' = {}
    BY <1>7, <2>1, EmptySorted DEF Queued
  <2>3. m \in ToHost /\ m.type = "cmd" /\ m.n = c
    BY <1>2, ClosesAreMessages
  <2>4. \A u \in Sockets : toHost'[u] = toHost[u] \/ (u = b /\ toHost'[u] = Append(toHost[u], m))
    BY <1>2, <1>7, <2>1 DEF Carry
  <2> HIDE DEF c, m, b
  <2>5. Ordered'
    BY <1>2, <1>3, <1>4, <1>5, <1>7, <2>2 DEF Ordered, Before
  <2>6. ASSUME NEW s \in Sockets, far[s] = "member" PROVE WireOrdered(s)'
    <3>1. toHost[s] \in Seq(ToHost) /\ WireOrdered(s)
      BY <1>2, <1>4, <2>6
    <3>2. CASE toHost'[s] = toHost[s]
      <4>1. Wired(s)' = Wired(s)
        BY <3>2 DEF Wired
      <4> QED BY <1>2, <1>3, <1>6, <2>2, <2>6, <3>1, <3>2, <4>1 DEF WireOrdered, Before
    <3>3. CASE toHost'[s] = Append(toHost[s], m)
      <4>1. \A x \in Range(toHost[s]) : <<x, m>> \in WireOrder
        <5>1. \A x \in Range(toHost[s]) : x \in ToHost /\ (x.type = "cmd" => x.n \in Wired(s))
          BY <3>1, RangeIn DEF Wired
        <5> QED BY <1>6, <2>3, <2>6, <5>1 DEF WireOrder
      <4>2. Range(toHost'[s]) = Range(toHost[s]) \cup {m} /\ Sorted(toHost'[s], WireOrder)
        BY <2>3, <3>1, <3>3, <4>1, SortedAppend DEF WireOrdered
      <4>3. Wired(s)' = Wired(s) \cup {c}
        BY <2>3, <4>2 DEF Wired
      <4> QED BY <1>2, <1>3, <1>5, <1>6, <2>2, <2>6, <3>1, <4>2, <4>3 DEF WireOrdered, Before
    <3> QED BY <2>4, <3>2, <3>3
  <2> QED BY <1>3, <2>5, <2>6 DEF CommandsOrdered
<1>8. CASE queue' = Enqueue(c).queue /\ UNCHANGED toHost
  <2>1. Queued' \subseteq Queued \cup {c} /\ Sorted(queue', QueueOrder)
    <3>1. Sorted(queue, QueueOrder) /\ \A x \in Range(queue) : x < c
      BY <1>4, <1>5 DEF Ordered, Queued
    <3>2. /\ Sorted(Enqueue(c).queue, QueueOrder)
          /\ Range(Enqueue(c).queue) \subseteq Range(queue) \cup {c}
      BY <1>2, <3>1, EnqueueSorted
    <3> QED BY <1>8, <3>2 DEF Queued
  <2> HIDE DEF c
  <2>2. Ordered'
    BY <1>2, <1>3, <1>4, <1>5, <2>1 DEF Ordered, Before
  <2>3. ASSUME NEW s \in Sockets, far[s] = "member" PROVE WireOrdered(s)'
    <3>1. Wired(s)' = Wired(s) /\ WireOrdered(s)
      BY <1>4, <1>8, <2>3 DEF Wired
    <3> QED BY <1>2, <1>3, <1>6, <1>8, <2>1, <2>3, <3>1 DEF WireOrdered, Before
  <2> QED BY <1>3, <2>2, <2>3 DEF CommandsOrdered
<1> QED BY <1>7, <1>8 DEF SendCommand

(* The backlog, in the order of the queue.                                 *)
LEMMA BacklogSorted ==
    ASSUME NEW q \in Seq(Commands), Sorted(q, QueueOrder)
    PROVE  LET backlog == [i \in DOMAIN q |-> [type |-> "cmd", n |-> q[i]]]
           IN  /\ Sorted(backlog, WireOrder)
               /\ \A x \in Range(backlog) : x.type = "cmd" /\ x.n \in Range(q)
<1> DEFINE backlog == [i \in DOMAIN q |-> [type |-> "cmd", n |-> q[i]]]
<1>1. backlog \in Seq(ToHost) /\ \A i \in DOMAIN q : backlog[i] \in ToHost
  BY BacklogTyped, ElementOfSeq, LenProperties
<1>2. \A i \in DOMAIN q : backlog[i].type = "cmd" /\ backlog[i].n = q[i] /\ q[i] \in Range(q)
  BY DEF Range
<1>3. DOMAIN backlog = DOMAIN q
  OBVIOUS
<1> HIDE DEF backlog
<1>4. Sorted(backlog, WireOrder)
  <2>1. ASSUME NEW i \in DOMAIN q, NEW j \in DOMAIN q, i < j
        PROVE  <<backlog[i], backlog[j]>> \in WireOrder
    <3>1. Precedes(q[i], q[j])
      BY <2>1 DEF Sorted, QueueOrder
    <3> QED BY <1>1, <1>2, <3>1 DEF WireOrder
  <2> QED BY <1>3, <2>1 DEF Sorted
<1>5. \A x \in Range(backlog) : x.type = "cmd" /\ x.n \in Range(q)
  BY <1>2, <1>3 DEF Range
<1> QED BY <1>4, <1>5 DEF backlog

LEMMA BrowserReceiveCommands ==
    ASSUME CommandsInv, NEW s \in Sockets, BrowserReceive(s)
    PROVE  CommandsOrdered'
<1>1. TransportInv
  BY DEF CommandsInv, GreetedInv, AdmissionInv
<1>2. UNCHANGED <<done, chain, made, far>>
  BY DEF BrowserReceive, hostVars, TakeAuthenticated, TakeFrame, Discard
<1>3. CASE UNCHANGED <<queue, toHost>>
  BY <1>2, <1>3, CommandsKeep DEF Dwindles
<1>4. CASE queue' = <<>> /\ \A u \in Sockets : toHost'[u] = toHost[u]
  BY <1>2, <1>4, CommandsKeep DEF Dwindles
<1>5. CASE /\ queue' = <<>>
           /\ toHost' = [toHost EXCEPT ![s] = @ \o
                  [i \in DOMAIN queue |-> [type |-> "cmd", n |-> queue[i]]]]
  <2> DEFINE backlog == [i \in DOMAIN queue |-> [type |-> "cmd", n |-> queue[i]]]
  <2>1. /\ queue \in Seq(Commands) /\ toHost \in [Sockets -> Seq(ToHost)]
        /\ Ordered /\ \A u \in Sockets : far[u] = "member" => WireOrdered(u)
    BY <1>1, CommandsTyped DEF CommandsInv, CommandsOrdered
  <2>2. backlog \in Seq(ToHost)
    BY <2>1, BacklogTyped
  <2>3. /\ Sorted(backlog, WireOrder)
        /\ \A x \in Range(backlog) : x.type = "cmd" /\ x.n \in Queued
    BY <2>1, BacklogSorted DEF Ordered, Queued
  <2>4. \A u \in Sockets : toHost'[u] = toHost[u] \/ toHost'[u] = toHost[u] \o backlog
    BY <1>5, <2>1
  <2> HIDE DEF backlog
  <2>5. Queued' = {} /\ Sorted(queue', QueueOrder) /\ Done' = Done /\ Chained' = Chained
    BY <1>2, <1>5, EmptySorted DEF Queued, Done, Chained
  <2>6. Ordered'
    BY <1>2, <2>1, <2>5 DEF Ordered, Before
  <2>7. ASSUME NEW u \in Sockets, far[u] = "member" PROVE WireOrdered(u)'
    <3>1. toHost[u] \in Seq(ToHost) /\ WireOrdered(u)
      BY <2>1, <2>7
    <3>2. CASE toHost'[u] = toHost[u]
      <4>1. Wired(u)' = Wired(u)
        BY <3>2 DEF Wired
      <4> QED BY <1>2, <2>5, <3>1, <3>2, <4>1 DEF WireOrdered, Before
    <3>3. CASE toHost'[u] = toHost[u] \o backlog
      <4>1. \A x \in Range(toHost[u]), y \in Range(backlog) : <<x, y>> \in WireOrder
        <5>1. \A x \in Range(toHost[u]) : x \in ToHost /\ (x.type = "cmd" => x.n \in Wired(u))
          BY <3>1, RangeIn DEF Wired
        <5>2. Range(backlog) \subseteq ToHost
          BY <2>2, RangeIn
        <5> QED BY <2>3, <3>1, <5>1, <5>2 DEF WireOrder, WireOrdered, Before
      <4>2. /\ Range(toHost'[u]) = Range(toHost[u]) \cup Range(backlog)
            /\ Sorted(toHost'[u], WireOrder)
        BY <2>2, <2>3, <3>1, <3>3, <4>1, SortedConcat DEF WireOrdered
      <4>3. Wired(u)' \subseteq Wired(u) \cup Queued
        BY <2>3, <4>2 DEF Wired
      <4> QED BY <1>2, <2>1, <2>5, <3>1, <4>2, <4>3 DEF WireOrdered, Before, Ordered
    <3> QED BY <2>4, <3>2, <3>3
  <2> QED BY <1>2, <2>6, <2>7 DEF CommandsOrdered
<1> QED BY <1>3, <1>4, <1>5 DEF BrowserReceive, Discard, TakeFrame, TakeAuthenticated

LEMMA CommandsKept == CommandsInv /\ [Next]_vars => CommandsInv'
<1> SUFFICES ASSUME CommandsInv, [Next]_vars PROVE CommandsOrdered'
  BY GreetedKept DEF CommandsInv
<1>1. 1 \in Sockets
  BY Bounds DEF Sockets
<1>2. CASE UNCHANGED vars
  <2>1. UNCHANGED <<done, chain, made, queue, toHost, far>>
    BY <1>2 DEF vars, browserVars, hostVars
  <2> QED BY <2>1, CommandsKeep DEF Dwindles
<1>3. CASE BrowserStep
  BY <1>1, <1>3, QuietCommands, SendCommandCommands, BrowserReceiveCommands DEF BrowserStep
<1>4. CASE ConversationStep
  BY <1>1, <1>4, QuietCommands, HandleCommands DEF ConversationStep
<1>5. CASE \E s \in Sockets : HostStep(s) \/ Cut(s)
  BY <1>5, QuietCommands, HostReceivesCommands DEF HostStep
<1> QED BY <1>2, <1>3, <1>4, <1>5 DEF Next

-----------------------------------------------------------------------------
(* Frames.  One conversation at most is ever opened, since command 1 is    *)
(* done once; its frames are, from the oldest to the newest, seen, on the  *)
(* way, and held.                                                          *)

Older(A, B) == \A a \in A, b \in B : a.n < b.n
FrameOrder ==
    {p \in ToBrowser \X ToBrowser :
        p[1].type = "frame" /\ p[2].type = "frame" => p[1].n < p[2].n}
Taken == [talk : Talks, n : 1..MaxFrames]
TakenOrder == {p \in Taken \X Taken : p[1].n < p[2].n}

Seen == Range(seen)
Held == Range(held)
Sent(s) == {m \in Range(toBrowser[s]) : m.type = "frame"}
Emitted == Seen \cup Held \cup UNION {Sent(s) : s \in Sockets}

OpenedBy(t) == \E c \in Range(done) : c.n = 1 /\ c.talk = t

\* conversations are named by sockets that were admitted; a frame is of the
\* one that was opened
Talking ==
    /\ talk.id # 0 => far[talk.id] \notin Unadmitted
    /\ \A c \in Range(chain) \cup Range(done) : c.talk # 0 => far[c.talk] \notin Unadmitted
    /\ talk.opened => OpenedBy(talk.id)
    /\ OpenedBy(talk.id) => talk.opened
    /\ \A f \in Emitted : OpenedBy(f.talk) /\ (f.talk = talk.id => f.n <= talk.frames)

Flowing ==
    /\ Sorted(seen, TakenOrder) /\ Sorted(held, FrameOrder) /\ Older(Seen, Held)
    /\ \A s \in Sockets :
        /\ Sorted(toBrowser[s], FrameOrder) /\ Older(Sent(s), Held)
        /\ browser.sock = s => Older(Seen, Sent(s))
        /\ far[s] = "none" => Sent(s) = {}
    /\ talk.socket # None /\ far[talk.socket] = "member" => held = <<>>

FramesInv == CommandsInv /\ Talking /\ Flowing

LEMMA FramesInit == Init => FramesInv
<1> SUFFICES ASSUME Init PROVE Talking /\ Flowing
  BY CommandsInit DEF FramesInv
<1>1. /\ done = <<>> /\ chain = <<>> /\ seen = <<>> /\ held = <<>>
      /\ \A s \in Sockets : toBrowser[s] = <<>>
      /\ talk.id = 0 /\ ~talk.opened
  BY DEF Init
<1>2. /\ Range(done) = {} /\ Range(chain) = {} /\ Seen = {} /\ Held = {}
      /\ \A s \in Sockets : Sent(s) = {}
  BY <1>1, EmptySorted DEF Seen, Held, Sent
<1>3. Emitted = {}
  BY <1>2 DEF Emitted
<1>4. /\ Sorted(seen, TakenOrder) /\ Sorted(held, FrameOrder)
      /\ \A s \in Sockets : Sorted(toBrowser[s], FrameOrder)
  BY <1>1, EmptySorted
<1> QED BY <1>1, <1>2, <1>3, <1>4 DEF Talking, Flowing, OpenedBy, Older

LEMMA FramesTyped ==
    ASSUME FramesInv
    PROVE  /\ CommandsInv /\ GreetedInv /\ AdmissionInv /\ TransportInv
           /\ talk \in Conversations /\ session \in Sessions
           /\ far \in [Sockets -> FarStates]
           /\ done \in Seq(Handled) /\ chain \in Seq(Handled)
           /\ held \in Seq(Frames) /\ held \in Seq(ToBrowser) /\ seen \in Seq(Taken)
           /\ toBrowser \in [Sockets -> Seq(ToBrowser)]
           /\ Seen \subseteq Taken /\ Held \subseteq Frames
           /\ \A s \in Sockets : Sent(s) \subseteq Frames
           /\ \A f \in Emitted : f.n \in Nat /\ f.talk \in Talks
<1>1. CommandsInv /\ GreetedInv /\ AdmissionInv /\ TransportInv
  BY DEF FramesInv, CommandsInv, GreetedInv, AdmissionInv
<1>2. /\ talk \in Conversations /\ session \in Sessions
      /\ far \in [Sockets -> FarStates]
      /\ done \in Seq(Handled) /\ chain \in Seq(Handled)
      /\ held \in Seq(Frames) /\ held \in Seq(ToBrowser) /\ seen \in Seq(Taken)
      /\ toBrowser \in [Sockets -> Seq(ToBrowser)]
  BY <1>1, HostTyped, HeldTyped DEF TransportInv, TypeInv, Taken
<1>3. Seen \subseteq Taken /\ Held \subseteq Frames
  BY <1>2, RangeIn DEF Seen, Held
<1>4. ASSUME NEW s \in Sockets PROVE Sent(s) \subseteq Frames
  <2>1. Range(toBrowser[s]) \subseteq ToBrowser
    BY <1>2, RangeIn
  <2> QED BY <2>1 DEF Sent, ToBrowser
<1>5. \A f \in Emitted : f.n \in Nat /\ f.talk \in Talks
  <2>1. \A f \in Taken : f.n \in Nat /\ f.talk \in Talks
    BY DEF Taken
  <2>2. \A f \in Frames : f.n \in Nat /\ f.talk \in Talks
    BY DEF Frames
  <2> QED BY <1>3, <1>4, <2>1, <2>2 DEF Emitted
<1> QED BY <1>1, <1>2, <1>3, <1>4, <1>5

(* Command 1 is done once: it is no report.                                *)
LEMMA OneIsOpened ==
    ASSUME FramesInv, NEW t, NEW u, OpenedBy(t), OpenedBy(u)
    PROVE  t = u
<1>1. PICK i \in DOMAIN done : done[i].n = 1 /\ done[i].talk = t
  BY DEF OpenedBy, Range
<1>2. PICK j \in DOMAIN done : done[j].n = 1 /\ done[j].talk = u
  BY DEF OpenedBy, Range
<1>3. done \in Seq(Handled) /\ DOMAIN done \subseteq Nat
  BY FramesTyped, LenProperties
<1>4. \A k, l \in DOMAIN done : k < l => Precedes(done[k].n, done[l].n)
  BY DEF FramesInv, CommandsInv, CommandsOrdered, Ordered, Sorted, HandledOrder
<1>5. ~Precedes(1, 1)
  BY DEF Precedes
<1>6. i = j
  BY <1>1, <1>2, <1>3, <1>4, <1>5
<1> QED BY <1>1, <1>2, <1>6

LEMMA DwindlingSent ==
    ASSUME TransportInv, NEW s \in Sockets, Dwindles(toBrowser[s], toBrowser'[s], Closes)
    PROVE  /\ Sent(s)' \subseteq Sent(s)
           /\ Sorted(toBrowser[s], FrameOrder) => Sorted(toBrowser'[s], FrameOrder)
<1>1. toBrowser[s] \in Seq(ToBrowser)
  BY HostTyped
<1>2. Closes \subseteq ToBrowser /\ \A m \in Closes : m.type # "frame"
  BY ClosesAreMessages DEF Closes
<1>3. \A m \in Closes, x \in ToBrowser : <<x, m>> \in FrameOrder
  BY <1>2 DEF FrameOrder
<1>4. /\ \A x \in Range(toBrowser'[s]) : x \in Range(toBrowser[s]) \/ x \in Closes
      /\ Sorted(toBrowser[s], FrameOrder) => Sorted(toBrowser'[s], FrameOrder)
  BY <1>1, <1>2, <1>3, Dwindled
<1> QED BY <1>2, <1>4 DEF Sent

(* Steps that emit, take and flush nothing.                                *)
LEMMA FlowingKeep ==
    ASSUME FramesInv, seen' = seen, held' = held \/ held' = <<>>,
           \A s \in Sockets : Dwindles(toBrowser[s], toBrowser'[s], Closes),
           \A s \in Sockets : browser'.sock = s => browser.sock = s \/ far[s] = "none",
           \A s \in Sockets : far'[s] = "none" => far[s] = "none",
           talk'.socket # None /\ far'[talk'.socket] = "member"
              => held' = <<>> \/ (talk.socket # None /\ far[talk.socket] = "member")
    PROVE  /\ Flowing'
           /\ Emitted' \subseteq Emitted
<1>1. TransportInv
  BY FramesTyped
<1>2. Seen' = Seen /\ Held' \subseteq Held
  BY EmptySorted DEF Seen, Held
<1>3. Sorted(seen', TakenOrder) /\ Sorted(held', FrameOrder)
  BY EmptySorted DEF FramesInv, Flowing
<1>4. ASSUME NEW s \in Sockets
      PROVE  Sent(s)' \subseteq Sent(s) /\ Sorted(toBrowser'[s], FrameOrder)
  BY <1>1, DwindlingSent DEF FramesInv, Flowing
<1>5. Emitted' \subseteq Emitted
  BY <1>2, <1>4 DEF Emitted
<1>6. talk'.socket # None /\ far'[talk'.socket] = "member" => held' = <<>>
  BY DEF FramesInv, Flowing
<1>7. Older(Seen, Held)' /\ \A s \in Sockets : Older(Sent(s), Held)'
  BY <1>2, <1>4 DEF FramesInv, Flowing, Older
<1>8. ASSUME NEW s \in Sockets, browser'.sock = s PROVE Older(Seen, Sent(s))'
  BY <1>2, <1>4, <1>8 DEF FramesInv, Flowing, Older
<1>9. ASSUME NEW s \in Sockets, far'[s] = "none" PROVE Sent(s)' = {}
  BY <1>4, <1>9 DEF FramesInv, Flowing
<1> QED BY <1>3, <1>4, <1>5, <1>6, <1>7, <1>8, <1>9 DEF Flowing

(* Steps of the conversation that do not open it.                          *)
LEMMA TalkingKeep ==
    ASSUME FramesInv, done' = done, talk'.id = talk.id, talk'.opened = talk.opened,
           talk'.frames >= talk.frames, talk'.frames \in Nat,
           \A c \in Range(chain') : c \in Range(chain) \/ c.talk = talk.id,
           \A s \in Sockets : far'[s] \in Unadmitted => far[s] \in Unadmitted,
           \A f \in Emitted' :
              \/ \E e \in Emitted : f.talk = e.talk /\ f.n = e.n
              \/ f.talk = talk.id /\ talk.opened /\ f.n <= talk'.frames
    PROVE  Talking'
<1>1. /\ talk \in Conversations /\ Range(done) \subseteq Handled /\ Range(chain) \subseteq Handled
      /\ \A f \in Emitted : f.n \in Nat /\ f.talk \in Talks
  BY FramesTyped, RangeIn
<1>2. \A t \in Talks : t # 0 => t \in Sockets
  BY Bounds DEF Talks, Sockets
<1>3. talk.id \in Talks /\ talk.frames \in Nat /\ \A c \in Handled : c.talk \in Talks
  BY <1>1 DEF Conversations, Handled
<1>4. \A t : OpenedBy(t)' <=> OpenedBy(t)
  BY DEF OpenedBy
<1>5. talk'.id # 0 => far'[talk'.id] \notin Unadmitted
  BY <1>2, <1>3 DEF FramesInv, Talking
<1>6. ASSUME NEW c \in Range(chain') \cup Range(done'), c.talk # 0
      PROVE  far'[c.talk] \notin Unadmitted
  <2>1. c.talk \in Talks /\ far[c.talk] \notin Unadmitted
    BY <1>1, <1>3, <1>6 DEF FramesInv, Talking
  <2> QED BY <1>2, <1>6, <2>1
<1>7. ASSUME NEW f \in Emitted'
      PROVE  OpenedBy(f.talk)' /\ (f.talk = talk'.id => f.n <= talk'.frames)
  <2>1. CASE \E e \in Emitted : f.talk = e.talk /\ f.n = e.n
    <3>1. PICK e \in Emitted : f.talk = e.talk /\ f.n = e.n
      BY <2>1
    <3>2. OpenedBy(e.talk) /\ (e.talk = talk.id => e.n <= talk.frames) /\ e.n \in Nat
      BY <1>1 DEF FramesInv, Talking
    <3> QED BY <1>3, <1>4, <3>1, <3>2
  <2>2. CASE f.talk = talk.id /\ talk.opened /\ f.n <= talk'.frames
    BY <1>4, <2>2 DEF FramesInv, Talking
  <2> QED BY <1>7, <2>1, <2>2
<1>8. (talk'.opened => OpenedBy(talk.id)') /\ (OpenedBy(talk.id)' => talk'.opened)
  <2>1. OpenedBy(talk.id)' <=> OpenedBy(talk.id)
    BY DEF OpenedBy
  <2>2. (talk.opened => OpenedBy(talk.id)) /\ (OpenedBy(talk.id) => talk.opened)
    BY DEF FramesInv, Talking
  <2> QED BY <2>1, <2>2
<1> QED BY <1>5, <1>6, <1>7, <1>8 DEF Talking

(* The transport moves to no socket that output was sent to.               *)
LEMMA SocketIsFresh ==
    ASSUME AdmissionInv, NEW u \in Sockets,
           \/ RetryDue \/ WatchdogFires \/ SendCommand \/ RefuseHost \/ Disconnect
           \/ SocketOpens(u) \/ SocketGone(u) \/ BrowserReceive(u) \/ Cut(u)
    PROVE  \A s \in Sockets : browser'.sock = s => browser.sock = s \/ far[s] = "none"
<1>1. TransportInv /\ browser \in Browsers /\ Ready(browser) /\ None \notin Sockets
  BY BrowserTyped, Bounds DEF AdmissionInv
<1>2. CASE browser'.sock = browser.sock \/ browser'.sock = None
  BY <1>1, <1>2
<1>3. CASE RetryDue
  <2>1. CASE OpenSocket(browser)
    <3>1. browser.opened \in Nat /\ browser'.sock = browser.opened + 1
      BY <1>1, <2>1, Bounds DEF OpenSocket, Browsers
    <3>2. ASSUME NEW s \in Sockets, browser'.sock = s PROVE far[s] = "none"
      <4>1. near[s] = "none"
        BY <1>1, <3>1, <3>2, Bounds DEF TransportInv, Transport
      <4> QED BY <4>1 DEF AdmissionInv, Admission
    <3> QED BY <3>2
  <2>2. CASE browser' \in ScheduleReconnect([browser EXCEPT !.timer = FALSE])
    <3>1. browser'.sock = browser.sock
      BY <1>1, <2>2 DEF ScheduleReconnect, Browsers
    <3> QED BY <3>1
  <2> QED BY <1>3, <2>1, <2>2 DEF RetryDue
<1>4. CASE WatchdogFires
  <2>1. browser.watchdog \in Sockets
    BY <1>1, <1>4, Bounds DEF WatchdogFires, None, Sockets, Browsers
  <2>2. browser'.sock = browser.sock \/ browser'.sock = None
    <3>1. CASE browser' = [browser EXCEPT !.watchdog = None]
      BY <1>1, <3>1 DEF Browsers
    <3>2. CASE browser' \in SocketFailure([browser EXCEPT !.watchdog = None], browser.watchdog)
      BY <1>1, <2>1, <3>2, FailureKeeps
    <3> QED BY <1>4, <3>1, <3>2 DEF WatchdogFires
  <2> QED BY <1>2, <2>2
<1>5. CASE SendCommand
  <2> DEFINE q == Enqueue(made + 1)
             told == [browser EXCEPT !.told = @ \/ q.told]
  <2>1. told \in Browsers /\ told.sock = browser.sock /\ Ready(told)
    <3>1. made + 1 \in Commands /\ queue \in Seq(Commands) /\ Len(queue) <= MaxQueued
      BY <1>1, <1>5, SocketsTyped, Bounds DEF SendCommand, Commands
    <3>2. q.told \in BOOLEAN
      BY <3>1, EnqueueKeeps
    <3> HIDE DEF q
    <3> QED BY <1>1, <3>2 DEF Browsers, Ready
  <2> HIDE DEF told
  <2>2. CASE browser.connected /\ browser' \in SocketFailure(told, browser.sock)
    <3>1. browser.sock \in Sockets
      BY <1>1, <2>2, Bounds DEF Ready, Browsers, Sockets, None
    <3>2. browser'.sock = None
      BY <2>1, <2>2, <3>1, FailureReady
    <3> QED BY <1>2, <3>2
  <2>3. CASE browser' = told \/ browser' = browser
    BY <1>2, <2>1, <2>3
  <2> QED BY <1>5, <2>2, <2>3 DEF SendCommand, told
<1>6. CASE RefuseHost \/ Disconnect
  BY <1>1, <1>2, <1>6 DEF RefuseHost, Disconnect, Browsers
<1>7. CASE SocketOpens(u) \/ Cut(u)
  BY <1>2, <1>7 DEF SocketOpens, Cut, browserVars
<1>8. CASE SocketGone(u)
  <2>1. browser'.sock = browser.sock \/ browser'.sock = None
    BY <1>1, <1>8, FailureKeeps DEF SocketGone, Fail
  <2> QED BY <1>2, <2>1
<1>9. CASE BrowserReceive(u)
  <2>1. CASE browser' = browser
    BY <1>2, <2>1
  <2>2. CASE TakeAuthenticated(u) /\ browser.sock = u /\ ~browser.left
    BY <1>1, <1>2, <2>2, GreetingReady
  <2> QED BY <1>9, <2>1, <2>2 DEF BrowserReceive, Discard, TakeFrame
<1> QED BY <1>3, <1>4, <1>5, <1>6, <1>7, <1>8, <1>9

LEMMA BrowserFrames ==
    ASSUME FramesInv, NEW u \in Sockets,
           \/ RetryDue \/ WatchdogFires \/ SendCommand \/ RefuseHost \/ Disconnect
           \/ SocketOpens(u) \/ SocketGone(u) \/ BrowserReceive(u) \/ Cut(u),
           seen' = seen
    PROVE  Talking' /\ Flowing'
<1>1. TransportInv /\ AdmissionInv /\ far \in [Sockets -> FarStates] /\ talk \in Conversations
  BY FramesTyped
<1>2. \A s \in Sockets : Dwindles(toBrowser[s], toBrowser'[s], Closes)
  BY <1>1, ToBrowserDwindles
<1>3. UNCHANGED <<talk, held, done, chain>>
  BY DEF RetryDue, OpenSocket, WatchdogFires, SendCommand, RefuseHost, Disconnect, SocketOpens,
         SocketGone, BrowserReceive, Cut, hostVars
<1>4. \A s \in Sockets : browser'.sock = s => browser.sock = s \/ far[s] = "none"
  BY <1>1, SocketIsFresh
<1>5. \A s \in Sockets : /\ far'[s] \in Unadmitted => far[s] \in Unadmitted
                         /\ far'[s] = "none" => far[s] = "none"
                         /\ far'[s] = "member" => far[s] = "member"
  <2>1. CASE far' = far
    BY <2>1
  <2>2. CASE SocketOpens(u)
    <3>1. far[u] = "none"
      BY <1>1, <2>2 DEF SocketOpens, AdmissionInv, Admission
    <3> QED BY <1>1, <2>2, <3>1 DEF SocketOpens, Unadmitted
  <2> QED BY <2>1, <2>2
          DEF RetryDue, OpenSocket, WatchdogFires, SendCommand, RefuseHost, Disconnect,
              SocketGone, BrowserReceive, Cut, hostVars
<1>6. talk'.socket # None /\ far'[talk'.socket] = "member"
         => talk.socket # None /\ far[talk.socket] = "member"
  <2>1. talk.socket # None => talk.socket \in Sockets
    BY <1>1, Bounds DEF Conversations, Sockets, None
  <2> QED BY <1>3, <1>5, <2>1
<1>7. Flowing' /\ Emitted' \subseteq Emitted
  BY <1>2, <1>3, <1>4, <1>5, <1>6, FlowingKeep
<1>8. talk.frames \in Nat
  BY <1>1 DEF Conversations
<1>9. Talking'
  BY <1>3, <1>5, <1>7, <1>8, TalkingKeep
<1> QED BY <1>7, <1>9

LEMMA HostFlows ==
    ASSUME FramesInv, NEW s \in Sockets,
           \/ HostReceives(s) \/ HostClosed(s) \/ AuthTimeout(s) \/ Heartbeat(s)
           \/ GraceEnds \/ StopSettles \/ ApiStop \/ Expire \/ Handle \/ PreparationEnds
    PROVE  /\ Flowing' /\ Emitted' \subseteq Emitted
           /\ \A u \in Sockets : far'[u] \in Unadmitted => far[u] \in Unadmitted
<1>1. TransportInv /\ AdmissionInv /\ far \in [Sockets -> FarStates] /\ talk \in Conversations
  BY FramesTyped
<1>2. \A u \in Sockets : Dwindles(toBrowser[u], toBrowser'[u], Closes)
  BY <1>1, ToBrowserDwindles
<1>3. \A u \in Sockets : /\ far'[u] \in Unadmitted => far[u] \in Unadmitted
                         /\ far'[u] = "none" => far[u] = "none"
                         /\ far'[u] = "member" => far[u] = "member"
  BY <1>1, FarLowers DEF ConversationStep
<1>4. UNCHANGED <<browser, seen>> /\ (held' = held \/ held' = <<>>)
  <2>1. CASE HostReceives(s) \/ Handle
    BY <1>1, <2>1, HostReceivesReacts, HandleReacts DEF Reacts, browserVars
  <2>2. CASE ~(HostReceives(s) \/ Handle)
    BY <2>2 DEF HostClosed, AuthTimeout, Heartbeat, GraceEnds, StopSettles, ApiStop,
         Expire, PreparationEnds, browserVars
  <2> QED BY <2>1, <2>2
<1>5. talk'.socket = talk.socket \/ talk'.socket = None
  <2>1. CASE HostReceives(s) \/ Handle
    BY <1>1, <2>1, HostReceivesReacts, HandleReacts DEF Reacts
  <2>2. CASE ~(HostReceives(s) \/ Handle)
    <3>1. \/ talk' \in {talk, Detached(talk, s), Stopped(talk)}
          \/ \E p : talk' = [talk EXCEPT !.plan = p]
      BY <2>2 DEF HostClosed, AuthTimeout, Heartbeat, GraceEnds, StopSettles, ApiStop,
           Expire, PreparationEnds
    <3> QED BY <1>1, <3>1 DEF Detached, Stopped, Conversations
  <2> QED BY <2>1, <2>2
<1>6. talk'.socket # None /\ far'[talk'.socket] = "member"
         => talk.socket # None /\ far[talk.socket] = "member"
  <2>1. talk.socket # None => talk.socket \in Sockets
    BY <1>1, Bounds DEF Conversations, Sockets, None
  <2> QED BY <1>3, <1>5, <2>1
<1>7. Flowing' /\ Emitted' \subseteq Emitted
  BY <1>2, <1>3, <1>4, <1>6, FlowingKeep
<1> QED BY <1>3, <1>7

LEMMA HostFrames ==
    ASSUME FramesInv, NEW s \in Sockets,
           \/ HostClosed(s) \/ AuthTimeout(s) \/ Heartbeat(s)
           \/ GraceEnds \/ StopSettles \/ ApiStop \/ Expire \/ PreparationEnds
    PROVE  Talking' /\ Flowing'
<1>1. TransportInv /\ talk \in Conversations
  BY FramesTyped
<1>2. /\ Flowing' /\ Emitted' \subseteq Emitted
      /\ \A u \in Sockets : far'[u] \in Unadmitted => far[u] \in Unadmitted
  BY HostFlows
<1>3. /\ talk'.id = talk.id /\ talk'.opened = talk.opened /\ talk'.frames = talk.frames
      /\ talk.frames \in Nat
  <2>1. \/ talk' \in {talk, Detached(talk, s), Stopped(talk)}
        \/ \E p : talk' = [talk EXCEPT !.plan = p]
    BY DEF HostClosed, AuthTimeout, Heartbeat, GraceEnds, StopSettles, ApiStop, Expire,
           PreparationEnds
  <2> QED BY <1>1, <2>1 DEF Detached, Stopped, Conversations
<1>4. UNCHANGED <<done, chain>>
  BY DEF HostClosed, AuthTimeout, Heartbeat, GraceEnds, StopSettles, ApiStop, Expire,
         PreparationEnds
<1>5. Talking'
  <2>1. talk'.frames >= talk.frames /\ talk'.frames \in Nat
    BY <1>3
  <2>2. \A f \in Emitted' : \E e \in Emitted : f.talk = e.talk /\ f.n = e.n
    BY <1>2
  <2> QED BY <1>2, <1>3, <1>4, <2>1, <2>2, TalkingKeep
<1> QED BY <1>2, <1>5

(* Nothing is acted on before the first command, which opens the           *)
(* conversation, but a stop.                                               *)
LEMMA ReactsTalking ==
    ASSUME FramesInv, NEW n \in Commands, Reacts(n), Emitted' \subseteq Emitted,
           \A u \in Sockets : far'[u] \in Unadmitted => far[u] \in Unadmitted,
           Range(chain') \subseteq Range(chain)
    PROVE  Talking'
<1>1. talk \in Conversations /\ chain \in Seq(Handled) /\ done \in Seq(Handled)
  BY FramesTyped
<1>2. CASE UNCHANGED <<talk, done>>
  <2>1. talk.frames \in Nat
    BY <1>1 DEF Conversations
  <2> QED BY <1>2, <2>1, TalkingKeep
<1> DEFINE c == [n |-> n, talk |-> talk.id]
<1>3. CASE /\ done' = Append(done, c) /\ talk'.id = talk.id /\ talk'.frames = talk.frames
           /\ talk'.opened <=> talk.opened \/ n = 1
  <2>1. c \in Handled /\ c.n = n /\ c.talk = talk.id
    BY <1>1 DEF Handled, Conversations
  <2> HIDE DEF c
  <2>2. Range(done') = Range(done) \cup {c}
    BY <1>1, <1>3, <2>1, AppendRange
  <2>3. \A t : OpenedBy(t)' <=> OpenedBy(t) \/ (n = 1 /\ t = talk.id)
    BY <2>1, <2>2 DEF OpenedBy
  <2>4. (talk'.opened => OpenedBy(talk.id)') /\ (OpenedBy(talk.id)' => talk'.opened)
    <3>1. (talk.opened => OpenedBy(talk.id)) /\ (OpenedBy(talk.id) => talk.opened)
      BY DEF FramesInv, Talking
    <3>2. OpenedBy(talk.id)' <=> \E d \in Range(done') : d.n = 1 /\ d.talk = talk.id
      BY <1>3 DEF OpenedBy
    <3>3. OpenedBy(talk.id)' <=> OpenedBy(talk.id) \/ n = 1
      BY <2>1, <2>2, <3>2 DEF OpenedBy
    <3> QED BY <1>3, <3>1, <3>3
  <2>5. /\ talk'.id # 0 => far'[talk'.id] \notin Unadmitted
        /\ \A d \in Range(chain') \cup Range(done') : d.talk # 0 => far'[d.talk] \notin Unadmitted
    <3>1. \A t \in Talks : t # 0 => t \in Sockets
      BY Bounds DEF Talks, Sockets
    <3>2. talk.id \in Talks /\ \A d \in Handled : d.talk \in Talks
      BY <1>1 DEF Conversations, Handled
    <3>3. \A d \in Range(chain') \cup Range(done') :
             d \in Handled /\ (d \in Range(chain) \/ d \in Range(done) \/ d = c)
      BY <1>1, <2>1, <2>2, RangeIn
    <3>4. \A d \in Range(chain) \cup Range(done) : d.talk # 0 => far[d.talk] \notin Unadmitted
      BY DEF FramesInv, Talking
    <3>5. talk.id # 0 => far[talk.id] \notin Unadmitted
      BY DEF FramesInv, Talking
    <3> QED BY <1>3, <2>1, <3>1, <3>2, <3>3, <3>4, <3>5
  <2>6. \A f \in Emitted' : /\ OpenedBy(f.talk)'
                            /\ f.talk = talk'.id => f.n <= talk'.frames
    BY <1>3, <2>3 DEF FramesInv, Talking
  <2> QED BY <1>3, <2>4, <2>5, <2>6 DEF Talking
<1> QED BY <1>2, <1>3 DEF Reacts

LEMMA HostReceivesFrames ==
    ASSUME FramesInv, NEW s \in Sockets, HostReceives(s)
    PROVE  Talking' /\ Flowing'
<1>1. TransportInv /\ talk \in Conversations /\ chain \in Seq(Handled)
  BY FramesTyped
<1>2. /\ Flowing' /\ Emitted' \subseteq Emitted
      /\ \A u \in Sockets : far'[u] \in Unadmitted => far[u] \in Unadmitted
  BY HostFlows
<1> DEFINE n == Head(toHost[s]).n
           c == [n |-> n, talk |-> talk.id]
<1>3. /\ n \in Commands
      /\ \/ chain' = chain /\ Reacts(n)
         \/ chain' = Append(chain, c) /\ UNCHANGED <<talk, done>>
  BY <1>1, HostReceivesReacts
<1>4. c \in Handled /\ c.talk = talk.id
  BY <1>1, <1>3 DEF Handled, Conversations
<1> HIDE DEF n, c
<1>5. CASE chain' = chain /\ Reacts(n)
  BY <1>2, <1>3, <1>5, ReactsTalking
<1>6. CASE chain' = Append(chain, c) /\ UNCHANGED <<talk, done>>
  <2>1. Range(chain') = Range(chain) \cup {c}
    BY <1>1, <1>4, <1>6, AppendRange
  <2>2. talk.frames \in Nat
    BY <1>1 DEF Conversations
  <2>3. \A d \in Range(chain') : d \in Range(chain) \/ d.talk = talk.id
    BY <1>4, <2>1
  <2> QED BY <1>2, <1>6, <2>2, <2>3, TalkingKeep
<1> QED BY <1>2, <1>3, <1>5, <1>6

LEMMA HandleFrames == FramesInv /\ Handle => Talking' /\ Flowing'
<1> SUFFICES ASSUME FramesInv, Handle PROVE Talking' /\ Flowing'
  OBVIOUS
<1>1. TransportInv /\ chain \in Seq(Handled) /\ 1 \in Sockets
  BY FramesTyped, Bounds DEF Sockets
<1>2. /\ Flowing' /\ Emitted' \subseteq Emitted
      /\ \A u \in Sockets : far'[u] \in Unadmitted => far[u] \in Unadmitted
  BY <1>1, HostFlows
<1> DEFINE c == Head(chain)
<1>3. chain # <<>> /\ chain' = Tail(chain) /\ c.n \in Commands /\ Reacts(c.n)
  BY <1>1, HandleReacts
<1>4. Range(chain') \subseteq Range(chain)
  BY <1>1, <1>3, SortedTail
<1> HIDE DEF c
<1> QED BY <1>2, <1>3, <1>4, ReactsTalking

(* Taking the oldest frame of the transport's socket.                      *)
LEMMA TakeFrameFrames ==
    ASSUME FramesInv, NEW s \in Sockets, BrowserReceive(s), seen' # seen
    PROVE  Talking' /\ Flowing'
<1> DEFINE m == Head(toBrowser[s])
           g == [talk |-> m.talk, n |-> m.n]
<1>1. /\ TakeFrame(s, m) /\ browser.sock = s /\ m.type \notin {"close", "authenticated"}
      /\ toBrowser[s] # <<>> /\ toBrowser' = [toBrowser EXCEPT ![s] = Tail(@)]
      /\ UNCHANGED hostVars
  BY DEF BrowserReceive, Discard, TakeAuthenticated
<1>2. /\ toBrowser \in [Sockets -> Seq(ToBrowser)] /\ seen \in Seq(Taken)
      /\ Seen \subseteq Taken /\ talk \in Conversations
      /\ seen' = Append(seen, g)
      /\ UNCHANGED <<browser, far, talk, held, chain, done>>
  BY <1>1, FramesTyped DEF TakeFrame, hostVars
<1>3. /\ toBrowser'[s] = Tail(toBrowser[s])
      /\ \A u \in Sockets : u # s => toBrowser'[u] = toBrowser[u]
      /\ Range(toBrowser'[s]) \subseteq Range(toBrowser[s]) /\ m \in Range(toBrowser[s])
      /\ Sorted(toBrowser'[s], FrameOrder)
      /\ \A x \in Range(toBrowser'[s]) : <<m, x>> \in FrameOrder
  BY <1>1, <1>2, SortedTail DEF FramesInv, Flowing
<1>4. m \in Frames /\ m \in Sent(s)
  <2>1. m \in ToBrowser
    BY <1>2, <1>3, RangeIn
  <2> QED BY <1>1, <1>3, <2>1 DEF ToBrowser, Sent, Frames
<1>5. g \in Taken /\ g.n = m.n /\ g.talk = m.talk
  BY <1>4 DEF Frames, Taken
<1> HIDE DEF m, g
<1>6. /\ Sent(s)' \subseteq Sent(s) /\ \A x \in Sent(s)' : m.n < x.n
      /\ \A u \in Sockets : u # s => Sent(u)' = Sent(u)
  BY <1>3, <1>4 DEF Sent, FrameOrder, Frames
<1>7. \A x \in Seen : x.n < m.n
  BY <1>1, <1>4 DEF FramesInv, Flowing, Older
<1>8. Seen' = Seen \cup {g} /\ Sorted(seen', TakenOrder)
  <2>1. \A x \in Range(seen) : <<x, g>> \in TakenOrder
    BY <1>2, <1>5, <1>7 DEF Seen, TakenOrder
  <2> QED BY <1>2, <1>5, <2>1, SortedAppend DEF Seen, FramesInv, Flowing
<1>9. Held' = Held /\ \A u \in Sockets : Sent(u)' \subseteq Sent(u)
  BY <1>2, <1>6 DEF Held
<1>10. Older(Seen, Held)' /\ \A u \in Sockets : Older(Sent(u), Held)'
  BY <1>4, <1>5, <1>8, <1>9 DEF FramesInv, Flowing, Older
<1>11. ASSUME NEW u \in Sockets, browser'.sock = u PROVE Older(Seen, Sent(u))'
  <2>1. u = s
    BY <1>1, <1>2, <1>11
  <2> QED BY <1>1, <1>5, <1>6, <1>8, <2>1 DEF FramesInv, Flowing, Older
<1>12. Flowing'
  BY <1>2, <1>3, <1>8, <1>9, <1>10, <1>11 DEF FramesInv, Flowing
<1>13. \A f \in Emitted' : \E e \in Emitted : f.talk = e.talk /\ f.n = e.n
  BY <1>4, <1>5, <1>8, <1>9 DEF Emitted
<1>14. talk.frames \in Nat
  BY <1>2 DEF Conversations
<1>15. Talking'
  BY <1>2, <1>13, <1>14, TalkingKeep
<1> QED BY <1>12, <1>15

(* Held output is written before anything newer.                           *)
LEMMA FlushFlows ==
    ASSUME FramesInv, NEW s \in Sockets, far[s] # "none", NEW f \in Seq(ToBrowser),
           Sorted(f, FrameOrder), \A x \in Range(f) : x.type = "frame" => x \in Held,
           toBrowser' = WriteFrames(toBrowser, s, f), held' = <<>>,
           UNCHANGED <<browser, seen>>, \A u \in Sockets : far'[u] = "none" => far[u] = "none"
    PROVE  /\ Flowing' /\ Emitted' \subseteq Emitted
<1>1. toBrowser \in [Sockets -> Seq(ToBrowser)]
  BY FramesTyped
<1>2. Held' = {} /\ Seen' = Seen /\ Sorted(held', FrameOrder)
  BY EmptySorted DEF Held, Seen
<1>3. ASSUME NEW u \in Sockets
      PROVE  /\ Sent(u)' \subseteq Sent(u) \cup Held /\ Sorted(toBrowser'[u], FrameOrder)
             /\ u # s => Sent(u)' = Sent(u)
  <2>1. /\ toBrowser[u] \in Seq(ToBrowser) /\ Sorted(toBrowser[u], FrameOrder)
        /\ Older(Sent(u), Held)
    BY <1>1 DEF FramesInv, Flowing
  <2>2. CASE toBrowser'[u] = toBrowser[u]
    BY <2>1, <2>2 DEF Sent
  <2>3. CASE u = s /\ toBrowser'[u] = toBrowser[u] \o f
    <3>1. \A x \in Range(toBrowser[u]), y \in Range(f) : <<x, y>> \in FrameOrder
      <4>1. Range(toBrowser[u]) \subseteq ToBrowser /\ Range(f) \subseteq ToBrowser
        BY <2>1, RangeIn
      <4> QED BY <2>1, <4>1 DEF FrameOrder, Older, Sent
    <3>2. /\ Range(toBrowser'[u]) = Range(toBrowser[u]) \cup Range(f)
          /\ Sorted(toBrowser'[u], FrameOrder)
      BY <2>1, <2>3, <3>1, SortedConcat
    <3> QED BY <2>3, <3>2 DEF Sent
  <2> QED BY <1>1, <2>2, <2>3 DEF WriteFrames
<1>4. Emitted' \subseteq Emitted
  BY <1>2, <1>3 DEF Emitted
<1>5. Older(Seen, Held)' /\ \A u \in Sockets : Older(Sent(u), Held)'
  BY <1>2 DEF Older
<1>6. \A u \in Sockets : browser'.sock = u => Older(Seen, Sent(u))'
  BY <1>2, <1>3 DEF FramesInv, Flowing, Older
<1>7. \A u \in Sockets : far'[u] = "none" => Sent(u)' = {}
  BY <1>3 DEF FramesInv, Flowing
<1> QED BY <1>2, <1>3, <1>4, <1>5, <1>6, <1>7 DEF FramesInv, Flowing

LEMMA GreetingFlows ==
    ASSUME FramesInv
    PROVE  LET hello == [type |-> "authenticated"]
           IN  /\ <<hello>> \in Seq(ToBrowser) /\ <<hello>> \o held \in Seq(ToBrowser)
               /\ Sorted(<<hello>>, FrameOrder) /\ Sorted(<<hello>> \o held, FrameOrder)
               /\ Sorted(held, FrameOrder)
               /\ \A x \in Range(<<hello>>) : x.type # "frame"
               /\ \A x \in Range(<<hello>> \o held) : x.type = "frame" => x \in Held
               /\ \A s \in Sockets :
                    Carry(toBrowser, s, hello) = WriteFrames(toBrowser, s, <<hello>>)
<1> DEFINE hello == [type |-> "authenticated"]
<1>1. /\ hello \in ToBrowser /\ held \in Seq(ToBrowser) /\ hello.type # "frame"
      /\ toBrowser \in [Sockets -> Seq(ToBrowser)]
  BY FramesTyped, ClosesAreMessages
<1> HIDE DEF hello
<1>2. <<hello>> \in Seq(ToBrowser) /\ Range(<<hello>>) = {hello} /\ Sorted(<<hello>>, FrameOrder)
  BY <1>1 DEF Range, Sorted
<1>3. Sorted(held, FrameOrder)
  BY DEF FramesInv, Flowing
<1>4. \A y \in Range(held) : <<hello, y>> \in FrameOrder
  BY <1>1, RangeIn DEF FrameOrder
<1>5. /\ Range(<<hello>> \o held) = {hello} \cup Range(held)
      /\ Sorted(<<hello>> \o held, FrameOrder) /\ <<hello>> \o held \in Seq(ToBrowser)
  <2> DEFINE h == <<hello>>
  <2>1. h \in Seq(ToBrowser) /\ Range(h) = {hello} /\ Sorted(h, FrameOrder)
    BY <1>2
  <2> HIDE DEF h
  <2>2. \A x \in Range(h), y \in Range(held) : <<x, y>> \in FrameOrder
    BY <1>4, <2>1
  <2>3. /\ Range(h \o held) = Range(h) \cup Range(held) /\ Sorted(h \o held, FrameOrder)
        /\ h \o held \in Seq(ToBrowser)
    BY <1>1, <1>3, <2>1, <2>2, SortedConcat, ConcatProperties
  <2> QED BY <2>1, <2>3 DEF h
<1>6. ASSUME NEW s \in Sockets
      PROVE  Carry(toBrowser, s, hello) = WriteFrames(toBrowser, s, <<hello>>)
  <2>1. toBrowser[s] \in Seq(ToBrowser)
    BY <1>1
  <2>2. Append(toBrowser[s], hello) = toBrowser[s] \o <<hello>>
    BY <1>1, <2>1, AppendIsConcat
  <2> QED BY <2>2 DEF Carry, WriteFrames
<1> QED BY <1>1, <1>2, <1>3, <1>5, <1>6 DEF Held, hello

LEMMA PongFrames ==
    ASSUME FramesInv, NEW s \in Sockets, Pong(s)
    PROVE  Talking' /\ Flowing'
<1>1. /\ TransportInv /\ AdmissionInv /\ talk \in Conversations
      /\ toBrowser \in [Sockets -> Seq(ToBrowser)] /\ held \in Seq(ToBrowser)
      /\ Held = Range(held)
  BY FramesTyped DEF Held
<1>2. \A u \in Sockets : /\ far'[u] \in Unadmitted => far[u] \in Unadmitted
                         /\ far'[u] = "none" => far[u] = "none"
                         /\ far'[u] = "member" => far[u] = "member"
  BY <1>1, FarLowers
<1>3. s = session.active /\ far[s] = "member"
  BY <1>1, Bounds DEF AdmissionInv, Admission, Pong
<1>4. UNCHANGED <<browser, seen, done, chain>> /\ Attach(s, toBrowser)
  BY <1>3 DEF Pong, browserVars
<1>5. Flowing' /\ Emitted' \subseteq Emitted
  <2>1. CASE talk.stopped
    <3>1. UNCHANGED <<talk, held>> /\ toBrowser' = Carry(toBrowser, s, [type |-> "close"])
      BY <1>4, <2>1 DEF Attach
    <3>2. \A u \in Sockets : Dwindles(toBrowser[u], toBrowser'[u], Closes)
      BY <1>1, <3>1, CarryDwindles DEF Closes
    <3>3. talk'.socket # None /\ far'[talk'.socket] = "member"
             => talk.socket # None /\ far[talk.socket] = "member"
      <4>1. talk.socket # None => talk.socket \in Sockets
        BY <1>1, Bounds DEF Conversations, Sockets, None
      <4> QED BY <1>2, <3>1, <4>1
    <3> QED BY <1>2, <1>4, <3>1, <3>2, <3>3, FlowingKeep
  <2>2. CASE ~talk.stopped
    <3>1. held' = <<>> /\ toBrowser' = WriteFrames(toBrowser, s, held)
      BY <1>4, <2>2 DEF Attach
    <3>2. Sorted(held, FrameOrder)
      BY DEF FramesInv, Flowing
    <3> QED BY <1>1, <1>2, <1>3, <1>4, <3>1, <3>2, FlushFlows
  <2> QED BY <2>1, <2>2
<1>6. /\ talk'.id = talk.id /\ talk'.opened = talk.opened /\ talk'.frames = talk.frames
      /\ talk.frames \in Nat
  BY <1>1, <1>4 DEF Attach, Conversations
<1>7. Talking'
  BY <1>2, <1>4, <1>5, <1>6, TalkingKeep
<1> QED BY <1>5, <1>7

(* A fresh conversation is named by a socket that named none before.       *)
LEMMA FreshTalks ==
    ASSUME FramesInv, NEW s \in Sockets, far[s] \in Unadmitted,
           talk'.id = s, ~talk'.opened, UNCHANGED <<done, chain>>, Emitted' \subseteq Emitted,
           far'[s] \notin Unadmitted,
           \A u \in Sockets : far'[u] \in Unadmitted => far[u] \in Unadmitted
    PROVE  Talking'
<1>1. /\ Range(done) \subseteq Handled /\ Range(chain) \subseteq Handled
      /\ \A t \in Talks : t # 0 => t \in Sockets
      /\ \A c \in Handled : c.talk \in Talks
      /\ s # 0
  <2>1. Range(done) \subseteq Handled /\ Range(chain) \subseteq Handled
    BY FramesTyped, RangeIn
  <2>2. (\A t \in Talks : t # 0 => t \in Sockets) /\ s # 0
    BY Bounds DEF Talks, Sockets
  <2>3. \A c \in Handled : c.talk \in Talks
    BY DEF Handled
  <2> QED BY <2>1, <2>2, <2>3
<1>2. \A c \in Range(chain) \cup Range(done) :
         c.talk # 0 => c.talk \in Sockets /\ far[c.talk] \notin Unadmitted
  BY <1>1 DEF FramesInv, Talking
<1>3. ~OpenedBy(s)
  BY <1>1, <1>2 DEF OpenedBy
<1>4. \A t : OpenedBy(t)' <=> OpenedBy(t)
  BY DEF OpenedBy
<1>5. \A f \in Emitted' : OpenedBy(f.talk) /\ f.talk # s
  BY <1>3 DEF FramesInv, Talking
<1>6. \A c \in Range(chain') \cup Range(done') : c.talk # 0 => far'[c.talk] \notin Unadmitted
  BY <1>2
<1>7. ~OpenedBy(talk.id)' /\ (talk'.id # 0 => far'[talk'.id] \notin Unadmitted)
  BY <1>3 DEF OpenedBy
<1> QED BY <1>4, <1>5, <1>6, <1>7 DEF Talking

LEMMA HostAuthenticatesFrames ==
    ASSUME FramesInv, NEW s \in Sockets, HostAuthenticates(s)
    PROVE  Talking' /\ Flowing'
<1>1. /\ TransportInv /\ AdmissionInv /\ talk \in Conversations /\ far \in [Sockets -> FarStates]
      /\ toBrowser \in [Sockets -> Seq(ToBrowser)] /\ held \in Seq(ToBrowser)
  BY FramesTyped
<1>2. UNCHANGED <<browser, seen, done, chain>> /\ far[s] \in {"stranger", "pending"}
  BY DEF HostAuthenticates, browserVars
<1>3. PICK sess \in Sessions, t \in Conversations, ends \in [Sockets -> FarStates] :
        /\ \/ sess = session /\ t = talk /\ ends = far
           \/ /\ MayTakeOver /\ sess = TakenOver
              /\ t = Detached(talk, session.active)
              /\ ends = [far EXCEPT ![session.active] = "dead"]
        /\ \/ /\ far[s] = "pending" /\ Vacant(sess) /\ Admit(s, sess, t)
              /\ far' = [ends EXCEPT ![s] = "member"]
           \/ /\ sess = session /\ t = talk /\ ends = far
              /\ far' = [far EXCEPT ![s] = "closing"]
              /\ toBrowser' = Carry(toBrowser, s, [type |-> "close"])
              /\ UNCHANGED <<session, talk, held>>
  BY <1>1, HostAuthenticatesCases
<1>4. CASE /\ far' = [far EXCEPT ![s] = "closing"]
           /\ toBrowser' = Carry(toBrowser, s, [type |-> "close"])
           /\ UNCHANGED <<session, talk, held>>
  <2>1. \A u \in Sockets : Dwindles(toBrowser[u], toBrowser'[u], Closes)
    BY <1>1, <1>4, CarryDwindles DEF Closes
  <2>2. \A u \in Sockets : /\ far'[u] \in Unadmitted => far[u] \in Unadmitted
                           /\ far'[u] = "none" => far[u] = "none"
                           /\ far'[u] = "member" => far[u] = "member"
    BY <1>1, <1>4 DEF Unadmitted
  <2>3. talk'.socket # None /\ far'[talk'.socket] = "member"
           => talk.socket # None /\ far[talk.socket] = "member"
    <3>1. talk.socket # None => talk.socket \in Sockets
      BY <1>1, Bounds DEF Conversations, Sockets, None
    <3> QED BY <1>4, <2>2, <3>1
  <2>4. Flowing' /\ Emitted' \subseteq Emitted
    BY <1>2, <1>4, <2>1, <2>2, <2>3, FlowingKeep
  <2>5. talk.frames \in Nat
    BY <1>1 DEF Conversations
  <2>6. Talking'
    BY <1>2, <1>4, <2>2, <2>4, <2>5, TalkingKeep
  <2> QED BY <2>4, <2>6
<1>5. CASE Admit(s, sess, t) /\ far' = [ends EXCEPT ![s] = "member"]
  <2>1. /\ far'[s] = "member"
        /\ \A u \in Sockets : /\ far'[u] \in Unadmitted => far[u] \in Unadmitted
                              /\ far'[u] = "none" => far[u] = "none"
    <3>1. \A u \in Sockets : ends[u] = far[u] \/ ends[u] = "dead"
      BY <1>1, <1>3
    <3> QED BY <1>5, <3>1 DEF Unadmitted
  <2>2. far[s] # "none" /\ far[s] \in Unadmitted
    BY <1>2 DEF Unadmitted
  <2>3. /\ t.id = talk.id /\ t.stopped = talk.stopped /\ t.opened = talk.opened
        /\ t.frames = talk.frames
    BY <1>1, <1>3 DEF Detached, Conversations
  <2> DEFINE hello == [type |-> "authenticated"]
  <2>4. held' = <<>>
    BY <1>5 DEF Admit
  <2>5. CASE t.id = 0 \/ t.stopped
    <3>1. /\ talk'.id = s /\ ~talk'.opened
          /\ toBrowser' = Carry(toBrowser, s, hello)
      BY <1>5, <2>5 DEF Admit
    <3>2. toBrowser' = WriteFrames(toBrowser, s, <<hello>>)
      BY <3>1, GreetingFlows
    <3>3. /\ <<hello>> \in Seq(ToBrowser) /\ Sorted(<<hello>>, FrameOrder)
          /\ \A x \in Range(<<hello>>) : x.type = "frame" => x \in Held
      BY GreetingFlows
    <3> HIDE DEF hello
    <3>4. Flowing' /\ Emitted' \subseteq Emitted
      BY <1>2, <2>1, <2>2, <2>4, <3>2, <3>3, FlushFlows
    <3>5. far'[s] \notin Unadmitted
      BY <2>1 DEF Unadmitted
    <3> QED BY <1>2, <2>1, <2>2, <3>1, <3>4, <3>5, FreshTalks
  <2>6. CASE ~(t.id = 0 \/ t.stopped)
    <3>1. /\ talk' = [t EXCEPT !.socket = s]
          /\ toBrowser' = WriteFrames(toBrowser, s, <<hello>> \o held)
      BY <1>5, <2>6 DEF Admit
    <3>2. /\ <<hello>> \o held \in Seq(ToBrowser) /\ Sorted(<<hello>> \o held, FrameOrder)
          /\ \A x \in Range(<<hello>> \o held) : x.type = "frame" => x \in Held
      BY GreetingFlows
    <3> DEFINE f == <<hello>> \o held
    <3>3. /\ f \in Seq(ToBrowser) /\ Sorted(f, FrameOrder)
          /\ \A x \in Range(f) : x.type = "frame" => x \in Held
          /\ toBrowser' = WriteFrames(toBrowser, s, f)
      BY <3>1, <3>2
    <3> HIDE DEF f
    <3>4. Flowing' /\ Emitted' \subseteq Emitted
      BY <1>2, <2>1, <2>2, <2>4, <3>3, FlushFlows
    <3>5. /\ talk'.id = talk.id /\ talk'.opened = talk.opened /\ talk'.frames = talk.frames
          /\ talk.frames \in Nat
      BY <1>1, <2>3, <3>1 DEF Conversations
    <3>6. Talking'
      BY <1>2, <2>1, <3>4, <3>5, TalkingKeep
    <3> QED BY <3>4, <3>6
  <2> QED BY <2>5, <2>6
<1> QED BY <1>3, <1>4, <1>5

(* A new frame is newer than all that were emitted.                        *)
LEMMA EmitFrameFrames == FramesInv /\ EmitFrame => Talking' /\ Flowing'
<1> SUFFICES ASSUME FramesInv, EmitFrame PROVE Talking' /\ Flowing'
  OBVIOUS
<1> DEFINE f == [type |-> "frame", talk |-> talk.id, n |-> talk.frames + 1]
           ready == talk.socket # None /\ far[talk.socket] = "member"
<1>1. /\ TransportInv /\ talk \in Conversations /\ held \in Seq(ToBrowser)
      /\ toBrowser \in [Sockets -> Seq(ToBrowser)]
      /\ talk.socket # None => talk.socket \in Sockets
  BY FramesTyped, Bounds DEF Conversations, Sockets, None
<1>2. /\ talk.opened /\ talk.frames < MaxFrames /\ talk' = [talk EXCEPT !.frames = @ + 1]
      /\ UNCHANGED <<browser, seen, far, done, chain>>
  BY DEF EmitFrame, browserVars
<1>3. /\ f \in ToBrowser /\ f.type = "frame" /\ f.n = talk.frames + 1 /\ f.talk = talk.id
      /\ talk.frames \in Nat
  BY <1>1, <1>2, Bounds DEF Frames, ToBrowser, Conversations
<1>4. \A e \in Emitted : e.n < f.n
  <2>1. OpenedBy(talk.id)
    BY <1>2 DEF FramesInv, Talking
  <2>2. ASSUME NEW e \in Emitted PROVE e.n < f.n
    <3>1. OpenedBy(e.talk) /\ e.n \in Nat /\ (e.talk = talk.id => e.n <= talk.frames)
      BY FramesTyped DEF FramesInv, Talking
    <3>2. e.talk = talk.id
      BY <2>1, <3>1, OneIsOpened
    <3> QED BY <1>3, <3>1, <3>2
  <2> QED BY <2>2
<1>5. \/ ready /\ toBrowser' = Carry(toBrowser, talk.socket, f) /\ UNCHANGED held
      \/ ~ready /\ UNCHANGED toBrowser
         /\ held' = Append(IF Len(held) >= MaxHeld THEN Tail(held) ELSE held, f)
  BY DEF EmitFrame
<1>6. talk'.socket = talk.socket /\ talk'.id = talk.id /\ talk'.opened = talk.opened
      /\ talk'.frames = talk.frames + 1
  BY <1>1, <1>2 DEF Conversations
<1>7. Seen' = Seen /\ Sorted(seen', TakenOrder)
  BY <1>2 DEF Seen, FramesInv, Flowing
<1> HIDE DEF f
<1>8. CASE ready /\ toBrowser' = Carry(toBrowser, talk.socket, f) /\ UNCHANGED held
  <2>1. held = <<>> /\ Held = {} /\ Held' = {} /\ Sorted(held', FrameOrder)
    BY <1>8, EmptySorted DEF Held, FramesInv, Flowing
  <2>2. ASSUME NEW u \in Sockets
        PROVE  /\ Sent(u)' \subseteq Sent(u) \cup {f} /\ Sorted(toBrowser'[u], FrameOrder)
               /\ far[u] = "none" => Sent(u)' = Sent(u)
    <3>1. CASE toBrowser'[u] = toBrowser[u]
      BY <3>1 DEF Sent, FramesInv, Flowing
    <3>2. CASE u = talk.socket /\ toBrowser'[u] = Append(toBrowser[u], f)
      <4>1. toBrowser[u] \in Seq(ToBrowser)
        BY <1>1
      <4>2. \A x \in Range(toBrowser[u]) : <<x, f>> \in FrameOrder
        <5>1. \A x \in Range(toBrowser[u]) : x \in ToBrowser /\ (x.type = "frame" => x \in Emitted)
          BY <4>1, RangeIn DEF Emitted, Sent
        <5> QED BY <1>3, <1>4, <5>1 DEF FrameOrder
      <4>3. /\ Range(toBrowser'[u]) = Range(toBrowser[u]) \cup {f}
            /\ Sorted(toBrowser'[u], FrameOrder)
        BY <1>3, <3>2, <4>1, <4>2, SortedAppend DEF FramesInv, Flowing
      <4> QED BY <1>8, <3>2, <4>3 DEF Sent
    <3> QED BY <1>1, <1>8, <3>1, <3>2 DEF Carry
  <2>3. Emitted' \subseteq Emitted \cup {f}
    BY <1>7, <2>1, <2>2 DEF Emitted
  <2>4. ASSUME NEW u \in Sockets, browser'.sock = u PROVE Older(Seen, Sent(u))'
    <3>1. \A x \in Seen : x.n < f.n
      BY <1>4 DEF Emitted
    <3> QED BY <1>2, <1>7, <2>2, <2>4, <3>1 DEF FramesInv, Flowing, Older
  <2>5. Flowing'
    <3>1. Older(Seen, Held)' /\ \A u \in Sockets : Older(Sent(u), Held)'
      BY <2>1 DEF Older
    <3>2. \A u \in Sockets : far'[u] = "none" => Sent(u)' = {}
      BY <1>2, <2>2 DEF FramesInv, Flowing
    <3>3. held' = <<>>
      BY <1>8, <2>1
    <3> QED BY <1>7, <2>1, <2>2, <2>4, <3>1, <3>2, <3>3 DEF Flowing
  <2>6. Talking'
    BY <1>2, <1>3, <1>6, <2>3, TalkingKeep
  <2> QED BY <2>5, <2>6
<1>9. CASE /\ ~ready /\ UNCHANGED toBrowser
           /\ held' = Append(IF Len(held) >= MaxHeld THEN Tail(held) ELSE held, f)
  <2> DEFINE q == IF Len(held) >= MaxHeld THEN Tail(held) ELSE held
  <2>1. q \in Seq(ToBrowser) /\ Range(q) \subseteq Held /\ Sorted(q, FrameOrder)
    <3>1. Sorted(held, FrameOrder)
      BY DEF FramesInv, Flowing
    <3>2. CASE Len(held) >= MaxHeld
      <4>1. held # <<>>
        BY <1>1, <3>2, Bounds, LenProperties
      <4> QED BY <1>1, <3>1, <3>2, <4>1, SortedTail, HeadTailProperties DEF Held
    <3>3. CASE ~(Len(held) >= MaxHeld)
      BY <1>1, <3>1, <3>3 DEF Held
    <3> QED BY <3>2, <3>3
  <2>2. held' = Append(q, f)
    BY <1>9
  <2> HIDE DEF q
  <2>3. \A x \in Range(q) : <<x, f>> \in FrameOrder
    <3>1. \A x \in Range(q) : x \in ToBrowser /\ x \in Emitted
      BY <2>1, RangeIn DEF Emitted
    <3> QED BY <1>3, <1>4, <3>1 DEF FrameOrder
  <2>4. Held' \subseteq Held \cup {f} /\ Sorted(held', FrameOrder)
    <3>1. Range(held') = Range(q) \cup {f} /\ Sorted(held', FrameOrder)
      BY <1>3, <2>1, <2>2, <2>3, SortedAppend
    <3> QED BY <2>1, <3>1 DEF Held
  <2>5. \A u \in Sockets : Sent(u)' = Sent(u)
    BY <1>9 DEF Sent
  <2>6. Emitted' \subseteq Emitted \cup {f}
    BY <1>7, <2>4, <2>5 DEF Emitted
  <2>7. /\ \A x \in Seen : x.n < f.n
        /\ \A u \in Sockets : \A x \in Sent(u) : x.n < f.n
    BY <1>4 DEF Emitted
  <2>8. Older(Seen, Held)' /\ \A u \in Sockets : Older(Sent(u), Held)'
    BY <1>7, <2>4, <2>5, <2>7 DEF FramesInv, Flowing, Older
  <2>9. ~(talk'.socket # None /\ far'[talk'.socket] = "member")
    BY <1>2, <1>6, <1>9
  <2>10. /\ \A u \in Sockets : Sorted(toBrowser'[u], FrameOrder)
         /\ \A u \in Sockets : browser'.sock = u => Older(Seen, Sent(u))'
         /\ \A u \in Sockets : far'[u] = "none" => Sent(u)' = {}
    BY <1>2, <1>7, <1>9, <2>5 DEF FramesInv, Flowing, Older
  <2>11. Flowing'
    BY <1>7, <2>4, <2>8, <2>9, <2>10 DEF Flowing
  <2>12. Talking'
    BY <1>2, <1>3, <1>6, <2>6, TalkingKeep
  <2> QED BY <2>11, <2>12
<1> QED BY <1>5, <1>8, <1>9

LEMMA FramesKept == FramesInv /\ [Next]_vars => FramesInv'
<1> SUFFICES ASSUME FramesInv, [Next]_vars PROVE Talking' /\ Flowing'
  BY CommandsKept DEF FramesInv
<1>1. 1 \in Sockets
  BY Bounds DEF Sockets
<1>2. CASE UNCHANGED vars
  <2>1. UNCHANGED <<talk, chain, done, seen, held, toBrowser, far, browser>>
    BY <1>2 DEF vars, browserVars, hostVars
  <2> QED BY <2>1 DEF FramesInv, Talking, Flowing, OpenedBy, Emitted, Seen, Held, Sent, Older
<1>3. CASE BrowserStep
  <2>1. CASE \E s \in Sockets : BrowserReceive(s)
    BY <2>1, BrowserFrames, TakeFrameFrames
  <2>2. CASE ~\E s \in Sockets : BrowserReceive(s)
    <3>1. seen' = seen
      BY <1>3, <2>2 DEF BrowserStep, RetryDue, OpenSocket, WatchdogFires, SendCommand,
                        RefuseHost, Disconnect, SocketOpens, SocketGone
    <3> QED BY <1>1, <1>3, <2>2, <3>1, BrowserFrames DEF BrowserStep
  <2> QED BY <2>1, <2>2
<1>4. CASE ConversationStep
  BY <1>1, <1>4, HostFrames, HandleFrames, EmitFrameFrames DEF ConversationStep
<1>5. CASE \E s \in Sockets : HostStep(s) \/ Cut(s)
  <2>1. ASSUME NEW s \in Sockets, Cut(s) PROVE Talking' /\ Flowing'
    <3>1. seen' = seen
      BY <2>1 DEF Cut
    <3> QED BY <2>1, <3>1, BrowserFrames
  <2> QED BY <1>5, <2>1, HostReceivesFrames, HostFrames, PongFrames, HostAuthenticatesFrames
          DEF HostStep
<1> QED BY <1>2, <1>3, <1>4, <1>5 DEF Next

(* A command is acted on at most once and in order, whatever happens to    *)
(* sockets; only a report overtakes, in the place of an older one, and a   *)
(* planning control, which does not wait in the chain; the browser sees    *)
(* the frames of a conversation in order and none twice                    *)
(* (flushQueuedCommands, queueCommand, isPlanningControl, flushOutbound,   *)
(* onmessage).                                                             *)
THEOREM OnceAndInOrder == Spec => []DeliveredOnce
<1>1. FramesInv => DeliveredOnce
  <2> SUFFICES ASSUME FramesInv PROVE DeliveredOnce
    OBVIOUS
  <2>1. ASSUME NEW i \in DOMAIN done, NEW j \in DOMAIN done, i < j
        PROVE  Precedes(done[i].n, done[j].n)
    BY <2>1 DEF FramesInv, CommandsInv, CommandsOrdered, Ordered, Sorted, HandledOrder
  <2>2. ASSUME NEW i \in DOMAIN seen, NEW j \in DOMAIN seen, i < j
        PROVE  seen[i].talk = seen[j].talk /\ seen[i].n < seen[j].n
    <3>1. seen[i].n < seen[j].n
      BY <2>2 DEF FramesInv, Flowing, Sorted, TakenOrder
    <3>2. seen[i] \in Emitted /\ seen[j] \in Emitted
      BY DEF Emitted, Seen, Range
    <3>3. OpenedBy(seen[i].talk) /\ OpenedBy(seen[j].talk)
      BY <3>2 DEF FramesInv, Talking
    <3> QED BY <3>1, <3>3, OneIsOpened
  <2> QED BY <2>1, <2>2 DEF DeliveredOnce, Precedes
<1> QED BY <1>1, FramesInit, FramesKept, PTL DEF Spec
=============================================================================
