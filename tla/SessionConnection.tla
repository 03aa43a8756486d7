------------------------- MODULE SessionConnection -------------------------
(***************************************************************************)
(* How a browser stays connected to its conversation: the reconnecting     *)
(* transport (apps/web/src/session/websocket-transport.ts), the gateway    *)
(* that authenticates one socket per session, probes it and stops an       *)
(* abandoned conversation (apps/host/src/server/app.ts), and the part of   *)
(* BrowserSession.ts that attaches a socket and holds output back.         *)
(*                                                                         *)
(* A socket is a FIFO each way.  Its path may be cut: what is on the way   *)
(* is lost, and each end learns of it on its own, the browser from its     *)
(* network stack or its handshake timer, the host from a missed heartbeat. *)
(* Timers fire whenever they are armed.  Commands and frames are numbered; *)
(* command 1 is session.open, a command may be keyed (a later report of    *)
(* the same playback takes the place of a queued earlier one), and a       *)
(* control may steer or stop the preparation ahead of the ordered chain.   *)
(***************************************************************************)
EXTENDS Integers, FiniteSets, SequencesExt

CONSTANTS
    MaxSockets,     \* bound on the sockets one browser opens
    MaxCommands,    \* bound on the commands it sends
    Keyed,          \* the commands that are reports of one playback
    Controls,       \* those that are planning.cancel, .retry or session.stop
    MaxQueued,      \* MAX_QUEUED_COMMANDS
    MaxFrames,      \* bound on the frames the host emits
    MaxHeld,        \* MAX_RECONNECT_QUEUE_MESSAGES
    MaxCuts,        \* bound on the paths that are cut
    Stops,          \* how the session may end: "leave", "api", "expiry"
    MaxUpsets       \* bound on cuts, refusals and ends together

ASSUME ConnectionConstantsOK ==
    /\ {MaxSockets, MaxCommands, MaxQueued, MaxFrames, MaxHeld} \subseteq Nat \ {0}
    /\ {MaxCuts, MaxUpsets} \subseteq Nat
    /\ Keyed \subseteq 2..MaxCommands
    /\ Controls \subseteq (2..MaxCommands) \ Keyed
    /\ Stops \subseteq {"leave", "api", "expiry"}

Sockets == 1..MaxSockets
None == 0

VARIABLES
    browser,    \* the transport's fields
    queue,      \* queuedCommands
    made,       \* commands the application has sent so far
    near,       \* the browser's end of each socket
    greeted,    \* per socket, the closure's `authenticated'
    path,       \* per socket: does it carry anything
    toHost,     \* per socket, messages on the way
    toBrowser,
    far,        \* the host's end of each socket
    alive,      \* per socket, heartbeatAlive
    session,    \* the gateway's Session
    talk,       \* the current BrowserSession
    held,       \* its outboundQueue
    chain,      \* messageChain: commands not yet handled
    done,       \* history: the commands conversations handled, in order
    seen,       \* history: the frames the browser took, in order
    cuts        \* paths cut so far

browserVars == <<browser, queue, made, near, greeted>>
hostVars == <<far, alive, session, talk, held, chain, done>>
vars == <<browserVars, path, toHost, toBrowser, hostVars, seen, cuts>>

NearStates == {"none", "connecting", "open", "closing", "gone"}
FarStates ==
    {"none", "stranger", "pending", "member", "closing", "dead", "gone"}

\* the preparation: none to steer, running, cancelled by a session.begin that
\* waits for its end, or over and free to be retried
Plans == {"none", "running", "ending", "over"}

TypeOK ==
    /\ browser \in [sock : 0..MaxSockets, opened : 0..MaxSockets,
                    connected : BOOLEAN, reconnecting : BOOLEAN,
                    timer : BOOLEAN, watchdog : 0..MaxSockets,
                    settled : BOOLEAN, refused : BOOLEAN, told : BOOLEAN,
                    left : BOOLEAN]
    /\ queue \in Seq(1..MaxCommands) /\ Len(queue) <= MaxQueued
    /\ made \in 0..MaxCommands
    /\ near \in [Sockets -> NearStates] /\ greeted \in [Sockets -> BOOLEAN]
    /\ path \in [Sockets -> BOOLEAN]
    /\ far \in [Sockets -> FarStates] /\ alive \in [Sockets -> BOOLEAN]
    /\ session \in [sockets : SUBSET Sockets, auth : BOOLEAN,
                    active : 0..MaxSockets, grace : BOOLEAN,
                    stopping : BOOLEAN, known : BOOLEAN, expired : BOOLEAN]
    /\ talk \in [id : 0..MaxSockets, stopped : BOOLEAN, opened : BOOLEAN,
                 plan : Plans, socket : 0..MaxSockets, frames : 0..MaxFrames]
    /\ Len(held) <= MaxHeld
    /\ cuts \in 0..MaxCuts

-----------------------------------------------------------------------------
(* The transport: one attempt to open a socket, bounded by a watchdog.     *)

\* connect() has just been called
Init ==
    /\ browser = [sock |-> 1, opened |-> 1, connected |-> FALSE,
                  reconnecting |-> FALSE, timer |-> FALSE, watchdog |-> 1,
                  settled |-> FALSE, refused |-> FALSE, told |-> FALSE,
                  left |-> FALSE]
    /\ queue = <<>> /\ made = 0
    /\ near = [s \in Sockets |-> IF s = 1 THEN "connecting" ELSE "none"]
    /\ greeted = [s \in Sockets |-> FALSE]
    /\ path = [s \in Sockets |-> TRUE]
    /\ toHost = [s \in Sockets |-> <<>>] /\ toBrowser = [s \in Sockets |-> <<>>]
    /\ far = [s \in Sockets |-> "none"] /\ alive = [s \in Sockets |-> TRUE]
    /\ session = [sockets |-> {}, auth |-> FALSE, active |-> None,
                  grace |-> FALSE, stopping |-> FALSE, known |-> TRUE,
                  expired |-> FALSE]
    /\ talk = [id |-> 0, stopped |-> FALSE, opened |-> FALSE, plan |-> "none",
               socket |-> None, frames |-> 0]
    /\ held = <<>> /\ chain = <<>> /\ done = <<>> /\ seen = <<>> /\ cuts = 0

Upsets ==
    cuts + Cardinality({x \in {<<"leave", browser.left>>, <<"api", ~session.known>>,
               <<"expiry", session.expired>>, <<"refusal", browser.refused>>} : x[2]})
MayEnd(how) == how \in Stops /\ Upsets < MaxUpsets

Carry(channel, s, m) ==
    IF path[s] THEN [channel EXCEPT ![s] = Append(@, m)] ELSE channel

\* what scheduleReconnect may do: the window has passed only if it was running
MutantScheduleReconnect(b) ==
    IF b.timer \/ b.left \/ b.told THEN {b}
    ELSE {[b EXCEPT !.timer = TRUE], [b EXCEPT !.reconnecting = FALSE]}

ScheduleReconnect(b) ==
    IF b.timer \/ b.left \/ b.told THEN {b}
    ELSE {[b EXCEPT !.timer = TRUE],
          [b EXCEPT !.reconnecting = FALSE, !.told = TRUE]}

\* what handleSocketFailure(s) may leave behind
SocketFailure(b, s) ==
    LET lost == [b EXCEPT !.sock = None, !.connected = FALSE]
    IN IF b.sock # s THEN {b}
       ELSE IF b.left THEN {lost}
       ELSE IF ~b.settled THEN {[lost EXCEPT !.settled = TRUE, !.told = TRUE]}
       ELSE IF b.refused THEN {[lost EXCEPT !.told = TRUE]}
       ELSE IF b.reconnecting THEN ScheduleReconnect(lost)
       ELSE {[lost EXCEPT !.reconnecting = TRUE, !.timer = b.timer \/ ~b.told]}

\* the fail() of a socket's closure: onerror, onclose
Fail(s) == \E b \in SocketFailure([browser EXCEPT !.watchdog = None], s) :
    browser' = b

OpenSocket(b) ==
    /\ b.opened < MaxSockets
    /\ browser' = [b EXCEPT !.sock = b.opened + 1, !.opened = @ + 1,
                            !.timer = FALSE, !.watchdog = b.opened + 1]
    /\ near' = [near EXCEPT ![b.opened + 1] = "connecting"]
    /\ UNCHANGED <<queue, made, greeted, path, toHost, toBrowser, hostVars,
                   seen, cuts>>

\* the backoff timer fires, or the network is said to be back; making a
\* socket may itself fail
RetryDue ==
    /\ browser.timer
    /\ \/ OpenSocket(browser)
       \/ /\ \E b \in ScheduleReconnect([browser EXCEPT !.timer = FALSE]) :
                browser' = b
          /\ UNCHANGED <<queue, made, near, greeted, path, toHost, toBrowser,
                         hostVars, seen, cuts>>

\* TCP and the upgrade succeed at both ends; the transport authenticates
SocketOpens(s) ==
    /\ near[s] = "connecting" /\ path[s]
    /\ near' = [near EXCEPT ![s] = "open"]
    /\ far' = [far EXCEPT ![s] = IF session.known THEN "pending" ELSE "stranger"]
    /\ toHost' = IF browser.sock = s /\ ~browser.left
                 THEN Carry(toHost, s, [type |-> "auth"]) ELSE toHost
    /\ UNCHANGED <<browser, queue, made, greeted, path, toBrowser, alive,
                   session, talk, held, chain, done, seen, cuts>>

\* an error, the host's close, or the end of the browser's own close
SocketGone(s) ==
    /\ \/ near[s] = "closing"
       \/ near[s] \in {"connecting", "open"} /\ ~path[s]
       \/ /\ near[s] = "open" /\ toBrowser[s] # <<>>
          /\ Head(toBrowser[s]).type = "close"
    /\ near' = [near EXCEPT ![s] = "gone"]
    /\ toBrowser' = [toBrowser EXCEPT ![s] = <<>>]
    /\ toHost' = Carry(toHost, s, [type |-> "close"])
    /\ Fail(s)
    /\ UNCHANGED <<queue, made, greeted, path, hostVars, seen, cuts>>

\* armHandshakeWatchdog's timer; the socket itself is left as it is
WatchdogFires ==
    LET s == browser.watchdog IN
    /\ s # None
    /\ IF greeted[s] \/ browser.sock # s \/ browser.left
       THEN browser' = [browser EXCEPT !.watchdog = None]
       ELSE \E b \in SocketFailure([browser EXCEPT !.watchdog = None], s) :
                browser' = b
    /\ UNCHANGED <<queue, made, near, greeted, path, toHost, toBrowser,
                   hostVars, seen, cuts>>

\* onmessage of {type: 'authenticated'}: the backlog goes out first
TakeAuthenticated(s) ==
    LET b == [browser EXCEPT !.connected = TRUE, !.watchdog = None]
        backlog == [i \in DOMAIN queue |-> [type |-> "cmd", n |-> queue[i]]]
    IN /\ greeted' = [greeted EXCEPT ![s] = TRUE]
       /\ IF browser.settled /\ browser.reconnecting
          THEN /\ browser' = [b EXCEPT !.reconnecting = FALSE]
               /\ toHost' = IF path[s] THEN [toHost EXCEPT ![s] = @ \o backlog]
                                       ELSE toHost
               /\ queue' = <<>>
          ELSE /\ browser' = [b EXCEPT !.settled = TRUE]
               /\ UNCHANGED <<queue, toHost>>
       /\ UNCHANGED <<made, seen>>

TakeFrame(s, m) ==
    /\ seen' = Append(seen, [talk |-> m.talk, n |-> m.n])
    /\ UNCHANGED <<browser, queue, made, greeted, toHost>>

\* onmessage ignores a socket that is no longer the transport's
Discard == UNCHANGED <<browser, queue, made, greeted, toHost, seen>>

BrowserReceive(s) ==
    /\ near[s] \in {"open", "closing"} /\ toBrowser[s] # <<>>
    /\ LET m == Head(toBrowser[s])
           listens == near[s] = "open" /\ browser.sock = s /\ ~browser.left
       IN /\ m.type # "close"
          /\ IF ~listens THEN Discard
             ELSE IF m.type = "authenticated" THEN TakeAuthenticated(s)
             ELSE TakeFrame(s, m)
    /\ toBrowser' = [toBrowser EXCEPT ![s] = Tail(@)]
    /\ UNCHANGED <<near, path, hostVars, cuts>>

\* queueCommand: a keyed command replaces its predecessor in place; at the
\* bound the oldest report makes room, or the transport gives up
Enqueue(c) ==
    LET same == {i \in DOMAIN queue : {c, queue[i]} \subseteq Keyed}
        reports == {i \in DOMAIN queue : queue[i] \in Keyed}
    IN IF same # {} THEN [queue |-> [queue EXCEPT ![Min(same)] = c], told |-> FALSE]
       ELSE IF Len(queue) < MaxQueued
       THEN [queue |-> Append(queue, c), told |-> FALSE]
       ELSE IF reports # {}
       THEN [queue |-> Append(RemoveAt(queue, Min(reports)), c), told |-> FALSE]
       ELSE [queue |-> queue, told |-> TRUE]

\* sendWire: sent, or queued while reconnecting, or queued because the socket
\* is closing, which then counts as lost
SendCommand ==
    LET c == made + 1
        q == Enqueue(c)
        told == [browser EXCEPT !.told = @ \/ q.told]
    IN
    /\ made < MaxCommands /\ ~browser.left /\ made' = c
    /\ \/ /\ browser.connected /\ near[browser.sock] = "open"
          /\ toHost' = Carry(toHost, browser.sock, [type |-> "cmd", n |-> c])
          /\ UNCHANGED <<browser, queue>>
       \/ /\ browser.connected /\ near[browser.sock] # "open"
          /\ queue' = q.queue
          /\ \E b \in SocketFailure(told, browser.sock) : browser' = b
          /\ UNCHANGED toHost
       \/ /\ ~browser.connected /\ browser.reconnecting
          /\ queue' = q.queue /\ browser' = told
          /\ UNCHANGED toHost
    /\ UNCHANGED <<near, greeted, path, toBrowser, hostVars, seen, cuts>>

\* protocolFailure: tell the user and close; onclose then finds it permanent
RefuseHost ==
    /\ browser.connected /\ near[browser.sock] = "open" /\ ~browser.refused
    /\ Upsets < MaxUpsets
    /\ browser' = [browser EXCEPT !.refused = TRUE, !.told = TRUE]
    /\ near' = [near EXCEPT ![browser.sock] = "closing"]
    /\ UNCHANGED <<queue, made, greeted, path, toHost, toBrowser, hostVars,
                   seen, cuts>>

Disconnect ==
    /\ MayEnd("leave") /\ ~browser.left
    /\ browser' = [browser EXCEPT !.left = TRUE, !.connected = FALSE,
                       !.reconnecting = FALSE, !.timer = FALSE,
                       !.watchdog = None, !.sock = None]
    /\ queue' = <<>>
    /\ near' = IF browser.sock # None /\ near[browser.sock] # "gone"
               THEN [near EXCEPT ![browser.sock] = "closing"] ELSE near
    /\ UNCHANGED <<made, greeted, path, toHost, toBrowser, hostVars, seen, cuts>>

-----------------------------------------------------------------------------
(* The gateway.                                                            *)

Open(s) == far[s] \in {"stranger", "pending", "member"}

\* socket.close(): the peer hears of it; the close event comes later
CloseFar(S) ==
    /\ far' = [s \in Sockets |-> IF s \in S /\ Open(s) THEN "closing" ELSE far[s]]
    /\ toBrowser' = [s \in Sockets |->
           IF s \in S /\ Open(s) /\ path[s]
           THEN Append(toBrowser[s], [type |-> "close"]) ELSE toBrowser[s]]

WriteFrames(channel, s, frames) ==
    IF path[s] THEN [channel EXCEPT ![s] = @ \o frames] ELSE channel

\* BrowserSession.attachSocket, with flushOutbound: held output comes first
Attach(s, channel) ==
    IF talk.stopped
    THEN /\ far' = [far EXCEPT ![s] = "closing"]
         /\ toBrowser' = Carry(channel, s, [type |-> "close"])
         /\ UNCHANGED <<talk, held>>
    ELSE /\ talk' = [talk EXCEPT !.socket = s]
         /\ toBrowser' = WriteFrames(channel, s, held)
         /\ held' = <<>>
         /\ UNCHANGED far

Detached(t, s) == IF t.socket = s THEN [t EXCEPT !.socket = None] ELSE t

MutantVacant(sess) == TRUE
Vacant(sess) == ~sess.auth /\ sess.sockets = {}

\* a half-open socket that missed a heartbeat gives way to a new one
TakenOver ==
    [session EXCEPT !.sockets = @ \ {session.active}, !.active = None,
                    !.auth = FALSE]

\* the heartbeat is overdue only while a ping is outstanding
MayTakeOver == session.auth /\ session.active # None /\ ~alive[session.active]

\* the socket is admitted into sess; an absent or stopped conversation is
\* replaced by a fresh one
Admit(s, sess, t) ==
    /\ session' = [sess EXCEPT !.auth = TRUE, !.sockets = @ \cup {s},
                               !.active = s, !.grace = FALSE,
                               !.stopping = @ /\ ~(t.id = 0 \/ t.stopped)]
    /\ IF t.id = 0 \/ t.stopped
       THEN /\ talk' = [id |-> s, stopped |-> FALSE, opened |-> FALSE,
                        plan |-> "none", socket |-> s, frames |-> 0]
            /\ held' = <<>>
            /\ toBrowser' = Carry(toBrowser, s, [type |-> "authenticated"])
       ELSE /\ talk' = [t EXCEPT !.socket = s]
            /\ toBrowser' = WriteFrames(toBrowser, s,
                                <<[type |-> "authenticated"]>> \o held)
            /\ held' = <<>>

\* the first message of a socket is its capability
HostAuthenticates(s) ==
    /\ far[s] \in {"stranger", "pending"}
    /\ toHost[s] # <<>> /\ Head(toHost[s]).type = "auth"
    /\ toHost' = [toHost EXCEPT ![s] = Tail(@)]
    /\ \E late \in IF far[s] = "pending" /\ ~session.expired /\ MayTakeOver THEN BOOLEAN ELSE {FALSE} :
         LET old == session.active
             sess == IF late THEN TakenOver ELSE session
             t == IF late THEN Detached(talk, old) ELSE talk
             ends == IF late THEN [far EXCEPT ![old] = "dead"] ELSE far
         IN IF far[s] = "pending" /\ ~session.expired /\ Vacant(sess)
            THEN /\ Admit(s, sess, t)
                 /\ far' = [ends EXCEPT ![s] = "member"]
            ELSE /\ far' = [ends EXCEPT ![s] = "closing"]
                 /\ toBrowser' = Carry(toBrowser, s, [type |-> "close"])
                 /\ session' = sess /\ talk' = t
                 /\ UNCHANGED held
    /\ UNCHANGED <<browserVars, path, alive, chain, done, seen, cuts>>

\* stopConversation: the conversation is deaf at once, its resources go later
Stopped(t) == [t EXCEPT !.stopped = TRUE]

\* protocolError: the socket the conversation writes to is closed
RefuseTalk ==
    /\ CloseFar(IF talk.socket # None THEN {talk.socket} ELSE {})
    /\ UNCHANGED <<talk, held, done>>

\* the conversation acts on command n of its own
Act(n, t) ==
    /\ talk' = t /\ done' = Append(done, [n |-> n, talk |-> talk.id])
    /\ held' = IF t.stopped THEN <<>> ELSE held
    /\ UNCHANGED <<far, toBrowser>>

\* planningPromise is there
Preparing == talk.plan \in {"running", "ending"}

\* handlePlanningControl: a cancellation only asks the preparation to end, a
\* retry starts one that is over, and a stop counts as a control meanwhile
Steer(n) ==
    \/ ~talk.opened /\ RefuseTalk
    \/ talk.opened /\ talk.stopped /\ UNCHANGED <<far, toBrowser, talk, held, done>>
    \/ /\ talk.opened /\ ~talk.stopped
       /\ \/ Act(n, talk)
          \/ talk.plan = "over" /\ Act(n, [talk EXCEPT !.plan = "running"])
          \/ Preparing /\ Act(n, Stopped(talk))

\* isPlanningControl: whether command n is taken ahead of the chain; one that
\* may be a session.stop is not when no preparation runs
MutantBypasses(n) == BOOLEAN

Bypasses(n) ==
    IF n \in Controls THEN IF Preparing THEN {TRUE} ELSE BOOLEAN ELSE {FALSE}

\* a later message steers the conversation at once, or joins the end of the
\* chain of the conversation it was sent to
HostReceives(s) ==
    /\ far[s] = "member" /\ toHost[s] # <<>> /\ Head(toHost[s]).type = "cmd"
    /\ toHost' = [toHost EXCEPT ![s] = Tail(@)]
    /\ IF session.known /\ ~session.expired
       THEN \E ahead \in Bypasses(Head(toHost[s]).n) :
              IF ahead
              THEN Steer(Head(toHost[s]).n) /\ UNCHANGED chain
              ELSE /\ chain' = Append(chain, [n |-> Head(toHost[s]).n, talk |-> talk.id])
                   /\ UNCHANGED <<far, toBrowser, talk, held, done>>
       ELSE /\ CloseFar({s})
            /\ UNCHANGED <<chain, talk, held, done>>
    /\ UNCHANGED <<browserVars, path, alive, session, seen, cuts>>

\* scheduleConversationStop
MutantSchedule(sess, t) ==
    [sess EXCEPT !.grace = @ \/ (~sess.stopping /\ ~session.auth /\ t.id # 0)]

Schedule(sess, t) ==
    [sess EXCEPT !.grace = @ \/ (~sess.stopping /\ ~sess.auth /\ t.id # 0)]

\* the close event: ours completed, the peer's arrived, or the path's error;
\* what its heartbeat knew goes with the socket
HostClosed(s) ==
    /\ \/ far[s] \in {"closing", "dead"}
       \/ /\ Open(s)
          /\ \/ ~path[s]
             \/ toHost[s] # <<>> /\ Head(toHost[s]).type = "close"
    /\ far' = [far EXCEPT ![s] = "gone"]
    /\ alive' = [alive EXCEPT ![s] = TRUE]
    /\ LET rest == session.sockets \ {s}
           less == [session EXCEPT !.sockets = rest,
                                   !.active = IF @ = s THEN None ELSE @]
       IN IF far[s] = "stranger" THEN UNCHANGED <<session, talk>>
          ELSE IF rest # {} THEN session' = less /\ UNCHANGED talk
          ELSE /\ talk' = Detached(talk, s)
               /\ session' = Schedule([less EXCEPT !.auth = FALSE], talk)
    /\ toHost' = [toHost EXCEPT ![s] = <<>>]
    /\ toBrowser' = IF far[s] = "closing" THEN toBrowser
                    ELSE Carry(toBrowser, s, [type |-> "close"])
    /\ UNCHANGED <<browserVars, path, held, chain, done, seen, cuts>>

\* the authentication timer of a socket that never said who it is
AuthTimeout(s) ==
    /\ far[s] \in {"stranger", "pending"}
    /\ CloseFar({s})
    /\ UNCHANGED <<browserVars, path, toHost, alive, session, talk, held,
                   chain, done, seen, cuts>>

\* the heartbeat interval: an unanswered ping ends the socket, else output is
\* held back until the next one is answered
Heartbeat(s) ==
    /\ far[s] = "member"
    /\ IF alive[s]
       THEN /\ alive' = [alive EXCEPT ![s] = FALSE]
            /\ talk' = IF session.active = s THEN Detached(talk, s) ELSE talk
            /\ UNCHANGED far
       ELSE far' = [far EXCEPT ![s] = "dead"] /\ UNCHANGED <<alive, talk>>
    /\ UNCHANGED <<browserVars, path, toHost, toBrowser, session, held, chain,
                   done, seen, cuts>>

\* the peer answers by itself, whatever its owner thinks of the socket
Pong(s) ==
    /\ far[s] = "member" /\ ~alive[s] /\ path[s] /\ near[s] \in {"open", "closing"}
    /\ alive' = [alive EXCEPT ![s] = TRUE]
    /\ IF session.active = s THEN Attach(s, toBrowser)
                             ELSE UNCHANGED <<talk, held, far, toBrowser>>
    /\ UNCHANGED <<browserVars, path, toHost, session, chain, done, seen, cuts>>

GraceEnds ==
    /\ session.grace /\ ~session.auth
    /\ session' = [session EXCEPT !.grace = FALSE, !.stopping = TRUE]
    /\ talk' = Stopped(talk) /\ held' = <<>>
    /\ UNCHANGED <<browserVars, path, toHost, toBrowser, far, alive, chain,
                   done, seen, cuts>>

\* then the sockets of a session that was stopped by request are closed
StopSettles ==
    /\ session.stopping
    /\ session' = [session EXCEPT !.stopping = FALSE]
    /\ CloseFar(IF session.known THEN {} ELSE session.sockets)
    /\ UNCHANGED <<browserVars, path, toHost, alive, talk, held, chain, done,
                   seen, cuts>>

\* POST /api/stop: the session is forgotten at once
ApiStop ==
    /\ MayEnd("api") /\ session.known /\ ~session.expired /\ talk.id # 0
    /\ session' = [session EXCEPT !.known = FALSE, !.grace = FALSE,
                                  !.stopping = TRUE]
    /\ talk' = Stopped(talk) /\ held' = <<>>
    /\ UNCHANGED <<browserVars, path, toHost, toBrowser, far, alive, chain,
                   done, seen, cuts>>

\* the expiry timers of the sockets
Expire ==
    /\ MayEnd("expiry") /\ ~session.expired
    /\ session' = [session EXCEPT !.expired = TRUE]
    /\ CloseFar(session.sockets)
    /\ UNCHANGED <<browserVars, path, toHost, alive, talk, held, chain, done,
                   seen, cuts>>

-----------------------------------------------------------------------------
(* The conversation, as far as sockets see it.                             *)

\* what open(), begin() or a stop in the chain may make of the conversation:
\* a session.begin that finds a preparation running cancels it and waits
Obeyed(n) ==
    IF n = 1
    THEN {[talk EXCEPT !.opened = TRUE, !.plan = p] : p \in {"none", "running"}}
    ELSE IF n \in Controls THEN {Stopped(talk)}
    ELSE IF talk.plan = "running" THEN {[talk EXCEPT !.plan = "ending"]}
    ELSE {talk, [talk EXCEPT !.plan = "none"]}

\* handle(): a stopped conversation, or one that was never opened, closes
\* the socket it is attached to; the chain waits while a command does
Handle ==
    /\ chain # <<>> /\ talk.plan # "ending"
    /\ chain' = Tail(chain)
    /\ LET c == Head(chain)
           mine == c.talk = talk.id
       IN IF mine /\ ~talk.stopped /\ (talk.opened \/ c.n \in {1} \cup Controls)
          THEN \E t \in Obeyed(c.n) : Act(c.n, t)
          ELSE IF mine THEN RefuseTalk
          ELSE UNCHANGED <<far, toBrowser, talk, held, done>>
    /\ UNCHANGED <<browserVars, path, toHost, alive, session, seen, cuts>>

\* the preparation ends, by itself or because it was cancelled; a begin that
\* waited for it goes live, or fails and leaves it free to be retried
PreparationEnds ==
    /\ Preparing
    /\ \E p \in IF talk.plan = "ending" THEN {"none", "over"} ELSE {"over"} :
         talk' = [talk EXCEPT !.plan = p]
    /\ UNCHANGED <<browserVars, path, toHost, toBrowser, far, alive, session,
                   held, chain, done, seen, cuts>>

\* send(): written to the attached socket, or held, dropping the oldest
EmitFrame ==
    LET f == [type |-> "frame", talk |-> talk.id, n |-> talk.frames + 1]
        ready == talk.socket # None /\ far[talk.socket] = "member"
    IN /\ talk.opened /\ ~talk.stopped /\ talk.frames < MaxFrames
       /\ talk' = [talk EXCEPT !.frames = @ + 1]
       /\ IF ready
          THEN toBrowser' = Carry(toBrowser, talk.socket, f) /\ UNCHANGED held
          ELSE /\ held' = Append(IF Len(held) >= MaxHeld THEN Tail(held) ELSE held, f)
               /\ UNCHANGED toBrowser
       /\ UNCHANGED <<browserVars, path, toHost, far, alive, session, chain,
                      done, seen, cuts>>

-----------------------------------------------------------------------------
\* the network: a path dies and takes with it what was on the way
Cut(s) ==
    /\ cuts < MaxCuts /\ Upsets < MaxUpsets /\ path[s] /\ near[s] \in {"connecting", "open", "closing"}
    /\ path' = [path EXCEPT ![s] = FALSE] /\ cuts' = cuts + 1
    /\ toHost' = [toHost EXCEPT ![s] = <<>>]
    /\ toBrowser' = [toBrowser EXCEPT ![s] = <<>>]
    /\ UNCHANGED <<browserVars, hostVars, seen>>

BrowserStep ==
    \/ RetryDue \/ WatchdogFires \/ SendCommand \/ RefuseHost \/ Disconnect
    \/ \E s \in Sockets : SocketOpens(s) \/ SocketGone(s) \/ BrowserReceive(s)

HostStep(s) ==
    \/ HostAuthenticates(s) \/ HostReceives(s) \/ HostClosed(s)
    \/ AuthTimeout(s) \/ Heartbeat(s) \/ Pong(s)

ConversationStep ==
    \/ GraceEnds \/ StopSettles \/ ApiStop \/ Expire
    \/ Handle \/ PreparationEnds \/ EmitFrame

Next ==
    \/ BrowserStep \/ ConversationStep
    \/ \E s \in Sockets : HostStep(s) \/ Cut(s)

Spec == Init /\ [][Next]_vars

-----------------------------------------------------------------------------
(* A command is acted on at most once, whatever happens to sockets, and in *)
(* the order it was sent, with two exceptions: a report overtakes in the   *)
(* place of an older one, and a planning control overtakes what is still   *)
(* in the chain (flushQueuedCommands, queueCommand, isPlanningControl, the *)
(* gateway's chain and its refusal of a second socket).  And the browser   *)
(* sees the frames of a conversation in order and none twice: held output  *)
(* goes before newer output, and a socket that was given up does not       *)
(* deliver late (sendFrame, flushOutbound, onmessage).                     *)
DeliveredOnce ==
    /\ \A i, j \in DOMAIN done : i < j =>
        \/ done[i].n < done[j].n
        \/ /\ done[i].n > done[j].n /\ done[i].n \in Keyed
           /\ \E k \in Keyed : k < done[j].n
        \/ done[i].n > done[j].n /\ done[i].n \in Controls
    /\ \A i, j \in DOMAIN seen : i < j =>
        \/ seen[i].talk < seen[j].talk
        \/ seen[i].talk = seen[j].talk /\ seen[i].n < seen[j].n

(* At most one socket of a session is admitted at a time, and the          *)
(* conversation writes to no other (the takeover in the message handler),  *)
(* nor to one whose ping is unanswered: a path that died loses at most one *)
(* heartbeat interval of output (app.ts:728).                              *)
SoleOwner ==
    /\ \A s, u \in Sockets : far[s] = "member" /\ far[u] = "member" => s = u
    /\ talk.socket # None => talk.socket = session.active
    /\ talk.socket # None /\ far[talk.socket] = "member" => alive[talk.socket]

(* A transport without a socket has a retry pending or has told the user   *)
(* that the connection is over (handleSocketFailure, scheduleReconnect).   *)
NeverSilentlyStuck ==
    browser.sock = None /\ ~browser.left => browser.timer \/ browser.told

(* A conversation left without a socket is stopped or about to be: the     *)
(* grace timer survives refused attempts, takeovers and stops in progress, *)
(* and only an admitted socket clears it (scheduleConversationStop).       *)
AbandonedStops ==
    talk.id # 0 /\ ~talk.stopped /\ session.sockets = {} => session.grace
=============================================================================
