----------------------------- MODULE PiReadiness -----------------------------
(***************************************************************************)
(* The readiness probe of the host (pi/readiness-probe.ts): one Pi client  *)
(* for the settings asked for last, retired before the next one is made,   *)
(* and a snapshot that a caller gets at once, whatever is in flight.       *)
(*                                                                         *)
(* A reconciliation runs to its only await, the end of the old client; the *)
(* step after it also runs what its promise settles.                       *)
(***************************************************************************)
EXTENDS Integers, FiniteSets, Sequences

CONSTANTS
    RpKeys,         \* settings: model and thinking level
    RpClients,      \* bound on the entries made
    RpAsks          \* bound on the probe calls and expired snapshots

Entries == 1..RpClients
None == 0
Results == {"ready", "down"}

VARIABLE rp

\* an entry: its key, its client, what it last reported and what it says now
Entry == [key |-> "", client |-> "none", value |-> "", downs |-> 0,
          fresh |-> FALSE, flight |-> FALSE, last |-> <<>>]

Init ==
    rp = [entry |-> [e \in Entries |-> Entry], made |-> 0, current |-> None,
          desired |-> "", reconciling |-> FALSE, closed |-> FALSE,
          shutdown |-> "no", asks |-> 0, told |-> [key |-> "", value |-> "", entry |-> None]]

\* startProbe: one probe of an entry at a time
StartProbe(p, e) == IF p.closed THEN p ELSE [p EXCEPT !.entry[e].flight = TRUE]

\* the client may not be creatable
Make(p) ==
    LET e == p.made + 1
        q == [p EXCEPT !.made = e, !.current = e, !.reconciling = FALSE,
                       !.entry[e].key = p.desired]
    IN {StartProbe([q EXCEPT !.entry[e].client = "open"], e),
        [q EXCEPT !.entry[e].value = "down", !.entry[e].fresh = TRUE]}

\* mutant: the old client is retired in the background
MutantReconcile(p) ==
    IF p.closed \/ p.reconciling \/ p.made = RpClients THEN {p}
    ELSE IF p.current # None /\ p.entry[p.current].client = "open"
    THEN IF p.entry[p.current].key = p.desired THEN {p}
         ELSE Make([p EXCEPT !.entry[p.current].client = "closing"])
    ELSE Make(p)

\* scheduleReconcile, reconcile up to its await
Reconcile(p) ==
    IF p.closed \/ p.reconciling \/ p.made = RpClients THEN {p}
    ELSE IF p.current # None /\ p.entry[p.current].client = "open"
    THEN IF p.entry[p.current].key = p.desired THEN {p}
         ELSE {[p EXCEPT !.entry[p.current].client = "closing", !.current = None,
                         !.reconciling = TRUE]}
    ELSE Make([p EXCEPT !.current = None])

Expired(v) == v.value = "" \/ ~v.fresh

\* probe: the snapshot of what was asked for, or that it is being checked
Probe(k) ==
    /\ rp.asks < RpAsks
    /\ LET p == [rp EXCEPT !.asks = @ + 1]
           changed == [p EXCEPT !.desired = k]
       IN \E q \in IF p.closed THEN {p}
                   ELSE IF p.desired # k THEN Reconcile(changed) ELSE {p} :
          LET cur == IF q.closed THEN None ELSE q.current
              mine == cur # None /\ q.entry[cur].key = k
              value == IF mine THEN q.entry[cur].value ELSE ""
              t == [q EXCEPT !.told = [key |-> k, value |-> value,
                                       entry |-> IF mine THEN cur ELSE None]]
          IN rp' \in IF ~mine \/ ~Expired(q.entry[cur]) THEN {t}
                     ELSE IF q.entry[cur].client = "open" THEN {StartProbe(t, cur)}
                     ELSE Reconcile(t)

\* the old client is gone; the settings may have changed again meanwhile
Retired ==
    \E e \in Entries :
       /\ rp.entry[e].client = "closing"
       /\ LET p == [rp EXCEPT !.entry[e].client = "closed"] IN
          rp' \in IF ~rp.reconciling THEN {p}
                  ELSE IF rp.closed THEN {[p EXCEPT !.reconciling = FALSE]}
                  ELSE Make(p)

\* accept: one failure does not take a ready client down
Accept(v, result) ==
    LET checked == [v EXCEPT !.fresh = TRUE, 
                               !.last = IF @ = <<>> THEN <<result>> ELSE <<result, @[1]>>] IN
    IF v.value = "ready" /\ result # "ready" /\ v.downs = 0
    THEN [checked EXCEPT !.downs = 1]
    ELSE [checked EXCEPT !.value = result, !.downs = 0]

Answer(e) ==
    /\ rp.entry[e].flight
    /\ \E result \in Results :
         LET p == [rp EXCEPT !.entry[e].flight = FALSE] IN
         rp' = IF rp.current = e /\ ~rp.closed /\ rp.desired = p.entry[e].key
               THEN [p EXCEPT !.entry[e] = Accept(@, result)] ELSE p

\* the snapshot outlives its time
Expires ==
    /\ rp.current # None /\ rp.entry[rp.current].fresh /\ rp.asks < RpAsks
    /\ rp' = [rp EXCEPT !.entry[rp.current].fresh = FALSE, !.asks = @ + 1]

Shutdown ==
    /\ ~rp.closed
    /\ rp' = [rp EXCEPT !.closed = TRUE, !.desired = "", !.shutdown = "waiting"]

ShutdownGoesOn ==
    /\ ~rp.reconciling
    /\ \/ /\ rp.shutdown = "waiting"
          /\ rp' = IF rp.current # None /\ rp.entry[rp.current].client = "open"
                   THEN [rp EXCEPT !.shutdown = "closing", !.current = None,
                                   !.entry[rp.current].client = "closing"]
                   ELSE [rp EXCEPT !.shutdown = "done", !.current = None]
       \/ /\ rp.shutdown = "closing"
          /\ \A e \in Entries : rp.entry[e].client # "closing"
          /\ rp' = [rp EXCEPT !.shutdown = "done"]

Next ==
    \/ \E k \in RpKeys : Probe(k)
    \/ \E e \in Entries : Answer(e)
    \/ Retired \/ Expires \/ Shutdown \/ ShutdownGoesOn

Spec == Init /\ [][Next]_rp

-----------------------------------------------------------------------------
\* What a caller is told of Pi is about the settings it asked for: "ready" was
\* said by the client of those settings and not taken back twice.  Settings may
\* change at any time, and change again while a client is being retired, but at
\* most one client lives, and none after shutdown (readiness-probe.ts:48-52).
ReadinessIsCurrent ==
    /\ rp.told.value # "" => rp.entry[rp.told.entry].key = rp.told.key
    /\ rp.current # None =>
         LET v == rp.entry[rp.current] IN
         /\ v.value = "ready" => \E i \in DOMAIN v.last : v.last[i] = "ready"
         /\ Len(v.last) = 2 /\ v.value = "down" => v.last[1] = "down"
    /\ Cardinality({e \in Entries : rp.entry[e].client \in {"open", "closing"}}) <= 1
    /\ rp.shutdown = "done" => \A e \in Entries : rp.entry[e].client \in {"none", "closed"}
=============================================================================
