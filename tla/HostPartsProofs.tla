-------------------------- MODULE HostPartsProofs --------------------------
(***************************************************************************)
(* Proofs about the parts of MCParts that run in the host and the sidecar, *)
(* for any bounds: each invariant is about the part that the behaviour     *)
(* chose, and the other parts stay off.                                    *)
(***************************************************************************)
EXTENDS MCParts, FiniteSetTheorems, SequenceTheorems, TLAPS

(* A step is a step of the part that was chosen; the others stay as they are. *)
LEMMA StepOfPart ==
    ASSUME [PartsNext]_<<vars, parts>>
    PROVE  /\ subject' = subject
           /\ pi' = pi \/ (subject = "pi" /\ Pi!Next)
           /\ rp' = rp \/ (subject = "rp" /\ Rp!Next)
           /\ hl' = hl \/ (subject = "hl" /\ Hl!Next)
           /\ ut' = ut \/ (subject = "ut" /\ Ut!Next)
           /\ qw' = qw \/ (subject = "qw" /\ Qw!Next)
           /\ cv' = cv \/ (subject = "cv" /\ Cv!Next)
<1>1. subject' = subject
  BY DEF PartsNext, parts
<1>2. pi' = pi \/ (subject = "pi" /\ Pi!Next)
  BY DEF PartsNext, parts
<1>3. rp' = rp \/ (subject = "rp" /\ Rp!Next)
  BY DEF PartsNext, parts
<1>4. hl' = hl \/ (subject = "hl" /\ Hl!Next)
  BY DEF PartsNext, parts
<1>5. ut' = ut \/ (subject = "ut" /\ Ut!Next)
  BY DEF PartsNext, parts
<1>6. qw' = qw \/ (subject = "qw" /\ Qw!Next)
  BY DEF PartsNext, parts
<1>7. cv' = cv \/ (subject = "cv" /\ Cv!Next)
  BY DEF PartsNext, parts
<1> QED BY <1>1, <1>2, <1>3, <1>4, <1>5, <1>6, <1>7

-----------------------------------------------------------------------------
(* The readiness probe (PiReadiness).  The invariant is about a state p,   *)
(* because a probe goes through several before it is the next one.         *)

ProbeEntry ==
    [key : RpKeys \cup {""}, client : {"none", "open", "closing", "closed"},
     value : {"", "ready", "down"}, downs : {0, 1}, fresh : BOOLEAN,
     flight : BOOLEAN, last : Seq(Rp!Results)]

ProbeState ==
    [entry : [Rp!Entries -> ProbeEntry], made : Nat, current : Rp!Entries \cup {Rp!None},
     desired : RpKeys \cup {""}, reconciling : BOOLEAN, closed : BOOLEAN,
     shutdown : {"no", "waiting", "closing", "done"}, asks : Nat,
     told : [key : RpKeys \cup {""}, value : {"", "ready", "down"},
             entry : Rp!Entries \cup {Rp!None}]]

\* what an entry reports is what its client said last, or the time before
Consistent(v) ==
    /\ v.last = <<>> => v.value # "ready"
    /\ v.value = "ready" /\ v.downs = 0 => v.last # <<>> /\ v.last[1] = "ready"
    /\ v.value = "ready" /\ v.downs = 1 => Len(v.last) = 2 /\ v.last[2] = "ready"
    /\ v.value = "" => v.last = <<>>
    /\ v.value = "down" /\ v.last # <<>> => v.last[1] = "down"

\* the only client that is open is the current one, and it is retired before
\* another is made
OneClient(p) ==
    /\ \A e \in Rp!Entries :
          /\ p.entry[e].client = "open" => p.current = e
          /\ p.entry[e].client = "closing" =>
                /\ p.current = Rp!None
                /\ p.reconciling \/ p.shutdown = "closing"
    /\ \A e, f \in Rp!Entries :
          p.entry[e].client = "closing" /\ p.entry[f].client = "closing" => e = f

\* entries are made one after the other, and none when the last bound is reached
Making(p) ==
    /\ p.made <= RpClients
    /\ p.reconciling => p.made < RpClients /\ p.current = Rp!None
    /\ p.current # Rp!None => p.current <= p.made
    /\ \A e \in Rp!Entries : e > p.made => p.entry[e] = Rp!Entry

\* what was told is about an entry that exists
Told(p) ==
    p.told.value # "" =>
        /\ p.told.entry \in Rp!Entries
        /\ p.told.entry <= p.made
        /\ p.entry[p.told.entry].key = p.told.key

\* after the shutdown nothing is open any more
Closing(p) ==
    /\ p.shutdown # "no" <=> p.closed
    /\ p.shutdown \in {"closing", "done"} => ~p.reconciling /\ p.current = Rp!None
    /\ p.shutdown = "done" =>
          \A e \in Rp!Entries : p.entry[e].client \in {"none", "closed"}

ReadinessInv(p) ==
    /\ p \in ProbeState
    /\ \A e \in Rp!Entries : Consistent(p.entry[e])
    /\ OneClient(p)
    /\ Making(p)
    /\ Told(p)
    /\ Closing(p)

LEMMA EntryConsistent == Consistent(Rp!Entry) /\ Rp!Entry \in ProbeEntry
  BY DEF Consistent, Rp!Entry, ProbeEntry

LEMMA NoEntry ==
    /\ Rp!None \notin Rp!Entries
    /\ \A e \in Rp!Entries : e \in Nat
  BY DEF Rp!None, Rp!Entries

LEMMA ProbeFields ==
    ASSUME NEW p, ReadinessInv(p)
    PROVE  /\ p \in ProbeState
           /\ p.made \in Nat /\ p.asks \in Nat
           /\ p.entry \in [Rp!Entries -> ProbeEntry]
           /\ p.current \in Rp!Entries \cup {Rp!None}
           /\ p.reconciling \in BOOLEAN /\ p.closed \in BOOLEAN
           /\ p.shutdown \in {"no", "waiting", "closing", "done"}
           /\ \A e \in Rp!Entries : p.entry[e] \in ProbeEntry
  BY DEF ReadinessInv, ProbeState

(* What only concerns the count of asks and what is asked for now.          *)
LEMMA AskCounts ==
    ASSUME NEW p, ReadinessInv(p)
    PROVE  ReadinessInv([p EXCEPT !.asks = @ + 1])
<1>1. ASSUME NEW n \in Nat PROVE ReadinessInv([p EXCEPT !.asks = n])
  <2> DEFINE q == [p EXCEPT !.asks = n]
  <2>1. q \in ProbeState
    BY DEF ReadinessInv, ProbeState
  <2> QED BY <2>1 DEF ReadinessInv, ProbeState, OneClient, Making, Told, Closing
<1>2. p.asks + 1 \in Nat
  BY ProbeFields
<1> QED BY <1>1, <1>2

LEMMA AskKeeps ==
    ASSUME NEW p, ReadinessInv(p), NEW k \in RpKeys
    PROVE  /\ ReadinessInv([p EXCEPT !.asks = @ + 1])
           /\ ReadinessInv([p EXCEPT !.desired = k])
<1>1. ReadinessInv([p EXCEPT !.desired = k])
  <2> DEFINE q == [p EXCEPT !.desired = k]
  <2>1. q \in ProbeState
    BY DEF ReadinessInv, ProbeState
  <2> QED BY <2>1 DEF ReadinessInv, ProbeState, OneClient, Making, Told, Closing
<1> QED BY <1>1, AskCounts

(* An entry that changes, but not in what is known of its client.          *)
LEMMA EntryKeeps ==
    ASSUME NEW p, ReadinessInv(p), NEW e \in Rp!Entries, e <= p.made, NEW v \in ProbeEntry,
           Consistent(v), v.key = p.entry[e].key, v.client = p.entry[e].client
    PROVE  ReadinessInv([p EXCEPT !.entry[e] = v])
<1> DEFINE q == [p EXCEPT !.entry[e] = v]
<1>1. p \in ProbeState
  BY DEF ReadinessInv
<1>2. q \in ProbeState
  BY <1>1 DEF ProbeState
<1>3. /\ q.made = p.made /\ q.current = p.current /\ q.reconciling = p.reconciling
      /\ q.closed = p.closed /\ q.shutdown = p.shutdown /\ q.told = p.told
      /\ q.entry[e] = v
      /\ \A f \in Rp!Entries : f # e => q.entry[f] = p.entry[f]
  BY <1>1 DEF ProbeState
<1> HIDE DEF q
<1>4. \A f \in Rp!Entries :
        /\ q.entry[f].key = p.entry[f].key /\ q.entry[f].client = p.entry[f].client
        /\ Consistent(q.entry[f])
  BY <1>3 DEF ReadinessInv
<1>5. OneClient(q)
  BY <1>3, <1>4 DEF ReadinessInv, OneClient
<1>6. Making(q)
  <2>0. e \in Nat /\ p.made \in Nat
    BY ProbeFields, NoEntry
  <2>2. ASSUME NEW f \in Rp!Entries, f > p.made PROVE f # e
    BY <2>0, <2>2
  <2>1. ASSUME NEW f \in Rp!Entries, f > q.made PROVE q.entry[f] = Rp!Entry
    BY <1>1, <1>3, <2>1, <2>2 DEF ReadinessInv, Making
  <2> QED BY <1>3, <2>1 DEF ReadinessInv, Making
<1>7. Told(q)
  BY <1>3, <1>4 DEF ReadinessInv, Told
<1>8. Closing(q)
  BY <1>3, <1>4 DEF ReadinessInv, Closing
<1>9. ReadinessInv(q)
  BY <1>2, <1>4, <1>5, <1>6, <1>7, <1>8 DEF ReadinessInv
<1> QED BY <1>9 DEF q

(* A probe is started, of the client of an entry that was made.            *)
LEMMA StartProbeKeeps ==
    ASSUME NEW p, ReadinessInv(p), NEW e \in Rp!Entries, e <= p.made
    PROVE  ReadinessInv(Rp!StartProbe(p, e))
<1> DEFINE v == [p.entry[e] EXCEPT !.flight = TRUE]
<1>1. p.entry[e] \in ProbeEntry /\ Consistent(p.entry[e])
  BY DEF ReadinessInv, ProbeState
<1>2. /\ v \in ProbeEntry /\ Consistent(v)
      /\ v.key = p.entry[e].key /\ v.client = p.entry[e].client
  BY <1>1 DEF ProbeEntry, Consistent
<1>3. Rp!StartProbe(p, e) \in {p, [p EXCEPT !.entry[e] = v]}
  BY DEF Rp!StartProbe
<1> HIDE DEF v
<1> QED BY <1>2, <1>3, EntryKeeps

(* The client that was retired is gone.                                    *)
LEMMA MadeKeeps ==
    ASSUME RpClients \in Nat, NEW p, ReadinessInv(p), p.made < RpClients, ~p.closed,
           p.current = Rp!None, \A e \in Rp!Entries : p.entry[e].client \in {"none", "closed"},
           NEW q \in Rp!Make(p)
    PROVE  ReadinessInv(q)
<1> DEFINE e == p.made + 1
<1>0. p \in ProbeState /\ Making(p) /\ p.made \in Nat
  BY DEF ReadinessInv, ProbeState
<1>1. /\ e \in Rp!Entries /\ e # Rp!None /\ p.entry[e] = Rp!Entry /\ e \in Nat
      /\ e <= RpClients /\ e > p.made
  BY <1>0 DEF Making, Rp!Entries, Rp!None
<1>2. /\ \A f \in Rp!Entries : f > e => f > p.made
      /\ \A f \in Rp!Entries : f <= p.made => (f <= e /\ f # e)
  BY <1>0 DEF Rp!Entries
<1>3. PICK v \in ProbeEntry :
        /\ v.key = p.desired /\ v.client \in {"none", "open"} /\ Consistent(v)
        /\ q = [p EXCEPT !.made = e, !.current = e, !.reconciling = FALSE, !.entry[e] = v]
  <2> DEFINE a == [Rp!Entry EXCEPT !.key = p.desired, !.client = "open", !.flight = TRUE]
             b == [Rp!Entry EXCEPT !.key = p.desired, !.value = "down", !.fresh = TRUE]
  <2>1. a \in ProbeEntry /\ b \in ProbeEntry /\ Consistent(a) /\ Consistent(b)
    BY EntryConsistent DEF Consistent, Rp!Entry, ProbeEntry, ReadinessInv, ProbeState
  <2>2. p.entry \in [Rp!Entries -> ProbeEntry]
    BY <1>0 DEF ProbeState
  <2>3. \/ q = [p EXCEPT !.made = e, !.current = e, !.reconciling = FALSE, !.entry[e] = a]
        \/ q = [p EXCEPT !.made = e, !.current = e, !.reconciling = FALSE, !.entry[e] = b]
    <3> HIDE DEF e
    <3>1. q \in LET r == [p EXCEPT !.made = e, !.current = e, !.reconciling = FALSE,
                                   !.entry[e].key = p.desired]
                IN  {Rp!StartProbe([r EXCEPT !.entry[e].client = "open"], e),
                     [r EXCEPT !.entry[e].value = "down", !.entry[e].fresh = TRUE]}
      BY DEF Rp!Make, e
    <3>2. /\ DOMAIN p.entry = Rp!Entries /\ p.entry[e] = Rp!Entry
      BY <1>1, <2>2
    <3> DEFINE r == [p EXCEPT !.made = e, !.current = e, !.reconciling = FALSE,
                              !.entry[e].key = p.desired]
    <3>3. r.closed = p.closed /\ r.entry = [p.entry EXCEPT ![e].key = p.desired]
      BY <1>0 DEF ProbeState
    <3>4. ASSUME NEW X, NEW Y, NEW Z
          PROVE  [[[p EXCEPT !.made = e, !.current = e, !.reconciling = FALSE, !.entry = X]
                      EXCEPT !.entry = Y] EXCEPT !.entry = Z]
                   = [p EXCEPT !.made = e, !.current = e, !.reconciling = FALSE, !.entry = Z]
      BY <1>0 DEF ProbeState
    <3>5. /\ [[[p.entry EXCEPT ![e].key = p.desired] EXCEPT ![e].client = "open"]
                  EXCEPT ![e].flight = TRUE] = [p.entry EXCEPT ![e] = a]
          /\ [[[p.entry EXCEPT ![e].key = p.desired] EXCEPT ![e].value = "down"]
                  EXCEPT ![e].fresh = TRUE] = [p.entry EXCEPT ![e] = b]
      BY <2>2, <3>2 DEF Rp!Entry
    <3> DEFINE Y == [p.entry EXCEPT ![e].key = p.desired]
               R(Z) == [p EXCEPT !.made = e, !.current = e, !.reconciling = FALSE, !.entry = Z]
    <3>7. /\ [r EXCEPT !.entry[e].client = "open", !.entry[e].flight = TRUE]
               = R([p.entry EXCEPT ![e] = a])
          /\ [r EXCEPT !.entry[e].value = "down", !.entry[e].fresh = TRUE]
               = R([p.entry EXCEPT ![e] = b])
      <4>1. \A W : [R(Y) EXCEPT !.entry = W].entry = W
        BY <1>0 DEF ProbeState
      <4>2. R(Y).entry = Y
        BY <1>0 DEF ProbeState
      <4>3. r = R(Y)
        BY <1>0 DEF ProbeState
      <4> HIDE DEF r, a, b
      <4>4. [r EXCEPT !.entry[e].client = "open", !.entry[e].flight = TRUE]
              = [[R(Y) EXCEPT !.entry = [Y EXCEPT ![e].client = "open"]] EXCEPT
                    !.entry = [[Y EXCEPT ![e].client = "open"] EXCEPT ![e].flight = TRUE]]
        BY <4>1, <4>2, <4>3
      <4>5. [r EXCEPT !.entry[e].value = "down", !.entry[e].fresh = TRUE]
              = [[R(Y) EXCEPT !.entry = [Y EXCEPT ![e].value = "down"]] EXCEPT
                    !.entry = [[Y EXCEPT ![e].value = "down"] EXCEPT ![e].fresh = TRUE]]
        BY <4>1, <4>2, <4>3
      <4>6. ASSUME NEW V, NEW W
            PROVE  [[R(Y) EXCEPT !.entry = V] EXCEPT !.entry = W] = R(W)
        BY <3>4
      <4>7. /\ [[Y EXCEPT ![e].client = "open"] EXCEPT ![e].flight = TRUE]
                  = [p.entry EXCEPT ![e] = a]
            /\ [[Y EXCEPT ![e].value = "down"] EXCEPT ![e].fresh = TRUE]
                  = [p.entry EXCEPT ![e] = b]
        BY <3>5
      <4> DEFINE A == [Y EXCEPT ![e].client = "open"]
                 B == [Y EXCEPT ![e].value = "down"]
                 C == [A EXCEPT ![e].flight = TRUE]
                 D == [B EXCEPT ![e].fresh = TRUE]
                 F == [p.entry EXCEPT ![e] = a]
                 G == [p.entry EXCEPT ![e] = b]
      <4>8. /\ [r EXCEPT !.entry[e].client = "open", !.entry[e].flight = TRUE]
                  = [[R(Y) EXCEPT !.entry = A] EXCEPT !.entry = C]
            /\ [r EXCEPT !.entry[e].value = "down", !.entry[e].fresh = TRUE]
                  = [[R(Y) EXCEPT !.entry = B] EXCEPT !.entry = D]
        BY <4>4, <4>5
      <4>9. C = F /\ D = G
        BY <4>7
      <4> HIDE DEF R, Y, A, B, C, D, F, G
      <4>10. /\ [[R(Y) EXCEPT !.entry = A] EXCEPT !.entry = C] = R(F)
             /\ [[R(Y) EXCEPT !.entry = B] EXCEPT !.entry = D] = R(G)
        BY <4>6, <4>9
      <4> QED BY <4>8, <4>10 DEF F, G
    <3>6. Rp!StartProbe([r EXCEPT !.entry[e].client = "open"], e)
             = [r EXCEPT !.entry[e].client = "open", !.entry[e].flight = TRUE]
      BY <1>0, <3>3 DEF Rp!StartProbe, ProbeState
    <3> HIDE DEF r, Y, R
    <3> QED BY <3>1, <3>6, <3>7 DEF r, R
  <2>4. a.client = "open" /\ b.client = "none" /\ a.key = p.desired /\ b.key = p.desired
    BY DEF Rp!Entry
  <2> HIDE DEF a, b
  <2> QED BY <2>1, <2>3, <2>4
<1> HIDE DEF e
<1>4. q \in ProbeState
  BY <1>0, <1>1, <1>3 DEF ProbeState
<1>5. /\ q.made = e /\ q.current = e /\ q.reconciling = FALSE /\ q.closed = p.closed
      /\ q.shutdown = p.shutdown /\ q.told = p.told
      /\ q.entry[e] = v
      /\ \A f \in Rp!Entries : f # e => q.entry[f] = p.entry[f]
  BY <1>0, <1>1, <1>3 DEF ProbeState
<1>6. \A f \in Rp!Entries : Consistent(q.entry[f])
  BY <1>3, <1>5 DEF ReadinessInv
<1>7. OneClient(q)
  BY <1>1, <1>3, <1>5 DEF OneClient
<1>8. Making(q)
  <2>1. ASSUME NEW f \in Rp!Entries, f > q.made PROVE q.entry[f] = Rp!Entry
    BY <1>0, <1>1, <1>2, <1>5, <2>1 DEF Making, Rp!Entries
  <2> QED BY <1>0, <1>1, <1>5, <2>1 DEF Making
<1>9. Told(q)
  <2> SUFFICES ASSUME p.told.value # ""
               PROVE  /\ p.told.entry \in Rp!Entries /\ p.told.entry <= e
                      /\ q.entry[p.told.entry].key = p.told.key
    BY <1>5 DEF Told
  <2>1. p.told.entry \in Rp!Entries /\ p.told.entry <= p.made
        /\ p.entry[p.told.entry].key = p.told.key
    BY DEF ReadinessInv, Told
  <2>2. p.told.entry <= e /\ p.told.entry # e
    BY <1>2, <2>1
  <2>3. q.entry[p.told.entry] = p.entry[p.told.entry]
    BY <1>5, <2>1, <2>2
  <2> QED BY <2>1, <2>2, <2>3
<1>10. Closing(q)
  BY <1>1, <1>5 DEF ReadinessInv, Closing
<1> QED BY <1>4, <1>6, <1>7, <1>8, <1>9, <1>10 DEF ReadinessInv

(* A reconciliation, up to the end of the old client.                      *)
LEMMA ReconcileKeeps ==
    ASSUME RpClients \in Nat, NEW p, ReadinessInv(p), NEW q \in Rp!Reconcile(p)
    PROVE  ReadinessInv(q)
<1>1. CASE q = p
  BY <1>1
<1>2. CASE /\ ~(p.closed \/ p.reconciling \/ p.made = RpClients)
           /\ p.current # Rp!None /\ p.entry[p.current].client = "open"
           /\ q = [p EXCEPT !.entry[p.current].client = "closing", !.current = Rp!None,
                            !.reconciling = TRUE]
  <2> DEFINE e == p.current
  <2>1. /\ e \in Rp!Entries /\ Rp!None \notin Rp!Entries /\ p.entry[e] \in ProbeEntry
        /\ p.shutdown = "no" /\ e <= p.made /\ p.made < RpClients
    <3>1. e \in Rp!Entries /\ Rp!None \notin Rp!Entries /\ p.entry[e] \in ProbeEntry
      BY <1>2, ProbeFields, NoEntry
    <3>2. p.shutdown = "no"
      BY <1>2, ProbeFields DEF ReadinessInv, Closing
    <3>3. e <= p.made /\ p.made < RpClients
      BY <1>2, ProbeFields DEF ReadinessInv, Making
    <3> QED BY <3>1, <3>2, <3>3
  <2> DEFINE v == [p.entry[e] EXCEPT !.client = "closing"]
  <2>2. v \in ProbeEntry /\ v.client = "closing" /\ v.key = p.entry[e].key /\ Consistent(v)
    BY <2>1 DEF ProbeEntry, Consistent, ReadinessInv
  <2>3. q = [p EXCEPT !.entry[e] = v, !.current = Rp!None, !.reconciling = TRUE]
    BY <1>2, ProbeFields DEF ProbeState
  <2> HIDE DEF v, e
  <2>4. q \in ProbeState
    BY <2>1, <2>2, <2>3, ProbeFields DEF ProbeState
  <2>5. /\ q.made = p.made /\ q.current = Rp!None /\ q.reconciling = TRUE
        /\ q.closed = p.closed /\ q.shutdown = p.shutdown /\ q.told = p.told
        /\ q.entry[e] = v
        /\ \A f \in Rp!Entries : f # e => q.entry[f] = p.entry[f]
    BY <2>1, <2>3, ProbeFields DEF ProbeState
  <2>6. \A f \in Rp!Entries : Consistent(q.entry[f])
    BY <2>2, <2>5 DEF ReadinessInv
  <2>7. OneClient(q)
    <3>1. \A f \in Rp!Entries : /\ f # e => p.entry[f].client \notin {"open", "closing"}
      BY <1>2, <2>1 DEF e, ReadinessInv, OneClient
    <3> QED BY <2>1, <2>2, <2>5, <3>1 DEF OneClient
  <2>8. Making(q)
    <3>1. ASSUME NEW f \in Rp!Entries, f > p.made PROVE q.entry[f] = Rp!Entry
      <4>0. e \in Nat /\ p.made \in Nat
        BY <2>1, ProbeFields, NoEntry
      <4>1. f # e
        BY <2>1, <3>1, <4>0
      <4> QED BY <2>5, <3>1, <4>1 DEF ReadinessInv, Making
    <3> QED BY <2>1, <2>5, <3>1, ProbeFields DEF Making
  <2>9. Told(q)
    BY <2>2, <2>5 DEF Told, ReadinessInv
  <2>10. Closing(q)
    BY <1>2, <2>1, <2>5 DEF Closing, ReadinessInv
  <2> QED BY <2>4, <2>6, <2>7, <2>8, <2>9, <2>10 DEF ReadinessInv
<1>3. CASE /\ ~(p.closed \/ p.reconciling \/ p.made = RpClients)
           /\ ~(p.current # Rp!None /\ p.entry[p.current].client = "open")
           /\ q \in Rp!Make([p EXCEPT !.current = Rp!None])
  <2> DEFINE b == [p EXCEPT !.current = Rp!None]
  <2>1. p \in ProbeState
    BY DEF ReadinessInv
  <2>2. /\ b.made = p.made /\ b.current = Rp!None /\ b.closed = p.closed
        /\ b.entry = p.entry /\ b.reconciling = p.reconciling
        /\ b.shutdown = p.shutdown /\ b.told = p.told
    BY <2>1 DEF ProbeState
  <2>3. b \in ProbeState
    BY <2>1 DEF ProbeState
  <2>4. p.shutdown = "no"
    BY <1>3, <2>1 DEF ReadinessInv, Closing, ProbeState
  <2>5. ASSUME NEW f \in Rp!Entries PROVE p.entry[f].client \in {"none", "closed"}
    <3>1. p.entry[f].client \in {"none", "open", "closing", "closed"}
      BY ProbeFields DEF ProbeEntry
    <3>2. p.entry[f].client # "closing"
      BY <1>3, <2>4 DEF ReadinessInv, OneClient
    <3>3. p.entry[f].client = "open" => p.current = f
      BY DEF ReadinessInv, OneClient
    <3>4. p.entry[f].client # "open"
      BY <1>3, <3>3, NoEntry
    <3> QED BY <3>1, <3>2, <3>4
  <2>6. b.made < RpClients
    BY <1>3, <2>2, ProbeFields DEF ReadinessInv, Making
  <2>7. ReadinessInv(b)
    BY <1>3, <2>2, <2>3, <2>4, <2>5 DEF ReadinessInv, OneClient, Making, Told, Closing
  <2> HIDE DEF b
  <2>8. ~b.closed /\ b.current = Rp!None /\ q \in Rp!Make(b)
        /\ \A f \in Rp!Entries : b.entry[f].client \in {"none", "closed"}
    BY <1>3, <2>2, <2>5 DEF b
  <2> QED BY <2>6, <2>7, <2>8, MadeKeeps
<1> QED BY <1>1, <1>2, <1>3 DEF Rp!Reconcile

(* What a caller is told.                                                  *)
LEMMA ToldKeeps ==
    ASSUME NEW p, ReadinessInv(p), NEW k \in RpKeys, NEW v \in {"", "ready", "down"},
           NEW e \in Rp!Entries \cup {Rp!None},
           v # "" => (e \in Rp!Entries /\ e <= p.made /\ p.entry[e].key = k)
    PROVE  ReadinessInv([p EXCEPT !.told = [key |-> k, value |-> v, entry |-> e]])
<1> DEFINE u == [key |-> k, value |-> v, entry |-> e]
           q == [p EXCEPT !.told = u]
<1>1. /\ u \in [key : RpKeys \cup {""}, value : {"", "ready", "down"},
                entry : Rp!Entries \cup {Rp!None}]
      /\ u.key = k /\ u.value = v /\ u.entry = e
  OBVIOUS
<1> HIDE DEF u
<1>0. p \in ProbeState
  BY ProbeFields
<1>2. q \in ProbeState
  BY <1>0, <1>1 DEF ProbeState
<1>3. /\ q.made = p.made /\ q.current = p.current /\ q.reconciling = p.reconciling
      /\ q.closed = p.closed /\ q.shutdown = p.shutdown /\ q.told = u /\ q.entry = p.entry
  BY <1>0 DEF ProbeState
<1> HIDE DEF q
<1>4. OneClient(q) /\ Making(q) /\ Closing(q)
  BY <1>3 DEF ReadinessInv, OneClient, Making, Closing
<1>5. Told(q)
  BY <1>1, <1>3 DEF Told
<1>6. ReadinessInv(q)
  BY <1>2, <1>3, <1>4, <1>5 DEF ReadinessInv
<1> QED BY <1>6 DEF u, q

LEMMA CurrentIsMade ==
    ASSUME NEW p, ReadinessInv(p), p.current # Rp!None
    PROVE  /\ p.current \in Rp!Entries /\ p.current <= p.made
           /\ p.entry[p.current] \in ProbeEntry /\ Consistent(p.entry[p.current])
<1>1. p.current \in Rp!Entries
  BY ProbeFields
<1> QED BY <1>1, ProbeFields DEF ReadinessInv, Making

LEMMA ProbeKeeps ==
    ASSUME RpClients \in Nat, ReadinessInv(rp), NEW k \in RpKeys, Rp!Probe(k)
    PROVE  ReadinessInv(rp')
<1> DEFINE p == [rp EXCEPT !.asks = @ + 1]
           changed == [p EXCEPT !.desired = k]
<1>1. ReadinessInv(p) /\ ReadinessInv(changed)
  BY AskKeeps
<1> DEFINE cur(q) == IF q.closed THEN Rp!None ELSE q.current
           mine(q) == cur(q) # Rp!None /\ q.entry[cur(q)].key = k
           u(q) == [key |-> k, value |-> IF mine(q) THEN q.entry[cur(q)].value ELSE "",
                    entry |-> IF mine(q) THEN cur(q) ELSE Rp!None]
           t(q) == [q EXCEPT !.told = u(q)]
<1>2. PICK q \in (IF p.closed THEN {p}
                  ELSE IF p.desired # k THEN Rp!Reconcile(changed) ELSE {p}) :
        rp' \in IF (~mine(q) \/ ~Rp!Expired(q.entry[cur(q)])) THEN {t(q)}
                ELSE IF q.entry[cur(q)].client = "open" THEN {Rp!StartProbe(t(q), cur(q))}
                ELSE Rp!Reconcile(t(q))
  BY DEF Rp!Probe
<1> HIDE DEF p, changed
<1>3. ReadinessInv(q)
  BY <1>1, <1>2, ReconcileKeeps
<1>4. ReadinessInv(t(q))
  <2> DEFINE v == IF mine(q) THEN q.entry[cur(q)].value ELSE ""
             e == IF mine(q) THEN cur(q) ELSE Rp!None
  <2>1. CASE mine(q)
    <3>1. cur(q) = q.current /\ q.current # Rp!None /\ q.entry[cur(q)].key = k
      BY <2>1
    <3>2. /\ q.entry[cur(q)].value \in {"", "ready", "down"}
          /\ cur(q) \in Rp!Entries /\ cur(q) <= q.made
      BY <1>3, <3>1, CurrentIsMade DEF ProbeEntry
    <3>3. t(q) = [q EXCEPT !.told = [key |-> k, value |-> q.entry[cur(q)].value, entry |-> cur(q)]]
      BY <2>1
    <3> HIDE DEF cur, t
    <3>4. ReadinessInv([q EXCEPT !.told = [key |-> k, value |-> q.entry[cur(q)].value,
                                           entry |-> cur(q)]])
      BY <1>3, <3>1, <3>2, ToldKeeps
    <3> QED BY <3>3, <3>4
  <2>2. CASE ~mine(q)
    <3>3. t(q) = [q EXCEPT !.told = [key |-> k, value |-> "", entry |-> Rp!None]]
      BY <2>2
    <3> HIDE DEF cur, t
    <3>4. ReadinessInv([q EXCEPT !.told = [key |-> k, value |-> "", entry |-> Rp!None]])
      BY <1>3, ToldKeeps
    <3> QED BY <3>3, <3>4
  <2> QED BY <2>1, <2>2
<1>5. CASE mine(q)
  <2>1. q.current # Rp!None /\ cur(q) = q.current
    BY <1>5
  <2>2. cur(q) \in Rp!Entries /\ cur(q) <= q.made
    BY <1>3, <2>1, CurrentIsMade
  <2>3. t(q).made = q.made
    <3>1. q \in ProbeState
      BY <1>3, ProbeFields
    <3> QED BY <3>1 DEF ProbeState
  <2> HIDE DEF t, cur
  <2>4. rp' \in {t(q), Rp!StartProbe(t(q), cur(q))} \cup Rp!Reconcile(t(q))
    BY <1>2
  <2> QED BY <1>4, <2>2, <2>3, <2>4, ReconcileKeeps, StartProbeKeeps
<1>6. CASE ~mine(q)
  <2>1. rp' = t(q)
    BY <1>2, <1>6
  <2> HIDE DEF t
  <2> QED BY <1>4, <2>1
<1> QED BY <1>5, <1>6

(* The old client is gone, and its successor is made unless it was closed. *)
LEMMA RetiredKeeps ==
    ASSUME RpClients \in Nat, ReadinessInv(rp), Rp!Retired
    PROVE  ReadinessInv(rp')
<1>1. PICK e \in Rp!Entries :
        /\ rp.entry[e].client = "closing"
        /\ LET p == [rp EXCEPT !.entry[e].client = "closed"] IN
           rp' \in IF ~rp.reconciling THEN {p}
                   ELSE IF rp.closed THEN {[p EXCEPT !.reconciling = FALSE]}
                   ELSE Rp!Make(p)
  BY DEF Rp!Retired
<1> DEFINE v == [rp.entry[e] EXCEPT !.client = "closed"]
           p == [rp EXCEPT !.entry[e] = v]
<1>2. rp.entry[e] \in ProbeEntry /\ Consistent(rp.entry[e]) /\ e \in Nat /\ rp.made \in Nat
  BY ProbeFields, NoEntry DEF ReadinessInv
<1>3. v \in ProbeEntry /\ Consistent(v) /\ v.client = "closed" /\ v.key = rp.entry[e].key
  BY <1>2 DEF Consistent, ProbeEntry
<1>4. p = [rp EXCEPT !.entry[e].client = "closed"]
  OBVIOUS
<1> HIDE DEF v
<1>5. p \in ProbeState
  BY <1>3, ProbeFields DEF ProbeState
<1>0. rp \in ProbeState
  BY ProbeFields
<1>6. /\ p.made = rp.made /\ p.current = rp.current /\ p.reconciling = rp.reconciling
      /\ p.closed = rp.closed /\ p.shutdown = rp.shutdown /\ p.told = rp.told
      /\ p.entry[e] = v
      /\ \A f \in Rp!Entries : f # e => p.entry[f] = rp.entry[f]
  BY <1>0 DEF ProbeState
<1> HIDE DEF p
<1>7. rp.current = Rp!None
  BY <1>1 DEF ReadinessInv, OneClient
<1>8. e <= rp.made
  <2>0. Rp!Entry.client = "none"
    BY DEF Rp!Entry
  <2>1. rp.entry[e] # Rp!Entry
    BY <1>1, <2>0
  <2>2. ~(e > rp.made)
    BY <2>1 DEF ReadinessInv, Making
  <2> QED BY <1>2, <2>2
<1>9. ASSUME NEW f \in Rp!Entries PROVE p.entry[f].client \in {"none", "closed"}
  <2>1. CASE f = e
    BY <1>3, <1>6, <2>1
  <2>2. CASE f # e
    <3>1. rp.entry[f].client \in {"none", "open", "closing", "closed"}
      BY ProbeFields DEF ProbeEntry
    <3>2. rp.entry[f].client # "open"
      BY <1>7, NoEntry DEF ReadinessInv, OneClient
    <3>3. rp.entry[f].client # "closing"
      BY <1>1, <2>2 DEF ReadinessInv, OneClient
    <3> QED BY <1>6, <2>2, <3>1, <3>2, <3>3
  <2> QED BY <2>1, <2>2
<1>10. \A f \in Rp!Entries : Consistent(p.entry[f])
  BY <1>3, <1>6 DEF ReadinessInv
<1>11. Making(p)
  <2>1. ASSUME NEW f \in Rp!Entries, f > p.made PROVE p.entry[f] = Rp!Entry
    <3>1. f # e
      BY <1>2, <1>6, <1>8, <2>1
    <3> QED BY <1>6, <2>1, <3>1 DEF ReadinessInv, Making
  <2> QED BY <1>6, <2>1 DEF ReadinessInv, Making
<1>12. Told(p)
  BY <1>3, <1>6 DEF ReadinessInv, Told
<1>13. Closing(p)
  BY <1>6, <1>9 DEF ReadinessInv, Closing
<1>14. OneClient(p)
  BY <1>9 DEF OneClient
<1>15. ReadinessInv(p)
  BY <1>5, <1>10, <1>11, <1>12, <1>13, <1>14 DEF ReadinessInv
<1>16. CASE ~rp.reconciling
  BY <1>1, <1>4, <1>15, <1>16
<1>17. CASE rp.reconciling /\ rp.closed
  <2> DEFINE q == [p EXCEPT !.reconciling = FALSE]
  <2>1. q \in ProbeState
    BY <1>5 DEF ProbeState
  <2>2. /\ q.made = p.made /\ q.current = p.current /\ q.reconciling = FALSE
        /\ q.closed = p.closed /\ q.shutdown = p.shutdown /\ q.told = p.told
        /\ q.entry = p.entry
    BY <1>5 DEF ProbeState
  <2> HIDE DEF q
  <2>3. OneClient(q)
    BY <1>9, <2>2 DEF OneClient
  <2>4. Making(q) /\ Told(q) /\ Closing(q)
    BY <1>11, <1>12, <1>13, <2>2 DEF Making, Told, Closing
  <2>5. ReadinessInv(q)
    BY <1>10, <2>1, <2>2, <2>3, <2>4 DEF ReadinessInv
  <2>6. rp' = q
    BY <1>1, <1>4, <1>17 DEF q
  <2> QED BY <2>5, <2>6
<1>18. CASE rp.reconciling /\ ~rp.closed
  <2>1. rp' \in Rp!Make(p)
    BY <1>1, <1>4, <1>18
  <2>2. p.made < RpClients
    BY <1>6, <1>18 DEF ReadinessInv, Making
  <2> QED BY <1>6, <1>7, <1>9, <1>15, <1>18, <2>1, <2>2, MadeKeeps
<1> QED BY <1>16, <1>17, <1>18

LEMMA FirstIn == ASSUME NEW S, NEW s \in Seq(S), s # <<>> PROVE s[1] \in S
  OBVIOUS

(* A client answers its probe; the snapshot is taken over, or it is late.  *)
LEMMA AnswerKeeps ==
    ASSUME RpClients \in Nat, ReadinessInv(rp), NEW e \in Rp!Entries, Rp!Answer(e)
    PROVE  ReadinessInv(rp')
<1>1. PICK result \in Rp!Results :
        LET p == [rp EXCEPT !.entry[e].flight = FALSE] IN
        rp' = IF (rp.current = e /\ ~rp.closed /\ rp.desired = p.entry[e].key)
              THEN [p EXCEPT !.entry[e] = Rp!Accept(@, result)] ELSE p
  BY DEF Rp!Answer
<1>2. /\ rp.entry[e] \in ProbeEntry /\ Consistent(rp.entry[e]) /\ rp.entry[e].flight
      /\ e \in Nat /\ rp.made \in Nat /\ rp \in ProbeState
  BY ProbeFields, NoEntry DEF ReadinessInv, Rp!Answer
<1>3. e <= rp.made
  <2>0. Rp!Entry.flight = FALSE
    BY DEF Rp!Entry
  <2>1. rp.entry[e] # Rp!Entry
    BY <1>2, <2>0
  <2>2. ~(e > rp.made)
    BY <2>1 DEF ReadinessInv, Making
  <2> QED BY <1>2, <2>2
<1> DEFINE v == [rp.entry[e] EXCEPT !.flight = FALSE]
           w == Rp!Accept(v, result)
           p == [rp EXCEPT !.entry[e] = v]
<1>4. v \in ProbeEntry /\ Consistent(v) /\ v.client = rp.entry[e].client /\ v.key = rp.entry[e].key
  BY <1>2 DEF Consistent, ProbeEntry
<1>5. w \in ProbeEntry /\ Consistent(w) /\ w.client = v.client /\ w.key = v.key
  <2> HIDE DEF v
  <2> DEFINE last == IF v.last = <<>> THEN <<result>> ELSE <<result, v.last[1]>>
  <2>0. v.last \in Seq(Rp!Results) /\ (v.last # <<>> => v.last[1] \in Rp!Results)
    <3>1. v.last \in Seq(Rp!Results)
      BY <1>4 DEF ProbeEntry
    <3> QED BY <3>1, FirstIn
  <2>1. last \in Seq(Rp!Results) /\ last # <<>> /\ last[1] = result
    <3>1. CASE v.last = <<>>
      BY <3>1
    <3>2. CASE v.last # <<>>
      <4> DEFINE x == v.last[1]
      <4>1. x \in Rp!Results
        BY <2>0, <3>2
      <4> HIDE DEF x
      <4>2. <<result, x>> \in Seq(Rp!Results) /\ <<result, x>>[1] = result /\ <<result, x>> # <<>>
        BY <4>1
      <4> QED BY <3>2, <4>2 DEF x
    <3> QED BY <3>1, <3>2
  <2>2. v.last # <<>> => (Len(last) = 2 /\ last[2] = v.last[1])
    OBVIOUS
  <2> HIDE DEF last
  <2>3. CASE /\ v.value = "ready" /\ result # "ready" /\ v.downs = 0
             /\ w = [v EXCEPT !.fresh = TRUE, !.last = last, !.downs = 1]
    <3>1. v.last # <<>> /\ v.last[1] = "ready"
      BY <1>4, <2>3 DEF Consistent
    <3>2. /\ w.last = last /\ w.value = "ready" /\ w.downs = 1
          /\ w.client = v.client /\ w.key = v.key
      BY <1>4, <2>3 DEF ProbeEntry
    <3>3. w \in ProbeEntry
      BY <1>4, <2>1, <2>3 DEF ProbeEntry
    <3>4. Consistent(w)
      BY <2>1, <2>2, <3>1, <3>2 DEF Consistent
    <3> QED BY <3>2, <3>3, <3>4
  <2>4. CASE w = [v EXCEPT !.fresh = TRUE, !.last = last, !.value = result, !.downs = 0]
    <3>1. result \in {"ready", "down"}
      BY DEF Rp!Results
    <3>2. /\ w.last = last /\ w.value = result /\ w.downs = 0
          /\ w.client = v.client /\ w.key = v.key
      BY <1>4, <2>4 DEF ProbeEntry
    <3>3. w \in ProbeEntry
      BY <1>4, <2>1, <2>4, <3>1 DEF ProbeEntry
    <3>4. Consistent(w)
      <4>1. CASE result = "ready"
        BY <2>1, <3>2, <4>1 DEF Consistent
      <4>2. CASE result = "down"
        BY <2>1, <3>2, <4>2 DEF Consistent
      <4> QED BY <3>1, <4>1, <4>2
    <3> QED BY <3>2, <3>3, <3>4
  <2>5. \/ /\ v.value = "ready" /\ result # "ready" /\ v.downs = 0
           /\ w = [v EXCEPT !.fresh = TRUE, !.last = last, !.downs = 1]
        \/ w = [v EXCEPT !.fresh = TRUE, !.last = last, !.value = result, !.downs = 0]
    BY DEF Rp!Accept, last
  <2> QED BY <2>3, <2>4, <2>5
<1>6. ReadinessInv([rp EXCEPT !.entry[e] = v]) /\ ReadinessInv([rp EXCEPT !.entry[e] = w])
  <2> HIDE DEF v, w
  <2> QED BY <1>3, <1>4, <1>5, EntryKeeps
<1>7. rp' = p \/ rp' = [rp EXCEPT !.entry[e] = w]
  <2>1. p = [rp EXCEPT !.entry[e].flight = FALSE]
    OBVIOUS
  <2>2. p.entry[e] = v
    BY <1>2 DEF ProbeState
  <2>3. rp' = p \/ rp' = [p EXCEPT !.entry[e] = w]
    BY <1>1, <2>1, <2>2
  <2>4. [p EXCEPT !.entry[e] = w] = [rp EXCEPT !.entry[e] = w]
    <3> HIDE DEF v, w
    <3> QED BY <1>2 DEF ProbeState
  <2> QED BY <2>3, <2>4
<1> QED BY <1>6, <1>7

(* The snapshot outlives its time.                                         *)
LEMMA ExpiresKeeps ==
    ASSUME ReadinessInv(rp), Rp!Expires
    PROVE  ReadinessInv(rp')
<1> DEFINE e == rp.current
           v == [rp.entry[e] EXCEPT !.fresh = FALSE]
           p == [rp EXCEPT !.entry[e] = v]
<1>1. e \in Rp!Entries /\ e <= rp.made /\ rp.entry[e] \in ProbeEntry /\ Consistent(rp.entry[e])
  BY CurrentIsMade DEF Rp!Expires
<1>2. v \in ProbeEntry /\ Consistent(v) /\ v.client = rp.entry[e].client /\ v.key = rp.entry[e].key
  BY <1>1 DEF Consistent, ProbeEntry
<1>3. ReadinessInv(p)
  <2> HIDE DEF v, e
  <2> QED BY <1>1, <1>2, EntryKeeps
<1>4. rp' = [p EXCEPT !.asks = rp.asks + 1]
  BY DEF Rp!Expires
<1>5. p.asks = rp.asks
  BY DEF ReadinessInv, ProbeState
<1> HIDE DEF p
<1>6. ReadinessInv([p EXCEPT !.asks = p.asks + 1])
  BY <1>3, AskCounts
<1> QED BY <1>4, <1>5, <1>6

(* The probe is shut down, after what is being reconciled.                 *)
LEMMA ShutdownKeeps ==
    ASSUME ReadinessInv(rp), Rp!Shutdown \/ Rp!ShutdownGoesOn
    PROVE  ReadinessInv(rp')
<1>1. rp \in ProbeState /\ Rp!None \notin Rp!Entries
  BY ProbeFields, NoEntry
<1>2. CASE Rp!Shutdown
  <2> DEFINE q == [rp EXCEPT !.closed = TRUE, !.desired = "", !.shutdown = "waiting"]
  <2>1. q \in ProbeState /\ rp' = q
    BY <1>1, <1>2 DEF ProbeState, Rp!Shutdown
  <2>2. /\ q.made = rp.made /\ q.current = rp.current /\ q.reconciling = rp.reconciling
        /\ q.closed = TRUE /\ q.shutdown = "waiting" /\ q.told = rp.told /\ q.entry = rp.entry
        /\ rp.shutdown = "no"
    BY <1>1, <1>2 DEF ProbeState, Rp!Shutdown, ReadinessInv, Closing
  <2> HIDE DEF q
  <2>3. OneClient(q) /\ Making(q) /\ Told(q) /\ Closing(q)
    BY <2>2 DEF ReadinessInv, OneClient, Making, Told, Closing
  <2> QED BY <2>1, <2>2, <2>3 DEF ReadinessInv
<1>3. CASE /\ ~rp.reconciling /\ rp.shutdown = "waiting"
           /\ rp.current # Rp!None /\ rp.entry[rp.current].client = "open"
           /\ rp' = [rp EXCEPT !.shutdown = "closing", !.current = Rp!None,
                               !.entry[rp.current].client = "closing"]
  <2> DEFINE e == rp.current
             v == [rp.entry[e] EXCEPT !.client = "closing"]
             q == [rp EXCEPT !.shutdown = "closing", !.current = Rp!None, !.entry[e] = v]
  <2>1. e \in Rp!Entries /\ e <= rp.made /\ rp.entry[e] \in ProbeEntry /\ Consistent(rp.entry[e])
    BY <1>3, CurrentIsMade
  <2>2. v \in ProbeEntry /\ Consistent(v) /\ v.client = "closing" /\ v.key = rp.entry[e].key
    BY <2>1 DEF Consistent, ProbeEntry
  <2>3. rp' = q
    BY <1>1, <1>3 DEF ProbeState
  <2>4. e \in Nat /\ rp.made \in Nat /\ rp.entry[e].client = "open" /\ rp.closed
    BY <1>3, <2>1, ProbeFields, NoEntry DEF ReadinessInv, Closing
  <2>5. ASSUME NEW f \in Rp!Entries, f # e PROVE rp.entry[f].client \notin {"open", "closing"}
    BY <1>3, <2>5 DEF ReadinessInv, OneClient
  <2> HIDE DEF e, v
  <2>6. q \in ProbeState
    BY <1>1, <2>1, <2>2 DEF ProbeState
  <2>7. /\ q.made = rp.made /\ q.current = Rp!None /\ q.reconciling = rp.reconciling
        /\ q.closed = rp.closed /\ q.shutdown = "closing" /\ q.told = rp.told
        /\ q.entry[e] = v
        /\ \A f \in Rp!Entries : f # e => q.entry[f] = rp.entry[f]
    BY <1>1, <2>1 DEF ProbeState
  <2> HIDE DEF q
  <2>8. \A f \in Rp!Entries : Consistent(q.entry[f])
    BY <2>2, <2>7 DEF ReadinessInv
  <2>9. OneClient(q)
    BY <2>2, <2>5, <2>7 DEF OneClient
  <2>10. Making(q)
    <3>1. ASSUME NEW f \in Rp!Entries, f > rp.made PROVE q.entry[f] = Rp!Entry
      <4>1. f # e
        BY <2>1, <2>4, <3>1
      <4> QED BY <2>7, <3>1, <4>1 DEF ReadinessInv, Making
    <3> QED BY <1>3, <2>7, <3>1 DEF ReadinessInv, Making
  <2>11. Told(q)
    BY <2>2, <2>7 DEF ReadinessInv, Told
  <2>12. Closing(q)
    BY <1>3, <2>4, <2>7 DEF Closing
  <2> QED BY <2>3, <2>6, <2>8, <2>9, <2>10, <2>11, <2>12 DEF ReadinessInv
<1>4. CASE /\ ~rp.reconciling /\ rp.closed
           /\ rp' = [rp EXCEPT !.shutdown = "done", !.current = Rp!None]
           /\ \A e \in Rp!Entries : rp.entry[e].client \in {"none", "closed"}
  <2> DEFINE q == [rp EXCEPT !.shutdown = "done", !.current = Rp!None]
  <2>1. q \in ProbeState /\ rp' = q
    BY <1>1, <1>4 DEF ProbeState
  <2>2. /\ q.made = rp.made /\ q.current = Rp!None /\ q.reconciling = rp.reconciling
        /\ q.closed = rp.closed /\ q.shutdown = "done" /\ q.told = rp.told /\ q.entry = rp.entry
    BY <1>1 DEF ProbeState
  <2> HIDE DEF q
  <2>3. OneClient(q) /\ Making(q) /\ Told(q) /\ Closing(q)
    BY <1>4, <2>2 DEF ReadinessInv, OneClient, Making, Told, Closing
  <2> QED BY <2>1, <2>2, <2>3 DEF ReadinessInv
<1>5. CASE Rp!ShutdownGoesOn
  <2>1. rp.shutdown \in {"waiting", "closing"} /\ rp.closed /\ ~rp.reconciling
    BY <1>5 DEF Rp!ShutdownGoesOn, ReadinessInv, Closing
  <2>2. ASSUME NEW e \in Rp!Entries
        PROVE  rp.entry[e].client \in {"none", "open", "closing", "closed"}
    BY ProbeFields DEF ProbeEntry
  <2>3. CASE rp.shutdown = "waiting" /\ rp.current # Rp!None /\ rp.entry[rp.current].client = "open"
    BY <1>3, <1>5, <2>1, <2>3 DEF Rp!ShutdownGoesOn
  <2>4. CASE rp.shutdown = "waiting" /\ ~(rp.current # Rp!None /\ rp.entry[rp.current].client = "open")
    <3>1. ASSUME NEW e \in Rp!Entries PROVE rp.entry[e].client \in {"none", "closed"}
      BY <1>1, <2>1, <2>2, <2>4 DEF ReadinessInv, OneClient
    <3> QED BY <1>4, <1>5, <2>1, <2>4, <3>1 DEF Rp!ShutdownGoesOn
  <2>5. CASE rp.shutdown = "closing"
    <3>1. /\ rp.current = Rp!None
          /\ \A e \in Rp!Entries : rp.entry[e].client # "closing"
          /\ rp' = [rp EXCEPT !.shutdown = "done"]
      BY <1>5, <2>5 DEF Rp!ShutdownGoesOn, ReadinessInv, Closing
    <3>2. ASSUME NEW e \in Rp!Entries PROVE rp.entry[e].client \in {"none", "closed"}
      BY <1>1, <2>2, <3>1 DEF ReadinessInv, OneClient
    <3>3. rp' = [rp EXCEPT !.shutdown = "done", !.current = Rp!None]
      BY <1>1, <3>1 DEF ProbeState
    <3> QED BY <1>4, <2>1, <3>2, <3>3
  <2> QED BY <2>1, <2>3, <2>4, <2>5
<1> QED BY <1>2, <1>5

(* A set whose members are all the same has at most one.                   *)
LEMMA AtMostOne ==
    ASSUME NEW S, \A a, b \in S : a = b
    PROVE  Cardinality(S) <= 1
<1>1. CASE S = {}
  BY <1>1, FS_EmptySet
<1>2. CASE S # {}
  <2>1. PICK a \in S : TRUE
    BY <1>2
  <2>2. S = {a}
    BY <2>1
  <2> QED BY <2>2, FS_Singleton
<1> QED BY <1>1, <1>2

LEMMA ReadinessInit == ASSUME RpClients \in Nat, Rp!Init PROVE ReadinessInv(rp)
<1>1. /\ \A e \in Rp!Entries : rp.entry[e] = Rp!Entry
      /\ rp.made = 0 /\ rp.current = Rp!None /\ rp.reconciling = FALSE /\ rp.closed = FALSE
      /\ rp.shutdown = "no" /\ rp.told.value = ""
  BY DEF Rp!Init
<1>2. rp \in ProbeState
  BY EntryConsistent DEF Rp!Init, ProbeState
<1>3. Rp!Entry.client = "none"
  BY DEF Rp!Entry
<1>4. OneClient(rp)
  BY <1>1, <1>3 DEF OneClient
<1>5. Told(rp) /\ Closing(rp)
  BY <1>1, <1>3 DEF Told, Closing
<1>6. Making(rp)
  <2>0. rp.made = 0
    BY <1>1
  <2>1. rp.made <= RpClients
    BY <2>0
  <2>2. \A e \in Rp!Entries : e > rp.made => rp.entry[e] = Rp!Entry
    BY <1>1
  <2> QED BY <1>1, <2>1, <2>2, Zenon DEF Making
<1> QED BY <1>5, <1>6, <1>1, <1>2, <1>4, EntryConsistent DEF ReadinessInv

LEMMA ReadinessHolds == ASSUME ReadinessInv(rp) PROVE Rp!ReadinessIsCurrent
<1> DEFINE v == rp.entry[rp.current]
           Living == {e \in Rp!Entries : rp.entry[e].client \in {"open", "closing"}}
<1>1. rp.told.value # "" => rp.entry[rp.told.entry].key = rp.told.key
  BY DEF ReadinessInv, Told
<1>2. ASSUME rp.current # Rp!None
      PROVE  /\ v.value = "ready" => \E i \in DOMAIN v.last : v.last[i] = "ready"
             /\ Len(v.last) = 2 /\ v.value = "down" => v.last[1] = "down"
  <2>1. v \in ProbeEntry /\ Consistent(v)
    BY <1>2, CurrentIsMade
  <2> HIDE DEF v
  <2>2. v.last \in Seq(Rp!Results) /\ v.downs \in {0, 1}
    BY <2>1 DEF ProbeEntry
  <2>3. CASE v.value = "ready" /\ v.downs = 0
    <3>1. v.last # <<>> /\ v.last[1] = "ready"
      BY <2>1, <2>3 DEF Consistent
    <3>2. 1 \in DOMAIN v.last
      BY <2>2, <3>1
    <3> QED BY <2>3, <3>1, <3>2
  <2>4. CASE v.value = "ready" /\ v.downs = 1
    <3>1. Len(v.last) = 2 /\ v.last[2] = "ready"
      BY <2>1, <2>4 DEF Consistent
    <3>2. 2 \in DOMAIN v.last
      BY <2>2, <3>1
    <3> QED BY <2>4, <3>1, <3>2
  <2>5. CASE v.value # "ready"
    <3>1. ASSUME Len(v.last) = 2 PROVE v.last # <<>>
      BY <3>1
    <3> QED BY <2>1, <2>5, <3>1 DEF Consistent
  <2> QED BY <2>2, <2>3, <2>4, <2>5
<1>3. Cardinality(Living) <= 1
  <2>1. ASSUME NEW e \in Living, NEW f \in Living PROVE e = f
    BY NoEntry DEF ReadinessInv, OneClient
  <2> HIDE DEF Living
  <2> QED BY <2>1, AtMostOne
<1>4. rp.shutdown = "done" => \A e \in Rp!Entries : rp.entry[e].client \in {"none", "closed"}
  BY DEF ReadinessInv, Closing
<1>5. rp.current # Rp!None =>
        /\ v.value = "ready" => \E i \in DOMAIN v.last : v.last[i] = "ready"
        /\ Len(v.last) = 2 /\ v.value = "down" => v.last[1] = "down"
  BY <1>2
<1>6. Rp!Cardinality(Living) = Cardinality(Living)
  BY Zenon DEF Rp!Cardinality, Cardinality
<1> QED BY <1>1, <1>3, <1>4, <1>5, <1>6, Zenon DEF Rp!ReadinessIsCurrent

ReadinessPart == IF subject = "rp" THEN ReadinessInv(rp) ELSE rp = Off

(* Readiness is about the settings asked for, and at most one probe client *)
(* lives, for any number of clients, settings and calls                    *)
(* (readiness-probe.ts:48-52).                                             *)
THEOREM ReadinessCurrent ==
    ASSUME RpClients \in Nat PROVE PartsSpec => []ReadinessIsCurrent
<1>1. PartsInit => ReadinessPart
  BY ReadinessInit DEF PartsInit, ReadinessPart
<1>2. ReadinessPart /\ [PartsNext]_<<vars, parts>> => ReadinessPart'
  <2> SUFFICES ASSUME ReadinessPart, [PartsNext]_<<vars, parts>> PROVE ReadinessPart'
    OBVIOUS
  <2>1. subject' = subject /\ (rp' = rp \/ (subject = "rp" /\ Rp!Next))
    BY StepOfPart
  <2>2. CASE subject = "rp"
    <3>1. ReadinessInv(rp)
      BY <2>2 DEF ReadinessPart
    <3>2. ReadinessInv(rp')
      BY <2>1, <2>2, <3>1, ProbeKeeps, AnswerKeeps, RetiredKeeps, ExpiresKeeps, ShutdownKeeps
         DEF Rp!Next
    <3> QED BY <2>1, <2>2, <3>2 DEF ReadinessPart
  <2>3. CASE subject # "rp"
    BY <2>1, <2>3 DEF ReadinessPart
  <2> QED BY <2>2, <2>3
<1>3. ReadinessPart => ReadinessIsCurrent
  BY ReadinessHolds DEF ReadinessPart, ReadinessIsCurrent
<1> QED BY <1>1, <1>2, <1>3, PTL DEF PartsSpec

-----------------------------------------------------------------------------
(* An utterance on its way to a turn (Utterances).  The invariant is about *)
(* a state t, because what the sidecar and the host do with a message goes *)
(* through several.                                                        *)

UtUtterance ==
    [epoch : Nat, ended : BOOLEAN, cancelled : BOOLEAN, chunks : Int,
     worker : {"none", "running", "done"}, partials : Nat]

UtUp ==
    [t : {"failure"}] \cup [t : {"start", "end"}, u : Ut!Us]
    \cup [t : {"partial"}, u : Ut!Us, epoch : Nat, seq : Nat]
    \cup [t : {"final"}, u : Ut!Us, epoch : Nat]

UtDown ==
    [t : {"frame"}, loud : BOOLEAN, seq : Nat, capture : Nat]
    \cup [t : {"bind"}, u : Ut!Us, epoch : Nat] \cup [t : {"reset"}]

UtWaiting == [u : Ut!Us, epoch : Nat, failed : BOOLEAN]

UtTurn == [u : Ut!Us, epoch : Nat]

UtState ==
    [capture : Nat, packed : Nat, frames : Nat, down : Seq(UtDown), up : Seq(UtUp),
     expected : Nat, speaking : BOOLEAN, loud : Nat, quiet : Nat,
     current : Nat, made : Nat, utterance : [Ut!Us -> UtUtterance],
     fault : {"none", "overflow", "capture", "sequence", "bind", "poisoned"},
     heard : Nat, bound : Nat, ended : BOOLEAN, partial : Nat, failed : BOOLEAN,
     epoch : Nat, pending : Seq(UtWaiting), handled : Seq(UtTurn),
     acked : SUBSET Ut!Us, closed : BOOLEAN, lost : SUBSET Ut!Us, began : [Ut!Us -> Nat],
     stored : [Ut!Us -> {"no", "told", "failed", "stored"}], rebound : BOOLEAN, trouble : Nat]

UtTold(t, u) == t.stored[u] # "no" \/ u \in t.lost

\* what starts has not been heard of, and is said once
UtStarted(t) ==
    \A i \in 1..Len(t.up) : t.up[i].t = "start" =>
       /\ t.up[i].u <= t.made /\ t.up[i].u # t.heard /\ ~UtTold(t, t.up[i].u)
       /\ \A j \in 1..Len(t.up) : t.up[j].t = "start" /\ t.up[j].u = t.up[i].u => i = j

\* what is transcribed was not told, and is said once
UtTranscribed(t) ==
    \A i \in 1..Len(t.up) : t.up[i].t = "final" =>
       /\ t.utterance[t.up[i].u].worker = "done" /\ ~UtTold(t, t.up[i].u)
       /\ \A j \in 1..Len(t.up) : t.up[j].t = "final" /\ t.up[j].u = t.up[i].u => i = j

\* what is known of an utterance
UtKnown(t) ==
    /\ t.made <= UtUtterances /\ t.current <= t.made /\ t.heard <= t.made
    /\ \A u \in Ut!Us :
         /\ u > t.made => t.utterance[u].worker = "none"
         /\ UtTold(t, u) => t.utterance[u].worker = "done"
         /\ u \in t.lost => t.stored[u] = "no"
         /\ u \in t.acked => t.stored[u] = "stored"
         /\ u = t.heard => t.bound = t.began[u]

\* what waits for the browser, and what was handled
UtWaits(t) ==
    \A i \in 1..Len(t.pending) :
       /\ t.pending[i].u \notin t.acked /\ t.stored[t.pending[i].u] # "no"
       /\ t.pending[i].epoch = t.began[t.pending[i].u]
       /\ \A j \in 1..Len(t.pending) : t.pending[j].u = t.pending[i].u => i = j

UtHandles(t) ==
    \A i \in 1..Len(t.handled) :
       /\ t.handled[i].u \in t.acked
       /\ t.handled[i].epoch = t.began[t.handled[i].u]
       /\ \A j \in 1..Len(t.handled) : t.handled[j].u = t.handled[i].u => i = j

UtKeeps(t) ==
    \A u \in Ut!Us : t.stored[u] # "no" =>
       (u \in t.acked \/ \E i \in 1..Len(t.pending) : t.pending[i].u = u)

UtInv(t) ==
    /\ t \in UtState
    /\ UtStarted(t) /\ UtTranscribed(t) /\ UtKnown(t) /\ UtWaits(t) /\ UtHandles(t) /\ UtKeeps(t)

\* two states that agree on what the host and the browser have
UtHost(s, t) ==
    /\ t.heard = s.heard /\ t.bound = s.bound /\ t.began = s.began /\ t.stored = s.stored
    /\ t.lost = s.lost /\ t.acked = s.acked /\ t.pending = s.pending /\ t.handled = s.handled

\* the workers move on
UtOnward(s, t) ==
    \A u \in Ut!Us :
       \/ t.utterance[u].worker = s.utterance[u].worker
       \/ s.utterance[u].worker = "none" /\ t.utterance[u].worker = "running" /\ u <= t.made
       \/ s.utterance[u].worker = "running" /\ t.utterance[u].worker = "done"

\* what the sidecar may say
UtSays(s, t, m) ==
    /\ m \in UtUp
    /\ m.t = "start" => m.u = s.made + 1 /\ t.made = m.u
    /\ m.t = "final" =>
          s.utterance[m.u].worker = "running" /\ t.utterance[m.u].worker = "done"

UtMoved(s, t) ==
    /\ t \in UtState /\ UtHost(s, t) /\ UtOnward(s, t)
    /\ t.made <= UtUtterances /\ s.made <= t.made /\ t.current <= t.made
    /\ t.up = s.up \/ \E m \in UtUp : t.up = Append(s.up, m) /\ UtSays(s, t, m)

LEMMA UtMessage ==
    ASSUME NEW m \in UtUp
    PROVE  m.t \in {"start", "end", "partial", "final"} => m.u \in Ut!Us
  BY DEF UtUp

LEMMA UtMoveKeeps ==
    ASSUME UtUtterances \in Nat, NEW s, UtInv(s), NEW t, UtMoved(s, t)
    PROVE  UtInv(t)
<1>1. /\ s \in UtState /\ t \in UtState /\ UtHost(s, t) /\ UtOnward(s, t)
      /\ t.made <= UtUtterances /\ s.made <= t.made /\ t.current <= t.made
  BY DEF UtMoved, UtInv
<1>2. /\ t.heard = s.heard /\ t.bound = s.bound /\ t.began = s.began /\ t.stored = s.stored
      /\ t.lost = s.lost /\ t.acked = s.acked /\ t.pending = s.pending /\ t.handled = s.handled
      /\ t.made \in Nat /\ s.made \in Nat /\ s.heard \in Nat /\ Ut!Us \subseteq Nat
      /\ s.up \in Seq(UtUp) /\ t.up \in Seq(UtUp)
  BY <1>1 DEF UtHost, UtState, Ut!Us
<1>3. UtWaits(t) /\ UtHandles(t) /\ UtKeeps(t)
  BY <1>2 DEF UtInv, UtWaits, UtHandles, UtKeeps
<1>4. ASSUME NEW u \in Ut!Us PROVE UtTold(t, u) <=> UtTold(s, u)
  BY <1>2 DEF UtTold
<1>5. UtKnown(t)
  <2>1. ASSUME NEW u \in Ut!Us, u > t.made PROVE t.utterance[u].worker = "none"
    BY <1>1, <1>2, <2>1 DEF UtInv, UtKnown, UtOnward
  <2>2. ASSUME NEW u \in Ut!Us, UtTold(t, u) PROVE t.utterance[u].worker = "done"
    BY <1>1, <1>4, <2>2 DEF UtInv, UtKnown, UtOnward
  <2>3. t.heard <= t.made
    BY <1>1, <1>2 DEF UtInv, UtKnown
  <2> QED BY <1>1, <1>2, <2>1, <2>2, <2>3 DEF UtInv, UtKnown
<1>6. ASSUME NEW u \in Ut!Us, s.utterance[u].worker = "done" PROVE t.utterance[u].worker = "done"
  BY <1>1, <1>6 DEF UtOnward
<1>7. CASE t.up = s.up
  <2>1. UtStarted(t)
    <3> SUFFICES ASSUME NEW i \in 1..Len(s.up), s.up[i].t = "start"
                 PROVE  /\ s.up[i].u <= t.made /\ s.up[i].u # t.heard /\ ~UtTold(t, s.up[i].u)
                        /\ \A j \in 1..Len(s.up) :
                              s.up[j].t = "start" /\ s.up[j].u = s.up[i].u => i = j
      BY <1>7 DEF UtStarted
    <3>1. s.up[i] \in UtUp
      BY <1>2
    <3>2. s.up[i].u \in Ut!Us
      BY <3>1, UtMessage
    <3>3. s.up[i].u <= s.made /\ s.up[i].u \in Nat
      BY <1>2, <3>2 DEF UtInv, UtStarted
    <3>4. s.up[i].u <= t.made
      BY <1>1, <1>2, <3>3
    <3> QED BY <1>2, <1>4, <3>2, <3>4 DEF UtInv, UtStarted
  <2>2. UtTranscribed(t)
    <3> SUFFICES ASSUME NEW i \in 1..Len(s.up), s.up[i].t = "final"
                 PROVE  /\ t.utterance[s.up[i].u].worker = "done" /\ ~UtTold(t, s.up[i].u)
                        /\ \A j \in 1..Len(s.up) :
                              s.up[j].t = "final" /\ s.up[j].u = s.up[i].u => i = j
      BY <1>7 DEF UtTranscribed
    <3>1. s.up[i] \in UtUp
      BY <1>2
    <3>2. s.up[i].u \in Ut!Us
      BY <3>1, UtMessage
    <3> QED BY <1>4, <1>6, <3>2 DEF UtInv, UtTranscribed
  <2> QED BY <1>1, <1>3, <1>5, <2>1, <2>2 DEF UtInv
<1>8. CASE \E m \in UtUp : t.up = Append(s.up, m) /\ UtSays(s, t, m)
  <2>1. PICK m \in UtUp : t.up = Append(s.up, m) /\ UtSays(s, t, m)
    BY <1>8
  <2> DEFINE n == Len(s.up)
  <2>2. /\ n \in Nat /\ Len(t.up) = n + 1 /\ t.up[n + 1] = m
        /\ \A i \in 1..n : t.up[i] = s.up[i] /\ s.up[i] \in UtUp
    BY <1>2, <2>1
  <2>3. \A i \in 1..Len(t.up) : t.up[i] \in UtUp
    BY <1>2
  <2> HIDE DEF n
  <2>4. UtStarted(t)
    <3>1. ASSUME NEW i \in 1..n, t.up[i].t = "start"
          PROVE  /\ t.up[i].u \in Ut!Us /\ t.up[i].u <= s.made /\ t.up[i].u # t.heard
                 /\ ~UtTold(t, t.up[i].u)
                 /\ \A j \in 1..n : t.up[j].t = "start" /\ t.up[j].u = t.up[i].u => i = j
      <4>1. t.up[i] = s.up[i] /\ t.up[i].u \in Ut!Us
        BY <2>2, <3>1, UtMessage
      <4> QED BY <1>2, <1>4, <2>2, <3>1, <4>1 DEF UtInv, UtStarted, n
    <3>2. ASSUME m.t = "start"
          PROVE  m.u \in Ut!Us /\ m.u = s.made + 1 /\ t.made = m.u /\ m.u # t.heard /\ ~UtTold(t, m.u)
      <4>1. m.u \in Ut!Us /\ m.u = s.made + 1 /\ t.made = m.u
        BY <2>1, <3>2, UtMessage DEF UtSays
      <4>2. m.u # t.heard
        BY <1>2, <4>1 DEF UtInv, UtKnown
      <4>3. s.utterance[m.u].worker = "none"
        BY <1>2, <4>1 DEF UtInv, UtKnown
      <4>4. ~UtTold(s, m.u)
        BY <4>1, <4>3 DEF UtInv, UtKnown
      <4> QED BY <1>4, <4>1, <4>2, <4>4
    <3>3. ASSUME NEW i \in 1..(n + 1), t.up[i].t = "start"
          PROVE  /\ t.up[i].u <= t.made /\ t.up[i].u # t.heard /\ ~UtTold(t, t.up[i].u)
                 /\ \A j \in 1..(n + 1) : t.up[j].t = "start" /\ t.up[j].u = t.up[i].u => i = j
      <4>1. CASE i = n + 1
        <5>1. t.up[i] = m
          BY <2>2, <4>1
        <5>2. ASSUME NEW j \in 1..(n + 1), t.up[j].t = "start", t.up[j].u = t.up[i].u PROVE i = j
          <6>1. CASE j \in 1..n
            <7>1. t.up[j].u \in Ut!Us /\ t.up[j].u <= s.made
              BY <3>1, <5>2, <6>1
            <7> QED BY <1>2, <3>2, <3>3, <5>1, <5>2, <7>1
          <6> QED BY <2>2, <4>1, <6>1
        <5> QED BY <1>2, <3>2, <3>3, <5>1, <5>2
      <4>2. CASE i \in 1..n
        <5>1. /\ t.up[i].u \in Ut!Us /\ t.up[i].u <= s.made /\ t.up[i].u # t.heard
              /\ ~UtTold(t, t.up[i].u)
              /\ \A j \in 1..n : t.up[j].t = "start" /\ t.up[j].u = t.up[i].u => i = j
          BY <3>1, <3>3, <4>2
        <5>2. ASSUME t.up[n + 1].t = "start" PROVE t.up[n + 1].u # t.up[i].u
          BY <1>2, <2>2, <3>2, <5>1, <5>2
        <5>3. ASSUME NEW j \in 1..(n + 1), t.up[j].t = "start", t.up[j].u = t.up[i].u PROVE i = j
          BY <2>2, <5>1, <5>2, <5>3
        <5>4. t.up[i].u <= t.made
          <6>1. t.up[i].u \in Nat /\ t.up[i].u <= s.made
            BY <1>2, <5>1
          <6> QED BY <1>1, <1>2, <6>1
        <5> QED BY <5>1, <5>3, <5>4
      <4>3. i = n + 1 \/ i \in 1..n
        BY <2>2
      <4> QED BY <4>1, <4>2, <4>3
    <3> QED BY <2>2, <3>3 DEF UtStarted
  <2>5. UtTranscribed(t)
    <3>1. ASSUME NEW i \in 1..n, t.up[i].t = "final"
          PROVE  /\ t.up[i].u \in Ut!Us /\ s.utterance[t.up[i].u].worker = "done"
                 /\ ~UtTold(t, t.up[i].u)
                 /\ \A j \in 1..n : t.up[j].t = "final" /\ t.up[j].u = t.up[i].u => i = j
      <4>1. t.up[i] = s.up[i] /\ t.up[i].u \in Ut!Us
        BY <2>2, <3>1, UtMessage
      <4> QED BY <1>2, <1>4, <2>2, <3>1, <4>1 DEF UtInv, UtTranscribed, n
    <3>2. ASSUME m.t = "final"
          PROVE  /\ m.u \in Ut!Us /\ s.utterance[m.u].worker = "running"
                 /\ t.utterance[m.u].worker = "done" /\ ~UtTold(t, m.u)
      <4>1. /\ m.u \in Ut!Us /\ s.utterance[m.u].worker = "running"
            /\ t.utterance[m.u].worker = "done"
        BY <2>1, <3>2, UtMessage DEF UtSays
      <4>2. ~UtTold(s, m.u)
        BY <4>1 DEF UtInv, UtKnown
      <4> QED BY <1>4, <4>1, <4>2
    <3>3. ASSUME NEW i \in 1..(n + 1), t.up[i].t = "final"
          PROVE  /\ t.utterance[t.up[i].u].worker = "done" /\ ~UtTold(t, t.up[i].u)
                 /\ \A j \in 1..(n + 1) : t.up[j].t = "final" /\ t.up[j].u = t.up[i].u => i = j
      <4>1. CASE i = n + 1
        <5>1. t.up[i] = m
          BY <2>2, <4>1
        <5>2. ASSUME NEW j \in 1..(n + 1), t.up[j].t = "final", t.up[j].u = t.up[i].u PROVE i = j
          <6>1. CASE j \in 1..n
            <7>1. s.utterance[t.up[j].u].worker = "done"
              BY <3>1, <5>2, <6>1
            <7> QED BY <3>2, <3>3, <5>1, <5>2, <7>1
          <6> QED BY <2>2, <4>1, <6>1
        <5> QED BY <3>2, <3>3, <5>1, <5>2
      <4>2. CASE i \in 1..n
        <5>1. /\ t.up[i].u \in Ut!Us /\ s.utterance[t.up[i].u].worker = "done"
              /\ ~UtTold(t, t.up[i].u)
              /\ \A j \in 1..n : t.up[j].t = "final" /\ t.up[j].u = t.up[i].u => i = j
          BY <3>1, <3>3, <4>2
        <5>2. ASSUME t.up[n + 1].t = "final" PROVE t.up[n + 1].u # t.up[i].u
          BY <2>2, <3>2, <5>1, <5>2
        <5>3. ASSUME NEW j \in 1..(n + 1), t.up[j].t = "final", t.up[j].u = t.up[i].u PROVE i = j
          BY <2>2, <5>1, <5>2, <5>3
        <5>4. t.utterance[t.up[i].u].worker = "done"
          BY <1>6, <5>1
        <5> QED BY <5>1, <5>3, <5>4
      <4>3. i = n + 1 \/ i \in 1..n
        BY <2>2
      <4> QED BY <4>1, <4>2, <4>3
    <3> QED BY <2>2, <3>3 DEF UtTranscribed
  <2> QED BY <1>1, <1>3, <1>5, <2>4, <2>5 DEF UtInv
<1> QED BY <1>7, <1>8 DEF UtMoved

\* a state that differs in nothing the invariant reads
UtQuietly(s, t) ==
    /\ t \in UtState /\ UtHost(s, t) /\ t.made = s.made /\ t.current <= s.made
    /\ \A u \in Ut!Us : t.utterance[u].worker = s.utterance[u].worker
    /\ t.up = s.up

LEMMA UtQuietKeeps ==
    ASSUME UtUtterances \in Nat, NEW s, UtInv(s), NEW t, UtQuietly(s, t)
    PROVE  UtInv(t)
<1>1. s.made \in Nat /\ s.made <= UtUtterances
  BY DEF UtInv, UtState, UtKnown
<1>2. UtMoved(s, t)
  BY <1>1 DEF UtMoved, UtQuietly, UtOnward
<1> QED BY <1>2, UtMoveKeeps

LEMMA UtFields ==
    ASSUME NEW t \in UtState
    PROVE  /\ t.up \in Seq(UtUp) /\ t.down \in Seq(UtDown) /\ t.current \in Nat /\ t.made \in Nat
           /\ t.utterance \in [Ut!Us -> UtUtterance] /\ t.expected \in Nat /\ t.loud \in Nat
           /\ t.quiet \in Nat /\ t.speaking \in BOOLEAN /\ t.epoch \in Nat /\ t.trouble \in Nat
           /\ t.capture \in Nat /\ t.packed \in Nat /\ t.frames \in Nat /\ t.partial \in Nat
           /\ t.heard \in Nat /\ t.bound \in Nat
           /\ t.pending \in Seq(UtWaiting) /\ t.handled \in Seq(UtTurn)
           /\ t.acked \in SUBSET Ut!Us /\ t.lost \in SUBSET Ut!Us /\ t.began \in [Ut!Us -> Nat]
           /\ t.stored \in [Ut!Us -> {"no", "told", "failed", "stored"}]
  BY DEF UtState

\* the record of an utterance, and a state with another one
LEMMA UtRecord ==
    ASSUME NEW t \in UtState, NEW u \in Ut!Us
    PROVE  /\ t.utterance[u] \in UtUtterance
           /\ t.utterance[u].chunks \in Int /\ t.utterance[u].epoch \in Nat
           /\ t.utterance[u].partials \in Nat
           /\ t.utterance[u].worker \in {"none", "running", "done"}
<1>1. t.utterance[u] \in UtUtterance
  BY UtFields
<1> QED BY <1>1 DEF UtUtterance

LEMMA UtWith ==
    ASSUME NEW t \in UtState, NEW u \in Ut!Us, NEW r \in UtUtterance
    PROVE  LET g == [t EXCEPT !.utterance[u] = r] IN
           /\ g \in UtState /\ UtHost(t, g) /\ g.made = t.made /\ g.current = t.current
           /\ g.up = t.up /\ g.down = t.down /\ g.fault = t.fault /\ g.utterance[u] = r
           /\ \A v \in Ut!Us : v # u => g.utterance[v] = t.utterance[v]
<1> DEFINE all == [t.utterance EXCEPT ![u] = r]
           g == [t EXCEPT !.utterance = all]
<1>1. all \in [Ut!Us -> UtUtterance] /\ all[u] = r /\ \A v \in Ut!Us : v # u => all[v] = t.utterance[v]
  BY UtFields
<1>2. [t EXCEPT !.utterance[u] = r] = g
  OBVIOUS
<1> HIDE DEF all
<1>3. g \in UtState
  BY <1>1 DEF UtState
<1>4. /\ UtHost(t, g) /\ g.made = t.made /\ g.current = t.current
      /\ g.up = t.up /\ g.down = t.down /\ g.fault = t.fault /\ g.utterance = all
  BY DEF UtState, UtHost
<1> HIDE DEF g
<1> QED BY <1>1, <1>2, <1>3, <1>4

UtFaults == {"overflow", "capture", "sequence", "bind", "poisoned"}

LEMMA FaultKeeps ==
    ASSUME UtUtterances \in Nat, NEW t, UtInv(t), NEW why \in UtFaults
    PROVE  UtInv(Ut!Fault(t, why)) /\ Ut!Fault(t, why).fault = why
<1> DEFINE m == [t |-> "failure"]
           all == [u \in Ut!Us |-> [t.utterance[u] EXCEPT !.cancelled = TRUE]]
           says == Append(t.up, m)
           g == [t EXCEPT !.fault = why, !.up = says, !.utterance = all]
<1>1. t \in UtState
  BY DEF UtInv
<1>2. m \in UtUp /\ m.t = "failure"
  BY DEF UtUp
<1>3. all \in [Ut!Us -> UtUtterance] /\ \A u \in Ut!Us : all[u].worker = t.utterance[u].worker
  <2>1. ASSUME NEW u \in Ut!Us
        PROVE  /\ [t.utterance[u] EXCEPT !.cancelled = TRUE] \in UtUtterance
               /\ [t.utterance[u] EXCEPT !.cancelled = TRUE].worker = t.utterance[u].worker
    <3>1. t.utterance[u] \in UtUtterance
      BY <1>1, UtRecord
    <3> QED BY <3>1 DEF UtUtterance
  <2> QED BY <2>1
<1>4. says \in Seq(UtUp)
  BY <1>1, <1>2, UtFields, AppendProperties
<1>5. Ut!Fault(t, why) = g
  BY <1>1 DEF Ut!Fault, UtState
<1> HIDE DEF m, all
<1>6. says = Append(t.up, m)
  OBVIOUS
<1> HIDE DEF says
<1>7. g \in UtState
  BY <1>1, <1>3, <1>4 DEF UtState, UtFaults
<1>8. /\ UtHost(t, g) /\ g.made = t.made /\ g.current = t.current /\ g.utterance = all
      /\ g.up = says /\ g.fault = why
  BY <1>1 DEF UtState, UtHost
<1> HIDE DEF g
<1>9. UtOnward(t, g)
  BY <1>3, <1>8 DEF UtOnward
<1>10. UtSays(t, g, m)
  BY <1>2 DEF UtSays
<1>11. t.made \in Nat /\ t.made <= UtUtterances /\ t.current <= t.made
  BY <1>1 DEF UtInv, UtKnown, UtState
<1>12. UtMoved(t, g)
  BY <1>2, <1>6, <1>7, <1>8, <1>9, <1>10, <1>11 DEF UtMoved
<1> QED BY <1>5, <1>8, <1>12, UtMoveKeeps

LEMMA FeedKeeps ==
    ASSUME UtUtterances \in Nat, NEW t, UtInv(t), NEW u \in Ut!Us
    PROVE  /\ UtInv(Ut!Feed(t, u)) 
           /\ Ut!Feed(t, u).fault = "none" => Ut!Feed(t, u).current = t.current
<1>1. t \in UtState
  BY DEF UtInv
<1>2. CASE t.utterance[u].chunks = UtChunks
  <2>1. Ut!Feed(t, u) = Ut!Fault(t, "overflow")
    BY <1>2 DEF Ut!Feed
  <2> QED BY <2>1, FaultKeeps DEF UtFaults
<1>3. CASE t.utterance[u].chunks # UtChunks
  <2> DEFINE was == t.utterance[u]
  <2>1. was \in UtUtterance
    BY <1>1, UtRecord
  <2>2. PICK n \in Int : n = was.chunks + 1
    BY <2>1 DEF UtUtterance
  <2> DEFINE r == [was EXCEPT !.chunks = n]
             g == [t EXCEPT !.utterance[u] = r]
  <2>3. Ut!Feed(t, u) = g
    BY <1>3, <2>2 DEF Ut!Feed
  <2>4. r \in UtUtterance /\ r.worker = was.worker
    BY <2>1 DEF UtUtterance
  <2> HIDE DEF r
  <2>5. /\ g \in UtState /\ UtHost(t, g) /\ g.made = t.made /\ g.current = t.current
        /\ g.up = t.up /\ g.fault = t.fault /\ g.utterance[u] = r
        /\ \A v \in Ut!Us : v # u => g.utterance[v] = t.utterance[v]
    BY <1>1, <2>4, UtWith
  <2> HIDE DEF g
  <2>6. UtQuietly(t, g)
    BY <2>4, <2>5 DEF UtQuietly, UtInv, UtKnown
  <2> QED BY <2>3, <2>5, <2>6, UtQuietKeeps
<1> QED BY <1>2, <1>3

\* the endpointer changes nothing of the utterances
LEMMA EndpointerKeeps ==
    ASSUME UtUtterances \in Nat, UtLoud \in Nat, NEW t, UtInv(t), NEW loud \in BOOLEAN
    PROVE  LET e == Ut!Endpointer(t, loud) IN
           /\ UtInv(e.next) /\ e.next.current = t.current /\ e.next.made = t.made
           /\ e.next.utterance = t.utterance /\ e.next.fault = t.fault
           /\ e.says = "start" => t.loud + 1 >= UtLoud
<1> DEFINE e == Ut!Endpointer(t, loud)
           n == IF t.loud < UtLoud THEN t.loud + 1 ELSE t.loud
           starts == ~t.speaking /\ n >= UtLoud
           q == IF t.speaking THEN t.quiet + 1 ELSE t.quiet
           ends == t.speaking /\ q >= UtQuiet
           g == [t EXCEPT !.loud = n, !.quiet = 0, !.speaking = @ \/ starts]
           h == [t EXCEPT !.loud = 0, !.quiet = IF ends THEN 0 ELSE q, !.speaking = @ /\ ~ends]
<1>1. t \in UtState
  BY DEF UtInv
<1>2. n \in Nat /\ q \in Nat /\ starts \in BOOLEAN /\ ends \in BOOLEAN
      /\ (n >= UtLoud => t.loud + 1 >= UtLoud)
  BY <1>1, UtFields
<1>3. /\ loud => e = [next |-> g, says |-> IF starts THEN "start" ELSE "nothing"]
      /\ ~loud => e = [next |-> h, says |-> IF ends THEN "end" ELSE "nothing"]
  BY DEF Ut!Endpointer
<1>4. e.says = "start" => n >= UtLoud
  BY <1>3
<1> HIDE DEF n, q, starts, ends
<1>5. g \in UtState /\ h \in UtState
  BY <1>1, <1>2 DEF UtState
<1>6. /\ UtHost(t, g) /\ g.made = t.made /\ g.current = t.current /\ g.up = t.up
      /\ g.fault = t.fault /\ g.utterance = t.utterance
  BY <1>1 DEF UtState, UtHost
<1>7. /\ UtHost(t, h) /\ h.made = t.made /\ h.current = t.current /\ h.up = t.up
      /\ h.fault = t.fault /\ h.utterance = t.utterance
  BY <1>1 DEF UtState, UtHost
<1>8. e.next = g \/ e.next = h
  BY <1>3
<1> HIDE DEF g, h, e
<1>9. UtQuietly(t, g) /\ UtQuietly(t, h)
  BY <1>5, <1>6, <1>7 DEF UtQuietly, UtInv, UtKnown
<1>10. UtInv(g) /\ UtInv(h)
  BY <1>9, UtQuietKeeps
<1>11. UtInv(e.next) /\ e.next.current = t.current /\ e.next.made = t.made
       /\ e.next.utterance = t.utterance /\ e.next.fault = t.fault
  BY <1>6, <1>7, <1>8, <1>10
<1> QED BY <1>2, <1>4, <1>11 DEF e

LEMMA QuietKeeps ==
    ASSUME UtUtterances \in Nat, NEW t, UtInv(t)
    PROVE  UtInv(Ut!Quiet(t))
<1>1. t \in UtState
  BY DEF UtInv
<1>2. Ut!Quiet(t) \in UtState
  BY <1>1 DEF UtState, Ut!Quiet
<1>3. /\ UtHost(t, Ut!Quiet(t)) /\ Ut!Quiet(t).made = t.made /\ Ut!Quiet(t).current = t.current
      /\ Ut!Quiet(t).up = t.up /\ Ut!Quiet(t).utterance = t.utterance
  BY <1>1 DEF UtState, UtHost, Ut!Quiet
<1>4. UtQuietly(t, Ut!Quiet(t))
  BY <1>2, <1>3 DEF UtQuietly, UtInv, UtKnown
<1> QED BY <1>4, UtQuietKeeps

LEMMA MaybeStartKeeps ==
    ASSUME UtUtterances \in Nat, NEW t, UtInv(t), NEW u \in Ut!Us, u <= t.made
    PROVE  UtInv(Ut!MaybeStart(t, u))
<1>1. t \in UtState /\ t.made \in Nat /\ t.made <= UtUtterances /\ t.current <= t.made
  BY DEF UtInv, UtState, UtKnown
<1> DEFINE was == t.utterance[u]
           r == [was EXCEPT !.worker = "running"]
           g == [t EXCEPT !.utterance[u] = r]
<1>2. was \in UtUtterance
  BY <1>1, UtRecord
<1>3. r \in UtUtterance /\ r.worker = "running"
  BY <1>2 DEF UtUtterance
<1>4. Ut!MaybeStart(t, u) = IF was.epoch # Ut!None /\ was.worker = "none" THEN g ELSE t
  BY DEF Ut!MaybeStart
<1> HIDE DEF r
<1>5. /\ g \in UtState /\ UtHost(t, g) /\ g.made = t.made /\ g.current = t.current
      /\ g.up = t.up /\ g.utterance[u] = r
      /\ \A v \in Ut!Us : v # u => g.utterance[v] = t.utterance[v]
  BY <1>1, <1>3, UtWith
<1> HIDE DEF g
<1>6. CASE was.worker = "none"
  <2>1. UtOnward(t, g)
    BY <1>1, <1>3, <1>5, <1>6 DEF UtOnward
  <2>2. UtMoved(t, g)
    BY <1>1, <1>5, <2>1 DEF UtMoved
  <2> QED BY <1>4, <2>2, UtMoveKeeps
<1>7. CASE was.worker # "none"
  BY <1>4, <1>7
<1> QED BY <1>6, <1>7

LEMMA UtStartsKeeps ==
    ASSUME UtUtterances \in Nat, NEW t, UtInv(t), t.current # Ut!None \/ t.made < UtUtterances
    PROVE  UtInv(Ut!Starts(t))
<1>1. t \in UtState /\ t.made \in Nat /\ t.made <= UtUtterances /\ t.current <= t.made
  BY DEF UtInv, UtState, UtKnown
<1>2. CASE t.current # Ut!None
  BY <1>2, QuietKeeps DEF Ut!Starts
<1>3. CASE t.current = Ut!None
  <2>1. PICK u \in Ut!Us : u = t.made + 1
    BY <1>1, <1>3 DEF Ut!Us
  <2> DEFINE m == [t |-> "start", u |-> u]
             says == Append(t.up, m)
             g == [t EXCEPT !.made = u, !.current = u, !.up = says]
  <2>2. Ut!Starts(t) = Ut!Feed(g, u)
    BY <1>3, <2>1 DEF Ut!Starts
  <2>3. m \in UtUp /\ m.t = "start" /\ m.u = u
    BY DEF UtUp
  <2> HIDE DEF m
  <2>4. says \in Seq(UtUp) /\ says = Append(t.up, m)
    BY <1>1, <2>3, UtFields, AppendProperties
  <2> HIDE DEF says
  <2>5. u \in Nat /\ t.made <= u /\ u <= UtUtterances
    BY <1>1, <2>1 DEF Ut!Us
  <2>6. g \in UtState
    BY <1>1, <2>4, <2>5 DEF UtState
  <2>7. /\ UtHost(t, g) /\ g.made = u /\ g.current = u /\ g.up = says
        /\ g.utterance = t.utterance
    BY <1>1 DEF UtState, UtHost
  <2> HIDE DEF g
  <2>8. UtSays(t, g, m) /\ UtOnward(t, g)
    BY <2>1, <2>3, <2>7 DEF UtSays, UtOnward
  <2>9. UtMoved(t, g)
    BY <2>3, <2>4, <2>5, <2>6, <2>7, <2>8 DEF UtMoved
  <2>10. UtInv(g)
    BY <2>9, UtMoveKeeps
  <2> QED BY <2>2, <2>10, FeedKeeps
<1> QED BY <1>2, <1>3

\* the utterance being heard is one that was made
LEMMA UtCurrentIsMade ==
    ASSUME UtUtterances \in Nat, NEW t, UtInv(t)
    PROVE  t.current # Ut!None => t.current \in Ut!Us /\ t.current <= t.made
<1>1. t.made \in Nat /\ t.made <= UtUtterances /\ t.current \in Nat /\ t.current <= t.made
  BY DEF UtInv, UtState, UtKnown
<1> QED BY <1>1 DEF Ut!Us, Ut!None

LEMMA UtEndsKeeps ==
    ASSUME UtUtterances \in Nat, NEW t, UtInv(t)
    PROVE  UtInv(Ut!Ends(t))
<1>1. t \in UtState /\ t.made \in Nat /\ t.made <= UtUtterances /\ t.current <= t.made
  BY DEF UtInv, UtState, UtKnown
<1>2. CASE t.current = Ut!None \/ t.utterance[t.current].ended
  BY <1>2 DEF Ut!Ends
<1>3. CASE ~(t.current = Ut!None \/ t.utterance[t.current].ended)
  <2>1. PICK u \in Ut!Us : u = t.current /\ u <= t.made
    BY <1>3, UtCurrentIsMade
  <2> DEFINE was == t.utterance[u]
             r == [was EXCEPT !.ended = TRUE]
             f == [t EXCEPT !.utterance[u] = r]
             m == [t |-> "end", u |-> u]
             says == Append(t.up, m)
             g == [f EXCEPT !.up = says]
  <2>2. Ut!Ends(t) = Ut!MaybeStart([t EXCEPT !.utterance[u].ended = TRUE, !.up = says], u)
    BY <1>3, <2>1 DEF Ut!Ends
  <2>3. [t EXCEPT !.utterance[u].ended = TRUE, !.up = says] = g
    BY <1>1 DEF UtState
  <2>4. was \in UtUtterance
    BY <1>1, UtRecord
  <2>5. r \in UtUtterance /\ r.worker = was.worker
    BY <2>4 DEF UtUtterance
  <2>6. m \in UtUp /\ m.t = "end"
    BY DEF UtUp
  <2> HIDE DEF r, m
  <2>7. says \in Seq(UtUp) /\ says = Append(t.up, m)
    BY <1>1, <2>6, UtFields, AppendProperties
  <2> HIDE DEF says
  <2>8. /\ f \in UtState /\ UtHost(t, f) /\ f.made = t.made /\ f.current = t.current
        /\ f.up = t.up /\ f.utterance[u] = r
        /\ \A v \in Ut!Us : v # u => f.utterance[v] = t.utterance[v]
    BY <1>1, <2>5, UtWith
  <2> HIDE DEF f
  <2>9. g \in UtState
    BY <2>7, <2>8 DEF UtState
  <2>10. /\ UtHost(f, g) /\ g.made = f.made /\ g.current = f.current /\ g.up = says
         /\ g.utterance = f.utterance
    BY <2>8 DEF UtState, UtHost
  <2> HIDE DEF g
  <2>11. UtHost(t, g) /\ UtOnward(t, g)
    BY <2>5, <2>8, <2>10 DEF UtHost, UtOnward
  <2>12. UtSays(t, g, m)
    BY <2>6 DEF UtSays
  <2>13. UtMoved(t, g)
    BY <1>1, <2>6, <2>7, <2>8, <2>9, <2>10, <2>11, <2>12 DEF UtMoved
  <2>14. UtInv(g) /\ u <= g.made
    BY <2>1, <2>8, <2>10, <2>13, UtMoveKeeps
  <2> QED BY <2>2, <2>3, <2>14, MaybeStartKeeps
<1> QED BY <1>2, <1>3

LEMMA FrameKeeps ==
    ASSUME UtUtterances \in Nat, UtLoud \in Nat, NEW t, UtInv(t), NEW m, m.loud \in BOOLEAN,
           t.made < UtUtterances \/ t.current # Ut!None \/ t.loud + 1 < UtLoud
    PROVE  UtInv(Ut!Frame(t, m))
<1>1. t \in UtState /\ t.current <= t.made
  BY DEF UtInv, UtKnown
<1>2. CASE m.capture # 1
  BY <1>2, FaultKeeps DEF Ut!Frame, UtFaults
<1>3. CASE m.capture = 1 /\ m.seq # t.expected
  BY <1>3, FaultKeeps DEF Ut!Frame, UtFaults
<1>4. CASE m.capture = 1 /\ m.seq = t.expected
  <2>1. PICK n \in Nat : n = t.expected + 1
    BY <1>1, UtFields
  <2> DEFINE h == [t EXCEPT !.expected = n]
             e == Ut!Endpointer(h, m.loud)
             fed == IF e.says # "start" /\ h.current # Ut!None /\ ~h.utterance[h.current].ended
                    THEN Ut!Feed(e.next, h.current) ELSE e.next
  <2>2. h \in UtState
    BY <1>1 DEF UtState
  <2>3. /\ UtHost(t, h) /\ h.made = t.made /\ h.current = t.current /\ h.up = t.up
        /\ h.utterance = t.utterance /\ h.loud = t.loud
    BY <1>1 DEF UtState, UtHost
  <2>4. Ut!Frame(t, m) = IF e.says = "start" THEN Ut!Starts(fed)
                      ELSE IF e.says = "end" /\ Ut!Running(fed) THEN Ut!Ends(fed) ELSE fed
    BY <1>4, <2>1, <2>3 DEF Ut!Frame
  <2> HIDE DEF h
  <2>5. UtQuietly(t, h)
    BY <1>1, <2>2, <2>3 DEF UtQuietly
  <2>6. UtInv(h)
    BY <2>5, UtQuietKeeps
  <2>7. /\ UtInv(e.next) /\ e.next.current = h.current /\ e.next.made = h.made
        /\ e.says = "start" => h.loud + 1 >= UtLoud
    BY <2>6, EndpointerKeeps
  <2> HIDE DEF e
  <2>8. UtInv(fed)
    <3>1. CASE e.says # "start" /\ h.current # Ut!None /\ ~h.utterance[h.current].ended
      <4>1. h.current \in Ut!Us
        BY <2>6, <3>1, UtCurrentIsMade
      <4> QED BY <2>7, <3>1, <4>1, FeedKeeps
    <3>2. CASE ~(e.says # "start" /\ h.current # Ut!None /\ ~h.utterance[h.current].ended)
      BY <2>7, <3>2
    <3> QED BY <3>1, <3>2
  <2>9. CASE e.says = "start"
    <3>1. fed = e.next
      BY <2>9
    <3>2. t.loud \in Nat /\ t.made \in Nat
      BY <1>1, UtFields
    <3>3. fed.current # Ut!None \/ fed.made < UtUtterances
      BY <2>3, <2>7, <2>9, <3>1, <3>2
    <3> HIDE DEF fed
    <3> QED BY <2>4, <2>8, <2>9, <3>3, UtStartsKeeps
  <2>10. CASE e.says # "start"
    <3> HIDE DEF fed
    <3> QED BY <2>4, <2>8, <2>10, UtEndsKeeps
  <2> QED BY <2>9, <2>10
<1> QED BY <1>2, <1>3, <1>4

LEMMA BindKeeps ==
    ASSUME UtUtterances \in Nat, NEW t, UtInv(t), NEW m, m.u \in Ut!Us, m.epoch \in Nat
    PROVE  UtInv(Ut!Bind(t, m))
<1>1. t \in UtState /\ t.made \in Nat /\ t.made <= UtUtterances /\ t.current <= t.made
  BY DEF UtInv, UtState, UtKnown
<1>2. CASE t.current = Ut!None \/ t.current # m.u \/ t.utterance[m.u].epoch # Ut!None
  BY <1>2, FaultKeeps DEF Ut!Bind, UtFaults
<1>3. CASE ~(t.current = Ut!None \/ t.current # m.u \/ t.utterance[m.u].epoch # Ut!None)
  <2>1. PICK u \in Ut!Us : u = m.u /\ u <= t.made
    BY <1>3, UtCurrentIsMade
  <2>2. PICK e \in Nat : e = m.epoch
    OBVIOUS
  <2> DEFINE was == t.utterance[u]
             r == [was EXCEPT !.epoch = e]
             g == [t EXCEPT !.utterance[u] = r]
  <2>3. Ut!Bind(t, m) = Ut!MaybeStart(g, u)
    BY <1>3, <2>1, <2>2 DEF Ut!Bind
  <2>4. was \in UtUtterance
    BY <1>1, UtRecord
  <2>5. r \in UtUtterance /\ r.worker = was.worker
    BY <2>4 DEF UtUtterance
  <2> HIDE DEF r
  <2>6. /\ g \in UtState /\ UtHost(t, g) /\ g.made = t.made /\ g.current = t.current
        /\ g.up = t.up /\ g.utterance[u] = r
        /\ \A v \in Ut!Us : v # u => g.utterance[v] = t.utterance[v]
    BY <1>1, <2>5, UtWith
  <2> HIDE DEF g
  <2>7. UtQuietly(t, g)
    BY <1>1, <2>5, <2>6 DEF UtQuietly
  <2>8. UtInv(g) /\ u <= g.made
    BY <2>1, <2>6, <2>7, UtQuietKeeps
  <2> QED BY <2>3, <2>8, MaybeStartKeeps
<1> QED BY <1>2, <1>3

LEMMA ResetKeeps ==
    ASSUME UtUtterances \in Nat, NEW t, UtInv(t)
    PROVE  UtInv(Ut!Reset(t))
<1>1. t \in UtState /\ t.made \in Nat
  BY DEF UtInv, UtState
<1> DEFINE h == [t EXCEPT !.expected = 0, !.current = Ut!None]
           g == Ut!Quiet(h)
<1>2. h \in UtState
  BY <1>1 DEF UtState, Ut!None
<1>3. /\ UtHost(t, h) /\ h.made = t.made /\ h.current = 0 /\ h.up = t.up
      /\ h.utterance = t.utterance
  BY <1>1 DEF UtState, UtHost, Ut!None
<1>4. Ut!Reset(t) = IF t.current = Ut!None THEN g ELSE [g EXCEPT !.utterance[t.current].cancelled = TRUE]
  BY DEF Ut!Reset
<1> HIDE DEF h
<1>5. UtQuietly(t, h)
  BY <1>1, <1>2, <1>3 DEF UtQuietly
<1>6. UtInv(h)
  BY <1>5, UtQuietKeeps
<1>7. UtInv(g) /\ g \in UtState /\ g.current <= g.made
  BY <1>6, QuietKeeps DEF UtInv, UtKnown
<1> HIDE DEF g
<1>8. CASE t.current # Ut!None
  <2>1. PICK u \in Ut!Us : u = t.current
    BY <1>8, UtCurrentIsMade
  <2> DEFINE was == g.utterance[u]
             r == [was EXCEPT !.cancelled = TRUE]
             k == [g EXCEPT !.utterance[u] = r]
  <2>2. Ut!Reset(t) = k
    BY <1>4, <1>8, <2>1
  <2>3. was \in UtUtterance
    BY <1>7, UtRecord
  <2>4. r \in UtUtterance /\ r.worker = was.worker
    BY <2>3 DEF UtUtterance
  <2> HIDE DEF r
  <2>5. /\ k \in UtState /\ UtHost(g, k) /\ k.made = g.made /\ k.current = g.current
        /\ k.up = g.up /\ k.utterance[u] = r
        /\ \A v \in Ut!Us : v # u => k.utterance[v] = g.utterance[v]
    BY <1>7, <2>4, UtWith
  <2> HIDE DEF k
  <2>6. UtQuietly(g, k)
    BY <1>7, <2>4, <2>5 DEF UtQuietly
  <2> QED BY <1>7, <2>2, <2>6, UtQuietKeeps
<1> QED BY <1>4, <1>7, <1>8

LEMMA SidecarReadsKeeps ==
    ASSUME UtUtterances \in Nat, UtLoud \in Nat, UtInv(ut), Ut!SidecarReads
    PROVE  UtInv(ut')
<1> DEFINE m == Head(ut.down)
           rest == Tail(ut.down)
           t == [ut EXCEPT !.down = rest]
<1>1. ut \in UtState /\ ut.down \in Seq(UtDown) /\ ut.down # <<>> /\ ut.current <= ut.made
  BY UtFields DEF UtInv, Ut!SidecarReads, UtKnown
<1>2. m \in UtDown /\ rest \in Seq(UtDown)
  BY <1>1, HeadTailProperties
<1>3. /\ m.t = "frame" => ut.made < UtUtterances \/ ut.current # Ut!None \/ ut.loud + 1 < UtLoud
      /\ ut' = CASE m.t = "frame" -> Ut!Frame(t, m)
                 [] m.t = "bind" -> Ut!Bind(t, m)
                 [] m.t = "reset" -> Ut!Reset(t)
  BY DEF Ut!SidecarReads
<1> HIDE DEF m, rest
<1>4. t \in UtState
  BY <1>1, <1>2 DEF UtState
<1>5. /\ UtHost(ut, t) /\ t.made = ut.made /\ t.current = ut.current /\ t.up = ut.up
      /\ t.utterance = ut.utterance /\ t.loud = ut.loud
  BY <1>1 DEF UtState, UtHost
<1> HIDE DEF t
<1>6. UtQuietly(ut, t)
  BY <1>1, <1>4, <1>5 DEF UtQuietly
<1>7. UtInv(t)
  BY <1>6, UtQuietKeeps
<1>8. CASE m.t = "frame"
  <2>1. ut' = Ut!Frame(t, m) /\ m.loud \in BOOLEAN
    BY <1>2, <1>3, <1>8 DEF UtDown
  <2> QED BY <1>3, <1>5, <1>7, <1>8, <2>1, FrameKeeps
<1>9. CASE m.t = "bind"
  <2>1. ut' = Ut!Bind(t, m) /\ m.u \in Ut!Us /\ m.epoch \in Nat
    BY <1>2, <1>3, <1>9 DEF UtDown
  <2> QED BY <1>7, <2>1, BindKeeps
<1>10. CASE m.t = "reset"
  <2>1. ut' = Ut!Reset(t)
    BY <1>3, <1>10
  <2> QED BY <1>7, <2>1, ResetKeeps
<1>11. m.t \in {"frame", "bind", "reset"}
  BY <1>2 DEF UtDown
<1> QED BY <1>8, <1>9, <1>10, <1>11

\* a worker that is over, and what it says
LEMMA DoneKeeps ==
    ASSUME UtUtterances \in Nat, UtInv(ut), NEW u \in Ut!Us, ut.utterance[u].worker = "running"
    PROVE  LET done == [ut EXCEPT !.utterance[u].worker = "done"] IN
           /\ UtInv(done) /\ done.trouble = ut.trouble
           /\ \A e \in Nat :
                 UtInv([done EXCEPT !.current = Ut!None,
                                    !.up = Append(@, [t |-> "final", u |-> u, epoch |-> e])])
<1> DEFINE was == ut.utterance[u]
           r == [was EXCEPT !.worker = "done"]
           done == [ut EXCEPT !.utterance[u] = r]
<1>1. /\ ut \in UtState /\ ut.made \in Nat /\ ut.made <= UtUtterances /\ ut.current <= ut.made
  BY DEF UtInv, UtState, UtKnown
<1>2. was \in UtUtterance
  BY <1>1, UtRecord
<1>3. r \in UtUtterance /\ r.worker = "done"
  BY <1>2 DEF UtUtterance
<1>4. [ut EXCEPT !.utterance[u].worker = "done"] = done
  OBVIOUS
<1>5. done.trouble = ut.trouble
  BY <1>1 DEF UtState
<1> HIDE DEF r
<1>6. /\ done \in UtState /\ UtHost(ut, done) /\ done.made = ut.made /\ done.current = ut.current
      /\ done.up = ut.up /\ done.utterance[u] = r
      /\ \A v \in Ut!Us : v # u => done.utterance[v] = ut.utterance[v]
  BY <1>1, <1>3, UtWith
<1> HIDE DEF done
<1>7. UtOnward(ut, done)
  BY <1>3, <1>6 DEF UtOnward
<1>8. UtMoved(ut, done)
  BY <1>1, <1>6, <1>7 DEF UtMoved
<1>9. UtInv(done)
  BY <1>8, UtMoveKeeps
<1>10. ASSUME NEW e \in Nat
       PROVE  UtInv([done EXCEPT !.current = Ut!None,
                                 !.up = Append(@, [t |-> "final", u |-> u, epoch |-> e])])
  <2> DEFINE m == [t |-> "final", u |-> u, epoch |-> e]
             says == Append(done.up, m)
             g == [done EXCEPT !.current = Ut!None, !.up = says]
  <2>1. m \in UtUp /\ m.t = "final" /\ m.u = u
    BY DEF UtUp
  <2> HIDE DEF m
  <2>2. says \in Seq(UtUp) /\ says = Append(ut.up, m)
    BY <1>6, <2>1, UtFields, AppendProperties
  <2> HIDE DEF says
  <2>3. g \in UtState
    BY <1>6, <2>2 DEF UtState, Ut!None
  <2>4. /\ UtHost(done, g) /\ g.made = done.made /\ g.current = 0 /\ g.up = says
        /\ g.utterance = done.utterance
    BY <1>6 DEF UtState, UtHost, Ut!None
  <2> HIDE DEF g
  <2>5. UtHost(ut, g) /\ UtOnward(ut, g)
    BY <1>6, <1>7, <2>4 DEF UtHost, UtOnward
  <2>6. UtSays(ut, g, m)
    BY <1>3, <1>6, <2>1, <2>4 DEF UtSays
  <2>7. UtMoved(ut, g)
    BY <1>1, <1>6, <2>1, <2>2, <2>3, <2>4, <2>5, <2>6 DEF UtMoved
  <2> QED BY <2>7, UtMoveKeeps DEF m, says, g
<1> QED BY <1>4, <1>5, <1>9, <1>10

LEMMA WorkerKeeps ==
    ASSUME UtUtterances \in Nat, UtInv(ut), NEW u \in Ut!Us, Ut!Worker(u)
    PROVE  UtInv(ut')
<1> DEFINE me == ut.utterance[u]
           t == [ut EXCEPT !.utterance[u].chunks = @ - 1]
           said == [t EXCEPT !.utterance[u].partials = 1,
                             !.up = Append(@, [t |-> "partial", u |-> u, epoch |-> me.epoch,
                                               seq |-> me.partials])]
           done == [ut EXCEPT !.utterance[u].worker = "done"]
           final == [done EXCEPT !.current = Ut!None,
                                 !.up = Append(@, [t |-> "final", u |-> u, epoch |-> me.epoch])]
<1>1. /\ ut \in UtState /\ ut.made \in Nat /\ ut.made <= UtUtterances /\ ut.current <= ut.made
      /\ ut.trouble \in Nat
  BY UtFields DEF UtInv, UtState, UtKnown
<1>2. /\ me \in UtUtterance /\ me.chunks \in Int /\ me.epoch \in Nat /\ me.partials \in Nat
  BY <1>1, UtRecord
<1>3. me.worker = "running"
  BY DEF Ut!Worker
<1>4. \/ ut' = done \/ ut' = t \/ ut' = said \/ ut' = final
      \/ ut' = Ut!Fault([done EXCEPT !.trouble = @ + 1], "poisoned")
  BY DEF Ut!Worker
<1>5. UtInv(done) /\ UtInv(final)
  BY <1>2, <1>3, DoneKeeps
<1>6. PICK n \in Int : n = me.chunks - 1
  BY <1>2
<1> DEFINE r == [me EXCEPT !.chunks = n]
           g == [ut EXCEPT !.utterance[u] = r]
<1>7. t = g
  BY <1>6
<1>8. r \in UtUtterance /\ r.worker = me.worker
  BY <1>2 DEF UtUtterance
<1>9. CASE ut' = t
  <2> HIDE DEF r
  <2>1. /\ g \in UtState /\ UtHost(ut, g) /\ g.made = ut.made /\ g.current = ut.current
        /\ g.up = ut.up /\ g.utterance[u] = r
        /\ \A v \in Ut!Us : v # u => g.utterance[v] = ut.utterance[v]
    BY <1>1, <1>8, UtWith
  <2> HIDE DEF g
  <2>2. UtQuietly(ut, g)
    BY <1>1, <1>8, <2>1 DEF UtQuietly
  <2>3. UtInv(g)
    BY <2>2, UtQuietKeeps
  <2> HIDE DEF t
  <2> QED BY <1>7, <1>9, <2>3
<1>10. CASE ut' = said
  <2> DEFINE q == [r EXCEPT !.partials = 1]
             f == [ut EXCEPT !.utterance[u] = q]
             m == [t |-> "partial", u |-> u, epoch |-> me.epoch, seq |-> me.partials]
             says == Append(ut.up, m)
             k == [f EXCEPT !.up = says]
  <2>1. said = k
    <3>1. g.up = ut.up /\ g.utterance[u] = r
      <4> HIDE DEF r
      <4> QED BY <1>1, <1>8, UtWith
    <3>2. [g EXCEPT !.utterance[u].partials = 1] = f
      BY <1>1, <3>1 DEF UtState
    <3>3. said = [g EXCEPT !.utterance[u].partials = 1, !.up = Append(@, m)]
      BY <1>7
    <3>4. [g EXCEPT !.utterance[u].partials = 1, !.up = Append(@, m)]
          = [[g EXCEPT !.utterance[u].partials = 1] EXCEPT !.up = Append(g.up, m)]
      BY <1>1 DEF UtState
    <3> HIDE DEF said, f, g, m
    <3> QED BY <3>1, <3>2, <3>3, <3>4
  <2>2. q \in UtUtterance /\ q.worker = me.worker
    BY <1>8 DEF UtUtterance
  <2>3. m \in UtUp /\ m.t = "partial"
    BY <1>2 DEF UtUp
  <2> HIDE DEF q, m
  <2>4. says \in Seq(UtUp) /\ says = Append(ut.up, m)
    BY <1>1, <2>3, UtFields, AppendProperties
  <2> HIDE DEF says
  <2>5. /\ f \in UtState /\ UtHost(ut, f) /\ f.made = ut.made /\ f.current = ut.current
        /\ f.up = ut.up /\ f.utterance[u] = q
        /\ \A v \in Ut!Us : v # u => f.utterance[v] = ut.utterance[v]
    BY <1>1, <2>2, UtWith
  <2> HIDE DEF f
  <2>6. k \in UtState
    BY <2>4, <2>5 DEF UtState
  <2>7. /\ UtHost(f, k) /\ k.made = f.made /\ k.current = f.current /\ k.up = says
        /\ k.utterance = f.utterance
    BY <2>5 DEF UtState, UtHost
  <2> HIDE DEF k
  <2>8. UtHost(ut, k) /\ UtOnward(ut, k) /\ UtSays(ut, k, m)
    BY <2>2, <2>3, <2>5, <2>7 DEF UtHost, UtOnward, UtSays
  <2>9. UtMoved(ut, k)
    BY <1>1, <2>3, <2>4, <2>5, <2>6, <2>7, <2>8 DEF UtMoved
  <2>10. UtInv(k)
    BY <2>9, UtMoveKeeps
  <2> HIDE DEF said
  <2> QED BY <1>10, <2>1, <2>10
<1>11. CASE ut' = Ut!Fault([done EXCEPT !.trouble = @ + 1], "poisoned")
  <2>1. PICK p \in Nat : p = done.trouble + 1
    <3>1. done.trouble = ut.trouble
      BY <1>1 DEF UtState
    <3> HIDE DEF done
    <3> QED BY <1>1, <3>1
  <2> DEFINE k == [done EXCEPT !.trouble = p]
  <2>2. ut' = Ut!Fault(k, "poisoned")
    BY <1>11, <2>1
  <2> HIDE DEF done
  <2>3. done \in UtState /\ done.current <= done.made
    BY <1>5 DEF UtInv, UtKnown
  <2>4. k \in UtState
    BY <2>3 DEF UtState
  <2>5. /\ UtHost(done, k) /\ k.made = done.made /\ k.current = done.current /\ k.up = done.up
        /\ k.utterance = done.utterance
    BY <2>3 DEF UtState, UtHost
  <2> HIDE DEF k
  <2>6. UtQuietly(done, k)
    BY <2>3, <2>4, <2>5 DEF UtQuietly
  <2>7. UtInv(k)
    BY <1>5, <2>6, UtQuietKeeps
  <2> QED BY <2>2, <2>7, FaultKeeps DEF UtFaults
<1> HIDE DEF t, said, done, final
<1> QED BY <1>4, <1>5, <1>9, <1>10, <1>11

LEMMA UsAreNat == UtUtterances \in Nat => Ut!Us \subseteq Nat /\ Ut!None \notin Ut!Us
  BY DEF Ut!Us, Ut!None

LEMMA UtWaitings ==
    ASSUME NEW t \in UtState
    PROVE  /\ Len(t.pending) \in Nat /\ Len(t.handled) \in Nat
           /\ \A i \in 1..Len(t.pending) :
                 /\ t.pending[i] \in UtWaiting /\ t.pending[i].u \in Ut!Us
                 /\ t.pending[i].epoch \in Nat
           /\ \A i \in 1..Len(t.handled) : t.handled[i].u \in Ut!Us
<1>1. t.pending \in Seq(UtWaiting) /\ t.handled \in Seq(UtTurn)
  BY UtFields
<1>2. \A i \in 1..Len(t.pending) : t.pending[i] \in UtWaiting
  BY <1>1
<1>3. \A i \in 1..Len(t.handled) : t.handled[i] \in UtTurn
  BY <1>1
<1>4. \A p \in UtWaiting : p.u \in Ut!Us /\ p.epoch \in Nat
  BY DEF UtWaiting
<1>5. \A p \in UtTurn : p.u \in Ut!Us
  BY DEF UtTurn
<1>6. Len(t.pending) \in Nat /\ Len(t.handled) \in Nat
  BY <1>1, LenProperties
<1> QED BY <1>2, <1>3, <1>4, <1>5, <1>6

\* what the host reads is about an utterance that nothing else on its way is about
UtFresh(t, m) ==
    /\ m \in UtUp
    /\ m.t = "start" =>
         /\ m.u \in Ut!Us /\ m.u <= t.made /\ ~UtTold(t, m.u)
         /\ \A i \in 1..Len(t.up) : t.up[i].t = "start" => t.up[i].u # m.u
    /\ m.t = "final" =>
         /\ m.u \in Ut!Us /\ t.utterance[m.u].worker = "done" /\ ~UtTold(t, m.u)
         /\ \A i \in 1..Len(t.up) : t.up[i].t = "final" => t.up[i].u # m.u

LEMMA UtTakenKeeps ==
    ASSUME UtUtterances \in Nat, NEW s, UtInv(s), s.up # <<>>
    PROVE  LET t == [s EXCEPT !.up = Tail(@)] IN UtInv(t) /\ UtFresh(t, Head(s.up))
<1> DEFINE q == s.up
           rest == Tail(q)
           m == Head(q)
           t == [s EXCEPT !.up = rest]
           n == Len(rest)
<1>1. s \in UtState /\ q \in Seq(UtUp) /\ q # <<>>
  BY UtFields DEF UtInv
<1>2. /\ rest \in Seq(UtUp) /\ n \in Nat /\ Len(q) = n + 1 /\ m = q[1] /\ m \in UtUp
      /\ \A i \in 1..n : rest[i] = q[i + 1]
  BY <1>1, HeadTailProperties, LenProperties
<1> HIDE DEF rest, m
<1>3. t \in UtState
  BY <1>1, <1>2 DEF UtState
<1>4. /\ UtHost(s, t) /\ t.made = s.made /\ t.current = s.current /\ t.up = rest
      /\ t.utterance = s.utterance
  BY <1>1 DEF UtState, UtHost
<1>5. t.heard = s.heard
  BY <1>4 DEF UtHost
<1> HIDE DEF t, n, q
<1>6. \A u : UtTold(t, u) <=> UtTold(s, u)
  BY <1>4 DEF UtHost, UtTold
<1>7. UtKnown(t) /\ UtWaits(t) /\ UtHandles(t) /\ UtKeeps(t)
  BY <1>4, <1>6 DEF UtInv, UtHost, UtKnown, UtWaits, UtHandles, UtKeeps
<1>8. /\ \A i \in 1..(n + 1) : q[i].t = "start" =>
            /\ q[i].u <= s.made /\ q[i].u # s.heard /\ ~UtTold(s, q[i].u)
            /\ \A j \in 1..(n + 1) : q[j].t = "start" /\ q[j].u = q[i].u => i = j
      /\ \A i \in 1..(n + 1) : q[i].t = "final" =>
            /\ s.utterance[q[i].u].worker = "done" /\ ~UtTold(s, q[i].u)
            /\ \A j \in 1..(n + 1) : q[j].t = "final" /\ q[j].u = q[i].u => i = j
  BY <1>2 DEF UtInv, UtStarted, UtTranscribed, q
<1>9. UtStarted(t)
  <2>1. ASSUME NEW i \in 1..n, rest[i].t = "start"
        PROVE  /\ rest[i].u <= s.made /\ rest[i].u # s.heard /\ ~UtTold(s, rest[i].u)
               /\ \A j \in 1..n : rest[j].t = "start" /\ rest[j].u = rest[i].u => i = j
    <3>1. i + 1 \in 1..(n + 1) /\ rest[i] = q[i + 1]
      BY <1>2
    <3>2. ASSUME NEW j \in 1..n, rest[j].t = "start", rest[j].u = rest[i].u PROVE i = j
      <4>1. j + 1 \in 1..(n + 1) /\ rest[j] = q[j + 1]
        BY <1>2
      <4>2. i + 1 = j + 1
        BY <1>8, <2>1, <3>1, <3>2, <4>1
      <4> QED BY <1>2, <4>2
    <3> QED BY <1>8, <2>1, <3>1, <3>2
  <2> QED BY <1>4, <1>5, <1>6, <2>1 DEF UtStarted, n
<1>10. UtTranscribed(t)
  <2>1. ASSUME NEW i \in 1..n, rest[i].t = "final"
        PROVE  /\ s.utterance[rest[i].u].worker = "done" /\ ~UtTold(s, rest[i].u)
               /\ \A j \in 1..n : rest[j].t = "final" /\ rest[j].u = rest[i].u => i = j
    <3>1. i + 1 \in 1..(n + 1) /\ rest[i] = q[i + 1]
      BY <1>2
    <3>2. ASSUME NEW j \in 1..n, rest[j].t = "final", rest[j].u = rest[i].u PROVE i = j
      <4>1. j + 1 \in 1..(n + 1) /\ rest[j] = q[j + 1]
        BY <1>2
      <4>2. i + 1 = j + 1
        BY <1>8, <2>1, <3>1, <3>2, <4>1
      <4> QED BY <1>2, <4>2
    <3> QED BY <1>8, <2>1, <3>1, <3>2
  <2> QED BY <1>4, <1>6, <2>1 DEF UtTranscribed, n
<1>11. UtFresh(t, m)
  <2>1. ASSUME m.t \in {"start", "final"}, NEW i \in 1..n, rest[i].t = m.t PROVE rest[i].u # m.u
    <3>1. i + 1 \in 1..(n + 1) /\ rest[i] = q[i + 1] /\ 1 \in 1..(n + 1) /\ i + 1 # 1
      BY <1>2
    <3> QED BY <1>2, <1>8, <2>1, <3>1
  <2>2. m.t \in {"start", "final"} => m.u \in Ut!Us
    BY <1>2, UtMessage
  <2>3. 1 \in 1..(n + 1)
    BY <1>2
  <2> QED BY <1>2, <1>4, <1>6, <1>8, <2>1, <2>2, <2>3 DEF UtFresh, n
<1> QED BY <1>3, <1>7, <1>9, <1>10, <1>11 DEF UtInv, t, rest, m, q

LEMMA RefuseKeeps ==
    ASSUME UtUtterances \in Nat, NEW t, UtInv(t)
    PROVE  UtInv(Ut!Refuse(t)) /\ UtInv([t EXCEPT !.ended = TRUE])
           /\ UtInv([t EXCEPT !.partial = @ + 1])
<1>1. t \in UtState /\ t.current <= t.made
  BY DEF UtInv, UtKnown
<1>2. PICK n \in Nat : n = t.partial + 1
  BY <1>1, UtFields
<1> DEFINE f == [t EXCEPT !.failed = TRUE]
           g == [t EXCEPT !.ended = TRUE]
           h == [t EXCEPT !.partial = n]
<1>3. f \in UtState /\ g \in UtState /\ h \in UtState
  BY <1>1 DEF UtState
<1>4. /\ UtHost(t, f) /\ f.made = t.made /\ f.current = t.current /\ f.up = t.up
      /\ f.utterance = t.utterance
  BY <1>1 DEF UtState, UtHost
<1>5. /\ UtHost(t, g) /\ g.made = t.made /\ g.current = t.current /\ g.up = t.up
      /\ g.utterance = t.utterance
  BY <1>1 DEF UtState, UtHost
<1>6. /\ UtHost(t, h) /\ h.made = t.made /\ h.current = t.current /\ h.up = t.up
      /\ h.utterance = t.utterance
  BY <1>1 DEF UtState, UtHost
<1> HIDE DEF f, g, h
<1>7. UtQuietly(t, f) /\ UtQuietly(t, g) /\ UtQuietly(t, h)
  BY <1>1, <1>3, <1>4, <1>5, <1>6 DEF UtQuietly
<1> QED BY <1>2, <1>7, UtQuietKeeps DEF f, g, h, Ut!Refuse

LEMMA SpeechStartKeeps ==
    ASSUME UtUtterances \in Nat, NEW t, UtInv(t), NEW m, m.t = "start", UtFresh(t, m),
           NEW g \in Ut!SpeechStart(t, m)
    PROVE  UtInv(g)
<1>1. CASE t.heard # Ut!None
  BY <1>1, RefuseKeeps DEF Ut!SpeechStart
<1>2. CASE t.heard = Ut!None
  <2>1. PICK u \in Ut!Us : u = m.u
    BY DEF UtFresh
  <2>2. PICK e \in Nat :
           g = [t EXCEPT !.epoch = e, !.heard = u, !.bound = e, !.ended = FALSE, !.partial = 0,
                         !.began[u] = e,
                         !.down = Append(@, [t |-> "bind", u |-> u, epoch |-> e])]
    <3>1. PICK e \in {t.epoch, t.epoch + 1} \cap 1..UtEpochs :
           g = [t EXCEPT !.epoch = e, !.heard = u, !.bound = e, !.ended = FALSE, !.partial = 0,
                         !.began[u] = e,
                         !.down = Append(@, [t |-> "bind", u |-> u, epoch |-> e])]
      BY <1>2, <2>1 DEF Ut!SpeechStart
    <3>2. t.epoch \in Nat
      BY UtFields DEF UtInv
    <3>3. e \in Nat
      BY <3>2
    <3> QED BY <3>1, <3>3
  <2> DEFINE b == [t |-> "bind", u |-> u, epoch |-> e]
             line == Append(t.down, b)
             new == [t.began EXCEPT ![u] = e]
             k == [t EXCEPT !.epoch = e, !.heard = u, !.bound = e, !.ended = FALSE, !.partial = 0,
                            !.began = new, !.down = line]
  <2>3. g = k
    BY <2>2
  <2>4. t \in UtState /\ u \in Nat /\ t.made \in Nat
    BY UtFields, UsAreNat DEF UtInv
  <2>5. b \in UtDown
    BY DEF UtDown
  <2> HIDE DEF b
  <2>6. line \in Seq(UtDown)
    BY <2>4, <2>5, UtFields, AppendProperties
  <2>7. new \in [Ut!Us -> Nat] /\ new[u] = e /\ \A v \in Ut!Us : v # u => new[v] = t.began[v]
    BY <2>4, UtFields
  <2> HIDE DEF line, new
  <2>8. k \in UtState
    BY <2>4, <2>6, <2>7 DEF UtState
  <2>9. /\ k.heard = u /\ k.bound = e /\ k.began = new /\ k.made = t.made /\ k.current = t.current
        /\ k.up = t.up /\ k.utterance = t.utterance /\ k.stored = t.stored /\ k.lost = t.lost
        /\ k.acked = t.acked /\ k.pending = t.pending /\ k.handled = t.handled
    BY <2>4 DEF UtState
  <2> HIDE DEF k
  <2>10. /\ u <= t.made /\ ~UtTold(t, u)
         /\ \A i \in 1..Len(t.up) : t.up[i].t = "start" => t.up[i].u # u
    BY <2>1 DEF UtFresh
  <2>11. \A v : UtTold(k, v) <=> UtTold(t, v)
    BY <2>9 DEF UtTold
  <2>12. UtStarted(k) /\ UtTranscribed(k)
    BY <2>9, <2>10, <2>11 DEF UtInv, UtStarted, UtTranscribed
  <2>13. UtKnown(k)
    BY <2>7, <2>9, <2>10, <2>11 DEF UtInv, UtKnown
  <2>14. \A v \in Ut!Us : t.stored[v] # "no" => v # u
    BY <2>10 DEF UtTold
  <2>15. UtWaits(k)
    <3>1. \A i \in 1..Len(t.pending) : t.pending[i].u \in Ut!Us
      BY <2>4, UtWaitings
    <3>2. \A i \in 1..Len(t.pending) : new[t.pending[i].u] = t.began[t.pending[i].u]
      BY <2>7, <2>14, <3>1 DEF UtInv, UtWaits
    <3> QED BY <2>9, <3>2 DEF UtInv, UtWaits
  <2>16. UtHandles(k)
    <3>1. \A i \in 1..Len(t.handled) : t.handled[i].u \in Ut!Us
      BY <2>4, UtWaitings
    <3>2. \A v \in Ut!Us : v \in t.acked => t.stored[v] # "no"
      BY DEF UtInv, UtKnown
    <3>3. \A i \in 1..Len(t.handled) : new[t.handled[i].u] = t.began[t.handled[i].u]
      BY <2>7, <2>14, <3>1, <3>2 DEF UtInv, UtHandles
    <3> QED BY <2>9, <3>3 DEF UtInv, UtHandles
  <2>17. UtKeeps(k)
    BY <2>9 DEF UtInv, UtKeeps
  <2> QED BY <2>3, <2>8, <2>12, <2>13, <2>15, <2>16, <2>17 DEF UtInv
<1> QED BY <1>1, <1>2

LEMMA SttFinalKeeps ==
    ASSUME UtUtterances \in Nat, NEW t, UtInv(t), NEW m, m.t = "final", UtFresh(t, m)
    PROVE  UtInv(Ut!SttFinal(t, m))
<1>1. CASE t.heard # m.u \/ ~t.ended \/ t.bound # m.epoch
  BY <1>1, RefuseKeeps DEF Ut!SttFinal
<1>2. CASE ~(t.heard # m.u \/ ~t.ended \/ t.bound # m.epoch)
  <2>1. PICK u \in Ut!Us : u = m.u
    BY DEF UtFresh
  <2>2. PICK e \in Nat : e = m.epoch
    BY DEF UtFresh, UtUp
  <2>3. t \in UtState /\ t.heard = u /\ t.bound = e /\ t.made \in Nat /\ Ut!None \notin Ut!Us
    BY <1>2, <2>1, <2>2, UtFields, UsAreNat DEF UtInv
  <2>4. t.began[u] = e
    BY <2>3 DEF UtInv, UtKnown
  <2>5. /\ t.utterance[u].worker = "done" /\ ~UtTold(t, u)
        /\ \A i \in 1..Len(t.up) : t.up[i].t = "final" => t.up[i].u # u
        /\ \A i \in 1..Len(t.up) : t.up[i].t = "start" => t.up[i].u # u
    BY <2>1, <2>3 DEF UtFresh, UtInv, UtStarted
  <2>6. t.stored[u] = "no" /\ u \notin t.lost /\ u \notin t.acked
    BY <2>5 DEF UtTold, UtInv, UtKnown
  <2> DEFINE gone == t.lost \cup {u}
             f == [t EXCEPT !.lost = gone, !.heard = Ut!None, !.bound = Ut!None]
             p == [u |-> u, epoch |-> e, failed |-> FALSE]
             line == Append(t.pending, p)
             told == [t.stored EXCEPT ![u] = "told"]
             g == [t EXCEPT !.pending = line, !.stored = told, !.heard = Ut!None, !.bound = Ut!None]
  <2>7. Ut!SttFinal(t, m) = IF e # t.epoch \/ Len(t.pending) >= UtPending THEN f ELSE g
    <3>1. Ut!SttFinal(t, m) = [Ut!Final(t, m) EXCEPT !.heard = Ut!None, !.bound = Ut!None]
      BY <1>2 DEF Ut!SttFinal
    <3>2. Ut!Final(t, m) = IF e # t.epoch \/ Len(t.pending) >= UtPending
                        THEN [t EXCEPT !.lost = gone]
                        ELSE [t EXCEPT !.pending = line, !.stored = told]
      BY <2>1, <2>2, <2>3 DEF Ut!Final, UtState
    <3>3. [[t EXCEPT !.lost = gone] EXCEPT !.heard = Ut!None, !.bound = Ut!None] = f
      BY <2>3 DEF UtState
    <3>4. [[t EXCEPT !.pending = line, !.stored = told] EXCEPT !.heard = Ut!None, !.bound = Ut!None] = g
      BY <2>3 DEF UtState
    <3> HIDE DEF gone, f, line, told, g
    <3> QED BY <3>1, <3>2, <3>3, <3>4
  <2>8. gone \in SUBSET Ut!Us /\ \A v \in Ut!Us : v # u => (v \in gone <=> v \in t.lost)
    BY <2>3, UtFields
  <2>9. /\ told \in [Ut!Us -> {"no", "told", "failed", "stored"}] /\ told[u] = "told"
        /\ \A v \in Ut!Us : v # u => told[v] = t.stored[v]
    BY <2>3, UtFields
  <2>10. p \in UtWaiting /\ p.u = u /\ p.epoch = e
    BY DEF UtWaiting
  <2>11. t.pending \in Seq(UtWaiting) /\ Len(t.pending) \in Nat
    BY <2>3, UtFields, LenProperties
  <2> HIDE DEF p
  <2>12. /\ line \in Seq(UtWaiting) /\ Len(line) = Len(t.pending) + 1
         /\ line[Len(t.pending) + 1] = p
         /\ \A i \in 1..Len(t.pending) : line[i] = t.pending[i]
    BY <2>10, <2>11, AppendProperties
  <2>13. u \in gone
    OBVIOUS
  <2> HIDE DEF gone, told, line
  <2>14. f \in UtState /\ g \in UtState
    BY <2>3, <2>8, <2>9, <2>12 DEF UtState, Ut!None
  <2>15. /\ f.heard = 0 /\ f.made = t.made /\ f.current = t.current /\ f.up = t.up
         /\ f.utterance = t.utterance /\ f.stored = t.stored /\ f.lost = gone /\ f.acked = t.acked
         /\ f.pending = t.pending /\ f.handled = t.handled /\ f.began = t.began
    BY <2>3 DEF UtState, Ut!None
  <2>16. /\ g.heard = 0 /\ g.made = t.made /\ g.current = t.current /\ g.up = t.up
         /\ g.utterance = t.utterance /\ g.stored = told /\ g.lost = t.lost /\ g.acked = t.acked
         /\ g.pending = line /\ g.handled = t.handled /\ g.began = t.began
    BY <2>3 DEF UtState, Ut!None
  <2> HIDE DEF f, g
  <2>17. \A v \in Ut!Us : v # u => (UtTold(f, v) <=> UtTold(t, v)) /\ (UtTold(g, v) <=> UtTold(t, v))
    BY <2>8, <2>9, <2>15, <2>16 DEF UtTold
  <2>18. \A i \in 1..Len(t.up) : t.up[i].t \in {"start", "final"} => t.up[i].u \in Ut!Us
    <3>1. t.up \in Seq(UtUp)
      BY <2>3, UtFields
    <3>2. \A i \in 1..Len(t.up) : t.up[i] \in UtUp
      BY <3>1
    <3> QED BY <3>2, UtMessage
  <2>19. \A v \in Ut!Us : v # 0
    BY <2>3 DEF Ut!None
  <2>20. /\ UtStarted(f) /\ UtTranscribed(f) /\ UtStarted(g) /\ UtTranscribed(g)
    <3>1. UtStarted(f)
      BY <2>5, <2>15, <2>17, <2>18, <2>19 DEF UtInv, UtStarted
    <3>2. UtStarted(g)
      BY <2>5, <2>16, <2>17, <2>18, <2>19 DEF UtInv, UtStarted
    <3>3. UtTranscribed(f)
      BY <2>5, <2>15, <2>17, <2>18 DEF UtInv, UtTranscribed
    <3>4. UtTranscribed(g)
      BY <2>5, <2>16, <2>17, <2>18 DEF UtInv, UtTranscribed
    <3> QED BY <3>1, <3>2, <3>3, <3>4
  <2>21. 0 <= t.made
    BY <2>3
  <2>22. UtKnown(f)
    <3>1. ASSUME NEW v \in Ut!Us
          PROVE  /\ v > t.made => t.utterance[v].worker = "none"
                 /\ UtTold(f, v) => t.utterance[v].worker = "done"
                 /\ v \in gone => t.stored[v] = "no"
                 /\ v \in t.acked => t.stored[v] = "stored"
      BY <2>5, <2>6, <2>8, <2>17 DEF UtInv, UtKnown
    <3> QED BY <2>15, <2>19, <2>21, <3>1 DEF UtInv, UtKnown
  <2>23. UtKnown(g)
    <3>1. ASSUME NEW v \in Ut!Us
          PROVE  /\ v > t.made => t.utterance[v].worker = "none"
                 /\ UtTold(g, v) => t.utterance[v].worker = "done"
                 /\ v \in t.lost => told[v] = "no"
                 /\ v \in t.acked => told[v] = "stored"
      BY <2>5, <2>6, <2>9, <2>17 DEF UtInv, UtKnown
    <3> QED BY <2>16, <2>19, <2>21, <3>1 DEF UtInv, UtKnown
  <2>24. UtWaits(f) /\ UtHandles(f) /\ UtKeeps(f)
    BY <2>15 DEF UtInv, UtWaits, UtHandles, UtKeeps
  <2>25. UtWaits(g)
    <3>1. \A i \in 1..Len(t.pending) :
            /\ t.pending[i].u \in Ut!Us /\ t.pending[i].u # u
            /\ t.pending[i].u \notin t.acked /\ told[t.pending[i].u] # "no"
            /\ t.pending[i].epoch = t.began[t.pending[i].u]
            /\ \A j \in 1..Len(t.pending) : t.pending[j].u = t.pending[i].u => i = j
      <4>1. \A i \in 1..Len(t.pending) : t.pending[i].u \in Ut!Us
        BY <2>3, UtWaitings
      <4> QED BY <2>6, <2>9, <4>1 DEF UtInv, UtWaits
    <3>2. \A i \in 1..Len(line) : i \in 1..Len(t.pending) \/ i = Len(t.pending) + 1
      BY <2>11, <2>12
    <3> DEFINE n == Len(t.pending)
    <3>3. /\ \A i \in 1..n : line[i].u # line[n + 1].u /\ line[i].u # u
          /\ line[n + 1].u = u /\ line[n + 1].epoch = e
      BY <2>10, <2>12, <3>1
    <3>4. ASSUME NEW i \in 1..Len(line)
          PROVE  /\ line[i].u \notin t.acked /\ told[line[i].u] # "no"
                 /\ line[i].epoch = t.began[line[i].u]
                 /\ \A j \in 1..Len(line) : line[j].u = line[i].u => i = j
      <4>1. CASE i = n + 1
        BY <2>4, <2>6, <2>9, <3>2, <3>3, <4>1
      <4>2. CASE i \in 1..n
        <5>1. line[i] = t.pending[i]
          BY <2>12, <4>2
        <5>2. ASSUME NEW j \in 1..Len(line), line[j].u = line[i].u PROVE i = j
          <6>1. j \in 1..n
            BY <3>2, <3>3, <4>2, <5>2
          <6> QED BY <2>12, <3>1, <4>2, <5>1, <5>2, <6>1
        <5> QED BY <3>1, <4>2, <5>1, <5>2
      <4> QED BY <3>2, <4>1, <4>2
    <3> QED BY <2>16, <3>4 DEF UtWaits
  <2>26. UtHandles(g)
    BY <2>16 DEF UtInv, UtHandles
  <2>27. UtKeeps(g)
    <3>1. ASSUME NEW v \in Ut!Us, told[v] # "no"
          PROVE  v \in t.acked \/ \E i \in 1..Len(line) : line[i].u = v
      <4>1. CASE v = u
        <5>1. Len(t.pending) + 1 \in 1..Len(line)
          BY <2>11, <2>12
        <5> QED BY <2>10, <2>12, <4>1, <5>1
      <4>2. CASE v # u
        <5>1. v \in t.acked \/ \E i \in 1..Len(t.pending) : t.pending[i].u = v
          BY <2>9, <3>1, <4>2 DEF UtInv, UtKeeps
        <5>2. \A i \in 1..Len(t.pending) : i \in 1..Len(line)
          BY <2>11, <2>12
        <5> QED BY <2>12, <5>1, <5>2
      <4> QED BY <4>1, <4>2
    <3> QED BY <2>16, <3>1 DEF UtKeeps
  <2>28. UtInv(f) /\ UtInv(g)
    BY <2>14, <2>20, <2>22, <2>23, <2>24, <2>25, <2>26, <2>27 DEF UtInv
  <2> QED BY <2>7, <2>28
<1> QED BY <1>1, <1>2

LEMMA RemoveAtIs ==
    ASSUME NEW S, NEW q \in Seq(S), NEW i \in 1..Len(q)
    PROVE  /\ Ut!RemoveAt(q, i) \in Seq(S) /\ Len(Ut!RemoveAt(q, i)) = Len(q) - 1
           /\ \A j \in 1..(Len(q) - 1) : Ut!RemoveAt(q, i)[j] = IF j < i THEN q[j] ELSE q[j + 1]
<1> DEFINE before == SubSeq(q, 1, i - 1)
           after == SubSeq(q, i + 1, Len(q))
<1>1. Len(q) \in Nat /\ \A j \in 1..Len(q) : q[j] \in S
  BY LenProperties
<1>2. /\ before \in Seq(S) /\ Len(before) = i - 1
      /\ \A j \in 1..(i - 1) : before[j] = q[j]
  <2>1. \A j \in 1..(i - 1) : q[j] \in S
    BY <1>1
  <2> QED BY <1>1, <2>1, SubSeqProperties
<1>3. /\ after \in Seq(S) /\ Len(after) = Len(q) - i
      /\ \A j \in 1..(Len(q) - i) : after[j] = q[i + j]
  <2>1. \A j \in (i + 1)..Len(q) : q[j] \in S
    BY <1>1
  <2>2. /\ after \in Seq(S)
        /\ Len(after) = IF i + 1 <= Len(q) THEN Len(q) - (i + 1) + 1 ELSE 0
    BY <1>1, <2>1, SubSeqProperties
  <2>3. \A j \in 1..(Len(q) - (i + 1) + 1) : after[j] = q[(i + 1) + j - 1]
    BY <1>1, <2>1, SubSeqProperties
  <2>4. \A j \in 1..(Len(q) - i) : after[j] = q[i + j]
    BY <1>1, <2>3
  <2> QED BY <1>1, <2>2, <2>4
<1>4. Ut!RemoveAt(q, i) = before \o after
  BY DEF Ut!RemoveAt
<1> HIDE DEF before, after
<1>5. /\ before \o after \in Seq(S)
      /\ Len(before \o after) = Len(before) + Len(after)
      /\ \A j \in 1..(Len(before) + Len(after)) :
            (before \o after)[j] = IF j <= Len(before) THEN before[j] ELSE after[j - Len(before)]
  BY <1>2, <1>3, ConcatProperties
<1> DEFINE all == before \o after
<1> HIDE DEF all
<1>6. \A j \in 1..(Len(q) - 1) : all[j] = IF j < i THEN q[j] ELSE q[j + 1]
  <2>1. ASSUME NEW j \in 1..(Len(q) - 1) PROVE all[j] = IF j < i THEN q[j] ELSE q[j + 1]
    <3>1. CASE j < i
      <4>1. j <= Len(before) /\ j \in 1..(Len(before) + Len(after)) /\ j \in 1..(i - 1)
        BY <1>1, <1>2, <1>3, <3>1
      <4>2. all[j] = before[j]
        BY <1>5, <4>1 DEF all
      <4> QED BY <1>2, <3>1, <4>1, <4>2
    <3>2. CASE ~(j < i)
      <4>1. /\ ~(j <= Len(before)) /\ j \in 1..(Len(before) + Len(after))
            /\ j - Len(before) \in 1..(Len(q) - i) /\ i + (j - Len(before)) = j + 1
        BY <1>1, <1>2, <1>3, <3>2
      <4>2. all[j] = after[j - Len(before)]
        BY <1>5, <4>1 DEF all
      <4> QED BY <1>3, <3>2, <4>1, <4>2
    <3> QED BY <3>1, <3>2
  <2> QED BY <2>1
<1>7. Len(before) + Len(after) = Len(q) - 1
  BY <1>1, <1>2, <1>3
<1> QED BY <1>4, <1>5, <1>6, <1>7 DEF all

\* At finds the place of what waits, or nothing
LEMMA AtIs ==
    ASSUME UtInv(ut), NEW u \in Ut!Us
    PROVE  /\ Ut!At(u) \in 1..Len(ut.pending) => ut.pending[Ut!At(u)].u = u
           /\ Ut!At(u) \notin 1..Len(ut.pending) => Ut!At(u) = 0
           /\ \A i \in 1..Len(ut.pending) : ut.pending[i].u = u => Ut!At(u) = i
<1> DEFINE I == {i \in 1..Len(ut.pending) : ut.pending[i].u = u}
<1>1. Ut!At(u) = IF I # {} THEN Ut!Min(I) ELSE 0
  BY DEF Ut!At, Ut!SelectInSeq
<1>2. Len(ut.pending) \in Nat
  BY UtWaitings DEF UtInv
<1>3. \A i, j \in I : i = j
  BY DEF UtInv, UtWaits
<1>4. I \subseteq Nat
  BY <1>2
<1>5. \A i \in 1..Len(ut.pending) : i \in I <=> ut.pending[i].u = u
  OBVIOUS
<1>6. I \subseteq 1..Len(ut.pending)
  OBVIOUS
<1> HIDE DEF I
<1>7. ASSUME NEW i \in I PROVE Ut!Min(I) = i
  <2>1. \A y \in I : i <= y
    BY <1>3, <1>4
  <2>2. Ut!Min(I) \in I
    BY <2>1 DEF Ut!Min
  <2> QED BY <1>3, <2>2
<1>8. 0 \notin 1..Len(ut.pending)
  BY <1>2
<1>9. CASE I = {}
  <2>1. Ut!At(u) = 0
    BY <1>1, <1>9
  <2> QED BY <1>5, <1>8, <1>9, <2>1
<1>10. CASE I # {}
  <2>1. PICK i : i \in I
    BY <1>10
  <2>2. Ut!At(u) = i
    BY <1>1, <1>7, <1>10, <2>1
  <2> QED BY <1>3, <1>5, <1>6, <2>1, <2>2
<1> QED BY <1>9, <1>10

LEMMA HostReadsKeeps ==
    ASSUME UtUtterances \in Nat, UtInv(ut), Ut!HostReads
    PROVE  UtInv(ut')
<1> DEFINE m == Head(ut.up)
           t == [ut EXCEPT !.up = Tail(@)]
<1>1. ut.up # <<>>
  BY DEF Ut!HostReads
<1>2. UtInv(t) /\ UtFresh(t, m)
  BY <1>1, UtTakenKeeps
<1>3. ut' \in CASE m.t = "start" -> Ut!SpeechStart(t, m)
                [] m.t = "end" -> {Ut!SpeechEnd(t, m)}
                [] m.t = "partial" -> {Ut!SttPartial(t, m)}
                [] m.t = "final" -> {Ut!SttFinal(t, m)}
                [] m.t = "failure" -> {Ut!Refuse(t)}
  BY DEF Ut!HostReads
<1>4. m.t \in {"start", "end", "partial", "final", "failure"}
  BY <1>2 DEF UtFresh, UtUp
<1> HIDE DEF m, t
<1>5. CASE m.t = "start"
  BY <1>2, <1>3, <1>5, SpeechStartKeeps
<1>6. CASE m.t = "end"
  <2>1. ut' = Ut!SpeechEnd(t, m)
    BY <1>3, <1>6
  <2> QED BY <1>2, <2>1, RefuseKeeps DEF Ut!SpeechEnd
<1>7. CASE m.t = "partial"
  <2>1. ut' = Ut!SttPartial(t, m)
    BY <1>3, <1>7
  <2> QED BY <1>2, <2>1, RefuseKeeps DEF Ut!SttPartial
<1>8. CASE m.t = "final"
  <2>1. ut' = Ut!SttFinal(t, m)
    BY <1>3, <1>8
  <2> QED BY <1>2, <1>8, <2>1, SttFinalKeeps
<1>9. CASE m.t = "failure"
  <2>1. ut' = Ut!Refuse(t)
    BY <1>3, <1>9
  <2> QED BY <1>2, <2>1, RefuseKeeps
<1> QED BY <1>4, <1>5, <1>6, <1>7, <1>8, <1>9

LEMMA EpochMovesKeeps ==
    ASSUME UtUtterances \in Nat, UtInv(ut), Ut!EpochMoves
    PROVE  UtInv(ut')
<1>1. ut \in UtState /\ ut.current <= ut.made
  BY DEF UtInv, UtKnown
<1>2. PICK e \in Nat : e = ut.epoch + 1
  BY <1>1, UtFields
<1>3. ut' = [ut EXCEPT !.epoch = e]
  BY <1>2 DEF Ut!EpochMoves
<1>4. ut' \in UtState
  BY <1>1, <1>3 DEF UtState
<1>5. /\ UtHost(ut, ut') /\ ut'.made = ut.made /\ ut'.current = ut.current /\ ut'.up = ut.up
      /\ ut'.utterance = ut.utterance
  BY <1>1, <1>3 DEF UtState, UtHost
<1>6. UtQuietly(ut, ut')
  BY <1>1, <1>4, <1>5 DEF UtQuietly
<1> QED BY <1>6, UtQuietKeeps

LEMMA UtCaptureKeeps ==
    ASSUME UtUtterances \in Nat, UtInv(ut), Ut!Capture
    PROVE  UtInv(ut')
<1>1. ut \in UtState /\ ut.current <= ut.made
  BY DEF UtInv, UtKnown
<1>2. PICK f \in Nat : f = ut.frames + 1
  BY <1>1, UtFields
<1>2a. PICK p \in Nat : p = ut.packed + 1
  BY <1>1, UtFields
<1>3. PICK loud \in BOOLEAN :
         ut' = [ut EXCEPT !.frames = f, !.packed = p,
                          !.down = Append(@, [t |-> "frame", loud |-> loud, seq |-> ut.packed,
                                              capture |-> ut.capture])]
  BY <1>2, <1>2a DEF Ut!Capture
<1> DEFINE m == [t |-> "frame", loud |-> loud, seq |-> ut.packed, capture |-> ut.capture]
           line == Append(ut.down, m)
           g == [ut EXCEPT !.frames = f, !.packed = p, !.down = line]
<1>4. ut' = g
  BY <1>3
<1>5. m \in UtDown
  BY <1>1, UtFields DEF UtDown
<1> HIDE DEF m
<1>6. line \in Seq(UtDown)
  BY <1>1, <1>5, UtFields, AppendProperties
<1> HIDE DEF line
<1>7. g \in UtState
  BY <1>1, <1>6 DEF UtState
<1>8. /\ UtHost(ut, g) /\ g.made = ut.made /\ g.current = ut.current /\ g.up = ut.up
      /\ g.utterance = ut.utterance
  BY <1>1 DEF UtState, UtHost
<1> HIDE DEF g
<1>9. UtQuietly(ut, g)
  BY <1>1, <1>7, <1>8 DEF UtQuietly
<1> QED BY <1>4, <1>9, UtQuietKeeps

\* a fresh capture: what the host heard is not heard any more
LEMMA RebindKeeps ==
    ASSUME UtUtterances \in Nat, UtInv(ut), Ut!Rebind
    PROVE  UtInv(ut')
<1>1. ut \in UtState /\ ut.made \in Nat /\ Ut!None \notin Ut!Us
  BY UtFields, UsAreNat DEF UtInv
<1>2. PICK r \in Nat : r = ut.trouble + 1
  BY <1>1, UtFields
<1>2a. PICK c \in Nat : c = ut.capture + 1
  BY <1>1, UtFields
<1> DEFINE m == [t |-> "reset"]
           line == Append(ut.down, m)
           g == [ut EXCEPT !.trouble = r, !.rebound = TRUE, !.capture = c, !.packed = 0,
                           !.heard = Ut!None, !.bound = Ut!None, !.down = line]
<1>3. ut' = g
  BY <1>2, <1>2a DEF Ut!Rebind
<1>4. m \in UtDown
  BY DEF UtDown
<1> HIDE DEF m
<1>5. line \in Seq(UtDown)
  BY <1>1, <1>4, UtFields, AppendProperties
<1> HIDE DEF line
<1>6. g \in UtState
  BY <1>1, <1>5 DEF UtState, Ut!None
<1>7. /\ g.heard = 0 /\ g.began = ut.began /\ g.made = ut.made /\ g.current = ut.current
      /\ g.up = ut.up /\ g.utterance = ut.utterance /\ g.stored = ut.stored /\ g.lost = ut.lost
      /\ g.acked = ut.acked /\ g.pending = ut.pending /\ g.handled = ut.handled
  BY <1>1 DEF UtState, Ut!None
<1> HIDE DEF g
<1>8. \A v : UtTold(g, v) <=> UtTold(ut, v)
  BY <1>7 DEF UtTold
<1>9. \A i \in 1..Len(ut.up) : ut.up[i].t = "start" => ut.up[i].u # 0
  <2>1. \A i \in 1..Len(ut.up) : ut.up[i] \in UtUp
    BY <1>1, UtFields
  <2> QED BY <1>1, <2>1, UtMessage DEF Ut!None
<1>10. UtStarted(g) /\ UtTranscribed(g)
  BY <1>7, <1>8, <1>9 DEF UtInv, UtStarted, UtTranscribed
<1>11. UtKnown(g)
  <2>1. 0 <= ut.made /\ \A v \in Ut!Us : v # 0
    BY <1>1 DEF Ut!None
  <2> QED BY <1>7, <1>8, <2>1 DEF UtInv, UtKnown
<1>12. UtWaits(g) /\ UtHandles(g) /\ UtKeeps(g)
  BY <1>7 DEF UtInv, UtWaits, UtHandles, UtKeeps
<1> QED BY <1>3, <1>6, <1>10, <1>11, <1>12 DEF UtInv

\* the browser stores what it was told, or cannot
LEMMA StoreKeeps ==
    ASSUME UtUtterances \in Nat, UtInv(ut), NEW u \in Ut!Us, Ut!Store(u)
    PROVE  UtInv(ut')
<1>1. ut \in UtState /\ ut.stored[u] # "no" /\ ut.trouble \in Nat
  BY UtFields DEF UtInv, Ut!Store
<1>2. PICK w \in {"stored", "failed"}, r \in Nat :
         /\ ut' = [ut EXCEPT !.stored[u] = w, !.trouble = r]
         /\ w = "failed" => ut.stored[u] = "told"
  <2>1. CASE ut' = [ut EXCEPT !.stored[u] = "stored"]
    <3>1. ut' = [ut EXCEPT !.stored[u] = "stored", !.trouble = ut.trouble]
      BY <1>1, <2>1 DEF UtState
    <3> QED BY <1>1, <3>1
  <2>2. CASE ut.stored[u] = "told" /\ ut' = [ut EXCEPT !.stored[u] = "failed", !.trouble = @ + 1]
    <3>1. ut.trouble + 1 \in Nat
      BY <1>1
    <3> QED BY <2>2, <3>1
  <2> QED BY <2>1, <2>2 DEF Ut!Store
<1> DEFINE new == [ut.stored EXCEPT ![u] = w]
           g == [ut EXCEPT !.stored = new, !.trouble = r]
<1>3. ut' = g
  BY <1>2
<1>4. /\ new \in [Ut!Us -> {"no", "told", "failed", "stored"}] /\ new[u] = w
      /\ \A v \in Ut!Us : v # u => new[v] = ut.stored[v]
  BY <1>1, UtFields
<1> HIDE DEF new
<1>5. g \in UtState
  BY <1>1, <1>4 DEF UtState
<1>6. /\ g.heard = ut.heard /\ g.bound = ut.bound /\ g.began = ut.began /\ g.made = ut.made
      /\ g.current = ut.current
      /\ g.up = ut.up /\ g.utterance = ut.utterance /\ g.stored = new /\ g.lost = ut.lost
      /\ g.acked = ut.acked /\ g.pending = ut.pending /\ g.handled = ut.handled
  BY <1>1 DEF UtState
<1> HIDE DEF g
<1>7. \A v \in Ut!Us : new[v] # "no" <=> ut.stored[v] # "no"
  BY <1>1, <1>4
<1>8. \A v \in Ut!Us : UtTold(g, v) <=> UtTold(ut, v)
  BY <1>6, <1>7 DEF UtTold
<1>9. \A i \in 1..Len(ut.up) : ut.up[i].t \in {"start", "final"} => ut.up[i].u \in Ut!Us
  <2>1. \A i \in 1..Len(ut.up) : ut.up[i] \in UtUp
    BY <1>1, UtFields
  <2> QED BY <2>1, UtMessage
<1>10. UtStarted(g)
  BY <1>6, <1>8, <1>9 DEF UtInv, UtStarted
<1>11. UtTranscribed(g)
  BY <1>6, <1>8, <1>9 DEF UtInv, UtTranscribed
<1>12. UtKnown(g)
  <2>1. ASSUME NEW v \in Ut!Us
        PROVE  /\ v \in ut.lost => new[v] = "no"
               /\ v \in ut.acked => new[v] = "stored"
    BY <1>1, <1>2, <1>4, <2>1 DEF UtInv, UtKnown
  <2> QED BY <1>6, <1>8, <2>1 DEF UtInv, UtKnown
<1>13. UtWaits(g)
  <2>1. \A i \in 1..Len(ut.pending) : ut.pending[i].u \in Ut!Us
    BY <1>1, UtWaitings
  <2> QED BY <1>6, <1>7, <2>1 DEF UtInv, UtWaits
<1>14. UtHandles(g) /\ UtKeeps(g)
  BY <1>6, <1>7 DEF UtInv, UtHandles, UtKeeps
<1> QED BY <1>3, <1>5, <1>10, <1>11, <1>12, <1>13, <1>14 DEF UtInv

LEMMA UtClosedKeeps ==
    ASSUME UtUtterances \in Nat, NEW t, UtInv(t)
    PROVE  UtInv([t EXCEPT !.closed = TRUE])
<1> DEFINE g == [t EXCEPT !.closed = TRUE]
<1>1. t \in UtState /\ t.current <= t.made
  BY DEF UtInv, UtKnown
<1>2. g \in UtState
  BY <1>1 DEF UtState
<1>3. /\ UtHost(t, g) /\ g.made = t.made /\ g.current = t.current /\ g.up = t.up
      /\ g.utterance = t.utterance
  BY <1>1 DEF UtState, UtHost
<1> HIDE DEF g
<1>4. UtQuietly(t, g)
  BY <1>1, <1>2, <1>3 DEF UtQuietly
<1> QED BY <1>4, UtQuietKeeps DEF g

\* what is handled leaves what waits
LEMMA HandledKeeps ==
    ASSUME UtUtterances \in Nat, UtInv(ut), NEW u \in Ut!Us, ut.stored[u] = "stored",
           NEW i \in 1..Len(ut.pending), ut.pending[i].u = u, ut.pending[i].epoch = ut.epoch
    PROVE  UtInv([ut EXCEPT !.pending = Ut!RemoveAt(@, i), !.acked = @ \cup {u},
                            !.handled = Append(@, [u |-> u, epoch |-> ut.epoch])])
<1> DEFINE line == ut.pending
           rest == Ut!RemoveAt(line, i)
           acked == ut.acked \cup {u}
           h == [u |-> u, epoch |-> ut.epoch]
           all == Append(ut.handled, h)
           g == [ut EXCEPT !.pending = rest, !.acked = acked, !.handled = all]
           n == Len(line)
           k == Len(ut.handled)
<1>1. ut \in UtState /\ line \in Seq(UtWaiting) /\ ut.handled \in Seq(UtTurn)
      /\ n \in Nat /\ k \in Nat /\ \A j \in 1..n : line[j].u \in Ut!Us
  BY UtFields, UtWaitings DEF UtInv
<1>2. h \in UtTurn /\ h.u = u /\ h.epoch = ut.began[u] /\ u \notin ut.acked
  <2>1. ut.epoch \in Nat /\ ut.epoch = ut.began[u] /\ u \notin ut.acked
    BY <1>1, UtWaitings DEF UtInv, UtWaits
  <2> QED BY <2>1 DEF UtTurn
<1> HIDE DEF h
<1>3. /\ rest \in Seq(UtWaiting) /\ Len(rest) = n - 1
      /\ \A j \in 1..(n - 1) : rest[j] = IF j < i THEN line[j] ELSE line[j + 1]
  BY <1>1, RemoveAtIs
<1>4. /\ all \in Seq(UtTurn) /\ Len(all) = k + 1 /\ all[k + 1] = h
      /\ \A j \in 1..k : all[j] = ut.handled[j]
  BY <1>1, <1>2, AppendProperties
<1>5. acked \in SUBSET Ut!Us /\ \A v : v \in acked <=> v \in ut.acked \/ v = u
  BY <1>1, UtFields
<1>6. \A j, l \in 1..n : line[j].u = line[l].u => j = l
  BY DEF UtInv, UtWaits
<1>7. \A j \in 1..n : /\ line[j].u \notin ut.acked /\ ut.stored[line[j].u] # "no"
                      /\ line[j].epoch = ut.began[line[j].u]
  BY DEF UtInv, UtWaits
<1>8. \A j \in 1..k : /\ ut.handled[j].u \in ut.acked
                      /\ ut.handled[j].epoch = ut.began[ut.handled[j].u]
                      /\ \A l \in 1..k : ut.handled[l].u = ut.handled[j].u => j = l
  BY DEF UtInv, UtHandles
<1> HIDE DEF rest, acked, all
<1>9. g \in UtState
  BY <1>1, <1>3, <1>4, <1>5 DEF UtState
<1>10. /\ g.heard = ut.heard /\ g.bound = ut.bound /\ g.began = ut.began /\ g.made = ut.made
       /\ g.current = ut.current /\ g.up = ut.up /\ g.utterance = ut.utterance
       /\ g.stored = ut.stored /\ g.lost = ut.lost /\ g.acked = acked /\ g.pending = rest
       /\ g.handled = all
  BY <1>1 DEF UtState
<1> HIDE DEF g
<1>11. \A v : UtTold(g, v) <=> UtTold(ut, v)
  BY <1>10 DEF UtTold
<1>12. UtStarted(g) /\ UtTranscribed(g)
  BY <1>10, <1>11 DEF UtInv, UtStarted, UtTranscribed
<1>13. UtKnown(g)
  BY <1>5, <1>10, <1>11 DEF UtInv, UtKnown
<1> DEFINE at(j) == IF j < i THEN j ELSE j + 1
<1>14. ASSUME NEW j \in 1..(n - 1)
       PROVE  at(j) \in 1..n /\ at(j) # i /\ rest[j] = line[at(j)]
  BY <1>1, <1>3
<1>15. UtWaits(g)
  <2>1. ASSUME NEW j \in 1..(n - 1)
        PROVE  /\ rest[j].u \notin acked /\ ut.stored[rest[j].u] # "no"
               /\ rest[j].epoch = ut.began[rest[j].u]
               /\ \A l \in 1..(n - 1) : rest[l].u = rest[j].u => j = l
    <3>1. at(j) \in 1..n /\ at(j) # i /\ rest[j] = line[at(j)]
      BY <1>14
    <3>2. rest[j].u # u
      BY <1>6, <3>1
    <3>3. ASSUME NEW l \in 1..(n - 1), rest[l].u = rest[j].u PROVE j = l
      <4>1. at(l) \in 1..n /\ rest[l] = line[at(l)]
        BY <1>14
      <4> HIDE DEF at
      <4>2. at(j) = at(l)
        BY <1>6, <3>1, <3>3, <4>1
      <4> QED BY <1>1, <4>2 DEF at
    <3> HIDE DEF at
    <3> QED BY <1>5, <1>7, <3>1, <3>2, <3>3
  <2> QED BY <1>3, <1>10, <2>1 DEF UtWaits
<1>16. UtHandles(g)
  <2>0. k \in Nat /\ u \notin ut.acked /\ \A l \in 1..k : ut.handled[l].u \in ut.acked
    BY <1>1, <1>2, <1>8
  <2> HIDE DEF k
  <2>1. ASSUME NEW j \in 1..(k + 1)
        PROVE  /\ all[j].u \in acked /\ all[j].epoch = ut.began[all[j].u]
               /\ \A l \in 1..(k + 1) : all[l].u = all[j].u => j = l
    <3>1. \A l \in 1..(k + 1) : l \in 1..k \/ l = k + 1
      BY <2>0
    <3>2. \A l \in 1..k : all[l] = ut.handled[l] /\ all[l].u # u
      BY <1>4, <2>0
    <3>3. CASE j = k + 1
      BY <1>2, <1>4, <1>5, <3>1, <3>2, <3>3
    <3>4. CASE j \in 1..k
      BY <1>2, <1>4, <1>5, <1>8, <3>1, <3>2, <3>4
    <3> QED BY <3>1, <3>3, <3>4
  <2> QED BY <1>4, <1>10, <2>1 DEF UtHandles
<1>17. UtKeeps(g)
  <2>1. ASSUME NEW v \in Ut!Us, ut.stored[v] # "no"
        PROVE  v \in acked \/ \E j \in 1..(n - 1) : rest[j].u = v
    <3>1. CASE v = u \/ v \in ut.acked
      BY <1>5, <3>1
    <3>2. CASE ~(v = u \/ v \in ut.acked)
      <4>1. PICK l \in 1..n : line[l].u = v
        BY <2>1, <3>2 DEF UtInv, UtKeeps
      <4>2. l # i
        BY <3>2, <4>1
      <4>3. PICK j \in 1..(n - 1) : at(j) = l
        <5>0. n \in Nat /\ i \in 1..n /\ l \in 1..n
          BY <1>1
        <5> HIDE DEF n
        <5>1. CASE l < i
          <6>1. l \in 1..(n - 1)
            BY <5>0, <5>1
          <6> QED BY <5>1, <6>1
        <5>2. CASE l > i
          <6>1. l - 1 \in 1..(n - 1) /\ ~(l - 1 < i) /\ (l - 1) + 1 = l
            BY <5>0, <5>2
          <6> QED BY <6>1
        <5>3. l < i \/ l > i
          BY <4>2, <5>0
        <5> QED BY <5>1, <5>2, <5>3
      <4> QED BY <1>14, <4>1, <4>3
    <3> QED BY <3>1, <3>2
  <2> QED BY <1>3, <1>10, <2>1 DEF UtKeeps
<1>18. UtInv(g)
  BY <1>9, <1>12, <1>13, <1>15, <1>16, <1>17 DEF UtInv
<1> QED BY <1>18 DEF g, rest, acked, all, h

LEMMA PersistedKeeps ==
    ASSUME UtUtterances \in Nat, UtInv(ut), NEW u \in Ut!Us, ut.stored[u] = "stored",
           ut' = Ut!Persisted(u)
    PROVE  UtInv(ut')
<1> DEFINE i == Ut!At(u)
           g == [ut EXCEPT !.pending = Ut!RemoveAt(@, i), !.acked = @ \cup {u},
                           !.handled = Append(@, [u |-> u, epoch |-> ut.epoch])]
<1>1. \/ ut' = ut
      \/ ut' = [ut EXCEPT !.closed = TRUE]
      \/ i # 0 /\ ut.pending[i].epoch = ut.epoch /\ ut' = g
  BY DEF Ut!Persisted, Ut!Taken
<1>2. CASE ut' = ut
  BY <1>2
<1>3. CASE ut' = [ut EXCEPT !.closed = TRUE]
  BY <1>3, UtClosedKeeps
<1>4. CASE i # 0 /\ ut.pending[i].epoch = ut.epoch /\ ut' = g
  <2>1. i \in 1..Len(ut.pending) /\ ut.pending[i].u = u
    BY <1>4, AtIs
  <2>2. ut.pending[i].epoch = ut.epoch /\ ut' = g
    BY <1>4
  <2> HIDE DEF i
  <2>3. UtInv(g)
    BY <2>1, <2>2, HandledKeeps
  <2> HIDE DEF g
  <2> QED BY <2>2, <2>3
<1> QED BY <1>1, <1>2, <1>3, <1>4

LEMMA PersistenceFailedKeeps ==
    ASSUME UtUtterances \in Nat, UtInv(ut), NEW u \in Ut!Us, ut' = Ut!PersistenceFailed(u)
    PROVE  UtInv(ut')
<1> DEFINE i == Ut!At(u)
           line == ut.pending
<1>1. CASE ut' = [ut EXCEPT !.closed = TRUE]
  BY <1>1, UtClosedKeeps
<1>2. CASE i # 0 /\ ut' = [ut EXCEPT !.pending[i].failed = TRUE]
  <2>1. i \in 1..Len(line)
    BY <1>2, AtIs
  <2> HIDE DEF i
  <2> DEFINE p == [line[i] EXCEPT !.failed = TRUE]
             new == [line EXCEPT ![i] = p]
             g == [ut EXCEPT !.pending = new]
  <2>2. ut' = g
    BY <1>2
  <2>3. ut \in UtState /\ line \in Seq(UtWaiting) /\ line[i] \in UtWaiting /\ Len(line) \in Nat
    BY <2>1, UtFields, UtWaitings DEF UtInv
  <2>4. p \in UtWaiting /\ p.u = line[i].u /\ p.epoch = line[i].epoch
    BY <2>3 DEF UtWaiting
  <2> HIDE DEF p
  <2>5. /\ new \in Seq(UtWaiting) /\ Len(new) = Len(line)
        /\ \A j \in 1..Len(line) : new[j].u = line[j].u /\ new[j].epoch = line[j].epoch
    BY <2>1, <2>3, <2>4
  <2> HIDE DEF new
  <2>6. g \in UtState
    BY <2>3, <2>5 DEF UtState
  <2>7. /\ g.heard = ut.heard /\ g.bound = ut.bound /\ g.began = ut.began /\ g.made = ut.made
        /\ g.current = ut.current /\ g.up = ut.up /\ g.utterance = ut.utterance
        /\ g.stored = ut.stored /\ g.lost = ut.lost /\ g.acked = ut.acked /\ g.pending = new
        /\ g.handled = ut.handled
    BY <2>3 DEF UtState
  <2> HIDE DEF g
  <2>8. \A v : UtTold(g, v) <=> UtTold(ut, v)
    BY <2>7 DEF UtTold
  <2>9. UtStarted(g) /\ UtTranscribed(g) /\ UtKnown(g)
    BY <2>7, <2>8 DEF UtInv, UtStarted, UtTranscribed, UtKnown
  <2>10. UtWaits(g)
    BY <2>5, <2>7 DEF UtInv, UtWaits
  <2>11. UtHandles(g) /\ UtKeeps(g)
    BY <2>5, <2>7 DEF UtInv, UtHandles, UtKeeps
  <2> QED BY <2>2, <2>6, <2>9, <2>10, <2>11 DEF UtInv
<1> QED BY <1>1, <1>2 DEF Ut!PersistenceFailed

LEMMA UtKept ==
    ASSUME UtUtterances \in Nat, UtLoud \in Nat, UtInv(ut), Ut!Next
    PROVE  UtInv(ut')
<1>1. CASE Ut!Capture \/ Ut!Rebind \/ Ut!SidecarReads \/ Ut!HostReads \/ Ut!EpochMoves
  BY <1>1, UtCaptureKeeps, RebindKeeps, SidecarReadsKeeps, HostReadsKeeps, EpochMovesKeeps
<1>2. ASSUME NEW u \in Ut!Us, Ut!Worker(u) \/ Ut!Store(u) \/ Ut!Acknowledge(u) PROVE UtInv(ut')
  BY <1>2, WorkerKeeps, StoreKeeps, PersistedKeeps, PersistenceFailedKeeps DEF Ut!Acknowledge
<1> QED BY <1>1, <1>2 DEF Ut!Next

LEMMA UtInit == ASSUME UtUtterances \in Nat, Ut!Init PROVE UtInv(ut)
<1>1. Ut!Utterance \in UtUtterance /\ Ut!Utterance.worker = "none"
  BY DEF Ut!Utterance, UtUtterance, Ut!None
<1>2. <<>> \in Seq(UtUp) /\ <<>> \in Seq(UtDown) /\ <<>> \in Seq(UtWaiting) /\ <<>> \in Seq(UtTurn)
  OBVIOUS
<1>3. ut \in UtState
  BY <1>1, <1>2 DEF Ut!Init, UtState, Ut!None
<1>4. /\ ut.up = <<>> /\ ut.pending = <<>> /\ ut.handled = <<>> /\ ut.made = 0 /\ ut.current = 0
      /\ ut.heard = 0 /\ ut.acked = {} /\ ut.lost = {}
      /\ \A u \in Ut!Us : ut.stored[u] = "no" /\ ut.utterance[u].worker = "none"
  BY <1>1 DEF Ut!Init, Ut!None
<1>5. Len(ut.up) = 0 /\ Len(ut.pending) = 0 /\ Len(ut.handled) = 0 /\ \A i : i \notin 1..0
  BY <1>4
<1>6. UtStarted(ut) /\ UtTranscribed(ut) /\ UtWaits(ut) /\ UtHandles(ut)
  BY <1>5 DEF UtStarted, UtTranscribed, UtWaits, UtHandles
<1>7. \A u \in Ut!Us : u # 0 /\ ~UtTold(ut, u)
  BY <1>4, UsAreNat DEF UtTold, Ut!None
<1>8. UtKnown(ut) /\ UtKeeps(ut)
  BY <1>4, <1>7 DEF UtKnown, UtKeeps, UtTold
<1> QED BY <1>3, <1>6, <1>8 DEF UtInv

LEMMA UtHolds == ASSUME UtUtterances \in Nat, UtInv(ut) PROVE Ut!TranscriptIsOwn
<1>1. /\ DOMAIN ut.pending = 1..Len(ut.pending) /\ DOMAIN ut.handled = 1..Len(ut.handled)
      /\ ut.acked \subseteq Ut!Us /\ Len(ut.pending) \in Nat
      /\ \A i \in 1..Len(ut.pending) : ut.pending[i].u \in Ut!Us
  BY UtFields, UtWaitings, LenProperties DEF UtInv
<1>2. \A i \in 1..Len(ut.handled) :
         /\ ut.handled[i].u \in ut.acked
         /\ ut.handled[i].epoch = ut.began[ut.handled[i].u]
         /\ \A j \in 1..Len(ut.handled) : ut.handled[j].u = ut.handled[i].u => i = j
  BY DEF UtInv, UtHandles
<1>3. \A u \in Ut!Us : u \in ut.acked => ut.stored[u] = "stored"
  BY DEF UtInv, UtKnown
<1>4. \A i \in 1..Len(ut.pending) :
         /\ ut.pending[i].u \notin ut.lost \cup ut.acked
         /\ \A j \in 1..Len(ut.pending) : ut.pending[j].u = ut.pending[i].u => i = j
  BY <1>1 DEF UtInv, UtWaits, UtKnown
<1>5. \A u \in Ut!Us : ut.stored[u] # "no" => Ut!At(u) # 0 \/ u \in ut.acked
  <2>1. ASSUME NEW u \in Ut!Us, ut.stored[u] # "no", u \notin ut.acked PROVE Ut!At(u) # 0
    <3>1. PICK i \in 1..Len(ut.pending) : ut.pending[i].u = u
      BY <2>1 DEF UtInv, UtKeeps
    <3>2. Ut!At(u) = i
      BY <3>1, AtIs
    <3> QED BY <1>1, <3>2
  <2> QED BY <2>1
<1> QED BY <1>1, <1>2, <1>3, <1>4, <1>5 DEF Ut!TranscriptIsOwn

TranscriptPart == IF subject = "ut" THEN UtInv(ut) ELSE ut = Off

(* A stored transcript becomes a turn at most once, in the epoch its       *)
(* speech began in, however late the worker, the store or a repeated       *)
(* acknowledgement is (BrowserSession.ts:835-860).                         *)
THEOREM TranscriptOwned ==
    ASSUME UtUtterances \in Nat, UtLoud \in Nat PROVE PartsSpec => []TranscriptIsOwn
<1>1. PartsInit => TranscriptPart
  BY UtInit DEF PartsInit, TranscriptPart
<1>2. TranscriptPart /\ [PartsNext]_<<vars, parts>> => TranscriptPart'
  <2> SUFFICES ASSUME TranscriptPart, [PartsNext]_<<vars, parts>> PROVE TranscriptPart'
    OBVIOUS
  <2>1. subject' = subject /\ (ut' = ut \/ (subject = "ut" /\ Ut!Next))
    BY StepOfPart
  <2>2. CASE subject = "ut"
    <3>1. UtInv(ut)
      BY <2>2 DEF TranscriptPart
    <3>2. UtInv(ut')
      BY <2>1, <2>2, <3>1, UtKept
    <3> QED BY <2>1, <2>2, <3>2 DEF TranscriptPart
  <2>3. CASE subject # "ut"
    BY <2>1, <2>3 DEF TranscriptPart
  <2> QED BY <2>2, <2>3
<1>3. TranscriptPart => TranscriptIsOwn
  BY UtHolds DEF TranscriptPart, TranscriptIsOwn
<1> QED BY <1>1, <1>2, <1>3, PTL DEF PartsSpec
=============================================================================
