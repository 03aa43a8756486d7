------------------------- MODULE BrowserPartsProofs -------------------------
(***************************************************************************)
(* Proofs about the parts of MCParts that run in the browser, for any      *)
(* bounds: each invariant is about the part that the behaviour chose, and  *)
(* the other parts stay off.                                               *)
(***************************************************************************)
EXTENDS MCParts, FiniteSetTheorems, SequenceTheorems, TLAPS

(* A step is a step of the part that was chosen; the others stay as they are. *)
LEMMA StepOfPart ==
    ASSUME [PartsNext]_<<vars, parts>>
    PROVE  /\ subject' = subject
           /\ vars' = vars \/ (subject = "playback" /\ Next)
           /\ st' = st \/ (subject = "st" /\ St!Next)
           /\ lv' = lv \/ (subject = "lv" /\ Lv!Next)
           /\ vs' = vs \/ (subject = "vs" /\ Vs!Next)
           /\ cv' = cv \/ (subject = "cv" /\ Cv!Next)
           /\ rc' = rc \/ (subject = "rc" /\ Rc!Next)
           /\ rl' = rl \/ (subject = "rl" /\ Rl!Next)
           /\ rt' = rt \/ (subject = "rt" /\ Rt!Next)
<1>1. subject' = subject
  BY DEF PartsNext, parts
<1>2. vars' = vars \/ (subject = "playback" /\ Next)
  BY DEF PartsNext, parts
<1>3. st' = st \/ (subject = "st" /\ St!Next)
  BY DEF PartsNext, parts
<1>4. lv' = lv \/ (subject = "lv" /\ Lv!Next)
  BY DEF PartsNext, parts
<1>5. vs' = vs \/ (subject = "vs" /\ Vs!Next)
  BY DEF PartsNext, parts
<1>6. rc' = rc \/ (subject = "rc" /\ Rc!Next)
  BY DEF PartsNext, parts
<1>7. rl' = rl \/ (subject = "rl" /\ Rl!Next)
  BY DEF PartsNext, parts
<1>8. rt' = rt \/ (subject = "rt" /\ Rt!Next)
  BY DEF PartsNext, parts
<1>9. cv' = cv \/ (subject = "cv" /\ Cv!Next)
  BY DEF PartsNext, parts
<1> QED BY <1>1, <1>2, <1>3, <1>4, <1>5, <1>6, <1>7, <1>8, <1>9


(* What the proofs about the player (BrowserPlaybackProofs) show of its    *)
(* specification holds of the parts.                                       *)
LEMMA PlayerOfParts == PartsSpec => Spec
<1>1. PartsInit => Init
  BY DEF PartsInit
<1>2. [PartsNext]_<<vars, parts>> => [Next]_vars
  BY StepOfPart
<1> QED BY <1>1, <1>2, PTL DEF PartsSpec, Spec

-----------------------------------------------------------------------------
(* The leases on the browser's stores.  LeaseHolds is not inductive:       *)
(* LeaseInv adds which opens can be alive (only the one that is shared),   *)
(* that the references belong to a holder, and that the end of what nobody *)
(* holds is always on its way.                                             *)
LeaseRecord == [at : {"none", "held", "released"}, of : Rl!Opens \cup {Rl!None}, owns : BOOLEAN]

LeaseType ==
    rl \in [lease : [Rl!Holders -> LeaseRecord],
            status : [Rl!Opens -> {"none", "opening", "open", "failed", "closed"}],
            pending : Rl!Opens \cup {Rl!None}, resource : Rl!Opens \cup {Rl!None},
            scheduled : BOOLEAN, waiters : SUBSET Rl!Opens, ref : Rl!Opens \cup {Rl!None}]

\* one open is shared: what is opening or open is the one everybody is given
OneShared ==
    /\ \A o \in Rl!Opens : rl.status[o] \in {"opening", "open"} => rl.pending = o
    /\ rl.pending # Rl!None => rl.status[rl.pending] \in {"opening", "open"}
    /\ rl.resource # Rl!None => rl.resource = rl.pending
    /\ \A o \in Rl!Opens : rl.status[o] = "open" <=> rl.resource = o

\* a holder was given something that was not closed since; what it assigned is open
HeldIsAlive ==
    \A h \in Rl!Holders : rl.lease[h].at = "held" =>
        /\ rl.lease[h].of \in Rl!Opens
        /\ rl.status[rl.lease[h].of] \in {"opening", "open", "failed"}
        /\ rl.lease[h].owns => rl.status[rl.lease[h].of] = "open"

\* the references name what is open, and somebody holds it
RefIsHeld == rl.ref # Rl!None => rl.status[rl.ref] = "open" /\ Rl!Held(rl) # {}

\* what nobody holds is about to be closed
CloseIsComing ==
    (Rl!Held(rl) = {} /\ rl.pending # Rl!None) => rl.scheduled \/ rl.pending \in rl.waiters

LeaseInv == LeaseType /\ OneShared /\ HeldIsAlive /\ RefIsHeld /\ CloseIsComing

-----------------------------------------------------------------------------
(* Before anybody asks, nothing is open                                      *)
LEMMA LeaseInit ==
    ASSUME RlLeases \in Nat, RlOpens \in Nat PROVE Rl!Init => LeaseInv
  BY DEF Rl!Init, LeaseInv, LeaseType, LeaseRecord, OneShared, HeldIsAlive, RefIsHeld, CloseIsComing, Rl!Held,
         Rl!Holders, Rl!Opens, Rl!None

(* No open is the missing one                                                *)
LEMMA NoneIsNoOpen == ASSUME RlOpens \in Nat PROVE Rl!None \notin Rl!Opens
  BY DEF Rl!None, Rl!Opens

(* A lease that is released, or whose holder takes the references, is one     *)
LEMMA LeaseChanged ==
    ASSUME NEW f \in [Rl!Holders -> LeaseRecord], NEW h \in Rl!Holders
    PROVE  /\ [f EXCEPT ![h].owns = TRUE] \in [Rl!Holders -> LeaseRecord]
           /\ [f EXCEPT ![h].at = "released"] \in [Rl!Holders -> LeaseRecord]
<1>1. /\ f[h] \in LeaseRecord
      /\ [f[h] EXCEPT !.owns = TRUE] \in LeaseRecord
      /\ [f[h] EXCEPT !.at = "released"] \in LeaseRecord
  BY DEF LeaseRecord
<1> QED BY <1>1

(* What is acquired is shared or opened afresh                               *)
LEMMA AcquireKeeps ==
    ASSUME RlLeases \in Nat, RlOpens \in Nat, LeaseInv, Rl!Acquire PROVE LeaseInv'
<1> LeaseType /\ Rl!None \notin Rl!Opens
  BY NoneIsNoOpen DEF LeaseInv
<1>1. PICK h \in Rl!Holders, a \in Rl!AcquireResource(rl) :
        /\ rl.lease[h].at = "none"
        /\ rl' = [a.r EXCEPT !.lease[h] = [at |-> "held", of |-> a.of, owns |-> FALSE]]
  BY DEF Rl!Acquire
<1> DEFINE given == [at |-> "held", of |-> a.of, owns |-> FALSE]
<1>2. \/ rl.pending # Rl!None /\ a.r = rl /\ a.of = rl.pending
      \/ /\ rl.pending = Rl!None /\ a.of \in Rl!Opens /\ rl.status[a.of] = "none"
         /\ a.r = [rl EXCEPT !.pending = a.of, !.status[a.of] = "opening"]
  <2>1. CASE rl.pending # Rl!None
    <3>1. a = [r |-> rl, of |-> rl.pending]
      BY <1>1, <2>1 DEF Rl!AcquireResource
    <3> QED BY <2>1, <3>1
  <2>2. CASE rl.pending = Rl!None
    <3>1. PICK o \in Rl!Fresh(rl) :
            a = [r |-> [rl EXCEPT !.pending = o, !.status[o] = "opening"], of |-> o]
      BY <1>1, <2>2 DEF Rl!AcquireResource
    <3>2. a.of = o /\ a.r = [rl EXCEPT !.pending = a.of, !.status[a.of] = "opening"]
      BY <3>1
    <3> QED BY <2>2, <3>2 DEF Rl!Fresh
  <2> QED BY <2>1, <2>2
<1>3. /\ a.of \in Rl!Opens /\ rl'.pending = a.of
      /\ rl'.lease = [rl.lease EXCEPT ![h] = given]
      /\ rl'.resource = rl.resource /\ rl'.ref = rl.ref
      /\ rl'.scheduled = rl.scheduled /\ rl'.waiters = rl.waiters
      /\ \/ rl'.status = rl.status /\ rl.pending = a.of
         \/ /\ rl'.status = [rl.status EXCEPT ![a.of] = "opening"]
            /\ rl.pending = Rl!None /\ rl.status[a.of] = "none"
  BY <1>1, <1>2 DEF LeaseType
<1>4. LeaseType'
  <2>1. rl' = [rl EXCEPT !.lease = rl'.lease, !.pending = rl'.pending, !.status = rl'.status]
    <3>1. CASE a.r = rl /\ a.of = rl.pending
      BY <1>1, <3>1 DEF LeaseType
    <3>2. CASE a.r = [rl EXCEPT !.pending = a.of, !.status[a.of] = "opening"]
      BY <1>1, <3>2 DEF LeaseType
    <3> QED BY <1>2, <3>1, <3>2
  <2>2. rl'.lease \in [Rl!Holders -> LeaseRecord]
    <3>1. given \in LeaseRecord
      BY <1>3 DEF LeaseRecord
    <3> QED BY <1>3, <3>1 DEF LeaseType
  <2>3. /\ rl'.pending \in Rl!Opens
        /\ rl'.status \in [Rl!Opens -> {"none", "opening", "open", "failed", "closed"}]
    BY <1>3 DEF LeaseType
  <2> QED BY <2>1, <2>2, <2>3 DEF LeaseType
<1>5. \A o \in Rl!Opens : rl'.status[o] = rl.status[o] \/ (o = a.of /\ rl'.status[o] = "opening")
  BY <1>3 DEF LeaseType
<1>6. \A g \in Rl!Holders : rl'.lease[g] = IF g = h THEN given ELSE rl.lease[g]
  BY <1>3 DEF LeaseType
<1>7. rl'.status[a.of] \in {"opening", "open"}
  BY <1>3 DEF LeaseType, LeaseInv, OneShared
<1>8. OneShared'
  BY <1>3, <1>5, <1>7 DEF LeaseInv, OneShared
<1>9. HeldIsAlive'
  BY <1>3, <1>5, <1>6, <1>7 DEF LeaseInv, HeldIsAlive
<1>10. h \in Rl!Held(rl')
  BY <1>6 DEF Rl!Held
<1>11. RefIsHeld' /\ CloseIsComing'
  BY <1>3, <1>5, <1>10 DEF LeaseInv, LeaseType, OneShared, RefIsHeld, CloseIsComing
<1> QED BY <1>4, <1>8, <1>9, <1>11 DEF LeaseInv

(* An open succeeds or fails                                                 *)
LEMMA OpenedKeeps ==
    ASSUME RlLeases \in Nat, RlOpens \in Nat, LeaseInv, Rl!Opened PROVE LeaseInv'
<1> LeaseType /\ Rl!None \notin Rl!Opens
  BY NoneIsNoOpen DEF LeaseInv
<1>1. PICK o \in Rl!Opens, good \in BOOLEAN :
        /\ rl.status[o] = "opening"
        /\ rl' = [rl EXCEPT !.status[o] = IF good THEN "open" ELSE "failed",
                            !.resource = IF good /\ rl.pending = o THEN o ELSE @,
                            !.pending = IF ~good /\ rl.pending = o THEN Rl!None ELSE @]
  <2>1. PICK o \in Rl!Opens :
          /\ rl.status[o] = "opening"
          /\ \/ rl' = [rl EXCEPT !.status[o] = "open",
                                 !.resource = IF rl.pending = o THEN o ELSE @]
             \/ rl' = [rl EXCEPT !.status[o] = "failed",
                                 !.pending = IF @ = o THEN Rl!None ELSE @]
    BY DEF Rl!Opened
  <2>2. CASE rl' = [rl EXCEPT !.status[o] = "open",
                              !.resource = IF rl.pending = o THEN o ELSE @]
    <3> WITNESS o \in Rl!Opens, TRUE \in BOOLEAN
    <3> QED BY <2>1, <2>2 DEF LeaseType
  <2>3. CASE rl' = [rl EXCEPT !.status[o] = "failed",
                              !.pending = IF @ = o THEN Rl!None ELSE @]
    <3> WITNESS o \in Rl!Opens, FALSE \in BOOLEAN
    <3> QED BY <2>1, <2>3 DEF LeaseType
  <2> QED BY <2>1, <2>2, <2>3
<1>2. rl.pending = o /\ rl.resource = Rl!None
  BY <1>1 DEF LeaseInv, OneShared, LeaseType
<1>3. /\ rl'.status = [rl.status EXCEPT ![o] = IF good THEN "open" ELSE "failed"]
      /\ rl'.resource = (IF good THEN o ELSE Rl!None)
      /\ rl'.pending = (IF good THEN o ELSE Rl!None)
      /\ rl'.lease = rl.lease /\ rl'.ref = rl.ref
      /\ rl'.scheduled = rl.scheduled /\ rl'.waiters = rl.waiters
  BY <1>1, <1>2 DEF LeaseType
<1>4. LeaseType'
  BY <1>1, <1>2 DEF LeaseType
<1>5. \A p \in Rl!Opens : rl'.status[p] = IF p # o THEN rl.status[p]
                                      ELSE IF good THEN "open" ELSE "failed"
  BY <1>3 DEF LeaseType
<1>6. OneShared' /\ HeldIsAlive'
  BY <1>1, <1>2, <1>3, <1>5 DEF LeaseInv, LeaseType, OneShared, HeldIsAlive
<1>7. RefIsHeld' /\ CloseIsComing'
  BY <1>1, <1>2, <1>3, <1>5 DEF LeaseInv, LeaseType, RefIsHeld, CloseIsComing, Rl!Held
<1> QED BY <1>4, <1>6, <1>7 DEF LeaseInv

(* A holder takes the references                                             *)
LEMMA AssignKeeps ==
    ASSUME RlLeases \in Nat, RlOpens \in Nat, LeaseInv, Rl!Assign PROVE LeaseInv'
<1> LeaseType /\ Rl!None \notin Rl!Opens
  BY NoneIsNoOpen DEF LeaseInv
<1>1. PICK h \in Rl!Holders :
        /\ rl.lease[h].at = "held"
        /\ rl.status[rl.lease[h].of] \notin {"opening", "failed"}
        /\ rl' = [rl EXCEPT !.lease[h].owns = TRUE, !.ref = rl.lease[h].of]
  BY DEF Rl!Assign, Rl!Held
<1>2. rl.lease[h].of \in Rl!Opens /\ rl.status[rl.lease[h].of] = "open"
  BY <1>1 DEF LeaseInv, HeldIsAlive
<1>3. /\ rl'.status = rl.status /\ rl'.pending = rl.pending /\ rl'.resource = rl.resource
      /\ rl'.scheduled = rl.scheduled /\ rl'.waiters = rl.waiters
      /\ rl'.ref = rl.lease[h].of
      /\ rl'.lease = [rl.lease EXCEPT ![h].owns = TRUE]
  BY <1>1 DEF LeaseType
<1>4. LeaseType'
  <2>1. [rl.lease EXCEPT ![h].owns = TRUE] \in [Rl!Holders -> LeaseRecord]
    BY LeaseChanged DEF LeaseType
  <2> QED BY <1>1, <1>2, <2>1 DEF LeaseType
<1>5. \A g \in Rl!Holders : /\ rl'.lease[g].at = rl.lease[g].at
                        /\ rl'.lease[g].of = rl.lease[g].of
                        /\ g # h => rl'.lease[g].owns = rl.lease[g].owns
  BY <1>3 DEF LeaseType
<1>6. Rl!Held(rl') = Rl!Held(rl) /\ h \in Rl!Held(rl)
  BY <1>1, <1>5 DEF Rl!Held
<1>7. OneShared' /\ HeldIsAlive'
  BY <1>2, <1>3, <1>5 DEF LeaseInv, OneShared, HeldIsAlive
<1>8. RefIsHeld' /\ CloseIsComing'
  BY <1>2, <1>3, <1>6 DEF LeaseInv, RefIsHeld, CloseIsComing
<1> QED BY <1>4, <1>7, <1>8 DEF LeaseInv

(* The last release takes the references away and schedules the close         *)
LEMMA ReleaseKeeps ==
    ASSUME RlLeases \in Nat, RlOpens \in Nat, LeaseInv, Rl!Release PROVE LeaseInv'
<1> LeaseType /\ Rl!None \notin Rl!Opens
  BY NoneIsNoOpen DEF LeaseInv
<1>1. PICK h \in Rl!Holders :
        /\ rl.lease[h].at = "held"
        /\ rl'.lease = [rl.lease EXCEPT ![h].at = "released"]
        /\ rl'.status = rl.status /\ rl'.pending = rl.pending /\ rl'.resource = rl.resource
        /\ rl'.waiters = rl.waiters
        /\ \/ Rl!Held(rl) # {h} /\ rl'.ref = rl.ref /\ rl'.scheduled = rl.scheduled
           \/ /\ Rl!Held(rl) = {h} /\ rl'.scheduled
              /\ rl'.ref = IF ~rl.lease[h].owns \/ rl.ref = rl.lease[h].of THEN Rl!None ELSE rl.ref
        /\ rl' = [rl EXCEPT !.lease = rl'.lease, !.ref = rl'.ref, !.scheduled = rl'.scheduled]
  BY DEF Rl!Release, LeaseType, Rl!Held
<1>2. LeaseType'
  <2>1. [rl.lease EXCEPT ![h].at = "released"] \in [Rl!Holders -> LeaseRecord]
    BY LeaseChanged DEF LeaseType
  <2>2. rl'.ref \in Rl!Opens \cup {Rl!None} /\ rl'.scheduled \in BOOLEAN
    BY <1>1 DEF LeaseType
  <2> QED BY <1>1, <2>1, <2>2 DEF LeaseType
<1>3. \A g \in Rl!Holders : /\ rl'.lease[g].of = rl.lease[g].of
                        /\ rl'.lease[g].owns = rl.lease[g].owns
                        /\ rl'.lease[g].at = IF g = h THEN "released" ELSE rl.lease[g].at
  BY <1>1 DEF LeaseType
<1>4. Rl!Held(rl') = Rl!Held(rl) \ {h} /\ h \in Rl!Held(rl)
  <2>1. \A g \in Rl!Holders :
          (rl'.lease[g].at = "held") <=> (rl.lease[g].at = "held" /\ g # h)
    BY <1>3
  <2> QED BY <1>1, <2>1 DEF Rl!Held
<1>5. OneShared' /\ HeldIsAlive'
  BY <1>1, <1>3 DEF LeaseInv, OneShared, HeldIsAlive
<1>6. CloseIsComing'
  BY <1>1, <1>4 DEF LeaseInv, CloseIsComing
<1>7. RefIsHeld'
  <2>1. CASE Rl!Held(rl) # {h}
    BY <1>1, <1>4, <2>1 DEF LeaseInv, RefIsHeld
  <2>2. CASE Rl!Held(rl) = {h}
    <3>1. rl.lease[h].owns /\ rl.ref # Rl!None => rl.ref = rl.lease[h].of
      BY <1>1 DEF LeaseInv, LeaseType, OneShared, HeldIsAlive, RefIsHeld
    <3> QED BY <1>1, <2>2, <3>1 DEF RefIsHeld
  <2> QED BY <2>1, <2>2
<1> QED BY <1>2, <1>5, <1>6, <1>7 DEF LeaseInv

(* Closing what nobody holds leaves nothing open                             *)
LEMMA CloseKeeps ==
    ASSUME RlOpens \in Nat, LeaseInv, LeaseType', Rl!Held(rl) = {}, rl'.lease = rl.lease,
           rl.resource # Rl!None, rl'.ref = rl.ref,
           rl'.status = [rl.status EXCEPT ![rl.resource] = "closed"],
           rl'.resource = Rl!None, rl'.pending = Rl!None
    PROVE  LeaseInv'
<1> LeaseType /\ Rl!None \notin Rl!Opens
  BY NoneIsNoOpen DEF LeaseInv
<1>1. \A o \in Rl!Opens : rl'.status[o] = IF o = rl.resource THEN "closed" ELSE rl.status[o]
  BY DEF LeaseType
<1>2. Rl!Held(rl') = {} /\ rl.ref = Rl!None
  BY DEF LeaseInv, RefIsHeld, Rl!Held
<1>3. OneShared'
  BY <1>1 DEF LeaseInv, OneShared, LeaseType
<1>4. HeldIsAlive' /\ RefIsHeld' /\ CloseIsComing'
  BY <1>2 DEF Rl!Held, HeldIsAlive, RefIsHeld, CloseIsComing
<1> QED BY <1>3, <1>4 DEF LeaseInv

(* What is only waited for differently keeps the invariant                    *)
LEMMA WaitKeeps ==
    ASSUME LeaseInv, LeaseType', rl'.lease = rl.lease, rl'.status = rl.status,
           rl'.resource = rl.resource, rl'.pending = rl.pending, rl'.ref = rl.ref,
           CloseIsComing'
    PROVE  LeaseInv'
<1>1. Rl!Held(rl') = Rl!Held(rl)
  BY DEF Rl!Held
<1> QED BY <1>1 DEF LeaseInv, OneShared, HeldIsAlive, RefIsHeld

(* The microtask of the last release closes, waits or finds a new holder       *)
LEMMA MicrotaskKeeps ==
    ASSUME RlLeases \in Nat, RlOpens \in Nat, LeaseInv, Rl!Microtask PROVE LeaseInv'
<1> LeaseType /\ Rl!None \notin Rl!Opens
  BY NoneIsNoOpen DEF LeaseInv
<1>1. CASE Rl!Held(rl) # {}
  <2>1. rl' = [rl EXCEPT !.scheduled = FALSE]
    BY <1>1 DEF Rl!Microtask, Rl!ScheduleClose
  <2>2. LeaseType' /\ Rl!Held(rl') = Rl!Held(rl)
    BY <2>1 DEF LeaseType, Rl!Held
  <2>3. CloseIsComing'
    BY <1>1, <2>2 DEF CloseIsComing
  <2> QED BY <2>1, <2>2, <2>3, WaitKeeps DEF LeaseType
<1>2. CASE Rl!Held(rl) = {} /\ rl.resource # Rl!None
  <2>1. rl' = [rl EXCEPT !.status[rl.resource] = "closed", !.resource = Rl!None, !.pending = Rl!None,
                         !.scheduled = FALSE]
    BY <1>2 DEF Rl!Microtask, Rl!ScheduleClose, Rl!CloseResource, LeaseType
  <2>2. LeaseType'
    BY <1>2, <2>1 DEF LeaseType
  <2> QED BY <1>2, <2>1, <2>2, CloseKeeps DEF LeaseType
<1>3. CASE Rl!Held(rl) = {} /\ rl.resource = Rl!None /\ rl.pending # Rl!None
  <2>1. rl' = [rl EXCEPT !.waiters = @ \cup {rl.pending}, !.scheduled = FALSE]
    BY <1>3 DEF Rl!Microtask, Rl!ScheduleClose, LeaseType
  <2>2. LeaseType'
    BY <1>3, <2>1 DEF LeaseType
  <2>3. CloseIsComing'
    BY <2>1 DEF CloseIsComing, LeaseType
  <2> QED BY <2>1, <2>2, <2>3, WaitKeeps DEF LeaseType
<1>4. CASE Rl!Held(rl) = {} /\ rl.resource = Rl!None /\ rl.pending = Rl!None
  <2>1. rl' = [rl EXCEPT !.scheduled = FALSE]
    BY <1>4 DEF Rl!Microtask, Rl!ScheduleClose
  <2>2. LeaseType'
    BY <2>1 DEF LeaseType
  <2>3. CloseIsComing'
    BY <1>4, <2>1 DEF CloseIsComing, LeaseType
  <2> QED BY <2>1, <2>2, <2>3, WaitKeeps DEF LeaseType
<1> QED BY <1>1, <1>2, <1>3, <1>4

(* The end of an open that nobody waited for closes it                        *)
LEMMA OpenedUnusedKeeps ==
    ASSUME RlLeases \in Nat, RlOpens \in Nat, LeaseInv, Rl!OpenedUnused PROVE LeaseInv'
<1> LeaseType /\ Rl!None \notin Rl!Opens
  BY NoneIsNoOpen DEF LeaseInv
<1> DEFINE left(o) == [rl EXCEPT !.waiters = @ \ {o}]
<1>1. PICK o \in Rl!Opens :
        /\ rl.status[o] # "opening"
        /\ rl' = IF Rl!Held(left(o)) = {} /\ left(o).pending = o
                 THEN IF left(o).status[o] = "failed" THEN [left(o) EXCEPT !.pending = Rl!None]
                      ELSE Rl!CloseResource(left(o))
                 ELSE left(o)
  BY DEF Rl!OpenedUnused, LeaseType
<1>2. /\ left(o).lease = rl.lease /\ left(o).pending = rl.pending
      /\ left(o).status = rl.status /\ left(o).resource = rl.resource
  BY DEF LeaseType
<1>3. Rl!Held(left(o)) = Rl!Held(rl)
  BY <1>2 DEF Rl!Held
<1>4. CASE Rl!Held(rl) = {} /\ rl.pending = o
  <2>1. rl.status[o] = "open" /\ rl.resource = o
    BY <1>1, <1>4 DEF LeaseInv, OneShared
  <2>2. rl' = [rl EXCEPT !.waiters = @ \ {o}, !.status[o] = "closed", !.resource = Rl!None,
                         !.pending = Rl!None]
    BY <1>1, <1>2, <1>3, <1>4, <2>1 DEF Rl!CloseResource, LeaseType
  <2>3. LeaseType'
    BY <2>2 DEF LeaseType
  <2> QED BY <1>4, <2>1, <2>2, <2>3, CloseKeeps DEF LeaseType
<1>5. CASE ~(Rl!Held(rl) = {} /\ rl.pending = o)
  <2>1. rl' = [rl EXCEPT !.waiters = @ \ {o}]
    BY <1>1, <1>2, <1>3, <1>5
  <2>2. LeaseType' /\ Rl!Held(rl') = Rl!Held(rl)
    BY <2>1 DEF LeaseType, Rl!Held
  <2>3. CloseIsComing'
    BY <1>5, <2>1, <2>2 DEF LeaseInv, LeaseType, CloseIsComing
  <2> QED BY <2>1, <2>2, <2>3, WaitKeeps DEF LeaseType
<1> QED BY <1>4, <1>5

-----------------------------------------------------------------------------
(* Every step keeps the invariant                                            *)
LEMMA LeaseKept ==
    ASSUME RlLeases \in Nat, RlOpens \in Nat, LeaseInv, [Rl!Next]_rl PROVE LeaseInv'
<1>1. CASE UNCHANGED rl
  BY <1>1 DEF LeaseInv, LeaseType, OneShared, HeldIsAlive, RefIsHeld, CloseIsComing, Rl!Held
<1>2. CASE Rl!Next
  BY <1>2, AcquireKeeps, OpenedKeeps, AssignKeeps, ReleaseKeeps, MicrotaskKeeps,
     OpenedUnusedKeeps DEF Rl!Next
<1> QED BY <1>1, <1>2

(* What is held is alive, and what is alive is shared                        *)
LEMMA LeaseInvHolds == ASSUME RlOpens \in Nat, LeaseInv PROVE Rl!LeaseHolds
<1>1. Rl!None \notin Rl!Opens
  BY NoneIsNoOpen
<1> QED BY <1>1 DEF LeaseInv, LeaseType, OneShared, HeldIsAlive, RefIsHeld, CloseIsComing,
                Rl!LeaseHolds, Rl!Held

LeasePart == IF subject = "rl" THEN LeaseInv ELSE rl = Off

(* Nobody uses closed stores and none stay open                            *)
(* (resource-lifecycle.ts:12-53).                                          *)
THEOREM LeasesHold ==
    ASSUME RlLeases \in Nat, RlOpens \in Nat PROVE PartsSpec => []LeaseHolds
<1>1. PartsInit => LeasePart
  BY LeaseInit DEF PartsInit, LeasePart
<1>2. LeasePart /\ [PartsNext]_<<vars, parts>> => LeasePart'
  <2> SUFFICES ASSUME LeasePart, [PartsNext]_<<vars, parts>> PROVE LeasePart'
    OBVIOUS
  <2>1. subject' = subject /\ (rl' = rl \/ (subject = "rl" /\ Rl!Next))
    BY StepOfPart
  <2>2. CASE subject = "rl"
    BY <2>1, <2>2, LeaseKept DEF LeasePart
  <2>3. CASE subject # "rl"
    BY <2>1, <2>3 DEF LeasePart
  <2> QED BY <2>2, <2>3
<1>3. LeasePart => LeaseHolds
  BY LeaseInvHolds DEF LeasePart, LeaseHolds
<1> QED BY <1>1, <1>2, <1>3, PTL DEF PartsSpec

-----------------------------------------------------------------------------
(* The microphone of every take.  MicIsReleased is not inductive: TakeInv  *)
(* says of a take that is not doubtful that while it asks it is the one the *)
(* section waits for, and that no other take asks beside it.               *)
TakeRecord ==
    [at : {"none", "asking", "recording", "stopping", "ended"}, mic : BOOLEAN, life : Nat]

TakeType ==
    rt \in [open : BOOLEAN, consent : BOOLEAN, recording : BOOLEAN, busy : BOOLEAN,
            take : BOOLEAN, ref : Rt!Takes \cup {Rt!None}, rec : [Rt!Takes -> TakeRecord],
            life : Nat, doubtful : SUBSET Rt!Takes, trouble : Nat]

\* a take records with its microphone, and stops with it
MicOfTake ==
    \A k \in Rt!Takes : rt.rec[k].mic => rt.rec[k].at \in {"recording", "stopping"}

\* the section waits for the take it asks a microphone for
AskingIsOwned ==
    \A k \in Rt!Takes \ rt.doubtful :
        rt.rec[k].at = "asking" =>
            /\ rt.open /\ ~rt.recording
            /\ rt.ref = k /\ rt.rec[k].life = rt.life

\* and shows the one that records
RecordingIsOwned ==
    \A k \in Rt!Takes \ rt.doubtful :
        rt.rec[k].at = "recording" => rt.open /\ rt.recording /\ rt.ref = k

AsksAlone ==
    \A k \in Rt!Takes \ rt.doubtful, j \in Rt!Takes :
        /\ rt.rec[k].at \in {"asking", "recording"}
        /\ rt.rec[j].at = "asking"
        => j = k

TakeInv == TakeType /\ MicOfTake /\ AskingIsOwned /\ RecordingIsOwned /\ AsksAlone

-----------------------------------------------------------------------------
(* Before the dialog is first opened no take exists                          *)
LEMMA TakeInit ==
    ASSUME RtTakes \in Nat PROVE Rt!Init => TakeInv
  BY DEF Rt!Init, TakeInv, TakeType, TakeRecord, MicOfTake, AskingIsOwned, RecordingIsOwned, AsksAlone,
         Rt!Takes, Rt!None

(* A take of which the phase or the microphone changes is a take              *)
LEMMA TakeChanged ==
    ASSUME NEW f \in [Rt!Takes -> TakeRecord], NEW k \in Rt!Takes,
           NEW a \in {"none", "asking", "recording", "stopping", "ended"}, NEW m \in BOOLEAN
    PROVE  /\ [f EXCEPT ![k].at = a] \in [Rt!Takes -> TakeRecord]
           /\ [f EXCEPT ![k].at = a, ![k].mic = m] \in [Rt!Takes -> TakeRecord]
<1>1. /\ f[k] \in TakeRecord
      /\ [f[k] EXCEPT !.at = a] \in TakeRecord
      /\ [f[k] EXCEPT !.at = a, !.mic = m] \in TakeRecord
  BY DEF TakeRecord
<1>2. /\ [f EXCEPT ![k].at = a] = [f EXCEPT ![k] = [f[k] EXCEPT !.at = a]]
      /\ [f EXCEPT ![k].at = a, ![k].mic = m]
             = [f EXCEPT ![k] = [f[k] EXCEPT !.at = a, !.mic = m]]
  BY <1>1
<1> QED BY <1>1, <1>2

(* A step that leaves the takes alone, and what the section shows of them too *)
(* unless it was closed, keeps the invariant                                *)
LEMMA TakesUntouched ==
    ASSUME TakeInv, TakeType',
           rt'.rec = rt.rec, rt'.doubtful = rt.doubtful,
           \/ ~rt.open
           \/ /\ rt'.open = rt.open /\ rt'.recording = rt.recording
              /\ rt'.ref = rt.ref /\ rt'.life = rt.life
    PROVE  TakeInv'
  BY DEF TakeInv, MicOfTake, AskingIsOwned, RecordingIsOwned, AsksAlone

(* Opening the dialog, consent, an upload and discarding leave them alone     *)
LEMMA SectionKeeps ==
    ASSUME RtTakes \in Nat, TakeInv, Rt!Mount \/ Rt!Consent \/ Rt!Upload \/ Rt!Discard
    PROVE  TakeInv'
<1> TakeType
  BY DEF TakeInv
<1>1. CASE Rt!Mount
  <2>1. TakeType'
    <3>1. rt.life + 1 \in Nat
      BY DEF TakeType
    <3> QED BY <1>1, <3>1 DEF Rt!Mount, TakeType
  <2>2. rt'.rec = rt.rec /\ rt'.doubtful = rt.doubtful /\ ~rt.open
    BY <1>1 DEF Rt!Mount, TakeType, TakeRecord
  <2> QED BY <2>1, <2>2, TakesUntouched
<1>2. CASE Rt!Consent \/ Rt!Upload \/ Rt!Discard
  <2>1. TakeType'
    BY <1>2 DEF Rt!Consent, Rt!Upload, Rt!Discard, TakeType, TakeRecord
  <2>2. /\ rt'.rec = rt.rec /\ rt'.doubtful = rt.doubtful
        /\ rt'.open = rt.open /\ rt'.recording = rt.recording
        /\ rt'.ref = rt.ref /\ rt'.life = rt.life
    BY <1>2 DEF Rt!Consent, Rt!Upload, Rt!Discard, TakeType, TakeRecord
  <2> QED BY <2>1, <2>2, TakesUntouched
<1> QED BY <1>1, <1>2

(* A take that starts beside one that still asks is doubtful with it         *)
LEMMA StartKeeps ==
    ASSUME RtTakes \in Nat, TakeInv, Rt!Start PROVE TakeInv'
<1> TakeType
  BY DEF TakeInv
<1>1. PICK k \in Rt!Takes :
        /\ rt.open /\ ~rt.recording
        /\ rt' = [rt EXCEPT !.rec[k] = [at |-> "asking", mic |-> FALSE, life |-> rt.life],
                    !.ref = k,
                    !.doubtful = IF Rt!Asking(rt) = {} THEN @ ELSE @ \cup Rt!Asking(rt) \cup {k}]
  BY DEF Rt!Start
<1>2. TakeType'
  BY <1>1 DEF TakeType, TakeRecord, Rt!Asking
<1>3. /\ rt'.rec = [rt.rec EXCEPT ![k] = [at |-> "asking", mic |-> FALSE, life |-> rt.life]]
      /\ rt'.ref = k /\ rt'.open /\ ~rt'.recording /\ rt'.life = rt.life
  BY <1>1 DEF TakeType, TakeRecord
<1>4. \/ /\ \A j \in Rt!Takes : rt.rec[j].at # "asking"
         /\ rt'.doubtful = rt.doubtful
      \/ \A j \in Rt!Takes \ rt'.doubtful :
             j # k /\ rt.rec[j].at # "asking" /\ j \notin rt.doubtful
  BY <1>1 DEF TakeType, TakeRecord, Rt!Asking
<1>5. \A j \in Rt!Takes \ rt.doubtful : rt.rec[j].at # "recording"
  BY <1>1 DEF TakeInv, RecordingIsOwned
<1>6. rt.doubtful \subseteq rt'.doubtful
  BY <1>1 DEF TakeType, TakeRecord
<1>7. \A j \in Rt!Takes : rt'.rec[j] =
          IF j = k THEN [at |-> "asking", mic |-> FALSE, life |-> rt.life] ELSE rt.rec[j]
  BY <1>3 DEF TakeType, TakeRecord
<1>8. MicOfTake'
  BY <1>7 DEF TakeInv, MicOfTake
<1>9. AskingIsOwned' /\ RecordingIsOwned'
  BY <1>3, <1>4, <1>5, <1>6, <1>7 DEF AskingIsOwned, RecordingIsOwned
<1>10. AsksAlone'
  BY <1>4, <1>5, <1>6, <1>7 DEF AsksAlone
<1> QED BY <1>2, <1>8, <1>9, <1>10 DEF TakeInv

(* The dialog hears the answer for the take it waits for; an answer it does    *)
(* not hear is one of a doubtful take                                       *)
LEMMA AnswerKeeps ==
    ASSUME RtTakes \in Nat, RtTrouble \in Nat, TakeInv, Rt!Granted \/ Rt!Refused
    PROVE  TakeInv'
<1> TakeType
  BY DEF TakeInv
<1>1. PICK k \in Rt!Takes, on \in BOOLEAN :
        /\ rt.rec[k].at = "asking"
        /\ rt'.rec = [rt.rec EXCEPT ![k].at = IF on THEN "recording" ELSE "ended", ![k].mic = on]
        /\ rt'.doubtful = rt.doubtful /\ rt'.open = rt.open /\ rt'.life = rt.life
        /\ on => rt'.ref = rt.ref
        /\ on /\ Rt!Hears(rt, k) => rt'.recording
        /\ on /\ ~Rt!Hears(rt, k) => rt'.recording = rt.recording
        /\ ~on => rt'.recording = rt.recording
  <2>1. CASE Rt!Granted
    <3>1. PICK k \in Rt!Takes : /\ rt.rec[k].at = "asking"
                             /\ rt' = [rt EXCEPT !.rec[k].at = "recording", !.rec[k].mic = TRUE,
                                         !.recording = IF Rt!Hears(rt, k) THEN TRUE ELSE @]
      BY <2>1 DEF Rt!Granted, Rt!Asking
    <3> WITNESS k \in Rt!Takes, TRUE \in BOOLEAN
    <3> QED BY <3>1 DEF TakeType, TakeRecord
  <2>2. CASE Rt!Refused
    <3>1. PICK k \in Rt!Takes :
            /\ rt.rec[k].at = "asking"
            /\ rt' = [Rt!Release(Rt!Troubled(rt), k) EXCEPT !.ref = IF Rt!Hears(rt, k) THEN Rt!None ELSE @]
      BY <2>2 DEF Rt!Refused, Rt!Asking
    <3> WITNESS k \in Rt!Takes, FALSE \in BOOLEAN
    <3> QED BY <3>1 DEF TakeType, TakeRecord, Rt!Release, Rt!Troubled
  <2> QED BY <2>1, <2>2
<1>2. TakeType'
  <2>1. CASE Rt!Granted
    <3>1. PICK j \in Rt!Takes :
             rt' = [rt EXCEPT !.rec[j].at = "recording", !.rec[j].mic = TRUE,
                              !.recording = IF Rt!Hears(rt, j) THEN TRUE ELSE @]
      BY <2>1 DEF Rt!Granted, Rt!Asking
    <3>2. [rt.rec EXCEPT ![j].at = "recording", ![j].mic = TRUE] \in [Rt!Takes -> TakeRecord]
      BY TakeChanged DEF TakeType
    <3> QED BY <3>1, <3>2 DEF TakeType
  <2>2. CASE Rt!Refused
    <3>1. PICK j \in Rt!Takes :
             rt' = [Rt!Release(Rt!Troubled(rt), j) EXCEPT !.ref = IF Rt!Hears(rt, j) THEN Rt!None ELSE @]
      BY <2>2 DEF Rt!Refused, Rt!Asking
    <3>2. [rt.rec EXCEPT ![j].at = "ended", ![j].mic = FALSE] \in [Rt!Takes -> TakeRecord]
      BY TakeChanged DEF TakeType
    <3>3. rt.trouble + 1 \in Nat
      BY DEF TakeType
    <3>4. Rt!Troubled(rt).rec = rt.rec
      BY DEF Rt!Troubled, TakeType
    <3>5. rt'.rec = [rt.rec EXCEPT ![j].at = "ended", ![j].mic = FALSE]
      BY <3>1, <3>4 DEF Rt!Release, Rt!Troubled, TakeType
    <3>6. rt' = [rt EXCEPT !.trouble = rt.trouble + 1, !.rec = rt'.rec,
                           !.ref = IF Rt!Hears(rt, j) THEN Rt!None ELSE rt.ref]
      BY <3>1, <3>5 DEF Rt!Release, Rt!Troubled, TakeType
    <3> QED BY <3>2, <3>3, <3>5, <3>6 DEF TakeType
  <2> QED BY <2>1, <2>2
<1>3. \A j \in Rt!Takes : j # k => rt'.rec[j] = rt.rec[j]
  BY <1>1 DEF TakeType, TakeRecord
<1>4. /\ rt'.rec[k].at = IF on THEN "recording" ELSE "ended"
      /\ rt'.rec[k].mic = on
  BY <1>1 DEF TakeType, TakeRecord
<1>5. \A j \in Rt!Takes \ rt.doubtful : j # k => rt.rec[j].at \notin {"asking", "recording"}
  BY <1>1 DEF TakeInv, AsksAlone
<1>6. k \notin rt.doubtful => rt.ref = k /\ rt.open /\ Rt!Hears(rt, k)
  BY <1>1 DEF TakeInv, AskingIsOwned, Rt!Hears
<1>7. MicOfTake'
  BY <1>3, <1>4 DEF TakeInv, MicOfTake
<1>8. AskingIsOwned' /\ RecordingIsOwned'
  BY <1>1, <1>3, <1>4, <1>5, <1>6 DEF AskingIsOwned, RecordingIsOwned
<1>9. AsksAlone'
  BY <1>1, <1>3, <1>4, <1>5, <1>6 DEF TakeInv, AsksAlone
<1> QED BY <1>2, <1>7, <1>8, <1>9 DEF TakeInv

(* The section stops the take it shows; a take that asks is not shown          *)
LEMMA StopKeeps ==
    ASSUME RtTakes \in Nat, TakeInv, Rt!Stop PROVE TakeInv'
<1> TakeType
  BY DEF TakeInv
<1>1. TakeType'
  <2>1. rt.ref \in Rt!Takes /\ [rt.rec EXCEPT ![rt.ref].at = "stopping"] \in [Rt!Takes -> TakeRecord]
    BY TakeChanged DEF Rt!Stop, TakeType, Rt!None
  <2> QED BY <2>1 DEF Rt!Stop, TakeType
<1>2. /\ rt.recording /\ rt.ref \in Rt!Takes
      /\ rt'.doubtful = rt.doubtful
      /\ \A j \in Rt!Takes : j # rt.ref => rt'.rec[j] = rt.rec[j]
      /\ rt'.rec[rt.ref].mic = rt.rec[rt.ref].mic
      /\ rt'.rec[rt.ref].at = IF rt.rec[rt.ref].at = "recording" THEN "stopping"
                              ELSE rt.rec[rt.ref].at
  BY DEF Rt!Stop, TakeType, TakeRecord, Rt!None
<1>3. \A j \in Rt!Takes \ rt'.doubtful : rt'.rec[j].at \notin {"asking", "recording"}
  BY <1>2 DEF TakeInv, AskingIsOwned, RecordingIsOwned
<1>4. MicOfTake'
  BY <1>2 DEF TakeInv, MicOfTake
<1> QED BY <1>1, <1>3, <1>4 DEF TakeInv, AskingIsOwned, RecordingIsOwned, AsksAlone

(* The end of a take releases its microphone                                 *)
LEMMA StoppedKeeps ==
    ASSUME RtTakes \in Nat, TakeInv, Rt!Stopped PROVE TakeInv'
<1> TakeType
  BY DEF TakeInv
<1>1. PICK k \in Rt!Takes, good \in BOOLEAN :
        rt' = [Rt!Release(rt, k) EXCEPT !.take = IF Rt!Hears(rt, k) THEN good ELSE @]
  BY DEF Rt!Stopped
<1>2. TakeType'
  <2>1. [rt.rec EXCEPT ![k].at = "ended", ![k].mic = FALSE] \in [Rt!Takes -> TakeRecord]
    BY TakeChanged DEF TakeType
  <2> QED BY <1>1, <2>1 DEF Rt!Release, TakeType
<1>3. /\ rt'.doubtful = rt.doubtful /\ rt'.open = rt.open /\ rt'.recording = rt.recording
      /\ rt'.ref = rt.ref /\ rt'.life = rt.life
      /\ rt'.rec = [rt.rec EXCEPT ![k].at = "ended", ![k].mic = FALSE]
  BY <1>1 DEF Rt!Release, TakeType, TakeRecord
<1>4. /\ \A j \in Rt!Takes : j # k => rt'.rec[j] = rt.rec[j]
      /\ rt'.rec[k].at = "ended" /\ ~rt'.rec[k].mic
  BY <1>3 DEF TakeType, TakeRecord
<1> QED BY <1>2, <1>3, <1>4
        DEF TakeInv, MicOfTake, AskingIsOwned, RecordingIsOwned, AsksAlone

(* Closing the dialog cancels the take that records and doubts one that asks  *)
LEMMA UnmountKeeps ==
    ASSUME RtTakes \in Nat, TakeInv, Rt!Unmount PROVE TakeInv'
<1> TakeType
  BY DEF TakeInv
<1>1. TakeType'
  <2>1. CASE rt.ref \in Rt!Takes
    <3>1. [rt.rec EXCEPT ![rt.ref].at = "ended", ![rt.ref].mic = FALSE] \in [Rt!Takes -> TakeRecord]
      BY <2>1, TakeChanged DEF TakeType
    <3> QED BY <2>1, <3>1 DEF Rt!Unmount, Rt!Cancelled, Rt!Release, Rt!Asking, TakeType
  <2>2. CASE rt.ref = Rt!None
    BY <2>2 DEF Rt!Unmount, Rt!Cancelled, Rt!Asking, TakeType
  <2> QED BY <2>1, <2>2 DEF TakeType
<1>2. rt'.doubtful = rt.doubtful \cup Rt!Asking(rt)
  BY DEF Rt!Unmount, Rt!Cancelled, Rt!Release, TakeType
<1>3. \A j \in Rt!Takes :
        \/ rt'.rec[j] = rt.rec[j] /\ ~(rt.ref = j /\ rt.rec[j].at = "recording")
        \/ rt'.rec[j].at = "ended" /\ ~rt'.rec[j].mic
  BY DEF Rt!Unmount, Rt!Cancelled, Rt!Release, TakeType, TakeRecord, Rt!Takes, Rt!None
<1>4. \A j \in Rt!Takes \ rt'.doubtful : rt'.rec[j].at \notin {"asking", "recording"}
  BY <1>2, <1>3 DEF TakeInv, RecordingIsOwned, Rt!Asking
<1>5. MicOfTake'
  BY <1>3 DEF TakeInv, MicOfTake
<1> QED BY <1>1, <1>4, <1>5 DEF TakeInv, AskingIsOwned, RecordingIsOwned, AsksAlone

-----------------------------------------------------------------------------
(* Every step keeps the invariant                                            *)
LEMMA TakeKept ==
    ASSUME RtTakes \in Nat, RtTrouble \in Nat, TakeInv, [Rt!Next]_rt PROVE TakeInv'
<1>1. CASE UNCHANGED rt
  BY <1>1 DEF TakeInv, TakeType, TakeRecord, MicOfTake, AskingIsOwned, RecordingIsOwned, AsksAlone
<1>2. CASE Rt!Next
  BY <1>2, SectionKeeps, StartKeeps, AnswerKeeps, StopKeeps, StoppedKeeps, UnmountKeeps
     DEF Rt!Next
<1> QED BY <1>1, <1>2

(* A recording is owned, so its microphone can be stopped                    *)
LEMMA TakeInvReleases == TakeInv => Rt!MicIsReleased
  BY DEF TakeInv, MicOfTake, RecordingIsOwned, Rt!MicIsReleased

TakePart == IF subject = "rt" THEN TakeInv ELSE rt = Off

(* A take's microphone is on only while the section can stop it or it is   *)
(* ending (recorder.ts:48, CustomVoiceSection.tsx:48-98).                  *)
THEOREM MicReleased ==
    ASSUME RtTakes \in Nat, RtTrouble \in Nat PROVE PartsSpec => []MicIsReleased
<1>1. PartsInit => TakePart
  BY TakeInit DEF PartsInit, TakePart
<1>2. TakePart /\ [PartsNext]_<<vars, parts>> => TakePart'
  <2> SUFFICES ASSUME TakePart, [PartsNext]_<<vars, parts>> PROVE TakePart'
    OBVIOUS
  <2>1. subject' = subject /\ (rt' = rt \/ (subject = "rt" /\ Rt!Next))
    BY StepOfPart
  <2>2. CASE subject = "rt"
    BY <2>1, <2>2, TakeKept DEF TakePart
  <2>3. CASE subject # "rt"
    BY <2>1, <2>3 DEF TakePart
  <2> QED BY <2>2, <2>3
<1>3. TakePart => MicIsReleased
  BY TakeInvReleases DEF TakePart, MicIsReleased
<1> QED BY <1>1, <1>2, <1>3, PTL DEF PartsSpec


-----------------------------------------------------------------------------
(* The settings.  Neither property is inductive: VsInv adds that the draft, *)
(* what is being saved and what is resumed are of their own engine too,    *)
(* that a voice in memory or in the row is the one filed under its engine, *)
(* that a catalogue is only shown of a reported engine, and that what is in *)
(* memory is the stored row until something excuses it.                     *)

VsChoice == [name : Int, model : Vs!Engines, voice : {"k1", "k2", "q1", "custom", "none"},
             profiles : [Vs!Engines -> {"k1", "k2", "q1", "custom", "none"}]]

VsModel == {"none", "ready", "unavailable"}

VsState ==
    [mem : VsChoice, ready : BOOLEAN, listed : BOOLEAN, custom : BOOLEAN,
     models : [Vs!Engines -> VsModel], fallback : {"none", "k", "q"},
     polls : SUBSET [k : {"ready"}, q : VsModel, for : Vs!Engines],
     open : BOOLEAN, draft : VsChoice, typed : Int, saving : BOOLEAN, writing : VsChoice,
     meant : Int, excused : BOOLEAN, row : VsChoice, voices : BOOLEAN, qwen : VsModel,
     sent : VsChoice, frozen : VsChoice, want : VsChoice,
     edits : Int, dialogs : Int, asked : Int, starts : Int, trouble : Int]

VsPage == {"mem", "ready", "listed", "custom", "models", "fallback", "polls", "open", "draft",
           "typed", "saving", "writing", "meant", "excused"}
VsOther == {"row", "voices", "qwen", "sent", "frozen", "want",
            "edits", "dialogs", "asked", "starts", "trouble"}

LEMMA VsPageIs == Vs!Page = VsPage
  BY DEF Vs!Page, Vs!Fresh, VsPage

LEMMA VsFreshIs ==
    /\ Vs!Fresh["mem"] = Vs!Factory /\ Vs!Fresh["ready"] = FALSE /\ Vs!Fresh["listed"] = FALSE
    /\ Vs!Fresh["custom"] = FALSE /\ Vs!Fresh["models"] = Vs!NoModels /\ Vs!Fresh["fallback"] = "none"
    /\ Vs!Fresh["polls"] = {} /\ Vs!Fresh["open"] = FALSE /\ Vs!Fresh["draft"] = Vs!Factory
    /\ Vs!Fresh["typed"] = 0 /\ Vs!Fresh["saving"] = FALSE /\ Vs!Fresh["writing"] = Vs!Factory
    /\ Vs!Fresh["meant"] = 0 /\ Vs!Fresh["excused"] = FALSE
  BY DEF Vs!Fresh, Vs!None

\* a page that was loaded, over what the browser and the host keep
LEMMA VsLoaded ==
    ASSUME NEW p, DOMAIN p = VsPage \cup VsOther, p = [f \in DOMAIN p |-> p[f]],
           \A f \in VsPage : p[f] = Vs!Fresh[f]
    PROVE  /\ p.mem = Vs!Factory /\ p.ready = FALSE /\ p.listed = FALSE
           /\ p.custom = FALSE /\ p.models = Vs!NoModels /\ p.fallback = "none"
           /\ p.polls = {} /\ p.open = FALSE /\ p.draft = Vs!Factory
           /\ p.typed = 0 /\ p.saving = FALSE /\ p.writing = Vs!Factory
           /\ p.meant = 0 /\ p.excused = FALSE
<1> USE DEF VsPage
<1>1. p["mem"] = Vs!Factory /\ p["ready"] = FALSE /\ p["listed"] = FALSE
      /\ p["custom"] = FALSE /\ p["models"] = Vs!NoModels /\ p["fallback"] = "none"
  BY VsFreshIs
<1>2. p["polls"] = {} /\ p["open"] = FALSE /\ p["draft"] = Vs!Factory
           /\ p["typed"] = 0 /\ p["saving"] = FALSE /\ p["writing"] = Vs!Factory
           /\ p["meant"] = 0 /\ p["excused"] = FALSE
  BY VsFreshIs
<1> QED BY <1>1, <1>2

LEMMA VsFactoryIs == Vs!Factory \in VsChoice /\ Vs!NoModels \in [Vs!Engines -> VsModel]
  BY DEF Vs!Factory, VsChoice, Vs!Engines, Vs!NoVoice, Vs!NoModels, VsModel, Vs!None

LEMMA VsLoadedState ==
    ASSUME NEW p, DOMAIN p = VsPage \cup VsOther, p = [f \in DOMAIN p |-> p[f]],
           \A f \in VsPage : p[f] = Vs!Fresh[f],
           p.row \in VsChoice, p.voices \in BOOLEAN, p.qwen \in VsModel, p.sent \in VsChoice, p.frozen \in VsChoice,
           p.want \in VsChoice, p.edits \in Int, p.dialogs \in Int, p.asked \in Int, p.starts \in Int, p.trouble \in Int
    PROVE  p \in VsState
<1>1. DOMAIN p = {"mem", "ready", "listed", "custom", "models", "fallback", "polls", "open", "draft",
           "typed", "saving", "writing", "meant", "excused", "row", "voices", "qwen", "sent", "frozen", "want",
            "edits", "dialogs", "asked", "starts", "trouble"}
  BY DEF VsPage, VsOther
<1>2. /\ p.mem \in VsChoice /\ p.ready \in BOOLEAN /\ p.listed \in BOOLEAN
           /\ p.custom \in BOOLEAN /\ p.models \in [Vs!Engines -> VsModel] /\ p.fallback \in {"none", "k", "q"}
           /\ p.polls \in SUBSET [k : {"ready"}, q : VsModel, for : Vs!Engines] /\ p.open \in BOOLEAN 
           /\ p.draft \in VsChoice
           /\ p.typed \in Int /\ p.saving \in BOOLEAN /\ p.writing \in VsChoice
           /\ p.meant \in Int /\ p.excused \in BOOLEAN
  <2>1. /\ p.mem = Vs!Factory /\ p.ready = FALSE /\ p.listed = FALSE
           /\ p.custom = FALSE /\ p.models = Vs!NoModels /\ p.fallback = "none"
           /\ p.polls = {} /\ p.open = FALSE /\ p.draft = Vs!Factory
           /\ p.typed = 0 /\ p.saving = FALSE /\ p.writing = Vs!Factory
           /\ p.meant = 0 /\ p.excused = FALSE
    BY VsLoaded
  <2>2. /\ p.mem \in VsChoice /\ p.models \in [Vs!Engines -> VsModel] /\ p.draft \in VsChoice
        /\ p.writing \in VsChoice /\ p.fallback \in {"none", "k", "q"}
        /\ p.typed \in Int /\ p.meant \in Int
    BY <2>1, VsFactoryIs
  <2>3. p.polls \in SUBSET [k : {"ready"}, q : VsModel, for : Vs!Engines]
    BY <2>1
  <2>4. /\ p.ready \in BOOLEAN /\ p.listed \in BOOLEAN /\ p.custom \in BOOLEAN /\ p.open \in BOOLEAN
        /\ p.saving \in BOOLEAN /\ p.excused \in BOOLEAN
    BY <2>1, Zenon
  <2> QED BY <2>2, <2>3, <2>4
<1> QED BY <1>1, <1>2 DEF VsState

LEMMA VsInit ==
    ASSUME Vs!Init
    PROVE  /\ vs \in VsState /\ DOMAIN vs = VsPage \cup VsOther /\ vs = [f \in DOMAIN vs |-> vs[f]]
           /\ \A f \in VsPage : vs[f] = Vs!Fresh[f]
           /\ vs.row = Vs!Factory /\ vs.sent = Vs!Factory /\ vs.frozen = Vs!Factory /\ vs.want = Vs!Factory
<1> DEFINE D == VsPage \cup VsOther
           Of(f) == CASE f \in VsPage -> Vs!Fresh[f]
              [] f = "voices" -> TRUE
              [] f = "qwen" -> "ready"
              [] f \in {"row", "sent", "frozen", "want"} -> Vs!Factory
              [] OTHER -> 0
<1>1. DOMAIN vs = D /\ \A f \in D : vs[f] = Of(f)
  <2>1. Vs!Page \cup {"row", "voices", "qwen", "sent", "frozen", "want",
                           "edits", "dialogs", "asked", "starts", "trouble"} = D
    BY VsPageIs DEF VsOther
  <2>2. DOMAIN vs = Vs!Page \cup {"row", "voices", "qwen", "sent", "frozen", "want",
                           "edits", "dialogs", "asked", "starts", "trouble"}
    BY DEF Vs!Init
  <2>3. \A f \in D : vs[f] = Of(f)
    BY <2>1, VsPageIs DEF Vs!Init
  <2> QED BY <2>1, <2>2, <2>3
<1>2. vs = [f \in DOMAIN vs |-> vs[f]]
  <2> DEFINE S == Vs!Page \cup {"row", "voices", "qwen", "sent", "frozen", "want",
                             "edits", "dialogs", "asked", "starts", "trouble"}
             At(f) == CASE f \in Vs!Page -> Vs!Fresh[f]
                        [] f = "voices" -> TRUE
                        [] f = "qwen" -> "ready"
                        [] f \in {"row", "sent", "frozen", "want"} -> Vs!Factory
                        [] OTHER -> 0
  <2>1. vs = [f \in S |-> At(f)]
    BY DEF Vs!Init
  <2> HIDE DEF S, At
  <2>2. DOMAIN vs = S
    BY <2>1
  <2> QED BY <2>1, <2>2
<1>3. \A f \in VsPage : vs[f] = Vs!Fresh[f]
  BY <1>1 DEF VsPage
<1>4. /\ vs.row = Vs!Factory /\ vs.voices = TRUE /\ vs.qwen = "ready" /\ vs.sent = Vs!Factory /\ vs.frozen = Vs!Factory
      /\ vs.want = Vs!Factory
  BY <1>1 DEF VsPage, VsOther
<1>5. vs.edits = 0 /\ vs.dialogs = 0 /\ vs.asked = 0 /\ vs.starts = 0 /\ vs.trouble = 0
  BY <1>1 DEF VsPage, VsOther
<1>6. /\ vs.row \in VsChoice /\ vs.voices \in BOOLEAN /\ vs.qwen \in VsModel /\ vs.sent \in VsChoice
      /\ vs.frozen \in VsChoice
      /\ vs.want \in VsChoice /\ vs.edits \in Int /\ vs.dialogs \in Int /\ vs.asked \in Int /\ vs.starts \in Int
      /\ vs.trouble \in Int
  <2>1. vs.voices \in BOOLEAN
    BY <1>4, Zenon
  <2> QED BY <1>4, <1>5, <2>1, VsFactoryIs DEF VsModel
<1> HIDE DEF Of
<1>7. vs \in VsState
  BY <1>1, <1>2, <1>3, <1>6, VsLoadedState
<1> QED BY <1>1, <1>2, <1>3, <1>4, <1>7

LEMMA VsReloadTyped ==
    ASSUME vs \in VsState, Vs!Reload
    PROVE  /\ vs' \in VsState /\ DOMAIN vs' = VsPage \cup VsOther /\ vs' = [f \in DOMAIN vs' |-> vs'[f]]
           /\ \A f \in VsPage : vs'[f] = Vs!Fresh[f]
           /\ vs'.row = vs.row /\ vs'.sent = vs.sent /\ vs'.frozen = vs.frozen /\ vs'.want = vs.want
<1>1. DOMAIN vs = VsPage \cup VsOther
  BY DEF VsState, VsPage, VsOther
<1>2. vs' = [f \in VsPage \cup VsOther |-> IF f \in VsPage THEN Vs!Fresh[f]
                                  ELSE IF f = "trouble" THEN vs.trouble + 1 ELSE vs[f]]
  BY <1>1, VsPageIs DEF Vs!Reload
<1>3. DOMAIN vs' = VsPage \cup VsOther /\ vs' = [f \in DOMAIN vs' |-> vs'[f]]
  BY <1>2
<1>4. \A f \in VsPage : vs'[f] = Vs!Fresh[f]
  BY <1>2
<1>5. /\ vs'.row = vs.row /\ vs'.voices = vs.voices /\ vs'.qwen = vs.qwen /\ vs'.sent = vs.sent
      /\ vs'.frozen = vs.frozen /\ vs'.want = vs.want
  BY <1>2 DEF VsPage, VsOther
<1>6. /\ vs'.edits = vs.edits /\ vs'.dialogs = vs.dialogs /\ vs'.asked = vs.asked /\ vs'.starts = vs.starts
      /\ vs'.trouble = vs.trouble + 1
  BY <1>2 DEF VsPage, VsOther
<1>7. /\ vs'.row \in VsChoice /\ vs'.voices \in BOOLEAN /\ vs'.qwen \in VsModel /\ vs'.sent \in VsChoice
      /\ vs'.frozen \in VsChoice
      /\ vs'.want \in VsChoice /\ vs'.edits \in Int /\ vs'.dialogs \in Int /\ vs'.asked \in Int /\ vs'.starts \in Int
      /\ vs'.trouble \in Int
  BY <1>5, <1>6 DEF VsState
<1>8. vs' \in VsState
  BY <1>3, <1>4, <1>7, VsLoadedState
<1> QED BY <1>3, <1>4, <1>5, <1>8

VsOwn(s) ==
    /\ s.voice \in Vs!Voices(s.model) \cup {Vs!NoVoice}
    /\ \A m \in Vs!Engines : s.profiles[m] \in Vs!Voices(m) \cup {Vs!NoVoice}

\* the voice is the one filed under its engine, if one is
VsFiling(s) == s.profiles[s.model] \in {Vs!NoVoice, s.voice}

VsAgree(s, r) == s.name = r.name /\ s.model = r.model /\ s.voice = r.voice

VsOwned(p) ==
    /\ VsOwn(p.mem) /\ VsOwn(p.row) /\ VsOwn(p.sent) /\ VsOwn(p.draft) /\ VsOwn(p.writing)
    /\ VsOwn(p.frozen) /\ VsOwn(p.want)

\* no catalogue is shown of an engine that was not reported
VsShown(p) == 
    /\ p.models["k"] \in {Vs!None, "ready"}
    /\ p.models["k"] = Vs!None => p.fallback = Vs!None

VsStored(p) ==
    /\ VsFiling(p.mem) /\ VsFiling(p.row)
    /\ p.ready /\ ~p.excused /\ p.row.voice # Vs!NoVoice => VsAgree(p.mem, p.row)
    /\ p.sent = p.want /\ p.frozen = p.want

VsInv(p) == p \in VsState /\ VsOwned(p) /\ VsShown(p) /\ VsStored(p)

\* the engines there are, and the voices that are listed
VsShows(p) ==
    /\ p.models \in [Vs!Engines -> VsModel] /\ p.fallback \in {"none", "k", "q"} /\ p.custom \in BOOLEAN
    /\ VsShown(p)

VsGone(s, p) == p.models[s.model] = "unavailable" \/ (p.models["k"] # Vs!None /\ p.models[s.model] = Vs!None)

VsFrom(m, p) == IF p.models[m] = "ready" THEN m ELSE IF m = "k" THEN p.fallback ELSE Vs!None

LEMMA VsFromIs ==
    ASSUME NEW p, VsShows(p), NEW m \in Vs!Engines
    PROVE  VsFrom(m, p) \in {m, Vs!None}
<1>1. CASE p.models[m] = "ready"
  BY <1>1 DEF VsFrom
<1>2. CASE p.models[m] # "ready" /\ m = "k"
  BY <1>2 DEF VsFrom, VsShows, VsShown, Vs!None
<1>3. CASE p.models[m] # "ready" /\ m # "k"
  BY <1>3 DEF VsFrom
<1> QED BY <1>1, <1>2, <1>3

LEMMA VsVoiceKept ==
    ASSUME NEW p, VsShows(p), NEW m \in Vs!Engines, NEW f \in {m, Vs!None}, NEW v \in Vs!Voices(m) \cup {Vs!NoVoice}
    PROVE  /\ Vs!ReconcileVoice(v, f, Vs!Catalog(f, p)) \in Vs!Voices(m) \cup {Vs!NoVoice}
           /\ v # Vs!NoVoice /\ (v = "custom" => p.custom) => Vs!ReconcileVoice(v, f, Vs!Catalog(f, p)) = v
<1>1. CASE f = Vs!None
  <2>1. Vs!Catalog(f, p) = {}
    BY <1>1 DEF Vs!Catalog
  <2> QED BY <2>1 DEF Vs!ReconcileVoice
<1>2. CASE f = m
  <2>1. f # Vs!None /\ Vs!Default(m) \in Vs!Voices(m)
    BY <1>2 DEF Vs!Engines, Vs!None, Vs!Default, Vs!Voices
  <2>2. Vs!Catalog(f, p) = Vs!Voices(m) \ (IF p.custom THEN {} ELSE {"custom"})
    BY <1>2, <2>1 DEF Vs!Catalog
  <2>3. ASSUME v # Vs!NoVoice, v = "custom" => p.custom PROVE v \in Vs!Catalog(f, p)
    BY <2>2, <2>3
  <2> QED BY <1>2, <2>1, <2>3 DEF Vs!ReconcileVoice
<1> QED BY <1>1, <1>2

LEMMA VsReconcileIs ==
    ASSUME NEW p, VsShows(p), NEW s \in VsChoice, VsOwn(s)
    PROVE  LET r == Vs!ReconcileSettings(s, p) IN
           /\ r \in VsChoice /\ VsOwn(r) /\ VsFiling(r) /\ r.name = s.name
           /\ VsFiling(s) /\ s.voice # Vs!NoVoice /\ ~VsGone(s, p) /\ (s.voice = "custom" => p.custom) =>
                 VsAgree(r, s)
<1> DEFINE model == IF VsGone(s, p) THEN "k" ELSE s.model
           from == VsFrom(model, p)
           scoped == Vs!Scoped(s, model)
           voice == Vs!ReconcileVoice(scoped, from, Vs!Catalog(from, p))
<1>1. Vs!ReconcileSettings(s, p) = [s EXCEPT !.model = model, !.voice = voice, !.profiles[model] = voice]
  BY DEF Vs!ReconcileSettings, VsGone, VsFrom
<1>2. model \in Vs!Engines /\ s.model \in Vs!Engines
  BY DEF VsChoice, Vs!Engines
<1>3. from \in {model, Vs!None}
  BY <1>2, VsFromIs
<1>4. scoped \in Vs!Voices(model) \cup {Vs!NoVoice}
  BY <1>2 DEF Vs!Scoped, VsOwn
<1>5. /\ voice \in Vs!Voices(model) \cup {Vs!NoVoice}
      /\ scoped # Vs!NoVoice /\ (scoped = "custom" => p.custom) => voice = scoped
  BY <1>2, <1>3, <1>4, VsVoiceKept
<1>6. voice \in {"k1", "k2", "q1", "custom", "none"}
  BY <1>2, <1>5 DEF Vs!Voices, Vs!NoVoice
<1>7. ASSUME VsFiling(s), s.voice # Vs!NoVoice, ~VsGone(s, p), s.voice = "custom" => p.custom
      PROVE  model = s.model /\ voice = s.voice
  <2>1. model = s.model
    BY <1>7
  <2>2. scoped = s.voice
    BY <1>7, <2>1 DEF Vs!Scoped, VsFiling
  <2> QED BY <1>5, <1>7, <2>1, <2>2
<1> HIDE DEF model, from, scoped, voice
<1> DEFINE profiles == [s.profiles EXCEPT ![model] = voice]
           r == [s EXCEPT !.model = model, !.voice = voice, !.profiles[model] = voice]
<1>8. r = [s EXCEPT !.model = model, !.voice = voice, !.profiles = profiles]
  BY DEF VsChoice
<1>9. profiles \in [Vs!Engines -> {"k1", "k2", "q1", "custom", "none"}] /\ profiles[model] = voice
      /\ \A m \in Vs!Engines : profiles[m] = IF m = model THEN voice ELSE s.profiles[m]
  BY <1>2, <1>6 DEF VsChoice
<1> HIDE DEF profiles, r
<1>10. /\ r \in VsChoice /\ r.name = s.name /\ r.model = model /\ r.voice = voice
       /\ r.profiles = profiles
  BY <1>2, <1>6, <1>8, <1>9 DEF VsChoice
<1>11. VsOwn(r)
  BY <1>5, <1>9, <1>10 DEF VsOwn
<1>12. VsFiling(r)
  BY <1>9, <1>10 DEF VsFiling
<1>13. Vs!ReconcileSettings(s, p) = r
  BY <1>1 DEF r
<1> QED BY <1>7, <1>10, <1>11, <1>12, <1>13 DEF VsAgree

LEMMA VsShowsIs == ASSUME NEW p, VsInv(p) PROVE VsShows(p)
  BY DEF VsInv, VsState, VsShows

\* the draft becomes what is in memory
LEMMA VsResetKeeps ==
    ASSUME NEW p, VsInv(p)
    PROVE  VsInv(Vs!ResetDraft(p)) /\ Vs!ResetDraft(p).row = p.row
<1>1. CASE ~p.open
  BY <1>1 DEF Vs!ResetDraft
<1>2. CASE p.open
  <2> DEFINE q == [p EXCEPT !.draft = p.mem]
  <2>1. Vs!ResetDraft(p) = q
    BY <1>2 DEF Vs!ResetDraft
  <2>2. /\ q \in VsState /\ q.draft = p.mem /\ q.mem = p.mem /\ q.row = p.row /\ q.sent = p.sent
        /\ q.writing = p.writing /\ q.frozen = p.frozen /\ q.want = p.want /\ q.models = p.models
        /\ q.fallback = p.fallback /\ q.ready = p.ready /\ q.excused = p.excused
    BY DEF VsInv, VsState
  <2> HIDE DEF q
  <2>3. VsOwned(q) /\ VsShown(q) /\ VsStored(q)
    BY <2>2 DEF VsInv, VsOwned, VsShown, VsStored
  <2> QED BY <2>1, <2>2, <2>3 DEF VsInv
<1> QED BY <1>1, <1>2

LEMMA VsNotMissing ==
    ASSUME NEW p, ~Vs!Missing(p)
    PROVE  ~VsGone(vs.row, p) /\ (vs.row.voice = "custom" => p.custom)
  BY DEF Vs!Missing, VsGone

LEMMA VsMissingIs == ASSUME NEW p PROVE Vs!Missing(p) \in BOOLEAN
  BY DEF Vs!Missing

\* a state that is as p, but for what is in memory
VsFramed(q, p) ==
    /\ q \in VsState /\ q.draft = p.draft /\ q.row = p.row /\ q.sent = p.sent
    /\ q.writing = p.writing /\ q.frozen = p.frozen /\ q.want = p.want /\ q.models = p.models
    /\ q.fallback = p.fallback /\ q.custom = p.custom

\* what is in memory is reconciled, and a row that cannot be had is excused
LEMMA VsReconciledKeeps ==
    ASSUME NEW p, VsInv(p), p.row = vs.row
    PROVE  VsInv(Vs!Reconciled(p)) /\ Vs!Reconciled(p).row = vs.row
<1> DEFINE r == Vs!ReconcileSettings(p.mem, p)
           e == p.excused \/ Vs!Missing(p)
           q == [p EXCEPT !.mem = r, !.excused = e]
<1>1. Vs!Reconciled(p) = Vs!ResetDraft(q)
  BY DEF Vs!Reconciled, VsInv, VsState
<1>2. VsShows(p) /\ p.mem \in VsChoice /\ VsOwn(p.mem)
  BY VsShowsIs DEF VsInv, VsState, VsOwned
<1>3. /\ r \in VsChoice /\ VsOwn(r) /\ VsFiling(r)
      /\ VsFiling(p.mem) /\ p.mem.voice # Vs!NoVoice /\ ~VsGone(p.mem, p) /\ (p.mem.voice = "custom" => p.custom) =>
            VsAgree(r, p.mem)
  BY <1>2, VsReconcileIs
<1>4. e \in BOOLEAN /\ (~e => ~p.excused /\ ~Vs!Missing(p))
  BY VsMissingIs
<1> HIDE DEF r, e
<1>5. /\ VsFramed(q, p) /\ q.mem = r /\ q.excused = e /\ q.ready = p.ready
  BY <1>3, <1>4 DEF VsFramed, VsInv, VsState
<1> HIDE DEF q
<1>6. ASSUME q.ready, ~q.excused, q.row.voice # Vs!NoVoice PROVE VsAgree(q.mem, q.row)
  <2>1. ~p.excused /\ ~Vs!Missing(p) /\ p.ready /\ p.row.voice # Vs!NoVoice
    BY <1>4, <1>5, <1>6 DEF VsFramed
  <2>2. VsAgree(p.mem, p.row) /\ VsFiling(p.mem)
    BY <2>1 DEF VsInv, VsStored
  <2>3. ~VsGone(p.row, p) /\ (p.row.voice = "custom" => p.custom)
    BY <2>1, VsNotMissing
  <2>4. ~VsGone(p.mem, p) /\ p.mem.voice # Vs!NoVoice /\ (p.mem.voice = "custom" => p.custom)
    BY <2>1, <2>2, <2>3 DEF VsAgree, VsGone
  <2>5. VsAgree(r, p.mem)
    BY <1>3, <2>2, <2>4
  <2> QED BY <1>5, <2>2, <2>5 DEF VsAgree, VsFramed
<1>7. VsOwned(q) /\ VsShown(q) /\ VsStored(q)
  BY <1>3, <1>5, <1>6 DEF VsInv, VsOwned, VsShown, VsStored, VsFramed
<1>8. VsInv(q) /\ q.row = vs.row
  BY <1>5, <1>7 DEF VsInv, VsFramed
<1> QED BY <1>1, <1>8, VsResetKeeps

\* what the invariant is about stays as it is
VsSame(q, p) ==
    /\ q \in VsState /\ q.mem = p.mem /\ q.row = p.row /\ q.sent = p.sent /\ q.draft = p.draft
    /\ q.writing = p.writing /\ q.frozen = p.frozen /\ q.want = p.want /\ q.models = p.models
    /\ q.fallback = p.fallback /\ q.ready = p.ready /\ q.excused = p.excused

LEMMA VsSameKeeps == ASSUME NEW p, VsInv(p), NEW q, VsSame(q, p) PROVE VsInv(q)
  BY DEF VsInv, VsOwned, VsShown, VsStored, VsSame

\* the draft, what is written, or none of them, is changed to one of its own engine
LEMMA VsDraftKeeps ==
    ASSUME NEW p, VsInv(p), NEW q, q \in VsState, q.mem = p.mem, q.row = p.row, q.sent = p.sent,
           q.frozen = p.frozen, q.want = p.want, q.models = p.models, q.fallback = p.fallback,
           q.ready = p.ready, q.excused = p.excused, VsOwn(q.draft), VsOwn(q.writing)
    PROVE  VsInv(q)
  BY DEF VsInv, VsOwned, VsShown, VsStored

LEMMA VsPollKept == ASSUME VsInv(vs), Vs!Poll PROVE VsInv(vs')
<1> DEFINE n == vs.asked + 1
           P == vs.polls \cup {Vs!Answer}
<1>1. vs' = [vs EXCEPT !.polls = P, !.asked = n] /\ n \in Int
  BY DEF Vs!Poll, VsInv, VsState
<1>2. P \in SUBSET [k : {"ready"}, q : VsModel, for : Vs!Engines]
  BY DEF Vs!Answer, VsInv, VsState, VsChoice
<1> HIDE DEF n, P
<1>3. VsSame(vs', vs)
  BY <1>1, <1>2 DEF VsInv, VsState, VsSame
<1> QED BY <1>3, VsSameKeeps

LEMMA VsPollFailsKept == ASSUME VsInv(vs), Vs!PollFails PROVE VsInv(vs')
<1>1. PICK a \in vs.polls : vs' = [vs EXCEPT !.polls = @ \ {a}]
  BY DEF Vs!PollFails
<1> DEFINE P == vs.polls \ {a}
<1>2. vs' = [vs EXCEPT !.polls = P] /\ P \in SUBSET [k : {"ready"}, q : VsModel, for : Vs!Engines]
  BY <1>1 DEF VsInv, VsState
<1> HIDE DEF P
<1>3. VsSame(vs', vs)
  BY <1>2 DEF VsInv, VsState, VsSame
<1> QED BY <1>3, VsSameKeeps

LEMMA VsOnReadinessKept == ASSUME VsInv(vs), Vs!OnReadiness PROVE VsInv(vs')
<1>1. PICK a \in vs.polls :
        LET models == [m \in Vs!Engines |-> a[m]]
            p == [vs EXCEPT !.polls = @ \ {a}, !.models = models, !.fallback = "k"]
        IN  vs' = Vs!Reconciled([Vs!Reconciled(p) EXCEPT
                    !.fallback = IF models[a.for] = "ready" THEN a.for ELSE "k"])
  BY DEF Vs!OnReadiness
<1> DEFINE P == vs.polls \ {a}
           models == [m \in Vs!Engines |-> a[m]]
           p == [vs EXCEPT !.polls = P, !.models = models, !.fallback = "k"]
           f == IF models[a.for] = "ready" THEN a.for ELSE "k"
           q == Vs!Reconciled(p)
           r == [q EXCEPT !.fallback = f]
<1>2. vs' = Vs!Reconciled(r)
  BY <1>1
<1>3. a \in [k : {"ready"}, q : VsModel, for : Vs!Engines]
  BY DEF VsInv, VsState
<1>4. /\ P \in SUBSET [k : {"ready"}, q : VsModel, for : Vs!Engines]
      /\ models \in [Vs!Engines -> VsModel] /\ models["k"] = "ready" /\ f \in {"none", "k", "q"}
  BY <1>3 DEF VsInv, VsState, Vs!Engines, VsModel
<1> HIDE DEF P, models, f
<1>5. VsInv(p) /\ p.row = vs.row /\ p.models = models
  <2>1. /\ p \in VsState /\ p.mem = vs.mem /\ p.row = vs.row /\ p.sent = vs.sent /\ p.draft = vs.draft
        /\ p.writing = vs.writing /\ p.frozen = vs.frozen /\ p.want = vs.want /\ p.models = models
        /\ p.fallback = "k" /\ p.ready = vs.ready /\ p.excused = vs.excused
    BY <1>4 DEF VsInv, VsState
  <2> HIDE DEF p
  <2> QED BY <1>4, <2>1 DEF VsInv, VsOwned, VsShown, VsStored, Vs!None
<1> HIDE DEF p
<1>6. VsInv(q) /\ q.row = vs.row
  BY <1>5, VsReconciledKeeps
<1>7. q.models = models
  <2>1. DEFINE e == p.excused \/ Vs!Missing(p)
               g == [p EXCEPT !.mem = Vs!ReconcileSettings(p.mem, p), !.excused = e]
  <2>2. q = Vs!ResetDraft(g)
    BY DEF Vs!Reconciled, q, VsInv, VsState
  <2>3. g.models = models
    BY <1>5 DEF VsInv, VsState
  <2>4. Vs!ResetDraft(g) = g \/ Vs!ResetDraft(g) = [g EXCEPT !.draft = g.mem]
    BY DEF Vs!ResetDraft
  <2>5. Vs!ResetDraft(g).models = models
    BY <1>5, <2>3, <2>4 DEF VsInv, VsState
  <2> QED BY <2>2, <2>5
<1> HIDE DEF q
<1>8. VsInv(r) /\ r.row = vs.row
  <2>1. /\ r \in VsState /\ r.mem = q.mem /\ r.row = q.row /\ r.sent = q.sent /\ r.draft = q.draft
        /\ r.writing = q.writing /\ r.frozen = q.frozen /\ r.want = q.want /\ r.models = q.models
        /\ r.fallback = f /\ r.ready = q.ready /\ r.excused = q.excused
    BY <1>4, <1>6 DEF VsInv, VsState
  <2> HIDE DEF r
  <2> QED BY <1>4, <1>6, <1>7, <2>1 DEF VsInv, VsOwned, VsShown, VsStored, Vs!None
<1> HIDE DEF r
<1> QED BY <1>2, <1>8, VsReconciledKeeps

LEMMA VsStorageReadyKept == ASSUME VsInv(vs), Vs!StorageReady PROVE VsInv(vs')
<1>1. VsSame(vs', vs)
  BY DEF Vs!StorageReady, VsInv, VsState, VsSame
<1> QED BY <1>1, VsSameKeeps

\* what was loaded, the row or the defaults, is what is in memory
LEMMA VsLoadedKeeps ==
    ASSUME VsInv(vs), NEW s \in {vs.row, Vs!Factory}, NEW e \in BOOLEAN, NEW n \in Int,
           ~e => s = vs.row /\ ~Vs!Missing(vs)
    PROVE  VsInv(Vs!ResetDraft([vs EXCEPT !.ready = TRUE, !.excused = e, !.trouble = n,
                                       !.mem = Vs!ReconcileSettings(s, vs)]))
<1> DEFINE r == Vs!ReconcileSettings(s, vs)
           q == [vs EXCEPT !.ready = TRUE, !.excused = e, !.trouble = n, !.mem = r]
<1>1. s \in VsChoice /\ VsOwn(s) /\ VsFiling(s)
  BY VsFactoryIs DEF VsInv, VsState, VsOwned, VsStored, VsOwn, VsFiling, Vs!Factory, Vs!Engines
<1>2. /\ r \in VsChoice /\ VsOwn(r) /\ VsFiling(r)
      /\ s.voice # Vs!NoVoice /\ ~VsGone(s, vs) /\ (s.voice = "custom" => vs.custom) => VsAgree(r, s)
  BY <1>1, VsShowsIs, VsReconcileIs
<1>3. ASSUME ~e, vs.row.voice # Vs!NoVoice PROVE VsAgree(r, vs.row)
  BY <1>2, <1>3, VsNotMissing
<1> HIDE DEF r
<1>4. VsFramed(q, vs) /\ q.mem = r /\ q.excused = e
  BY <1>2 DEF VsFramed, VsInv, VsState
<1> HIDE DEF q
<1>5. VsInv(q)
  BY <1>2, <1>3, <1>4 DEF VsInv, VsOwned, VsShown, VsStored, VsFramed
<1> QED BY <1>5, VsResetKeeps DEF q, r

LEMMA VsLoadKept == ASSUME VsInv(vs), Vs!Load \/ Vs!LoadFails PROVE VsInv(vs')
<1>1. CASE Vs!Load
  <2> DEFINE q == [vs EXCEPT !.ready = TRUE, !.mem = Vs!ReconcileSettings(vs.row, vs),
                             !.excused = Vs!Missing(vs)]
             e == Vs!Missing(vs)
             n == vs.trouble
  <2>1. vs' = Vs!ResetDraft(q)
    BY <1>1 DEF Vs!Load
  <2>2. q = [vs EXCEPT !.ready = TRUE, !.excused = Vs!Missing(vs), !.trouble = vs.trouble,
                       !.mem = Vs!ReconcileSettings(vs.row, vs)]
    BY DEF VsInv, VsState
  <2>3. e \in BOOLEAN /\ n \in Int /\ (~e => vs.row = vs.row /\ ~Vs!Missing(vs))
    BY VsMissingIs DEF VsInv, VsState
  <2>4. q = [vs EXCEPT !.ready = TRUE, !.excused = e, !.trouble = n, !.mem = Vs!ReconcileSettings(vs.row, vs)]
    BY <2>2
  <2> HIDE DEF q, e, n
  <2> QED BY <2>1, <2>3, <2>4, VsLoadedKeeps
<1>2. CASE Vs!LoadFails
  <2> DEFINE n == vs.trouble + 1
             q == [vs EXCEPT !.ready = TRUE, !.excused = TRUE, !.trouble = n,
                             !.mem = Vs!ReconcileSettings(Vs!Factory, vs)]
  <2>1. vs' = Vs!ResetDraft(q) /\ n \in Int
    BY <1>2 DEF Vs!LoadFails, VsInv, VsState
  <2> HIDE DEF n
  <2>2. VsInv(Vs!ResetDraft(q))
    BY <2>1, VsLoadedKeeps
  <2> QED BY <2>1, <2>2
<1> QED BY <1>1, <1>2

LEMMA VsCustomVoicesChangeKept == ASSUME VsInv(vs), Vs!CustomVoicesChange PROVE VsInv(vs')
<1> DEFINE n == vs.trouble + 1
           p == [vs EXCEPT !.voices = ~vs.voices, !.custom = ~vs.voices, !.trouble = n]
<1>1. vs' = Vs!ResetDraft(IF p.models["k"] = Vs!None THEN p ELSE Vs!Reconciled(p)) /\ n \in Int
  BY DEF Vs!CustomVoicesChange, VsInv, VsState
<1> HIDE DEF n
<1>2. VsSame(p, vs)
  BY <1>1 DEF VsInv, VsState, VsSame
<1> HIDE DEF p
<1>3. VsInv(p) /\ p.row = vs.row
  BY <1>2, VsSameKeeps DEF VsSame
<1>4. VsInv(Vs!Reconciled(p))
  BY <1>3, VsReconciledKeeps
<1> QED BY <1>1, <1>3, <1>4, VsResetKeeps

LEMMA VsOpenDialogKept == ASSUME VsInv(vs), Vs!OpenDialog \/ Vs!CloseDialog PROVE VsInv(vs')
<1>1. CASE Vs!OpenDialog
  <2> DEFINE n == vs.dialogs + 1
  <2>1. vs' = [vs EXCEPT !.open = TRUE, !.dialogs = n, !.draft = vs.mem, !.typed = 0] /\ n \in Int
    BY <1>1 DEF Vs!OpenDialog, VsInv, VsState
  <2> HIDE DEF n
  <2> DEFINE d == vs.mem
             z == 0
             q == [vs EXCEPT !.dialogs = n, !.draft = d, !.typed = z]
  <2>2. d \in VsChoice /\ z \in Int
    BY DEF VsInv, VsState
  <2>5. vs' = [q EXCEPT !.open = TRUE]
    BY <2>1 DEF VsInv, VsState
  <2> HIDE DEF d, z
  <2>6. /\ q \in VsState /\ q.mem = vs.mem /\ q.row = vs.row /\ q.sent = vs.sent
        /\ q.frozen = vs.frozen /\ q.want = vs.want /\ q.models = vs.models
        /\ q.fallback = vs.fallback /\ q.ready = vs.ready /\ q.excused = vs.excused
        /\ q.draft = d /\ q.writing = vs.writing
    BY <2>1, <2>2 DEF VsInv, VsState
  <2>3. VsOwn(q.draft) /\ VsOwn(q.writing)
    BY <2>6 DEF VsInv, VsOwned, d
  <2> HIDE DEF q
  <2>7. VsInv(q)
    BY <2>6, <2>3, VsDraftKeeps
  <2>8. VsSame(vs', q)
    BY <2>5, <2>6 DEF VsState, VsSame
  <2> QED BY <2>7, <2>8, VsSameKeeps
<1>2. CASE Vs!CloseDialog
  <2>1. VsSame(vs', vs)
    BY <1>2 DEF Vs!CloseDialog, VsInv, VsState, VsSame
  <2> QED BY <2>1, VsSameKeeps
<1> QED BY <1>1, <1>2

\* the draft is replaced by one of its own engine
LEMMA VsEditedKeeps ==
    ASSUME VsInv(vs), NEW d \in VsChoice, VsOwn(d), NEW t \in Int, NEW n \in Int
    PROVE  VsInv([vs EXCEPT !.draft = d, !.typed = t, !.edits = n])
<1> DEFINE q == [vs EXCEPT !.draft = d, !.typed = t, !.edits = n]
<1>1. /\ q \in VsState /\ q.mem = vs.mem /\ q.row = vs.row /\ q.sent = vs.sent
      /\ q.frozen = vs.frozen /\ q.want = vs.want /\ q.models = vs.models
      /\ q.fallback = vs.fallback /\ q.ready = vs.ready /\ q.excused = vs.excused
      /\ q.draft = d /\ q.writing = vs.writing
  BY DEF VsInv, VsState
<1> HIDE DEF q
<1>2. VsOwn(q.draft) /\ VsOwn(q.writing)
  BY <1>1 DEF VsInv, VsOwned
<1>3. VsInv(q)
  BY <1>1, <1>2, VsDraftKeeps
<1> QED BY <1>3 DEF q

LEMMA VsTypeNameKept == ASSUME VsInv(vs), Vs!TypeName PROVE VsInv(vs')
<1> DEFINE n == vs.edits + 1
           d == [vs.draft EXCEPT !.name = n]
<1>1. n \in Int
  BY DEF VsInv, VsState
<1>2. vs' = [vs EXCEPT !.draft.name = n, !.typed = n, !.edits = n]
  BY DEF Vs!TypeName
<1> HIDE DEF n
<1>3. vs' = [vs EXCEPT !.draft = d, !.typed = n, !.edits = n]
  BY <1>2 DEF VsInv, VsState
<1>4. d \in VsChoice /\ d.voice = vs.draft.voice /\ d.model = vs.draft.model
      /\ d.profiles = vs.draft.profiles
  BY <1>1 DEF VsInv, VsState, VsChoice
<1> HIDE DEF d
<1>5. VsOwn(d)
  BY <1>4 DEF VsOwn, VsInv, VsOwned
<1> QED BY <1>1, <1>3, <1>4, <1>5, VsEditedKeeps

\* an engine with a voice of its own
LEMMA VsChoiceOwn ==
    ASSUME NEW s \in VsChoice, VsOwn(s), NEW m \in Vs!Engines, NEW v \in Vs!Voices(m) \cup {Vs!NoVoice}
    PROVE  LET d == [s EXCEPT !.model = m, !.voice = v, !.profiles = [s.profiles EXCEPT ![m] = v]]
           IN  d \in VsChoice /\ VsOwn(d)
<1> DEFINE profiles == [s.profiles EXCEPT ![m] = v]
           d == [s EXCEPT !.model = m, !.voice = v, !.profiles = profiles]
<1>1. v \in {"k1", "k2", "q1", "custom", "none"}
  BY DEF Vs!Voices, Vs!NoVoice
<1>2. profiles \in [Vs!Engines -> {"k1", "k2", "q1", "custom", "none"}]
      /\ \A e \in Vs!Engines : profiles[e] = IF e = m THEN v ELSE s.profiles[e]
  BY <1>1 DEF VsChoice
<1> HIDE DEF profiles
<1>3. d \in VsChoice /\ d.model = m /\ d.voice = v /\ d.profiles = profiles
  BY <1>1, <1>2 DEF VsChoice
<1> HIDE DEF d
<1>4. VsOwn(d)
  BY <1>2, <1>3 DEF VsOwn
<1> QED BY <1>3, <1>4 DEF d, profiles

LEMMA VsSelectModelKept == ASSUME VsInv(vs), Vs!SelectModel PROVE VsInv(vs')
<1>1. PICK m \in Vs!Engines \ {vs.draft.model} :
        LET voice == Vs!ReconcileVoice(vs.draft.profiles[m], m, Vs!Catalog(m, vs))
        IN  vs' = [vs EXCEPT !.draft.model = m, !.draft.voice = voice,
                             !.draft.profiles[m] = voice, !.edits = @ + 1]
  BY DEF Vs!SelectModel
<1> DEFINE n == vs.edits + 1
           v == Vs!ReconcileVoice(vs.draft.profiles[m], m, Vs!Catalog(m, vs))
           d == [vs.draft EXCEPT !.model = m, !.voice = v,
                                 !.profiles = [vs.draft.profiles EXCEPT ![m] = v]]
           t == vs.typed
<1>2. n \in Int /\ t \in Int /\ vs.draft \in VsChoice /\ VsOwn(vs.draft)
  BY DEF VsInv, VsState, VsOwned
<1>3. vs' = [vs EXCEPT !.draft.model = m, !.draft.voice = v, !.draft.profiles[m] = v, !.edits = n]
  BY <1>1
<1>4. v \in Vs!Voices(m) \cup {Vs!NoVoice}
  <2>1. vs.draft.profiles[m] \in Vs!Voices(m) \cup {Vs!NoVoice} /\ m \in Vs!Engines
    BY <1>2 DEF VsOwn
  <2> QED BY <2>1, VsShowsIs, VsVoiceKept
<1> HIDE DEF n, v
<1>5. vs' = [vs EXCEPT !.draft = d, !.edits = n]
  BY <1>3 DEF VsInv, VsState, VsChoice
<1>6. d \in VsChoice /\ VsOwn(d)
  BY <1>2, <1>4, VsChoiceOwn
<1> HIDE DEF d
<1>7. vs' = [vs EXCEPT !.draft = d, !.typed = t, !.edits = n]
  BY <1>5 DEF VsInv, VsState
<1> HIDE DEF t
<1> QED BY <1>2, <1>6, <1>7, VsEditedKeeps

LEMMA VsPickVoiceKept == ASSUME VsInv(vs), Vs!PickVoice PROVE VsInv(vs')
<1>1. PICK v \in Vs!Catalog(vs.draft.model, vs) \ {vs.draft.voice} :
        vs' = [vs EXCEPT !.draft.voice = v, !.draft.profiles[vs.draft.model] = v, !.edits = @ + 1]
  BY DEF Vs!PickVoice
<1> DEFINE n == vs.edits + 1
           m == vs.draft.model
           d == [vs.draft EXCEPT !.model = m, !.voice = v,
                                 !.profiles = [vs.draft.profiles EXCEPT ![m] = v]]
           t == vs.typed
<1>2. n \in Int /\ t \in Int /\ vs.draft \in VsChoice /\ VsOwn(vs.draft) /\ m \in Vs!Engines
  BY DEF VsInv, VsState, VsOwned, VsChoice
<1>3. v \in Vs!Voices(m) \cup {Vs!NoVoice}
  BY DEF Vs!Catalog
<1>4. vs' = [vs EXCEPT !.draft.voice = v, !.draft.profiles[m] = v, !.edits = n]
  BY <1>1
<1> HIDE DEF n
<1>8. d = [vs.draft EXCEPT !.voice = v, !.profiles[m] = v]
  BY <1>2 DEF VsChoice
<1>5. vs' = [vs EXCEPT !.draft = d, !.edits = n]
  BY <1>4, <1>8 DEF VsInv, VsState, VsChoice
<1>6. d \in VsChoice /\ VsOwn(d)
  BY <1>2, <1>3, VsChoiceOwn
<1> HIDE DEF d
<1>7. vs' = [vs EXCEPT !.draft = d, !.typed = t, !.edits = n]
  BY <1>5 DEF VsInv, VsState
<1> HIDE DEF t, m
<1> QED BY <1>2, <1>6, <1>7, VsEditedKeeps

\* nobody waits for a draft that is closed, or edits one that is being saved
LEMMA VsCommitKept == ASSUME VsInv(vs), Vs!Commit PROVE VsInv(vs')
<1> DEFINE d == vs.draft
           t == vs.typed
<1>1. vs' = [vs EXCEPT !.saving = TRUE, !.writing = d, !.meant = t] /\ d \in VsChoice /\ t \in Int
  BY DEF Vs!Commit, VsInv, VsState
<1> HIDE DEF t
<1>2. d = vs.draft
  OBVIOUS
<1> HIDE DEF d
<1>3. /\ vs' \in VsState /\ vs'.mem = vs.mem /\ vs'.row = vs.row /\ vs'.sent = vs.sent
      /\ vs'.frozen = vs.frozen /\ vs'.want = vs.want /\ vs'.models = vs.models
      /\ vs'.fallback = vs.fallback /\ vs'.ready = vs.ready /\ vs'.excused = vs.excused
      /\ vs'.draft = vs.draft /\ vs'.writing = d
  BY <1>1 DEF VsInv, VsState
<1>4. VsOwn(vs'.draft) /\ VsOwn(vs'.writing)
  BY <1>2, <1>3 DEF VsInv, VsOwned
<1> QED BY <1>3, <1>4, VsDraftKeeps

\* what is saved is filed under its engine, stored and in memory
LEMMA VsSaveKept == ASSUME VsInv(vs), Vs!Save PROVE VsInv(vs')
<1> DEFINE w == vs.writing
           m == w.model
           v == w.voice
           n == [w EXCEPT !.model = m, !.voice = v, !.profiles = [w.profiles EXCEPT ![m] = v]]
<1>1. w \in VsChoice /\ VsOwn(w) /\ m \in Vs!Engines /\ v \in Vs!Voices(m) \cup {Vs!NoVoice}
  BY DEF VsInv, VsOwned, VsState, VsChoice, VsOwn
<1>2. n = Vs!Filed(w)
  <2>1. n = [w EXCEPT !.profiles = [w.profiles EXCEPT ![m] = v]]
    BY <1>1 DEF VsChoice
  <2>2. Vs!Filed(w) = [w EXCEPT !.profiles = [w.profiles EXCEPT ![m] = v]]
    BY <1>1 DEF Vs!Filed, VsChoice
  <2> QED BY <2>1, <2>2
<1>3. n \in VsChoice /\ VsOwn(n)
  <2> HIDE DEF w, m, v
  <2> QED BY <1>1, VsChoiceOwn
<1>4. VsFiling(n)
  BY <1>1 DEF VsFiling, VsChoice
<1>5. vs' = [vs EXCEPT !.saving = FALSE, !.row = n, !.mem = n, !.open = FALSE, !.excused = FALSE]
  BY <1>2 DEF Vs!Save
<1> HIDE DEF n
<1>6. /\ vs' \in VsState /\ vs'.mem = n /\ vs'.row = n /\ vs'.sent = vs.sent
      /\ vs'.frozen = vs.frozen /\ vs'.want = vs.want /\ vs'.models = vs.models
      /\ vs'.fallback = vs.fallback /\ vs'.draft = vs.draft /\ vs'.writing = vs.writing
  BY <1>3, <1>5 DEF VsInv, VsState
<1> QED BY <1>3, <1>4, <1>6 DEF VsInv, VsOwned, VsShown, VsStored, VsAgree

LEMMA VsSaveFailsKept == ASSUME VsInv(vs), Vs!SaveFails PROVE VsInv(vs')
<1> DEFINE n == vs.trouble + 1
<1>1. vs' = [vs EXCEPT !.saving = FALSE, !.trouble = n] /\ n \in Int
  BY DEF Vs!SaveFails, VsInv, VsState
<1> HIDE DEF n
<1>2. VsSame(vs', vs)
  BY <1>1 DEF VsInv, VsState, VsSame
<1> QED BY <1>2, VsSameKeeps

\* a session has what a choice says, but for the voices of other engines
LEMMA VsSnapshotIs ==
    ASSUME NEW s \in VsChoice, VsOwn(s)
    PROVE  /\ Vs!Snapshot(s) \in VsChoice /\ VsOwn(Vs!Snapshot(s))
           /\ \A r \in VsChoice : VsAgree(s, r) => Vs!Snapshot(r) = Vs!Snapshot(s)
<1> DEFINE q == Vs!Snapshot(s)
<1>1. Vs!Factory.profiles \in [Vs!Engines -> {"k1", "k2", "q1", "custom", "none"}]
      /\ \A m \in Vs!Engines : Vs!Factory.profiles[m] = Vs!NoVoice
  BY DEF Vs!Factory, Vs!NoVoice
<1> DEFINE f == Vs!Factory.profiles
<1> HIDE DEF f
<1>2. \A r : Vs!Snapshot(r) = [r EXCEPT !.profiles = f]
  BY DEF Vs!Snapshot, f
<1>3. q \in VsChoice /\ q.model = s.model /\ q.voice = s.voice /\ q.profiles = f
  BY <1>1, <1>2 DEF VsChoice, f
<1>4. VsOwn(q)
  <2> HIDE DEF q
  <2> QED BY <1>1, <1>3 DEF VsOwn, f
<1>5. ASSUME NEW r \in VsChoice, VsAgree(s, r) PROVE Vs!Snapshot(r) = Vs!Snapshot(s)
  BY <1>2, <1>5 DEF VsChoice, VsAgree
<1> QED BY <1>3, <1>4, <1>5

LEMMA VsStartKept == ASSUME VsInv(vs), Vs!Start PROVE VsInv(vs')
<1> DEFINE n == vs.starts + 1
           m == Vs!ReconcileSettings(vs.mem, vs)
           e == vs.excused \/ Vs!Missing(vs)
           s == Vs!Snapshot(m)
           w == Vs!Snapshot(IF e \/ vs.row.voice = Vs!NoVoice THEN m ELSE vs.row)
           q == [vs EXCEPT !.mem = m, !.starts = n, !.excused = e, !.sent = s, !.frozen = s, !.want = w]
<1>1. vs' = Vs!ResetDraft(q) /\ n \in Int /\ vs.ready
  BY DEF Vs!Start, Vs!Settled, VsInv, VsState
<1>2. /\ m \in VsChoice /\ VsOwn(m) /\ VsFiling(m)
      /\ VsFiling(vs.mem) /\ vs.mem.voice # Vs!NoVoice /\ ~VsGone(vs.mem, vs) /\ (vs.mem.voice = "custom" => vs.custom) =>
            VsAgree(m, vs.mem)
  <2>1. VsShows(vs) /\ vs.mem \in VsChoice /\ VsOwn(vs.mem)
    BY VsShowsIs DEF VsInv, VsState, VsOwned
  <2> QED BY <2>1, VsReconcileIs
<1>3. e \in BOOLEAN
  BY VsMissingIs
<1>4. ASSUME ~e, vs.row.voice # Vs!NoVoice PROVE VsAgree(m, vs.row)
  <2>1. VsAgree(vs.mem, vs.row) /\ VsFiling(vs.mem)
    BY <1>1, <1>4 DEF VsInv, VsStored
  <2>2. ~VsGone(vs.mem, vs) /\ vs.mem.voice # Vs!NoVoice /\ (vs.mem.voice = "custom" => vs.custom)
    BY <1>4, <2>1, VsNotMissing DEF VsAgree, VsGone
  <2> QED BY <1>2, <2>1, <2>2 DEF VsAgree
<1>5. s \in VsChoice /\ VsOwn(s)
  BY <1>2, VsSnapshotIs
<1>6. w = s
  BY <1>2, <1>4, VsSnapshotIs DEF VsInv, VsState
<1> HIDE DEF n, m, e, s, w
<1>7. /\ q \in VsState /\ q.mem = m /\ q.row = vs.row /\ q.sent = s
      /\ q.frozen = s /\ q.want = w /\ q.models = vs.models /\ q.excused = e
      /\ q.fallback = vs.fallback /\ q.draft = vs.draft /\ q.writing = vs.writing
  BY <1>1, <1>2, <1>3, <1>5, <1>6 DEF VsInv, VsState
<1> HIDE DEF q
<1>8. VsInv(q)
  BY <1>2, <1>4, <1>5, <1>6, <1>7 DEF VsInv, VsOwned, VsShown, VsStored
<1> QED BY <1>1, <1>8, VsResetKeeps

LEMMA VsResumeKept == ASSUME VsInv(vs), Vs!Resume PROVE VsInv(vs')
<1> DEFINE n == vs.starts + 1
           f == vs.frozen
           kept == [vs EXCEPT !.sent = f, !.starts = n]
<1>1. n \in Int /\ f \in VsChoice /\ f = vs.frozen
  BY DEF VsInv, VsState
<1>2. vs' = kept \/ vs' = Vs!ResetDraft([kept EXCEPT !.mem = Vs!ReconcileSettings(@, vs), !.excused = @ \/ Vs!Missing(vs)])
  BY DEF Vs!Resume
<1> HIDE DEF n, f
<1>3. /\ kept \in VsState /\ kept.mem = vs.mem /\ kept.row = vs.row /\ kept.sent = f /\ kept.draft = vs.draft
      /\ kept.writing = vs.writing /\ kept.frozen = vs.frozen /\ kept.want = vs.want /\ kept.models = vs.models
      /\ kept.fallback = vs.fallback /\ kept.ready = vs.ready /\ kept.excused = vs.excused
      /\ kept.custom = vs.custom
  BY <1>1 DEF VsInv, VsState
<1> HIDE DEF kept
<1>4. VsInv(kept)
  BY <1>1, <1>3 DEF VsInv, VsOwned, VsShown, VsStored
<1>5. CASE vs' = kept
  BY <1>4, <1>5
<1>6. CASE vs' = Vs!ResetDraft([kept EXCEPT !.mem = Vs!ReconcileSettings(@, vs), !.excused = @ \/ Vs!Missing(vs)])
  <2>1. Vs!ReconcileSettings(kept.mem, vs) = Vs!ReconcileSettings(kept.mem, kept) /\ Vs!Missing(vs) = Vs!Missing(kept)
    BY <1>3 DEF Vs!ReconcileSettings, Vs!Catalog, Vs!Missing
  <2>2. vs' = Vs!Reconciled(kept)
    BY <1>3, <1>6, <2>1 DEF Vs!Reconciled, VsState
  <2> QED BY <1>3, <1>4, <2>2, VsReconciledKeeps
<1> QED BY <1>2, <1>5, <1>6

LEMMA VsQwenChangesKept == ASSUME VsInv(vs), Vs!QwenChanges PROVE VsInv(vs')
<1>1. PICK q \in {"ready", "unavailable", Vs!None} \ {vs.qwen} :
        vs' = [vs EXCEPT !.qwen = q, !.trouble = @ + 1]
  BY DEF Vs!QwenChanges
<1> DEFINE n == vs.trouble + 1
<1>2. vs' = [vs EXCEPT !.qwen = q, !.trouble = n] /\ n \in Int /\ q \in VsModel
  BY <1>1 DEF VsInv, VsState, VsModel, Vs!None
<1> HIDE DEF n
<1>3. VsSame(vs', vs)
  BY <1>2 DEF VsInv, VsState, VsSame
<1> QED BY <1>3, VsSameKeeps

\* a page that was loaded, over an invariant store and an invariant session
LEMMA VsLoadedInv ==
    ASSUME NEW p, p \in VsState, DOMAIN p = VsPage \cup VsOther, p = [f \in DOMAIN p |-> p[f]],
           \A f \in VsPage : p[f] = Vs!Fresh[f],
           VsOwn(p.row), VsFiling(p.row), VsOwn(p.want), p.sent = p.want, p.frozen = p.want
    PROVE  VsInv(p)
<1>1. /\ p.mem = Vs!Factory /\ p.ready = FALSE /\ p.models = Vs!NoModels /\ p.fallback = "none"
      /\ p.draft = Vs!Factory /\ p.writing = Vs!Factory
  BY VsLoaded
<1>2. VsOwn(Vs!Factory) /\ VsFiling(Vs!Factory)
  BY DEF VsOwn, VsFiling, Vs!Factory, Vs!Engines
<1>3. p.models["k"] = Vs!None
  BY <1>1 DEF Vs!NoModels, Vs!Engines
<1> QED BY <1>1, <1>2, <1>3 DEF VsInv, VsOwned, VsShown, VsStored, Vs!None

LEMMA VsInitKept == ASSUME Vs!Init PROVE VsInv(vs)
<1>1. VsOwn(Vs!Factory) /\ VsFiling(Vs!Factory)
  BY DEF VsOwn, VsFiling, Vs!Factory, Vs!Engines
<1> QED BY <1>1, VsInit, VsLoadedInv

LEMMA VsReloadKept == ASSUME VsInv(vs), Vs!Reload PROVE VsInv(vs')
<1>1. VsOwn(vs.row) /\ VsFiling(vs.row) /\ VsOwn(vs.want) /\ vs.sent = vs.want /\ vs.frozen = vs.want /\ vs \in VsState
  BY DEF VsInv, VsOwned, VsStored
<1>2. /\ vs' \in VsState /\ DOMAIN vs' = VsPage \cup VsOther /\ vs' = [f \in DOMAIN vs' |-> vs'[f]]
      /\ \A f \in VsPage : vs'[f] = Vs!Fresh[f]
      /\ vs'.row = vs.row /\ vs'.sent = vs.sent /\ vs'.frozen = vs.frozen /\ vs'.want = vs.want
  BY <1>1, VsReloadTyped
<1> QED BY <1>1, <1>2, VsLoadedInv

LEMMA VsKept == ASSUME VsInv(vs), Vs!Next PROVE VsInv(vs')
  BY VsPollKept, VsOnReadinessKept, VsPollFailsKept, VsStorageReadyKept, VsLoadKept, VsCustomVoicesChangeKept,
     VsOpenDialogKept, VsTypeNameKept, VsSelectModelKept, VsPickVoiceKept, VsCommitKept, VsSaveKept, VsSaveFailsKept,
     VsStartKept, VsResumeKept, VsQwenChangesKept, VsReloadKept DEF Vs!Next

LEMMA VsHolds == ASSUME VsInv(vs) PROVE Vs!SentAsStored /\ Vs!VoiceOfItsEngine
  BY DEF VsInv, VsOwned, VsStored, Vs!SentAsStored, Vs!VoiceOfItsEngine, VsOwn

SettingsPart == IF subject = "vs" THEN VsInv(vs) ELSE vs = Off

LEMMA SettingsPartStarts == PartsInit => SettingsPart
  BY VsInitKept DEF PartsInit, SettingsPart

LEMMA SettingsPartStays == SettingsPart /\ [PartsNext]_<<vars, parts>> => SettingsPart'
<1> SUFFICES ASSUME SettingsPart, [PartsNext]_<<vars, parts>> PROVE SettingsPart'
  OBVIOUS
<1>1. subject' = subject /\ (vs' = vs \/ (subject = "vs" /\ Vs!Next))
  BY StepOfPart
<1>2. CASE subject = "vs"
  <2>1. VsInv(vs)
    BY <1>2 DEF SettingsPart
  <2>2. VsInv(vs')
    BY <1>1, <1>2, <2>1, VsKept
  <2> QED BY <1>1, <1>2, <2>2 DEF SettingsPart
<1>3. CASE subject # "vs"
  BY <1>1, <1>3 DEF SettingsPart
<1> QED BY <1>2, <1>3

(* A session is started with the settings that are stored, unless what is  *)
(* stored cannot be had any more, and resumed with those it was started    *)
(* with, however loading, polling, editing and reloading interleave        *)
(* (App.tsx:311-330, 418-466, useSettings.ts:394-445).                     *)
THEOREM StoredIsSent == PartsSpec => []SentAsStored
<1>1. SettingsPart => SentAsStored
  BY VsHolds DEF SettingsPart, SentAsStored
<1> QED BY <1>1, SettingsPartStarts, SettingsPartStays, PTL DEF PartsSpec

(* No voice of one engine is ever used by another, through fallbacks,      *)
(* switches and reloads (settings-model.ts:1-3).                           *)
THEOREM VoiceKeepsToItsEngine == PartsSpec => []VoiceOfItsEngine
<1>1. SettingsPart => VoiceOfItsEngine
  BY VsHolds DEF SettingsPart, VoiceOfItsEngine
<1> QED BY <1>1, SettingsPartStarts, SettingsPartStays, PTL DEF PartsSpec

-----------------------------------------------------------------------------
(* Stored turns.  StInv adds to StoredTurnIsTrue that a receipt which was   *)
(* stored was given, that the number of the text is that of the last final, *)
(* that a response which failed says so, and that nothing is delivered on a *)
(* lane to a session that does not run.                                    *)

StEvents == St!HostEvents \cup St!Plans \cup {"playback.progress", "playback.paused", "playback.stopped"}
\* a reason, or a receipt, is there
StGiven(r) == r # ""
StText == StEvents \cup {""}
StReason == {"", "stopped", "failed", "completed", "cancelled", "lost"}
StTurn ==
    [exists : BOOLEAN, text : BOOLEAN, response : BOOLEAN, assistant : StText,
     final : 0..2, playback : BOOLEAN, generated : Nat, pending : Nat,
     delivered : Nat, reason : StReason, interrupted : BOOLEAN, paused : Int,
     continuation : {"none", "discarded", "paused", "resumed"}, failed : BOOLEAN]
StAccount == [pendingMax : Nat, terminal : BOOLEAN, final : Nat, reason : StReason]

StState ==
    [session : {"none", "draft", "active", "paused", "stopped"}, activeSession : BOOLEAN,
     about : Int, planned : Int,
     plan : {"none", "planning", "ready", "failed"}, kept : BOOLEAN, turn : StTurn, account : StAccount,
     applied : SUBSET StEvents, handed : SUBSET StEvents, played : Nat,
     receipt : StReason, live : BOOLEAN,
     lane : BOOLEAN, runs : Int, trouble : Int]

\* what the receipt says was delivered is what the turn says
StDelivered(s) ==
    /\ s.account.terminal => StGiven(s.receipt)
    /\ "playback.stopped" \in s.handed => StGiven(s.receipt)
    /\ s.account.terminal /\ s.turn.playback =>
         s.turn.delivered = IF s.turn.generated = 0 THEN 0 ELSE St!Smaller(s.account.final, s.turn.generated)

\* the text and its number are those of the last final
StSaid(s) ==
    /\ "final2" \in s.applied => s.turn.final = 2 /\ s.turn.assistant = "final2"
    /\ "final1" \in s.applied /\ "final2" \notin s.applied => s.turn.final = 1 /\ s.turn.assistant = "final1"
    /\ "final1" \notin s.applied /\ "final2" \notin s.applied => s.turn.final = 0

\* nothing is delivered to a session that does not run, and what ended says why
StEnded(s) ==
    /\ s.lane => s.live
    /\ s.live => s.session = "active"
    /\ s.turn.response => s.turn.exists
    /\ s.turn.failed => StGiven(s.turn.reason)
    /\ s.session = "paused" /\ s.turn.response => StGiven(s.turn.reason)

StPlanned(s) == s.kept => s.plan = "ready"

StInv(s) == s \in StState /\ StDelivered(s) /\ StSaid(s) /\ StEnded(s) /\ StPlanned(s)

LEMMA StLargerIs ==
    /\ \A a, b \in Int : St!Larger(a, b) \in Int
    /\ \A a, b \in Nat : St!Larger(a, b) \in Nat /\ St!Smaller(a, b) \in Nat
  BY DEF St!Larger, St!Smaller

\* what was said in the turn stays, and why it ended is not forgotten
StGoesOn(t, u) ==
    /\ u \in StTurn /\ u.exists = t.exists /\ u.response = t.response /\ u.final = t.final
    /\ u.assistant = t.assistant /\ u.failed = t.failed /\ (StGiven(t.reason) => StGiven(u.reason))

\* what the accounting is about stays as it is
StAccounted(t, u) ==
    u.playback = t.playback /\ u.generated = t.generated /\ u.delivered = t.delivered

StDue(t, a) == IF t.generated = 0 THEN 0 ELSE St!Smaller(a.final, t.generated)

LEMMA StReasonIs ==
    /\ {"stopped", "failed", "completed", "cancelled", "lost"} \subseteq StReason
    /\ \A r \in {"stopped", "failed", "completed", "cancelled", "lost"} : StGiven(r)
  BY DEF StReason, StGiven

LEMMA StClosedIs ==
    ASSUME NEW t \in StTurn, NEW c \in BOOLEAN
    PROVE  LET u == St!Closed(t, c) IN
           /\ StGoesOn(t, u) /\ StAccounted(t, u)
           /\ t.response /\ (t.failed => StGiven(t.reason)) => StGiven(u.reason)
<1> DEFINE q == [t EXCEPT !.reason = "stopped", !.interrupted = TRUE, !.continuation = "discarded"]
<1>1. StGoesOn(t, t) /\ StAccounted(t, t)
  BY DEF StGoesOn, StAccounted
<1>2. StGoesOn(t, q) /\ StAccounted(t, q) /\ StGiven(q.reason)
  BY StReasonIs DEF StTurn, StGoesOn, StAccounted
<1>3. St!Closed(t, c) \in {t, q}
  BY Zenon DEF St!Closed
<1>4. t.response /\ ~t.failed /\ ~StGiven(t.reason) => St!Closed(t, c) = q
  BY Zenon DEF St!Closed, StGiven
<1> HIDE DEF q
<1>5. CASE St!Closed(t, c) = q
  BY <1>2, <1>5
<1>6. CASE St!Closed(t, c) # q
  BY <1>1, <1>3, <1>4, <1>6
<1> QED BY <1>5, <1>6

LEMMA StCheckpointedIs ==
    ASSUME NEW t \in StTurn, NEW o \in Nat
    PROVE  LET u == St!Checkpointed(t, o) IN StGoesOn(t, u) /\ u.playback = t.playback
<1> DEFINE p == St!Larger(t.pending, o)
           d == IF t.generated > 0 THEN St!Smaller(p, t.generated) ELSE t.delivered
           b == St!Larger(t.paused, o)
<1>5. t.pending \in Nat /\ t.generated \in Nat /\ t.delivered \in Nat /\ t.paused \in Int
  BY DEF StTurn
<1>3. /\ t.pending \in Nat /\ t.generated \in Nat /\ t.delivered \in Nat /\ t.paused \in Int
      /\ o \in Int
  BY <1>5
<1>4. p \in Nat /\ b \in Int
  BY <1>3, StLargerIs
<1>1. p \in Nat /\ d \in Nat /\ b \in Int
  BY <1>3, <1>4, StLargerIs
<1>2. St!Checkpointed(t, o) = [t EXCEPT !.paused = b, !.pending = p, !.delivered = d]
  BY DEF St!Checkpointed, StTurn
<1> HIDE DEF p, d, b
<1> QED BY <1>1, <1>2 DEF StTurn, StGoesOn

LEMMA StMergeDeliveredIs ==
    ASSUME NEW t \in StTurn, NEW o \in Nat
    PROVE  LET u == St!MergeDelivered(t, o) IN
           StGoesOn(t, u) /\ u.playback = t.playback /\ u.generated = t.generated
<1> DEFINE p == St!Larger(t.pending, o)
           d == IF t.generated > 0 THEN St!Larger(t.delivered, St!Smaller(p, t.generated)) ELSE t.delivered
<1>1. p \in Nat /\ d \in Nat
  BY StLargerIs DEF StTurn
<1>2. St!MergeDelivered(t, o) = [t EXCEPT !.pending = p, !.delivered = d]
  BY DEF St!MergeDelivered, StTurn
<1> HIDE DEF p, d
<1> QED BY <1>1, <1>2 DEF StTurn, StGoesOn

LEMMA StApplyTerminalIs ==
    ASSUME NEW t \in StTurn, NEW a \in StAccount
    PROVE  LET u == St!ApplyTerminal(t, a) IN
           /\ StGoesOn(t, u) /\ u.playback = t.playback /\ u.generated = t.generated
           /\ u.delivered = StDue(u, a)
<1> DEFINE f == a.final
           d == IF t.generated > 0 THEN St!Smaller(a.final, t.generated) ELSE 0
           r == IF t.reason = "" THEN a.reason ELSE t.reason
           i == t.interrupted \/ a.reason # "completed"
<1>5. t.generated \in Nat /\ a.final \in Nat
  BY DEF StTurn, StAccount
<1>6. d = StDue(t, a)
  BY <1>5 DEF StDue
<1>7. d \in Nat
  BY <1>5, StLargerIs
<1>8. t.reason \in StReason /\ a.reason \in StReason
  BY DEF StTurn, StAccount
<1>9. r \in StReason /\ (StGiven(t.reason) => StGiven(r))
  BY <1>8, Zenon DEF StGiven
<1>1. f \in Nat /\ d \in Nat /\ r \in StReason /\ i \in BOOLEAN /\ (StGiven(t.reason) => StGiven(r))
      /\ d = StDue(t, a)
  BY <1>5, <1>6, <1>7, <1>9
<1>2. St!ApplyTerminal(t, a) = [t EXCEPT !.pending = f, !.delivered = d, !.reason = r, !.interrupted = i]
  BY DEF St!ApplyTerminal, StTurn
<1> HIDE DEF f, d, r, i
<1> DEFINE u == [t EXCEPT !.pending = f, !.delivered = d, !.reason = r, !.interrupted = i]
<1>3. StGoesOn(t, u) /\ u.playback = t.playback /\ u.generated = t.generated /\ u.delivered = d
  BY <1>1 DEF StTurn, StGoesOn
<1> HIDE DEF u
<1>4. StDue(u, a) = StDue(t, a)
  BY <1>3 DEF StDue
<1> QED BY <1>1, <1>2, <1>3, <1>4 DEF u

LEMMA StReconcileIs ==
    ASSUME NEW t \in StTurn, NEW a \in StAccount
    PROVE  LET u == St!Reconcile(t, a) IN
           /\ StGoesOn(t, u) /\ u.playback = t.playback /\ u.generated = t.generated
           /\ a.terminal => u.delivered = StDue(u, a)
<1>1. a.pendingMax \in Nat
  BY DEF StAccount
<1> QED BY <1>1, StMergeDeliveredIs, StApplyTerminalIs DEF St!Reconcile

\* the events that name the response
StVoice == {"tts.started", "tts.ended", "playback.paused", "barge_in.confirmed"}

LEMMA StVoicedIs ==
    ASSUME StSamples \in Nat, NEW s \in StState, NEW e \in StVoice,
           s.account.terminal /\ s.turn.playback => s.turn.delivered = StDue(s.turn, s.account)
    PROVE  LET u == St!Voiced(s, s.turn, e) IN
           /\ StGoesOn(s.turn, u)
           /\ s.account.terminal /\ u.playback => u.delivered = StDue(u, s.account)
<1> DEFINE t == s.turn
           a == s.account
<1>1. t \in StTurn /\ a \in StAccount
  BY DEF StState
<1>2. CASE e = "tts.started"
  <2> DEFINE q == [t EXCEPT !.playback = TRUE]
  <2>1. q \in StTurn /\ StGoesOn(t, q)
    BY <1>1 DEF StTurn, StGoesOn
  <2>2. St!Voiced(s, t, e) = St!Reconcile(q, a)
    BY <1>2 DEF St!Voiced
  <2> HIDE DEF q
  <2>3. LET u == St!Reconcile(q, a) IN StGoesOn(q, u) /\ (a.terminal => u.delivered = StDue(u, a))
    BY <1>1, <2>1, StReconcileIs
  <2>4. StGoesOn(t, St!Reconcile(q, a))
    BY <2>1, <2>3 DEF StGoesOn
  <2> QED BY <2>2, <2>3, <2>4
<1>3. CASE e = "tts.ended"
  <2> DEFINE g == St!Larger(t.generated, StSamples)
             q == [t EXCEPT !.generated = g]
  <2>1. g \in Nat
    BY <1>1, StLargerIs DEF StTurn
  <2>2. St!Voiced(s, t, e) = St!Reconcile(q, a)
    BY <1>1, <1>3 DEF St!Voiced, StTurn
  <2> HIDE DEF g
  <2>3. q \in StTurn /\ StGoesOn(t, q)
    BY <1>1, <2>1 DEF StTurn, StGoesOn
  <2> HIDE DEF q
  <2>4. LET u == St!Reconcile(q, a) IN StGoesOn(q, u) /\ (a.terminal => u.delivered = StDue(u, a))
    BY <1>1, <2>3, StReconcileIs
  <2>5. StGoesOn(t, St!Reconcile(q, a))
    BY <2>3, <2>4 DEF StGoesOn
  <2> QED BY <2>2, <2>4, <2>5
<1>4. CASE e = "playback.paused"
  <2> DEFINE p == St!Larger(t.paused, s.played)
             q == [t EXCEPT !.paused = p, !.continuation = "paused"]
  <2>5. t.paused \in Int /\ s.played \in Nat
    BY <1>1 DEF StTurn, StState
  <2>4. t.paused \in Int /\ s.played \in Int
    BY <2>5
  <2>1. p \in Int
    BY <2>4, StLargerIs
  <2>2. St!Voiced(s, t, e) = q
    BY <1>1, <1>4 DEF St!Voiced, StTurn
  <2> HIDE DEF p
  <2>3. StGoesOn(t, q) /\ q.playback = t.playback /\ q.delivered = t.delivered /\ q.generated = t.generated
    BY <1>1, <2>1 DEF StTurn, StGoesOn
  <2> HIDE DEF q
  <2> QED BY <2>3, <2>2 DEF StDue
<1>5. CASE e = "barge_in.confirmed"
  <2> DEFINE q == [t EXCEPT !.interrupted = TRUE, !.continuation = "discarded"]
  <2>2. St!Voiced(s, t, e) = q
    BY <1>5 DEF St!Voiced
  <2>3. StGoesOn(t, q) /\ q.playback = t.playback /\ q.delivered = t.delivered /\ q.generated = t.generated
    BY <1>1 DEF StTurn, StGoesOn
  <2> HIDE DEF q
  <2> QED BY <2>3, <2>2 DEF StDue
<1> QED BY <1>2, <1>3, <1>4, <1>5 DEF StVoice

StWords == {"transcript.final", "reasoning.started", "reasoning.delta", "final1", "final2",
            "response.cancelled", "response.failed"}

LEMMA StSpokenIs ==
    ASSUME NEW t \in StTurn, t.exists, t.failed => StGiven(t.reason), NEW e \in StWords
    PROVE  LET u == St!Spoken(t, e) IN
           /\ u \in StTurn /\ StAccounted(t, u) /\ u.exists
           /\ u.failed => StGiven(u.reason)
           /\ e \notin St!Finals /\ t.final > 0 => u.final = t.final /\ u.assistant = t.assistant
           /\ e \notin St!Finals => u.final = t.final
           /\ e = "final1" /\ t.final < 2 => u.final = 1 /\ u.assistant = "final1"
           /\ e = "final1" /\ t.final = 2 => u.final = 2 /\ u.assistant = t.assistant
           /\ e = "final2" => u.final = 2 /\ u.assistant = "final2"
<1> USE DEF St!Finals
<1>9. t.final \in 0..2 /\ t.exists = TRUE
  BY Zenon DEF StTurn
<1>1. CASE e = "transcript.final"
  <2>1. St!Spoken(t, e) = [t EXCEPT !.text = TRUE]
    BY <1>1 DEF St!Spoken
  <2> QED BY <1>9, <1>1, <2>1 DEF StTurn, StAccounted
<1>2. CASE e = "reasoning.started"
  <2>1. St!Spoken(t, e) = [t EXCEPT !.response = TRUE]
    BY <1>2 DEF St!Spoken
  <2> QED BY <1>9, <1>2, <2>1 DEF StTurn, StAccounted
<1>3. CASE e = "reasoning.delta"
  <2>1. St!Spoken(t, e) = IF t.final > 0 THEN t ELSE [t EXCEPT !.response = TRUE, !.assistant = e]
    BY <1>3 DEF St!Spoken
  <2>2. CASE t.final > 0
    BY <1>9, <1>3, <2>1, <2>2 DEF StAccounted
  <2>3. CASE ~(t.final > 0)
    <3>3. e \in StEvents
      BY <1>3 DEF StEvents, St!HostEvents
    <3>1. e \in StText
      BY <3>3, Zenon DEF StText
    <3>2. St!Spoken(t, e) = [t EXCEPT !.response = TRUE, !.assistant = e]
      BY <2>1, <2>3
    <3> QED BY <1>9, <1>3, <2>3, <3>1, <3>2 DEF StTurn, StAccounted
  <2> QED BY <2>2, <2>3
<1>4. CASE e \in St!Finals
  <2> DEFINE at == IF e = "final1" THEN 1 ELSE 2
             u == [t EXCEPT !.response = TRUE, !.final = at, !.assistant = e]
             v == [t EXCEPT !.response = TRUE]
  <2>1. St!Spoken(t, e) = IF at < t.final THEN v ELSE u
    BY <1>4 DEF St!Spoken
  <2>14. e \in StEvents
    BY <1>4 DEF StEvents, St!HostEvents
  <2>13. e \in StText
    BY <2>14, Zenon DEF StText
  <2>2. e \in StText /\ at \in 0..2
    BY <2>13
  <2>3. e = "final1" => at = 1
    OBVIOUS
  <2>4. e = "final2" => at = 2
    OBVIOUS
  <2> HIDE DEF at
  <2>8. 1 < t.final <=> t.final = 2
    BY <1>9
  <2>9. ~(2 < t.final)
    BY <1>9
  <2>5. (at < t.final) <=> (e = "final1" /\ t.final = 2)
    <3>1. CASE e = "final1"
      BY <2>3, <2>8, <3>1
    <3>2. CASE e = "final2"
      BY <2>4, <2>9, <3>2
    <3> QED BY <1>4, <3>1, <3>2
  <2>6. u \in StTurn /\ StAccounted(t, u) /\ u.exists = t.exists /\ u.failed = t.failed
        /\ u.reason = t.reason /\ u.final = at /\ u.assistant = e
    BY <2>2 DEF StTurn, StAccounted
  <2>7. v \in StTurn /\ StAccounted(t, v) /\ v.exists = t.exists /\ v.failed = t.failed
        /\ v.reason = t.reason /\ v.final = t.final /\ v.assistant = t.assistant
    BY DEF StTurn, StAccounted
  <2> HIDE DEF u, v
  <2>10. CASE e = "final1" /\ t.final = 2
    <3>1. St!Spoken(t, e) = v
      BY <2>1, <2>5, <2>10
    <3>2. v.exists /\ (v.failed => StGiven(v.reason)) /\ v.final = 2 /\ v.assistant = t.assistant
      BY <1>9, <2>7, <2>10
    <3>3. ~(t.final < 2) /\ e \in St!Finals /\ e # "final2"
      BY <2>10
    <3> QED BY <2>7, <3>1, <3>2, <3>3
  <2>11. CASE e = "final1" /\ t.final # 2
    <3>1. St!Spoken(t, e) = u
      BY <2>1, <2>5, <2>11
    <3> QED BY <1>9, <2>3, <2>6, <2>11, <3>1
  <2>12. CASE e = "final2"
    <3>1. St!Spoken(t, e) = u
      BY <2>1, <2>5, <2>12
    <3> QED BY <1>9, <2>4, <2>6, <2>12, <3>1
  <2> QED BY <1>4, <2>10, <2>11, <2>12
<1>5. CASE e = "response.cancelled"
  <2> DEFINE r == IF t.reason = "" THEN "stopped" ELSE t.reason
             u == [t EXCEPT !.interrupted = TRUE, !.continuation = "discarded", !.reason = r]
  <2>1. St!Spoken(t, e) = u
    BY <1>5 DEF St!Spoken, StTurn
  <2>4. t.reason \in StReason
    BY DEF StTurn
  <2>2. r \in StReason /\ StGiven(r)
    BY <2>4, StReasonIs, Zenon DEF StGiven
  <2> HIDE DEF r
  <2>3. u \in StTurn /\ StAccounted(t, u) /\ u.exists = t.exists
        /\ u.reason = r /\ u.final = t.final /\ u.assistant = t.assistant
    BY <2>2 DEF StTurn, StAccounted
  <2> HIDE DEF u
  <2> QED BY <1>9, <1>5, <2>1, <2>2, <2>3
<1>6. CASE e = "response.failed"
  <2> DEFINE r == IF t.reason = "" THEN "failed" ELSE t.reason
             u == [t EXCEPT !.interrupted = TRUE, !.failed = TRUE, !.reason = r]
  <2>1. St!Spoken(t, e) = u
    BY <1>6 DEF St!Spoken, StTurn
  <2>4. t.reason \in StReason
    BY DEF StTurn
  <2>2. r \in StReason /\ StGiven(r)
    BY <2>4, StReasonIs, Zenon DEF StGiven
  <2> HIDE DEF r
  <2>3. u \in StTurn /\ StAccounted(t, u) /\ u.exists = t.exists
        /\ u.reason = r /\ u.final = t.final /\ u.assistant = t.assistant
    BY <2>2 DEF StTurn, StAccounted
  <2> HIDE DEF u
  <2> QED BY <1>9, <1>6, <2>1, <2>2, <2>3
<1> QED BY <1>1, <1>2, <1>3, <1>4, <1>5, <1>6 DEF StWords

\* only the turn, the account and what was applied change, and no final among it
StStored(s, q) ==
    /\ q \in StState /\ q.session = s.session /\ q.plan = s.plan /\ q.kept = s.kept
    /\ q.handed = s.handed /\ q.receipt = s.receipt /\ q.live = s.live /\ q.lane = s.lane
    /\ q.applied \cap St!Finals = s.applied \cap St!Finals

LEMMA StStoredKeeps ==
    ASSUME NEW s, StInv(s), NEW q, StStored(s, q), StGoesOn(s.turn, q.turn),
           q.account.terminal => StGiven(q.receipt),
           q.account.terminal /\ q.turn.playback => q.turn.delivered = StDue(q.turn, q.account)
    PROVE  StInv(q)
<1>1. StDelivered(q)
  BY DEF StInv, StDelivered, StStored, StDue
<1>2. /\ "final1" \in q.applied <=> "final1" \in s.applied
      /\ "final2" \in q.applied <=> "final2" \in s.applied
  BY DEF StStored, St!Finals
<1>3. StSaid(q)
  BY <1>2 DEF StInv, StSaid, StGoesOn
<1>4. StEnded(q)
  BY DEF StInv, StEnded, StStored, StGoesOn
<1>5. StPlanned(q)
  BY DEF StInv, StPlanned, StStored
<1> QED BY <1>1, <1>3, <1>4, <1>5 DEF StInv, StStored

\* the first receipt stands, and what it says was delivered is
LEMMA StStoppedKeeps ==
    ASSUME NEW s, StInv(s), NEW o \in Nat, NEW r \in StReason, StGiven(s.receipt)
    PROVE  StInv(St!Stopped(s, o, r))
<1> DEFINE t == s.turn
           b == [pendingMax |-> o, terminal |-> TRUE, final |-> o, reason |-> r]
           a == IF s.account.terminal THEN s.account ELSE b
           u == IF t.playback THEN St!ApplyTerminal(t, a) ELSE t
           q == [s EXCEPT !.account = a, !.turn = u]
<1>1. s \in StState /\ t \in StTurn /\ s.account \in StAccount
  BY DEF StInv, StState
<1>2. b \in StAccount /\ b.terminal
  BY DEF StAccount
<1>3. a \in StAccount /\ a.terminal
  BY <1>1, <1>2
<1>4. St!Stopped(s, o, r) = q
  BY <1>1 DEF St!Stopped, StState
<1> HIDE DEF b, a
<1>5. StGoesOn(t, u) /\ u.playback = t.playback /\ (t.playback => u.delivered = StDue(u, a))
  <2>1. CASE t.playback
    BY <1>1, <1>3, <2>1, StApplyTerminalIs
  <2>2. CASE ~t.playback
    BY <1>1, <2>2 DEF StGoesOn
  <2> QED BY <2>1, <2>2
<1> HIDE DEF u
<1>6. StStored(s, q) /\ q.turn = u /\ q.account = a /\ q.receipt = s.receipt
  BY <1>1, <1>3, <1>5 DEF StState, StStored, StGoesOn
<1> HIDE DEF q
<1>7. StInv(q)
  BY <1>5, <1>6, StStoredKeeps
<1> QED BY <1>4, <1>7

LEMMA StProgressKeeps ==
    ASSUME NEW s, StInv(s), NEW o \in Nat
    PROVE  StInv(St!Progress(s, o))
<1>1. CASE s.account.terminal
  BY <1>1 DEF St!Progress
<1>2. CASE ~s.account.terminal
  <2> DEFINE t == s.turn
             m == St!Larger(s.account.pendingMax, o)
             a == [s.account EXCEPT !.pendingMax = m]
             u == IF t.playback THEN St!MergeDelivered(t, o) ELSE t
             q == [s EXCEPT !.account = a, !.turn = u]
  <2>1. s \in StState /\ t \in StTurn /\ s.account \in StAccount
    BY DEF StInv, StState
  <2>2. m \in Nat
    <3>1. s.account.pendingMax \in Nat
      BY <2>1 DEF StAccount
    <3> QED BY <3>1, StLargerIs
  <2>3. St!Progress(s, o) = q
    BY <1>2, <2>1 DEF St!Progress, StState, StAccount
  <2> HIDE DEF m
  <2>4. a \in StAccount /\ ~a.terminal
    BY <1>2, <2>1, <2>2 DEF StAccount
  <2> HIDE DEF a
  <2>5. StGoesOn(t, u)
    BY <2>1, StMergeDeliveredIs DEF StGoesOn
  <2> HIDE DEF u
  <2>6. StStored(s, q) /\ q.turn = u /\ q.account = a
    BY <2>1, <2>4, <2>5 DEF StState, StStored, StGoesOn
  <2> HIDE DEF q
  <2>7. StInv(q)
    BY <2>4, <2>5, <2>6, StStoredKeeps
  <2> QED BY <2>3, <2>7
<1> QED BY <1>1, <1>2

\* what becomes of the response, whatever became of it
LEMMA StDecidedKeeps ==
    ASSUME NEW s, StInv(s), NEW e
    PROVE  StInv(St!Decided(s, e))
<1> DEFINE t == s.turn
           c == IF e = "decision.resume" THEN "resumed" ELSE "discarded"
           i == t.interrupted \/ ~(e = "decision.resume")
           v == [t EXCEPT !.continuation = c, !.interrupted = i]
           u == IF ~t.response THEN t ELSE v
           q == [s EXCEPT !.turn = u]
<1>1. s \in StState /\ t \in StTurn
  BY DEF StInv, StState
<1>2. c \in {"none", "discarded", "paused", "resumed"} /\ i \in BOOLEAN
  BY <1>1 DEF StTurn
<1>3. St!Decided(s, e) = q
  <2>1. CASE ~t.response
    BY <1>1, <2>1 DEF St!Decided, StState
  <2>2. CASE t.response
    <3>1. St!Decided(s, e) = [s EXCEPT !.turn.continuation = c, !.turn.interrupted = i]
      BY <1>1, <2>2 DEF St!Decided, StState, StTurn
    <3> HIDE DEF c, i
    <3>2. St!Decided(s, e) = [s EXCEPT !.turn = v]
      BY <1>1, <3>1 DEF StState, StTurn
    <3> QED BY <2>2, <3>2
  <2> QED BY <2>1, <2>2
<1> HIDE DEF c, i
<1>4. StGoesOn(t, v) /\ StAccounted(t, v)
  BY <1>1, <1>2 DEF StTurn, StGoesOn, StAccounted
<1> HIDE DEF v
<1>5. StGoesOn(t, u) /\ StAccounted(t, u)
  BY <1>1, <1>4 DEF StGoesOn, StAccounted
<1> HIDE DEF u
<1>6. StStored(s, q) /\ q.turn = u /\ q.account = s.account /\ q.receipt = s.receipt
  BY <1>1, <1>5 DEF StState, StStored, StGoesOn
<1> HIDE DEF q
<1>7. /\ q.account.terminal => StGiven(q.receipt)
      /\ q.account.terminal /\ q.turn.playback => q.turn.delivered = StDue(q.turn, q.account)
  BY <1>5, <1>6 DEF StInv, StDelivered, StAccounted, StDue
<1>8. StInv(q)
  BY <1>5, <1>6, <1>7, StStoredKeeps
<1> QED BY <1>3, <1>8

\* the response that is named is there, and is spoken of
LEMMA StVoicedKeeps ==
    ASSUME StSamples \in Nat, NEW s, StInv(s), NEW e \in StVoice
    PROVE  StInv([s EXCEPT !.turn = St!Voiced(s, s.turn, e)])
<1> DEFINE u == St!Voiced(s, s.turn, e)
           q == [s EXCEPT !.turn = u]
<1>1. s \in StState
  BY DEF StInv
<1>2. s.account.terminal /\ s.turn.playback => s.turn.delivered = StDue(s.turn, s.account)
  BY DEF StInv, StDelivered, StDue
<1>3. StGoesOn(s.turn, u) /\ (s.account.terminal /\ u.playback => u.delivered = StDue(u, s.account))
  BY <1>1, <1>2, StVoicedIs
<1> HIDE DEF u
<1>4. StStored(s, q) /\ q.turn = u /\ q.account = s.account /\ q.receipt = s.receipt
  BY <1>1, <1>3 DEF StState, StStored, StGoesOn
<1> HIDE DEF q
<1>5. q.account.terminal => StGiven(q.receipt)
  BY <1>4 DEF StInv, StDelivered
<1>6. StInv(q)
  BY <1>3, <1>4, <1>5, StStoredKeeps
<1> QED BY <1>6 DEF q, u

\* an event that names the turn: it is there from now on
LEMMA StSpokenKeeps ==
    ASSUME NEW s, StInv(s), s.session # "paused", NEW e \in StWords, e \notin s.applied
    PROVE  StInv([s EXCEPT !.applied = @ \cup {e}, !.turn = St!Spoken([s.turn EXCEPT !.exists = TRUE], e)])
<1> DEFINE t == [s.turn EXCEPT !.exists = TRUE]
           u == St!Spoken(t, e)
           A == s.applied \cup {e}
           q == [s EXCEPT !.applied = A, !.turn = u]
<1>1. s \in StState /\ s.turn \in StTurn /\ s.turn.final \in 0..2
  BY DEF StInv, StState, StTurn
<1>2. /\ t \in StTurn /\ StAccounted(s.turn, t) /\ t.failed = s.turn.failed /\ t.reason = s.turn.reason
      /\ t.final = s.turn.final /\ t.assistant = s.turn.assistant
  BY <1>1 DEF StTurn, StAccounted
<1>3. t.exists
  BY <1>1 DEF StTurn
<1> HIDE DEF t
<1>4. t.failed => StGiven(t.reason)
  BY <1>2 DEF StInv, StEnded
<1>5. /\ u \in StTurn /\ StAccounted(t, u) /\ u.exists
      /\ u.failed => StGiven(u.reason)
      /\ e \notin St!Finals /\ t.final > 0 => u.final = t.final /\ u.assistant = t.assistant
      /\ e \notin St!Finals => u.final = t.final
      /\ e = "final1" /\ t.final < 2 => u.final = 1 /\ u.assistant = "final1"
      /\ e = "final1" /\ t.final = 2 => u.final = 2 /\ u.assistant = t.assistant
      /\ e = "final2" => u.final = 2 /\ u.assistant = "final2"
  BY <1>2, <1>3, <1>4, StSpokenIs
<1>6. A \in SUBSET StEvents
  BY <1>1 DEF StState, StEvents, St!HostEvents, St!Finals, StWords
<1> HIDE DEF u
<1>7. /\ q \in StState /\ q.session = s.session /\ q.plan = s.plan /\ q.kept = s.kept
      /\ q.handed = s.handed /\ q.receipt = s.receipt /\ q.live = s.live /\ q.lane = s.lane
      /\ q.turn = u /\ q.account = s.account /\ q.applied = A
  BY <1>1, <1>5, <1>6 DEF StState
<1> HIDE DEF q
<1>8. StDelivered(q)
  BY <1>2, <1>5, <1>7 DEF StInv, StDelivered, StAccounted
<1>9. StSaid(q)
  <2>1. CASE e = "final2"
    BY <1>5, <1>7, <2>1 DEF StSaid
  <2>2. CASE e = "final1"
    <3>1. "final2" \in A <=> "final2" \in s.applied
      BY <2>2
    <3>2. CASE "final2" \in s.applied
      <4>1. s.turn.final = 2 /\ s.turn.assistant = "final2"
        BY <3>2 DEF StInv, StSaid
      <4> QED BY <1>2, <1>5, <1>7, <2>2, <3>1, <3>2, <4>1 DEF StSaid
    <3>3. CASE "final2" \notin s.applied
      <4>1. s.turn.final = 0
        BY <2>2, <3>3 DEF StInv, StSaid
      <4>2. t.final < 2
        BY <1>2, <4>1
      <4> QED BY <1>5, <1>7, <2>2, <3>1, <3>3, <4>2 DEF StSaid
    <3> QED BY <3>2, <3>3
  <2>3. CASE e \notin St!Finals
    <3>1. ("final1" \in A <=> "final1" \in s.applied) /\ ("final2" \in A <=> "final2" \in s.applied)
      BY <2>3 DEF St!Finals
    <3>2. u.final = s.turn.final /\ (s.turn.final > 0 => u.assistant = s.turn.assistant)
      BY <1>2, <1>5, <2>3
    <3> QED BY <1>7, <3>1, <3>2 DEF StInv, StSaid
  <2> QED BY <2>1, <2>2, <2>3 DEF St!Finals
<1>10. StEnded(q) /\ StPlanned(q)
  BY <1>5, <1>7 DEF StInv, StEnded, StPlanned
<1>11. StInv(q)
  BY <1>7, <1>8, <1>9, <1>10 DEF StInv
<1> QED BY <1>11 DEF q, u, t

\* a plan that is ready is not replaced
LEMMA StPlannedKeeps ==
    ASSUME NEW s, StInv(s), NEW e \in St!Plans
    PROVE  StInv(St!Planned(s, e))
<1>1. CASE s.plan = "ready" \/ s.planned = St!Edited
  BY <1>1 DEF St!Planned
<1>2. CASE ~(s.plan = "ready" \/ s.planned = St!Edited)
  <2> DEFINE p == CASE e = "plan.planning" -> "planning" [] e = "plan.ready" -> "ready" [] OTHER -> "failed"
             k == (e = "plan.ready")
             q == [s EXCEPT !.plan = p, !.planned = St!Asked, !.kept = k]
  <2>1. St!Planned(s, e) = q
    BY <1>2 DEF St!Planned
  <2>2. /\ p \in {"none", "planning", "ready", "failed"} /\ k \in BOOLEAN /\ (k => p = "ready")
        /\ St!Asked \in Int
    BY DEF St!Asked
  <2> HIDE DEF p, k
  <2>3. q \in StState
    <3>1. s \in StState
      BY DEF StInv
    <3>2. [s EXCEPT !.plan = p] \in StState
      BY <2>2, <3>1 DEF StState
    <3>3. [[s EXCEPT !.plan = p] EXCEPT !.planned = St!Asked] \in StState
      BY <2>2, <3>2 DEF StState
    <3>4. [[[s EXCEPT !.plan = p] EXCEPT !.planned = St!Asked] EXCEPT !.kept = k] \in StState
      BY <2>2, <3>3 DEF StState
    <3> QED BY <3>4
  <2>4. /\ q.session = s.session /\ q.plan = p /\ q.kept = k /\ q.turn = s.turn /\ q.account = s.account
        /\ q.handed = s.handed /\ q.receipt = s.receipt /\ q.live = s.live /\ q.lane = s.lane
        /\ q.applied = s.applied
    BY <2>2 DEF StInv, StState
  <2> HIDE DEF q
  <2>5. StDelivered(q) /\ StSaid(q) /\ StEnded(q) /\ StPlanned(q)
    BY <2>2, <2>4 DEF StInv, StDelivered, StSaid, StEnded, StPlanned
  <2> QED BY <2>1, <2>3, <2>5 DEF StInv
<1> QED BY <1>1, <1>2

\* an event is noted, and no final among the events
LEMMA StNotedKeeps ==
    ASSUME NEW s, StInv(s), NEW e \in StEvents \ St!Finals
    PROVE  LET q == [s EXCEPT !.applied = @ \cup {e}] IN
           /\ StInv(q) /\ q.turn = s.turn /\ q.played = s.played /\ q.receipt = s.receipt
           /\ q.account = s.account
<1> DEFINE A == s.applied \cup {e}
           q == [s EXCEPT !.applied = A]
<1>1. A \in SUBSET StEvents /\ A \cap St!Finals = s.applied \cap St!Finals
  BY DEF StInv, StState
<1> HIDE DEF A
<1>2. StStored(s, q) /\ q.turn = s.turn /\ q.account = s.account /\ q.receipt = s.receipt /\ q.played = s.played
  BY <1>1 DEF StInv, StState, StStored
<1> HIDE DEF q
<1>3. StGoesOn(s.turn, q.turn)
  BY <1>2 DEF StGoesOn, StInv, StState
<1>4. /\ q.account.terminal => StGiven(q.receipt)
      /\ q.account.terminal /\ q.turn.playback => q.turn.delivered = StDue(q.turn, q.account)
  BY <1>2 DEF StInv, StDelivered, StDue
<1>5. StInv(q)
  BY <1>2, <1>3, <1>4, StStoredKeeps
<1> QED BY <1>2, <1>5 DEF q, A

LEMMA StAppliedKeeps ==
    ASSUME StSamples \in Nat, NEW s, StInv(s), NEW e \in StEvents,
           s.session # "paused" \/ e \in St!Plans \cup {"playback.stopped"},
           e = "playback.stopped" => StGiven(s.receipt)
    PROVE  StInv(St!Applied(s, e))
<1>1. CASE e \in s.applied
  BY <1>1 DEF St!Applied
<1>2. CASE e \notin s.applied
  <2> DEFINE r == [s EXCEPT !.applied = @ \cup {e}]
  <2>1. s.played \in Nat /\ s.receipt \in StReason
    BY DEF StInv, StState
  <2>2. ASSUME e \notin St!Finals
        PROVE  /\ StInv(r) /\ r.turn = s.turn /\ r.played = s.played /\ r.receipt = s.receipt
               /\ r.account = s.account
    BY <2>2, StNotedKeeps
  <2>3. CASE e \in St!Plans
    <3>1. St!Applied(s, e) = St!Planned(r, e)
      <4>1. CASE e = "plan.planning"
        BY <1>2, <4>1 DEF St!Applied, St!Plans
      <4>2. CASE e = "plan.ready"
        BY <1>2, <4>2 DEF St!Applied, St!Plans
      <4>3. CASE e = "plan.failed"
        BY <1>2, <4>3 DEF St!Applied, St!Plans
      <4> QED BY <2>3, <4>1, <4>2, <4>3 DEF St!Plans
    <3> QED BY <2>2, <2>3, <3>1, StPlannedKeeps DEF St!Plans, St!Finals
  <2>4. CASE e \in {"decision.resume", "decision.accept"}
    <3>1. St!Applied(s, e) = St!Decided(r, e)
      BY <1>2, <2>4 DEF St!Applied, St!Plans
    <3> QED BY <2>2, <2>4, <3>1, StDecidedKeeps DEF St!Finals
  <2>5. CASE e = "playback.progress"
    <3>1. St!Applied(s, e) = St!Progress(r, r.played)
      BY <1>2, <2>5 DEF St!Applied, St!Plans
    <3> QED BY <2>1, <2>2, <2>5, <3>1, StProgressKeeps DEF St!Finals
  <2>6. CASE e = "playback.stopped"
    <3>1. St!Applied(s, e) = St!Stopped(r, r.played, r.receipt)
      BY <1>2, <2>6 DEF St!Applied, St!Plans
    <3>2. StGiven(s.receipt) /\ e \notin St!Finals
      BY <2>6 DEF St!Finals
    <3> HIDE DEF r
    <3> QED BY <2>1, <2>2, <3>1, <3>2, StStoppedKeeps
  <2>7. CASE e \in StVoice
    <3>1. St!Applied(s, e) = IF r.turn.response THEN [r EXCEPT !.turn = St!Voiced(r, r.turn, e)] ELSE r
      BY <1>2, <2>7 DEF St!Applied, St!Plans, StVoice
    <3>2. e \notin St!Finals
      BY <2>7 DEF StVoice, St!Finals
    <3> HIDE DEF r
    <3>3. StInv([r EXCEPT !.turn = St!Voiced(r, r.turn, e)])
      BY <2>2, <2>7, <3>2, StVoicedKeeps
    <3> QED BY <2>2, <3>1, <3>2, <3>3
  <2>8. CASE e \in StWords
    <3> DEFINE q == [s EXCEPT !.applied = @ \cup {e}, !.turn = St!Spoken([s.turn EXCEPT !.exists = TRUE], e)]
    <3>1. St!Applied(s, e) = [r EXCEPT !.turn = St!Spoken([r.turn EXCEPT !.exists = TRUE], e)]
      BY <1>2, <2>8 DEF St!Applied, St!Plans, StWords
    <3>2. [r EXCEPT !.turn = St!Spoken([r.turn EXCEPT !.exists = TRUE], e)] = q
      BY DEF StInv, StState
    <3>3. s.session # "paused"
      BY <2>8 DEF StWords, St!Plans
    <3>4. StInv(q)
      BY <1>2, <2>8, <3>3, StSpokenKeeps
    <3> HIDE DEF q, r
    <3> QED BY <3>1, <3>2, <3>4
  <2> QED BY <2>3, <2>4, <2>5, <2>6, <2>7, <2>8 DEF StEvents, St!HostEvents, St!Finals, StVoice, StWords
<1> QED BY <1>1, <1>2

\* what the invariant is about stays as it is
StSame(s, q) ==
    /\ q \in StState /\ q.session = s.session /\ q.plan = s.plan /\ q.kept = s.kept
    /\ q.turn = s.turn /\ q.account = s.account /\ q.applied = s.applied /\ q.handed = s.handed
    /\ q.receipt = s.receipt /\ q.live = s.live /\ q.lane = s.lane

LEMMA StSameKeeps == ASSUME NEW s, StInv(s), NEW q, StSame(s, q) PROVE StInv(q)
  BY DEF StInv, StDelivered, StSaid, StEnded, StPlanned, StSame

LEMMA StTroubledKeeps == ASSUME NEW s, StInv(s) PROVE LET q == [s EXCEPT !.trouble = @ + 1] IN StInv(q) /\ StSame(s, q)
<1> DEFINE n == s.trouble + 1
           q == [s EXCEPT !.trouble = n]
<1>1. n \in Int
  BY DEF StInv, StState
<1> HIDE DEF n
<1>2. StSame(s, q)
  BY <1>1 DEF StInv, StState, StSame
<1> QED BY <1>2, StSameKeeps DEF n

LEMMA StDeliveredKeeps ==
    ASSUME StSamples \in Nat, NEW s, StInv(s), NEW e \in StEvents,
           s.session # "paused" \/ e \in St!Plans \cup {"playback.stopped"},
           e = "playback.stopped" => StGiven(s.receipt),
           NEW q \in St!Delivered(s, e)
    PROVE  StInv(q)
<1>1. StInv(St!Applied(s, e)) /\ StInv([s EXCEPT !.trouble = @ + 1])
  BY StAppliedKeeps, StTroubledKeeps
<1>2. q = St!Applied(s, e) \/ q = [s EXCEPT !.trouble = @ + 1]
  BY DEF St!Delivered
<1> QED BY <1>1, <1>2

\* an event is handed over, and a receipt with the end of the player
StHands(s, r, e) == [s EXCEPT !.receipt = r, !.handed = @ \cup {e}]
StHandsOver(s, e) == [s EXCEPT !.handed = @ \cup {e}]

LEMMA StHandedKeeps ==
    ASSUME NEW s, StInv(s), NEW e \in StEvents, NEW r \in StReason,
           StGiven(s.receipt) => StGiven(r), e = "playback.stopped" => StGiven(r)
    PROVE  LET q == StHands(s, r, e) IN StInv(q) /\ q.session = s.session /\ q.receipt = r
<1> DEFINE H == s.handed \cup {e}
           q == [s EXCEPT !.receipt = r, !.handed = H]
<1>1. H \in SUBSET StEvents /\ ("playback.stopped" \in H => StGiven(r))
  BY DEF StInv, StState, StDelivered
<1>2. "playback.stopped" \in H <=> "playback.stopped" \in s.handed \/ e = "playback.stopped"
  OBVIOUS
<1> HIDE DEF H
<1>3. /\ q \in StState /\ q.session = s.session /\ q.plan = s.plan /\ q.kept = s.kept
      /\ q.turn = s.turn /\ q.account = s.account /\ q.applied = s.applied /\ q.handed = H
      /\ q.receipt = r /\ q.live = s.live /\ q.lane = s.lane
  BY <1>1 DEF StInv, StState
<1> HIDE DEF q
<1>4. StInv(q)
  BY <1>1, <1>3 DEF StInv, StDelivered, StSaid, StEnded, StPlanned
<1>5. StHands(s, r, e) = q
  BY DEF StHands, q, H
<1> QED BY <1>3, <1>4, <1>5

LEMMA StOnlyHandedKeeps ==
    ASSUME StInv(st), NEW e \in StEvents, e # "playback.stopped"
    PROVE  StInv(StHandsOver(st, e)) /\ StHandsOver(st, e).session = st.session
<1> DEFINE r == st.receipt
<1>1. r \in StReason /\ r = st.receipt
  BY DEF StInv, StState
<1> HIDE DEF r
<1>2. StHandsOver(st, e) = StHands(st, r, e)
  BY <1>1 DEF StInv, StState, StHands, StHandsOver
<1> QED BY <1>1, <1>2, StHandedKeeps

\* nothing is delivered on a lane to a session that is paused
LEMMA StLaneIs == ASSUME StInv(st), st.lane PROVE st.session # "paused"
  BY DEF StInv, StEnded

LEMMA StHostEventKept ==
    ASSUME StSamples \in Nat, StInv(st), NEW e \in St!HostEvents, St!HostEvent(e) PROVE StInv(st')
<1>1. e \in StEvents /\ e # "playback.stopped" /\ st.session # "paused"
  BY StLaneIs DEF StEvents, St!HostEvents, St!Finals, St!HostEvent
<1>2. st' \in St!Delivered(StHandsOver(st, e), e)
  BY Zenon DEF St!HostEvent, StHandsOver
<1> QED BY <1>1, <1>2, StOnlyHandedKeeps, StDeliveredKeeps

LEMMA StPlanEventKept ==
    ASSUME StSamples \in Nat, StInv(st), NEW e \in St!Plans, St!PlanEvent(e) PROVE StInv(st')
<1>1. e \in StEvents /\ e # "playback.stopped"
  BY DEF StEvents, St!Plans
<1>2. st' \in St!Delivered(StHandsOver(st, e), e)
  BY Zenon DEF St!PlanEvent, StHandsOver
<1> QED BY <1>1, <1>2, StOnlyHandedKeeps, StDeliveredKeeps

LEMMA StReportsKept ==
    ASSUME StSamples \in Nat, StInv(st), St!ReportProgress \/ St!ReportPaused PROVE StInv(st')
<1>1. st.session # "paused" /\ {"playback.progress", "playback.paused"} \subseteq StEvents
  BY StLaneIs DEF St!ReportProgress, St!ReportPaused, StEvents
<1>2. CASE St!ReportProgress
  <2>1. st' \in St!Delivered(StHandsOver(st, "playback.progress"), "playback.progress")
    BY <1>2, Zenon DEF St!ReportProgress, StHandsOver
  <2> QED BY <1>1, <2>1, StOnlyHandedKeeps, StDeliveredKeeps
<1>3. CASE St!ReportPaused
  <2>1. st' \in St!Delivered(StHandsOver(st, "playback.paused"), "playback.paused")
    BY <1>3, Zenon DEF St!ReportPaused, StHandsOver
  <2> QED BY <1>1, <2>1, StOnlyHandedKeeps, StDeliveredKeeps
<1> QED BY <1>2, <1>3

LEMMA StReportStoppedKept ==
    ASSUME StSamples \in Nat, StInv(st), St!ReportStopped PROVE StInv(st')
<1>1. PICK r \in {"completed", "cancelled", "failed", "stopped"} :
        st' \in St!Delivered(StHands(st, r, "playback.stopped"), "playback.stopped")
  BY Zenon DEF St!ReportStopped, StHands
<1>2. r \in StReason /\ StGiven(r) /\ "playback.stopped" \in StEvents
  BY StReasonIs DEF StEvents
<1>3. LET q == StHands(st, r, "playback.stopped") IN StInv(q) /\ q.receipt = r
  BY <1>2, StHandedKeeps
<1> QED BY <1>1, <1>2, <1>3, StDeliveredKeeps

LEMMA StRedeliverKept ==
    ASSUME StSamples \in Nat, StInv(st), NEW e \in St!HostEvents \cup St!Plans \cup {"playback.stopped"},
           St!Redeliver(e)
    PROVE  StInv(st')
<1> DEFINE q == [st EXCEPT !.trouble = @ + 1]
<1>1. st' = St!Applied(q, e) /\ st.lane /\ e \in st.handed
  BY DEF St!Redeliver
<1>2. StInv(q) /\ StSame(st, q)
  BY StTroubledKeeps
<1>3. st.session # "paused" /\ (e = "playback.stopped" => StGiven(st.receipt))
  BY <1>1, StLaneIs DEF StInv, StDelivered
<1>4. e \in StEvents
  BY DEF StEvents
<1> HIDE DEF q
<1> QED BY <1>1, <1>2, <1>3, <1>4, StAppliedKeeps DEF StSame

LEMMA StHearKept == ASSUME StInv(st), St!Hear PROVE StInv(st')
<1> DEFINE n == st.played + 1
<1>1. st' = [st EXCEPT !.played = n]
  BY Zenon DEF St!Hear
<1>3. n \in Nat
  BY DEF StInv, StState
<1> HIDE DEF n
<1>2. StSame(st, st')
  BY <1>1, <1>3 DEF StInv, StState, StSame
<1> QED BY <1>2, StSameKeeps

\* the session's row and the lanes change, and the response is left alone
StRow(s, q) ==
    /\ q \in StState /\ q.turn = s.turn /\ q.account = s.account /\ q.applied = s.applied
    /\ q.handed = s.handed /\ q.receipt = s.receipt

LEMMA StRowKeeps ==
    ASSUME NEW s, StInv(s), NEW q, StRow(s, q), q.lane => q.live, q.live => q.session = "active",
           q.session # "paused", q.kept => q.plan = "ready"
    PROVE  StInv(q)
  BY DEF StInv, StDelivered, StSaid, StEnded, StPlanned, StRow

LEMMA StRowKept ==
    ASSUME StInv(st), St!CreateDraft \/ St!UpdateDraft \/ St!Begin \/ St!End PROVE StInv(st')
<1>1. CASE St!CreateDraft
  <2>1. StRow(st, st') /\ st'.session = "draft" /\ st'.lane = st.lane /\ st'.live = st.live
        /\ st'.kept = st.kept /\ st'.plan = st.plan
    BY <1>1 DEF St!CreateDraft, StInv, StState, StRow
  <2>2. ~st.live /\ ~st.lane
    BY <1>1 DEF St!CreateDraft, StInv, StEnded
  <2> QED BY <2>1, <2>2, StRowKeeps DEF StInv, StPlanned
<1>2. CASE St!UpdateDraft
  <2>1. StRow(st, st') /\ st'.session = "draft" /\ st'.lane = st.lane /\ st'.live = st.live
        /\ st'.kept = st.kept /\ st'.plan = st.plan
    BY <1>2 DEF St!UpdateDraft, St!Edited, StInv, StState, StRow
  <2>2. ~st.live /\ ~st.lane
    BY <1>2 DEF St!UpdateDraft, StInv, StEnded
  <2> QED BY <2>1, <2>2, StRowKeeps DEF StInv, StPlanned
<1>3. CASE St!Begin
  <2>1. PICK given \in {"none", "planning"} :
         LET runs == st.session \in {"active", "paused"}
             keep == runs \/ (st.session = "draft" /\ given = "planning" /\ st.planned = st.about)
             plan == IF keep THEN st.plan ELSE given
         IN /\ given = "planning" => st.session \in {"none", "draft"}
            /\ st' = [st EXCEPT !.session = "active", !.activeSession = TRUE, !.live = TRUE,
                                !.lane = (st.runs = 0), !.runs = @ + 1, !.plan = plan,
                                !.planned = IF keep THEN @ ELSE IF given = "none" THEN 0 ELSE st.about,
                                !.about = St!Asked, !.kept = (plan = "ready")]
    BY <1>3 DEF St!Begin, St!None
  <2> DEFINE runs == st.session \in {"active", "paused"}
             keep == runs \/ (st.session = "draft" /\ given = "planning" /\ st.planned = st.about)
             plan == IF keep THEN st.plan ELSE given
             topic == IF keep THEN st.planned ELSE IF given = "none" THEN 0 ELSE st.about
             n == st.runs + 1
             l == (st.runs = 0)
             k == (plan = "ready")
  <2>2. st' = [st EXCEPT !.session = "active", !.activeSession = TRUE, !.live = TRUE,
                         !.lane = l, !.runs = n, !.plan = plan, !.planned = topic,
                         !.about = St!Asked, !.kept = k]
    BY <2>1
  <2>3. n \in Int /\ l \in BOOLEAN /\ k \in BOOLEAN /\ plan \in {"none", "planning", "ready", "failed"}
        /\ (k => plan = "ready") /\ topic \in Int /\ St!Asked \in Int
    BY DEF StInv, StState, St!Asked
  <2> HIDE DEF n, l, k, plan, topic
  <2>4. StRow(st, st') /\ st'.session = "active" /\ st'.live /\ st'.kept = k /\ st'.plan = plan
    BY <2>2, <2>3 DEF StInv, StState, StRow
  <2> QED BY <2>3, <2>4, StRowKeeps
<1>4. CASE St!End
  <2>1. StRow(st, st') /\ st'.session = "stopped" /\ ~st'.lane /\ ~st'.live
        /\ st'.kept = st.kept /\ st'.plan = st.plan
    BY <1>4 DEF St!End, StInv, StState, StRow
  <2> QED BY <2>1, StRowKeeps DEF StInv, StPlanned
<1> QED BY <1>1, <1>2, <1>3, <1>4

LEMMA StReloadKept == ASSUME StInv(st), St!Reload PROVE StInv(st')
<1> DEFINE r == IF st.receipt = "" THEN "lost" ELSE st.receipt
           n == st.trouble + 1
<1>1. st' = [st EXCEPT !.live = FALSE, !.lane = FALSE, !.receipt = r, !.trouble = n]
  BY Zenon DEF St!Reload
<1>2. n \in Int /\ st.receipt \in StReason
  BY DEF StInv, StState
<1>3. r \in StReason /\ StGiven(r)
  BY <1>2, StReasonIs, Zenon DEF StGiven
<1> HIDE DEF r, n
<1>4. /\ st' \in StState /\ st'.session = st.session /\ st'.plan = st.plan /\ st'.kept = st.kept
      /\ st'.turn = st.turn /\ st'.account = st.account /\ st'.applied = st.applied
      /\ st'.handed = st.handed /\ st'.receipt = r /\ ~st'.live /\ ~st'.lane
  BY <1>1, <1>2, <1>3 DEF StInv, StState
<1> QED BY <1>3, <1>4 DEF StInv, StDelivered, StSaid, StEnded, StPlanned

\* a response that did not end is closed, at the position of a live player
LEMMA StPauseKept == ASSUME StInv(st), St!Pause PROVE StInv(st')
<1> DEFINE t == st.turn
           live == st.receipt = "" /\ t.playback
           c == St!Checkpointed(t, st.played)
           w == IF live THEN c ELSE t
           u == IF t.exists THEN St!Closed(w, live) ELSE t
           q == [st EXCEPT !.session = "paused", !.activeSession = TRUE, !.turn = u]
           p == [q EXCEPT !.live = FALSE, !.lane = FALSE]
<1>1. st' = p
  BY Zenon DEF St!Pause, St!Paused
<1>2. st \in StState /\ t \in StTurn /\ st.played \in Nat
  BY DEF StInv, StState
<1>3. live \in BOOLEAN /\ (live => ~StGiven(st.receipt))
  BY Zenon DEF StGiven
<1> HIDE DEF live
<1>4. StGoesOn(t, c) /\ c.playback = t.playback
  BY <1>2, StCheckpointedIs
<1> HIDE DEF c
<1>5. /\ StGoesOn(t, w) /\ w.playback = t.playback
      /\ ~live => StAccounted(t, w)
  BY <1>2, <1>4 DEF StGoesOn, StAccounted
<1>6. w \in StTurn
  BY <1>5 DEF StGoesOn
<1>7. (t.failed => StGiven(t.reason)) /\ (t.response => t.exists)
  BY DEF StInv, StEnded
<1> HIDE DEF w
<1>8. LET v == St!Closed(w, live) IN
      /\ StGoesOn(w, v) /\ StAccounted(w, v)
      /\ w.response /\ (w.failed => StGiven(w.reason)) => StGiven(v.reason)
  BY <1>3, <1>6, StClosedIs
<1>9. /\ StGoesOn(t, u) /\ u.playback = t.playback
      /\ ~live => StAccounted(t, u)
      /\ u.response => StGiven(u.reason)
  <2>1. CASE t.exists
    <3>1. u = St!Closed(w, live)
      BY <2>1
    <3> HIDE DEF u
    <3>2. StGoesOn(w, u) /\ StAccounted(w, u) /\ (w.response /\ (w.failed => StGiven(w.reason)) => StGiven(u.reason))
      BY <1>8, <3>1
    <3>3. StGoesOn(t, u) /\ u.playback = t.playback /\ (~live => StAccounted(t, u))
      BY <1>5, <3>2 DEF StGoesOn, StAccounted
    <3>4. u.response => StGiven(u.reason)
      BY <1>5, <1>7, <3>2 DEF StGoesOn
    <3> QED BY <3>3, <3>4
  <2>2. CASE ~t.exists
    BY <1>2, <1>7, <2>2 DEF StGoesOn, StAccounted
  <2> QED BY <2>1, <2>2
<1> HIDE DEF u
<1>10. u \in StTurn
  BY <1>9 DEF StGoesOn
<1>11. /\ p \in StState /\ p.session = "paused" /\ p.plan = st.plan /\ p.kept = st.kept
       /\ p.turn = u /\ p.account = st.account /\ p.applied = st.applied
       /\ p.handed = st.handed /\ p.receipt = st.receipt /\ ~p.live /\ ~p.lane
  BY <1>2, <1>10 DEF StState
<1> HIDE DEF p
<1>12. StDelivered(p)
  <2>1. st.account.terminal => ~live
    BY <1>3 DEF StInv, StDelivered
  <2> QED BY <1>9, <1>11, <2>1 DEF StInv, StDelivered, StAccounted
<1>13. StSaid(p) /\ StPlanned(p)
  BY <1>9, <1>11 DEF StInv, StSaid, StPlanned, StGoesOn
<1>14. StEnded(p)
  BY <1>7, <1>9, <1>11 DEF StInv, StEnded, StGoesOn
<1> QED BY <1>1, <1>11, <1>12, <1>13, <1>14 DEF StInv

LEMMA StInitKept == ASSUME St!Init PROVE StInv(st)
<1>1. St!BlankTurn \in StTurn /\ ~St!BlankTurn.exists /\ ~St!BlankTurn.response /\ ~St!BlankTurn.failed /\ St!BlankTurn.final = 0
      /\ ~St!BlankTurn.playback
  <2>1. "" \in StText /\ "" \in StReason
    BY Zenon DEF StText, StReason
  <2> DEFINE e == ""
  <2>2. St!BlankTurn =
          [exists |-> FALSE, text |-> FALSE, response |-> FALSE, assistant |-> e,
           final |-> 0, playback |-> FALSE, generated |-> 0, pending |-> 0,
           delivered |-> 0, reason |-> e, interrupted |-> FALSE, paused |-> -1,
           continuation |-> "none", failed |-> FALSE]
    BY Zenon DEF St!BlankTurn
  <2>3. e \in StText /\ e \in StReason
    BY <2>1
  <2> HIDE DEF e
  <2> QED BY <2>2, <2>3 DEF StTurn
<1>2. St!NoAccount \in StAccount /\ ~St!NoAccount.terminal
  <2>1. "" \in StReason
    BY Zenon DEF StReason
  <2> DEFINE e == ""
  <2>2. St!NoAccount = [pendingMax |-> 0, terminal |-> FALSE, final |-> 0, reason |-> e] /\ e \in StReason
    BY <2>1, Zenon DEF St!NoAccount
  <2> HIDE DEF e
  <2> QED BY <2>2 DEF StAccount
<1> DEFINE r == ""
           t == St!BlankTurn
           a == St!NoAccount
<1>3. st = [session |-> "none", activeSession |-> FALSE, plan |-> "none", kept |-> FALSE,
          about |-> 1, planned |-> 0,
          turn |-> t, account |-> a, applied |-> {},
          handed |-> {}, played |-> 0, receipt |-> r, live |-> FALSE, lane |-> FALSE, runs |-> 0,
          trouble |-> 0]
  BY Zenon DEF St!Init, St!Asked, St!None
<1>4. r \in StReason
  BY Zenon DEF StReason
<1>5. t \in StTurn /\ a \in StAccount /\ ~t.exists /\ ~t.response /\ ~t.failed /\ t.final = 0 /\ ~t.playback /\ ~a.terminal
  BY <1>1, <1>2
<1> HIDE DEF r, t, a
<1>6. st \in StState
  BY <1>3, <1>4, <1>5 DEF StState
<1> QED BY <1>3, <1>5, <1>6 DEF StInv, StDelivered, StSaid, StEnded, StPlanned

LEMMA StKept == ASSUME StSamples \in Nat, StInv(st), St!Next PROVE StInv(st')
  BY StRowKept, StPauseKept, StReloadKept, StHostEventKept, StPlanEventKept, StHearKept, StReportsKept,
     StReportStoppedKept, StRedeliverKept DEF St!Next

LEMMA StHolds == ASSUME StInv(st) PROVE St!StoredTurnIsTrue
<1>1. st.session = "paused" /\ st.turn.response => st.turn.reason # ""
  <2>1. st.session = "paused" /\ st.turn.response => StGiven(st.turn.reason)
    BY DEF StInv, StEnded
  <2> QED BY <2>1, Zenon DEF StGiven
<1>2. st.applied \cap St!Finals = {"final1"} => "final1" \in st.applied /\ "final2" \notin st.applied
  BY DEF St!Finals
<1>3. ASSUME st.account.terminal, st.turn.playback
      PROVE  st.turn.delivered = IF st.turn.generated = 0 THEN 0
                                 ELSE St!Smaller(st.account.final, st.turn.generated)
  BY <1>3 DEF StInv, StDelivered
<1>4. ("final2" \in st.applied => st.turn.assistant = "final2")
      /\ (st.applied \cap St!Finals = {"final1"} => st.turn.assistant = "final1")
      /\ (st.kept => st.plan = "ready")
  BY <1>2 DEF StInv, StSaid, StPlanned
<1> QED BY <1>1, <1>3, <1>4, Zenon DEF St!StoredTurnIsTrue

TurnPart == IF subject = "st" THEN StInv(st) ELSE st = Off

(* What is kept of a turn is what happened, in whatever order the events of *)
(* the host and the reports of the player were stored and whichever of them *)
(* were lost or repeated (stable-turn-writer.ts:591-680).                   *)
THEOREM TurnIsTrue == ASSUME StSamples \in Nat PROVE PartsSpec => []StoredTurnIsTrue
<1>1. PartsInit => TurnPart
  BY StInitKept DEF PartsInit, TurnPart
<1>2. TurnPart /\ [PartsNext]_<<vars, parts>> => TurnPart'
  <2> SUFFICES ASSUME TurnPart, [PartsNext]_<<vars, parts>> PROVE TurnPart'
    OBVIOUS
  <2>1. subject' = subject /\ (st' = st \/ (subject = "st" /\ St!Next))
    BY StepOfPart
  <2>2. CASE subject = "st"
    <3>1. StInv(st)
      BY <2>2 DEF TurnPart
    <3>2. StInv(st')
      BY <2>1, <2>2, <3>1, StKept
    <3> QED BY <2>1, <2>2, <3>2 DEF TurnPart
  <2>3. CASE subject # "st"
    BY <2>1, <2>3 DEF TurnPart
  <2> QED BY <2>2, <2>3
<1>3. TurnPart => StoredTurnIsTrue
  BY StHolds DEF TurnPart, StoredTurnIsTrue
<1> QED BY <1>1, <1>2, <1>3, PTL DEF PartsSpec

-----------------------------------------------------------------------------
(* Custom voices.  CvInv adds to VoicesAgree that whatever is about to be   *)
(* enrolled, by a job, by the restore loop or on the wire, is stored or its *)
(* race with a deletion is noted; that a voice whose removal was answered   *)
(* is gone; that the page and the store differ only while somebody is about *)
(* to list; and that what was said of the sidecar is true until overtaken.  *)

CvVoice == Cv!Refs \cup {Cv!NoVoice}
CvKinds == {"none", "sync", "enroll", "preview", "rename", "delete"}
CvPlaces == {"idle", "posted", "save", "list", "served", "ok", "err", "ask", "speaking"}
CvJob == [kind : CvKinds, v : CvVoice, at : CvPlaces, left : SUBSET Cv!Refs]
CvRequest == [id : Cv!Ids \cup {Cv!Nobody}, op : {"enroll", "remove"}, v : CvVoice]
CvAnswer == [ready : BOOLEAN, has : SUBSET CvVoice, old : BOOLEAN]

CvState ==
    [stored : SUBSET Cv!Refs, known : SUBSET Cv!Refs, raw : [ready : BOOLEAN, has : SUBSET CvVoice],
     polls : SUBSET CvAnswer, fresh : BOOLEAN,
     effect : BOOLEAN, gave : BOOLEAN, locked : BOOLEAN, jobs : [Cv!Ids -> CvJob], used : Cv!Ids,
     busy : Cv!Ids \cup {Cv!Nobody}, speaking : Cv!Ids \cup {Cv!Nobody}, wire : SUBSET CvRequest,
     ready : BOOLEAN, has : SUBSET CvVoice, races : SUBSET Cv!Refs, trouble : Int]

\* the kinds of job that enrol a voice
CvEnrols == {"sync", "enroll", "preview", "rename"}
\* a voice that is stored, or was deleted while it was enrolled
CvKept(c) == c.stored \cup c.races

\* a job that may have the voice enrolled, once its row was saved
CvEnrolling(j) == j.at # "idle" /\ j.kind \in CvEnrols /\ ~(j.kind = "enroll" /\ j.at = "save")

\* what a job looks like
CvShape(id, used, j) ==
    /\ j.at = "idle" <=> j.kind = "none"
    /\ j.kind # "none" => j.v \in Cv!Refs
    /\ id = 0 => j.kind \in {"none", "sync"} /\ j.at \in {"idle", "posted", "served", "ok", "err"}
    /\ id # 0 => j.kind # "sync"
    /\ j.kind # "sync" => j.left = {}
    /\ id > used => j.kind = "none"
    /\ j.kind = "delete" => j.at \in {"posted", "served", "ok", "err", "list"}
    /\ j.kind = "rename" => j.at \in {"save", "list"}
    /\ j.at \in {"ask", "speaking"} => j.kind = "preview"
    /\ j.at = "save" => j.kind \in {"enroll", "rename"}

\* what a job enrols is kept, and what it deleted is gone
CvOwes(c, id, j) ==
    /\ CvEnrolling(j) => j.v \in CvKept(c)
    /\ j.left \subseteq CvKept(c)
    /\ j.kind = "delete" /\ j.at = "ok" => j.v \notin c.has \/ j.v \in c.races
    /\ id = 0 /\ j.at = "ok" => ~c.fresh

CvJobOK(c, id) == CvShape(id, c.used, c.jobs[id]) /\ CvOwes(c, id, c.jobs[id])

CvWireOK(c, r) ==
    /\ r.v \in Cv!Refs
    /\ r.op = "enroll" => r.v \in CvKept(c)
    /\ r.id # Cv!Nobody =>
         /\ c.jobs[r.id].at = "served" /\ c.jobs[r.id].v = r.v
         /\ r.op = "remove" <=> c.jobs[r.id].kind = "delete"
         /\ \A q \in c.wire : q.id = r.id => q = r

CvHolds(c) ==
    /\ c.has \subseteq CvKept(c)
    /\ \A id \in Cv!Ids : CvJobOK(c, id)
    /\ \A r \in c.wire : CvWireOK(c, r)
    /\ c.speaking # Cv!Nobody =>
         c.speaking # 0 /\ c.speaking <= c.used /\ c.jobs[c.speaking].at \in {"speaking", "idle"}

\* the two ways a voice may be changed at once are noted
CvNoted(c) == \A v \in Cv!Refs : Cv!Enrolling(c, v) /\ Cv!Deleting(c, v) => v \in c.races

\* what the page shows is what is stored, once it was listed
CvListed(c) ==
    \A v \in Cv!Refs : (v \in c.known) # (v \in c.stored) =>
        \E id \in Cv!Ids : c.jobs[id].at = "list" /\ c.jobs[id].v = v
                        /\ (v \notin c.stored => c.jobs[id].kind = "delete")

\* what was said of the sidecar is true, unless it was overtaken
CvTold(c) ==
    /\ c.fresh => c.raw.ready = c.ready /\ c.raw.has = c.has
    /\ \A p \in c.polls : ~p.old => p.ready = c.ready /\ p.has = c.has

CvBase(c) == CvJobs \in Nat /\ c \in CvState /\ CvHolds(c) /\ CvNoted(c) /\ CvListed(c) /\ CvTold(c)

\* at rest nothing is missing, or the last attempt failed
CvSettled(c) == c.fresh /\ ~Cv!Live(c, 0) /\ ~c.effect /\ ~c.gave => Cv!Missing(c) = {}

CvInv(c) == CvBase(c) /\ CvSettled(c)

\* nothing is done to a voice that was not done to it
CvFewer(d, c) ==
    \A v \in Cv!Refs : (Cv!Enrolling(d, v) => Cv!Enrolling(c, v)) /\ (Cv!Deleting(d, v) => Cv!Deleting(c, v))

\* all but the jobs, the requests and the flags of the page
CvStill(d, c) ==
    /\ d \in CvState /\ d.stored = c.stored /\ d.known = c.known /\ d.races = c.races /\ d.has = c.has
    /\ d.raw = c.raw /\ d.polls = c.polls /\ d.fresh = c.fresh /\ d.ready = c.ready

\* the jobs and the requests too
CvSame(d, c) ==
    /\ CvStill(d, c) /\ d.wire = c.wire /\ d.jobs = c.jobs /\ d.used = c.used
    /\ d.speaking = c.speaking \/ d.speaking = Cv!Nobody

LEMMA CvFewerNoted ==
    ASSUME NEW c, NEW d, CvNoted(c), CvFewer(d, c), c.races \subseteq d.races
    PROVE  CvNoted(d)
BY DEF CvNoted, CvFewer

LEMMA CvSameKeeps == ASSUME NEW c, NEW d, CvBase(c), CvSame(d, c) PROVE CvBase(d)
<1>1. d \in CvState
  BY DEF CvSame, CvStill
<1>2. CvHolds(d)
  BY DEF CvBase, CvSame, CvStill, CvHolds, CvJobOK, CvOwes, CvWireOK, CvKept
<1>3. CvFewer(d, c)
  BY DEF CvSame, CvStill, CvFewer, Cv!Enrolling, Cv!Deleting, Cv!Live
<1>4. CvNoted(d)
  BY <1>3, CvFewerNoted DEF CvBase, CvSame, CvStill
<1>5. CvListed(d)
  BY DEF CvBase, CvSame, CvStill, CvListed
<1>6. CvTold(d)
  BY DEF CvBase, CvSame, CvStill, CvTold
<1> QED BY <1>1, <1>2, <1>4, <1>5, <1>6 DEF CvBase

\* no request of the job is on the wire
CvQuiet(c, id) == \A r \in c.wire : r.id # id

LEMMA CvServedOrQuiet ==
    ASSUME NEW c, CvBase(c), NEW id \in Cv!Ids, c.jobs[id].at # "served" PROVE CvQuiet(c, id)
<1>1. ASSUME NEW r \in c.wire, r.id = id PROVE FALSE
  <2>1. CvWireOK(c, r) /\ r.id # Cv!Nobody
    BY <1>1 DEF CvBase, CvHolds, Cv!Ids, Cv!Nobody
  <2> QED BY <1>1, <2>1 DEF CvWireOK
<1> QED BY <1>1 DEF CvQuiet

\* the job of a voice goes on or ends
LEMMA CvJobKeeps ==
    ASSUME NEW c, NEW d, CvBase(c), NEW id \in Cv!Ids, NEW k \in CvJob,
           CvStill(d, c), d.wire = c.wire, d.used = c.used,
           d.speaking = Cv!Nobody \/ (d.speaking = c.speaking /\ (d.speaking = id => k.at \in {"speaking", "idle"}))
             \/ (d.speaking = id /\ id # 0 /\ id <= c.used /\ k.at = "speaking"),
           d.jobs = [c.jobs EXCEPT ![id] = k], CvQuiet(c, id),
           CvShape(id, c.used, k), CvOwes(c, id, k),
           k.at # "idle" => c.jobs[id].at # "idle" /\ k.v = c.jobs[id].v
                            /\ (k.kind \in CvEnrols <=> c.jobs[id].kind \in CvEnrols)
                            /\ (k.kind = "delete" <=> c.jobs[id].kind = "delete"),
           k.left \subseteq c.jobs[id].left,
           c.jobs[id].at = "list" => c.known = c.stored
    PROVE  CvBase(d)
<1>1. /\ d \in CvState /\ c \in CvState /\ c.jobs \in [Cv!Ids -> CvJob] /\ d.jobs[id] = k
      /\ \A i \in Cv!Ids : i # id => d.jobs[i] = c.jobs[i]
  BY DEF CvStill, CvBase, CvState
<1>2. CvHolds(d)
  <2>1. d.has \subseteq CvKept(d)
    BY DEF CvBase, CvStill, CvHolds, CvKept
  <2>2. ASSUME NEW i \in Cv!Ids PROVE CvJobOK(d, i)
    <3>1. CASE i = id
      BY <1>1, <3>1 DEF CvJobOK, CvStill, CvOwes, CvKept
    <3>2. CASE i # id
      <4>1. d.jobs[i] = c.jobs[i] /\ CvJobOK(c, i)
        BY <1>1, <3>2 DEF CvBase, CvHolds
      <4> QED BY <4>1 DEF CvJobOK, CvStill, CvOwes, CvKept
    <3> QED BY <3>1, <3>2
  <2>3. ASSUME NEW r \in d.wire PROVE CvWireOK(d, r)
    <3>1. r \in c.wire /\ CvWireOK(c, r) /\ r.id # id
      BY DEF CvBase, CvHolds, CvQuiet
    <3>2. r.id \in Cv!Ids \cup {Cv!Nobody}
      BY <1>1, <3>1 DEF CvState, CvRequest
    <3>3. r.id # Cv!Nobody => d.jobs[r.id] = c.jobs[r.id]
      BY <1>1, <3>1, <3>2
    <3> QED BY <3>1, <3>3 DEF CvWireOK, CvStill, CvKept
  <2>4. d.speaking # Cv!Nobody =>
          d.speaking # 0 /\ d.speaking <= d.used /\ d.jobs[d.speaking].at \in {"speaking", "idle"}
    <3>1. c.speaking # Cv!Nobody => c.speaking # 0 /\ c.speaking <= c.used
                                 /\ c.jobs[c.speaking].at \in {"speaking", "idle"}
      BY DEF CvBase, CvHolds
    <3>2. d.speaking \in Cv!Ids \cup {Cv!Nobody}
      BY <1>1 DEF CvState
    <3>3. CASE d.speaking = Cv!Nobody
      BY <3>3
    <3>4. CASE d.speaking # Cv!Nobody /\ d.speaking # id
      <4>1. d.jobs[d.speaking] = c.jobs[d.speaking] /\ d.speaking = c.speaking
        BY <1>1, <3>2, <3>4
      <4> QED BY <3>1, <3>4, <4>1
    <3>5. CASE d.speaking # Cv!Nobody /\ d.speaking = id
      BY <1>1, <3>1, <3>5
    <3> QED BY <3>3, <3>4, <3>5
  <2> QED BY <2>1, <2>2, <2>3, <2>4 DEF CvHolds
<1>3. CvFewer(d, c)
  <2>1. k.left \subseteq c.jobs[id].left /\ d.jobs[0].left \subseteq c.jobs[0].left
    <3>1. 0 \in Cv!Ids
      BY DEF Cv!Ids, CvBase
    <3> QED BY <1>1, <3>1
  <2>2. ASSUME NEW v \in Cv!Refs, Cv!Enrolling(d, v) PROVE Cv!Enrolling(c, v)
    <3>1. CASE v \in d.jobs[0].left
      BY <2>1, <3>1 DEF Cv!Enrolling
    <3>2. CASE \E r \in d.wire : r.op = "enroll" /\ r.v = v
      BY <3>2 DEF Cv!Enrolling
    <3>3. CASE \E i \in Cv!Ids : Cv!Live(d, i) /\ d.jobs[i].v = v /\ d.jobs[i].kind \in CvEnrols
      <4>1. PICK i \in Cv!Ids : Cv!Live(d, i) /\ d.jobs[i].v = v /\ d.jobs[i].kind \in CvEnrols
        BY <3>3
      <4>2. Cv!Live(c, i) /\ c.jobs[i].v = v /\ c.jobs[i].kind \in CvEnrols
        BY <1>1, <4>1 DEF Cv!Live
      <4> QED BY <4>2 DEF Cv!Enrolling, CvEnrols
    <3> QED BY <2>2, <3>1, <3>2, <3>3 DEF Cv!Enrolling, CvEnrols
  <2>3. ASSUME NEW v \in Cv!Refs, Cv!Deleting(d, v) PROVE Cv!Deleting(c, v)
    <3>1. PICK i \in Cv!Ids : Cv!Live(d, i) /\ d.jobs[i].v = v /\ d.jobs[i].kind = "delete"
      BY <2>3 DEF Cv!Deleting
    <3>2. Cv!Live(c, i) /\ c.jobs[i].v = v /\ c.jobs[i].kind = "delete"
      BY <1>1, <3>1 DEF Cv!Live
    <3> QED BY <3>2 DEF Cv!Deleting
  <2> QED BY <2>2, <2>3 DEF CvFewer
<1>4. CvNoted(d)
  BY <1>3, CvFewerNoted DEF CvBase, CvStill
<1>5. CvListed(d)
  <2> SUFFICES ASSUME NEW v \in Cv!Refs, (v \in d.known) # (v \in d.stored)
               PROVE  \E i \in Cv!Ids : d.jobs[i].at = "list" /\ d.jobs[i].v = v
                                     /\ (v \notin d.stored => d.jobs[i].kind = "delete")
    BY DEF CvListed
  <2>1. (v \in c.known) # (v \in c.stored) /\ c.stored = d.stored
    BY DEF CvStill
  <2>2. PICK i \in Cv!Ids : c.jobs[i].at = "list" /\ c.jobs[i].v = v
                         /\ (v \notin c.stored => c.jobs[i].kind = "delete")
    BY <2>1 DEF CvBase, CvListed
  <2>3. i # id
    BY <2>1, <2>2
  <2> QED BY <1>1, <2>1, <2>2, <2>3
<1>6. CvTold(d)
  BY DEF CvBase, CvStill, CvTold
<1> QED BY <1>1, <1>2, <1>4, <1>5, <1>6 DEF CvBase

\* a new job enrols what is kept, or what is being deleted
CvOpens(c, id, k) ==
    /\ k.v \in Cv!Refs
    /\ CvEnrolling(k) => k.v \in CvKept(c) \/ Cv!Deleting(c, k.v)
    /\ \A v \in k.left : v \in CvKept(c) \/ Cv!Deleting(c, v)
    /\ k.at # "ok" /\ k.at # "idle"

LEMMA CvNotedIs ==
    ASSUME NEW d \in CvState
    PROVE  /\ Cv!Noted(d) \in CvState
           /\ Cv!Noted(d) = [d EXCEPT !.races = d.races \cup {v \in Cv!Refs : Cv!Enrolling(d, v) /\ Cv!Deleting(d, v)}]
BY DEF Cv!Noted, CvState

LEMMA CvNotedFields ==
    ASSUME NEW d \in CvState
    PROVE  LET n == Cv!Noted(d) IN
           /\ n.stored = d.stored /\ n.known = d.known /\ n.has = d.has /\ n.raw = d.raw
           /\ n.polls = d.polls /\ n.fresh = d.fresh /\ n.ready = d.ready /\ n.wire = d.wire
           /\ n.jobs = d.jobs /\ n.used = d.used /\ n.speaking = d.speaking /\ n.effect = d.effect
           /\ n.gave = d.gave /\ n.locked = d.locked /\ n.busy = d.busy /\ n.trouble = d.trouble
           /\ n.races = d.races \cup {v \in Cv!Refs : Cv!Enrolling(d, v) /\ Cv!Deleting(d, v)}
BY CvNotedIs DEF CvState

\* a job begins; what it does together with another is noted
LEMMA CvNewKeeps ==
    ASSUME NEW c, NEW d, CvBase(c), NEW id \in Cv!Ids, NEW k \in CvJob,
           CvStill(d, c), d.wire = c.wire, c.used <= d.used, id <= d.used,
           d.speaking = c.speaking, c.speaking # id,
           d.jobs = [c.jobs EXCEPT ![id] = k], CvQuiet(c, id),
           c.jobs[id].at # "list", c.jobs[id].kind # "delete",
           CvShape(id, d.used, k), CvOpens(c, id, k)
    PROVE  CvBase(Cv!Noted(d))
<1> DEFINE n == Cv!Noted(d)
<1>1. /\ d \in CvState /\ c \in CvState /\ c.jobs \in [Cv!Ids -> CvJob] /\ d.jobs[id] = k
      /\ \A i \in Cv!Ids : i # id => d.jobs[i] = c.jobs[i]
  BY DEF CvStill, CvBase, CvState
<1>2. /\ n \in CvState /\ n.stored = d.stored /\ n.known = d.known /\ n.has = d.has /\ n.raw = d.raw
      /\ n.polls = d.polls /\ n.fresh = d.fresh /\ n.ready = d.ready /\ n.wire = d.wire
      /\ n.jobs = d.jobs /\ n.used = d.used /\ n.speaking = d.speaking
      /\ n.races = d.races \cup {v \in Cv!Refs : Cv!Enrolling(d, v) /\ Cv!Deleting(d, v)}
  BY <1>1, CvNotedIs, CvNotedFields
<1> HIDE DEF n
<1>3. ASSUME NEW v \in Cv!Refs PROVE (Cv!Enrolling(n, v) <=> Cv!Enrolling(d, v)) /\ (Cv!Deleting(n, v) <=> Cv!Deleting(d, v))
  BY <1>2 DEF Cv!Enrolling, Cv!Deleting, Cv!Live
<1>4. CvNoted(n)
  BY <1>2, <1>3 DEF CvNoted
<1>5. ASSUME NEW v \in Cv!Refs, Cv!Deleting(c, v) PROVE Cv!Deleting(d, v)
  <2>1. PICK i \in Cv!Ids : Cv!Live(c, i) /\ c.jobs[i].v = v /\ c.jobs[i].kind = "delete"
    BY <1>5 DEF Cv!Deleting
  <2>2. i # id
    BY <2>1
  <2> QED BY <1>1, <2>1, <2>2 DEF Cv!Deleting, Cv!Live
<1>6. CvKept(c) \subseteq CvKept(n)
  BY <1>2 DEF CvStill, CvKept
<1>7. CvOwes(n, id, k)
  <2>1. CvEnrolling(k) => k.v \in CvKept(n)
    <3>1. ASSUME CvEnrolling(k), Cv!Deleting(c, k.v) PROVE k.v \in CvKept(n)
      <4>1. Cv!Deleting(d, k.v)
        BY <1>5, <3>1 DEF CvOpens
      <4>2. Cv!Enrolling(d, k.v)
        BY <1>1, <3>1 DEF Cv!Enrolling, CvEnrolling, CvEnrols, Cv!Live
      <4> QED BY <1>2, <4>1, <4>2 DEF CvKept, CvOpens
    <3> QED BY <1>6, <3>1 DEF CvOpens
  <2>2. k.left \subseteq CvKept(n)
    <3> SUFFICES ASSUME NEW v \in k.left PROVE v \in CvKept(n)
      OBVIOUS
    <3>1. v \in Cv!Refs /\ (v \in CvKept(c) \/ Cv!Deleting(c, v))
      BY DEF CvOpens, CvJob
    <3>2. ASSUME Cv!Deleting(c, v) PROVE v \in CvKept(n)
      <4>1. Cv!Deleting(d, v)
        BY <1>5, <3>1, <3>2
      <4>2. id = 0
        BY DEF CvShape
      <4>3. Cv!Enrolling(d, v)
        BY <1>1, <4>2 DEF Cv!Enrolling
      <4> QED BY <1>2, <3>1, <4>1, <4>3 DEF CvKept
    <3> QED BY <1>6, <3>1, <3>2
  <2> QED BY <2>1, <2>2 DEF CvOwes, CvOpens
<1>8. CvHolds(n)
  <2>1. n.has \subseteq CvKept(n)
    BY <1>2, <1>6 DEF CvBase, CvStill, CvHolds
  <2>2. ASSUME NEW i \in Cv!Ids PROVE CvJobOK(n, i)
    <3>1. CASE i = id
      BY <1>1, <1>2, <1>7, <3>1 DEF CvJobOK
    <3>2. CASE i # id
      <4>1. n.jobs[i] = c.jobs[i] /\ CvJobOK(c, i) /\ n.has = c.has /\ n.fresh = c.fresh
            /\ c.races \subseteq n.races
        BY <1>1, <1>2, <3>2 DEF CvBase, CvHolds, CvStill
      <4>2. CvShape(i, n.used, c.jobs[i])
        <5>1. n.used = d.used /\ d.used \in Int /\ c.used \in Int /\ i \in Int
          BY <1>1, <1>2 DEF CvState, Cv!Ids
        <5>2. i > n.used => i > c.used
          BY <5>1
        <5> QED BY <4>1, <5>2 DEF CvJobOK, CvShape
      <4>3. CvOwes(n, i, c.jobs[i])
        BY <1>6, <4>1 DEF CvJobOK, CvOwes
      <4> QED BY <4>1, <4>2, <4>3 DEF CvJobOK
    <3> QED BY <3>1, <3>2
  <2>3. ASSUME NEW r \in n.wire PROVE CvWireOK(n, r)
    <3>1. r \in c.wire /\ CvWireOK(c, r) /\ r.id # id
      BY <1>2 DEF CvBase, CvHolds, CvQuiet
    <3>2. r.id \in Cv!Ids \cup {Cv!Nobody}
      BY <1>1, <3>1 DEF CvState, CvRequest
    <3>3. r.id # Cv!Nobody => n.jobs[r.id] = c.jobs[r.id]
      BY <1>1, <1>2, <3>1, <3>2
    <3> QED BY <1>2, <1>6, <3>1, <3>3 DEF CvWireOK
  <2>4. n.speaking # Cv!Nobody =>
          n.speaking # 0 /\ n.speaking <= n.used /\ n.jobs[n.speaking].at \in {"speaking", "idle"}
    <3>1. c.speaking # Cv!Nobody => c.speaking # 0 /\ c.speaking <= c.used
                                 /\ c.jobs[c.speaking].at \in {"speaking", "idle"}
      BY DEF CvBase, CvHolds
    <3>2. n.speaking = c.speaking /\ c.speaking \in Cv!Ids \cup {Cv!Nobody} /\ c.used \in Int /\ n.used \in Int
          /\ c.used <= n.used
      BY <1>1, <1>2 DEF CvState, Cv!Ids
    <3>3. ASSUME n.speaking # Cv!Nobody PROVE n.jobs[n.speaking] = c.jobs[c.speaking]
      BY <1>1, <1>2, <3>2, <3>3
    <3>4. ASSUME n.speaking # Cv!Nobody PROVE c.speaking <= n.used
      <4>1. c.speaking \in Int
        BY <3>2, <3>4 DEF Cv!Ids
      <4> QED BY <3>1, <3>2, <3>4, <4>1
    <3> QED BY <3>1, <3>2, <3>3, <3>4
  <2> QED BY <2>1, <2>2, <2>3, <2>4 DEF CvHolds
<1>9. CvListed(n)
  <2> SUFFICES ASSUME NEW v \in Cv!Refs, (v \in n.known) # (v \in n.stored)
               PROVE  \E i \in Cv!Ids : n.jobs[i].at = "list" /\ n.jobs[i].v = v
                                     /\ (v \notin n.stored => n.jobs[i].kind = "delete")
    BY DEF CvListed
  <2>1. (v \in c.known) # (v \in c.stored) /\ c.stored = n.stored
    BY <1>2 DEF CvStill
  <2>2. PICK i \in Cv!Ids : c.jobs[i].at = "list" /\ c.jobs[i].v = v
                         /\ (v \notin c.stored => c.jobs[i].kind = "delete")
    BY <2>1 DEF CvBase, CvListed
  <2> QED BY <1>1, <1>2, <2>1, <2>2
<1>10. CvTold(n)
  BY <1>2 DEF CvBase, CvStill, CvTold
<1> QED BY <1>2, <1>4, <1>8, <1>9, <1>10 DEF CvBase, n

LEMMA CvIdsAre == ASSUME NEW c, CvBase(c) PROVE 0 \in Cv!Ids /\ Cv!Nobody \notin Cv!Ids /\ c \in CvState
BY DEF CvBase, Cv!Ids, Cv!Nobody

\* what the readiness poll said
LEMMA CvPollKept == ASSUME CvInv(cv), Cv!Poll PROVE CvInv(cv')
<1> DEFINE a == [ready |-> cv.ready, has |-> cv.has, old |-> FALSE]
           p == {a}
<1>1. cv' = [cv EXCEPT !.polls = p] /\ CvBase(cv) /\ cv \in CvState
  BY DEF Cv!Poll, CvInv, CvBase
<1>2. p \subseteq CvAnswer
  BY <1>1 DEF CvState, CvAnswer
<1>3. \A q \in p : q.ready = cv.ready /\ q.has = cv.has
  OBVIOUS
<1> HIDE DEF p
<1>4. cv' \in CvState /\ cv'.polls = p
  BY <1>1, <1>2 DEF CvState
<1>5. /\ cv'.stored = cv.stored /\ cv'.known = cv.known /\ cv'.races = cv.races /\ cv'.has = cv.has
      /\ cv'.raw = cv.raw /\ cv'.fresh = cv.fresh /\ cv'.ready = cv.ready
      /\ cv'.wire = cv.wire /\ cv'.jobs = cv.jobs /\ cv'.used = cv.used /\ cv'.speaking = cv.speaking
      /\ cv'.effect = cv.effect /\ cv'.gave = cv.gave
  BY <1>1, <1>2 DEF CvState
<1>6. CvHolds(cv') /\ CvListed(cv')
  BY <1>1, <1>5 DEF CvBase, CvHolds, CvJobOK, CvOwes, CvWireOK, CvKept, CvListed
<1>7. CvNoted(cv')
  BY <1>1, <1>5 DEF CvBase, CvNoted, Cv!Enrolling, Cv!Deleting, Cv!Live
<1>8. CvTold(cv')
  BY <1>1, <1>3, <1>4, <1>5 DEF CvBase, CvTold
<1>9. CvSettled(cv')
  BY <1>5 DEF CvInv, CvSettled, Cv!Missing, Cv!Live
<1> QED BY <1>1, <1>4, <1>6, <1>7, <1>8, <1>9 DEF CvInv, CvBase

\* the restore loop is at a voice of what is missing
LEMMA CvPostsKeeps ==
    ASSUME NEW c, CvBase(c), NEW v \in Cv!Refs, NEW l \in SUBSET Cv!Refs,
           c.jobs[0].at # "list", c.jobs[0].at # "served",
           \A w \in l \cup {v} : w \in CvKept(c) \/ Cv!Deleting(c, w)
    PROVE  CvBase(Cv!Noted(Cv!Posts(c, v, l))) /\ CvSettled(Cv!Noted(Cv!Posts(c, v, l)))
<1> DEFINE k == [kind |-> "sync", v |-> v, at |-> "posted", left |-> l]
           d == [c EXCEPT !.jobs[0] = k]
           n == Cv!Noted(d)
<1>1. Cv!Posts(c, v, l) = d
  BY DEF Cv!Posts
<1>2. 0 \in Cv!Ids /\ c \in CvState
  BY CvIdsAre
<1>3. k \in CvJob /\ CvOpens(c, 0, k)
  BY DEF CvJob, CvVoice, CvKinds, CvPlaces, CvOpens
<1>4. CvShape(0, c.used, k)
  BY <1>2 DEF CvShape, CvState, Cv!Ids
<1>7. k.kind = "sync" /\ k.at = "posted"
  OBVIOUS
<1> HIDE DEF k
<1>5. CvStill(d, c) /\ d.wire = c.wire /\ d.used = c.used /\ d.speaking = c.speaking
      /\ d.jobs = [c.jobs EXCEPT ![0] = k] /\ d.jobs[0] = k
  BY <1>2, <1>3 DEF CvStill, CvState
<1>6. CvQuiet(c, 0)
  BY <1>2, CvServedOrQuiet
<1> HIDE DEF d
<1>8. c.speaking # 0 /\ c.jobs[0].kind # "delete" /\ c.used <= d.used /\ 0 <= d.used
  <2>1. c.speaking # 0
    BY DEF CvBase, CvHolds, Cv!Nobody
  <2>2. c.jobs[0].kind # "delete"
    BY <1>2 DEF CvBase, CvHolds, CvJobOK, CvShape
  <2>3. c.used \in Int /\ 0 <= c.used
    BY <1>2 DEF CvState, Cv!Ids
  <2> QED BY <1>5, <2>1, <2>2, <2>3
<1>9. CvBase(n)
  BY <1>2, <1>3, <1>4, <1>5, <1>6, <1>8, CvNewKeeps
<1>10. n.jobs = d.jobs
  BY <1>5, CvNotedFields DEF CvStill
<1>11. CvSettled(n)
  BY <1>5, <1>7, <1>10 DEF CvSettled, Cv!Live
<1> QED BY <1>1, <1>9, <1>11

LEMMA CvMissingKnown ==
    ASSUME NEW c, CvBase(c), NEW v \in Cv!Missing(c)
    PROVE  v \in Cv!Refs /\ (v \in CvKept(c) \/ Cv!Deleting(c, v))
<1>1. v \in c.known /\ v \in Cv!Refs
  BY DEF Cv!Missing, CvBase, CvState
<1>2. ASSUME v \notin c.stored PROVE Cv!Deleting(c, v)
  <2>1. PICK i \in Cv!Ids : c.jobs[i].at = "list" /\ c.jobs[i].v = v /\ c.jobs[i].kind = "delete"
    BY <1>1, <1>2 DEF CvBase, CvListed
  <2> QED BY <2>1 DEF Cv!Deleting, Cv!Live
<1> QED BY <1>1, <1>2 DEF CvKept

\* the loop starts, if it does not run and something is missing
LEMMA CvSyncedKeeps ==
    ASSUME NEW c, CvBase(c), NEW d \in Cv!Synced(c)
    PROVE  CvBase(Cv!Noted(d)) /\ CvSettled(Cv!Noted(d))
<1>1. CASE Cv!Live(c, 0) \/ Cv!Missing(c) = {}
  <2>1. d = c /\ c \in CvState
    BY <1>1, CvIdsAre DEF Cv!Synced
  <2>2. CvSame(Cv!Noted(c), c) /\ Cv!Noted(c).effect = c.effect /\ Cv!Noted(c).gave = c.gave
    <3>1. Cv!Noted(c).races = c.races
      BY <2>1, CvNotedFields DEF CvBase, CvNoted
    <3> QED BY <2>1, <3>1, CvNotedIs, CvNotedFields DEF CvSame, CvStill
  <2>3. CvBase(Cv!Noted(c))
    BY <2>2, CvSameKeeps
  <2>4. CvSettled(Cv!Noted(c))
    BY <1>1, <2>2 DEF CvSettled, Cv!Missing, Cv!Live, CvSame, CvStill
  <2> QED BY <2>1, <2>3, <2>4
<1>2. CASE ~(Cv!Live(c, 0) \/ Cv!Missing(c) = {})
  <2>1. PICK v \in Cv!Missing(c) : d = Cv!Posts(c, v, Cv!Missing(c) \ {v})
    BY <1>2 DEF Cv!Synced
  <2>2. c.jobs[0].at = "idle"
    BY <1>2 DEF Cv!Live
  <2> DEFINE l == Cv!Missing(c) \ {v}
  <2>3. v \in Cv!Refs /\ l \in SUBSET Cv!Refs /\ \A w \in l \cup {v} : w \in CvKept(c) \/ Cv!Deleting(c, w)
    BY CvMissingKnown
  <2> HIDE DEF l
  <2>4. CvBase(Cv!Noted(Cv!Posts(c, v, l))) /\ CvSettled(Cv!Noted(Cv!Posts(c, v, l)))
    BY <2>2, <2>3, CvPostsKeeps
  <2> QED BY <2>1, <2>4 DEF l
<1> QED BY <1>1, <1>2

LEMMA CvOnModelsKept == ASSUME CvInv(cv), Cv!OnModels PROVE CvInv(cv')
<1>1. PICK p \in cv.polls :
        \E c \in Cv!Synced([cv EXCEPT !.polls = {}, !.raw = [ready |-> p.ready, has |-> p.has],
                                  !.fresh = ~p.old /\ ~Cv!Live(cv, 0), !.gave = FALSE]) : cv' = Cv!Noted(c)
  BY DEF Cv!OnModels
<1> DEFINE w == [ready |-> p.ready, has |-> p.has]
           f == ~p.old /\ ~Cv!Live(cv, 0)
           c == [cv EXCEPT !.polls = {}, !.raw = w, !.fresh = f, !.gave = FALSE]
<1>2. CvBase(cv) /\ cv \in CvState
  BY DEF CvInv, CvBase
<1>3. /\ w \in [ready : BOOLEAN, has : SUBSET CvVoice] /\ f \in BOOLEAN
      /\ f => w.ready = cv.ready /\ w.has = cv.has /\ cv.jobs[0].at # "ok"
  BY <1>2 DEF CvBase, CvTold, CvState, CvAnswer, Cv!Live
<1> HIDE DEF w, f
<1>4. /\ c \in CvState /\ c.polls = {} /\ c.raw = w /\ c.fresh = f
      /\ c.stored = cv.stored /\ c.known = cv.known /\ c.races = cv.races /\ c.has = cv.has
      /\ c.ready = cv.ready /\ c.wire = cv.wire /\ c.jobs = cv.jobs /\ c.used = cv.used
      /\ c.speaking = cv.speaking
  BY <1>2, <1>3 DEF CvState
<1>5. \E d \in Cv!Synced(c) : cv' = Cv!Noted(d)
  BY <1>1 DEF w, f
<1> HIDE DEF c
<1>6. CvHolds(c)
  <2>1. ASSUME NEW i \in Cv!Ids PROVE CvJobOK(c, i)
    BY <1>2, <1>3, <1>4 DEF CvBase, CvHolds, CvJobOK, CvOwes, CvKept
  <2> QED BY <1>2, <1>4, <2>1 DEF CvBase, CvHolds, CvWireOK, CvKept
<1>7. CvListed(c) /\ CvNoted(c)
  BY <1>2, <1>4 DEF CvBase, CvListed, CvNoted, Cv!Enrolling, Cv!Deleting, Cv!Live
<1>8. CvTold(c)
  BY <1>3, <1>4 DEF CvTold
<1>9. CvBase(c)
  BY <1>2, <1>4, <1>6, <1>7, <1>8 DEF CvBase
<1> QED BY <1>5, <1>9, CvSyncedKeeps DEF CvInv

LEMMA CvListedKept == ASSUME CvInv(cv), Cv!Listed PROVE CvInv(cv')
<1> DEFINE c == [cv EXCEPT !.effect = FALSE]
<1>1. CvBase(cv) /\ cv \in CvState /\ \E d \in Cv!Synced(c) : cv' = Cv!Noted(d)
  BY DEF CvInv, CvBase, Cv!Listed
<1>2. CvSame(c, cv)
  BY <1>1 DEF CvSame, CvStill, CvState
<1> HIDE DEF c
<1> QED BY <1>1, <1>2, CvSameKeeps, CvSyncedKeeps DEF CvInv

\* a job is over
LEMMA CvEndedKeeps ==
    ASSUME NEW c, CvBase(c), NEW id \in Cv!Ids, c.jobs[id].at # "served",
           c.jobs[id].at = "list" => c.known = c.stored
    PROVE  /\ CvBase(Cv!Ended(c, id)) /\ Cv!Ended(c, id).jobs = [c.jobs EXCEPT ![id] = Cv!Idle]
           /\ Cv!Ended(c, id).fresh = c.fresh /\ Cv!Ended(c, id).effect = c.effect
           /\ Cv!Ended(c, id).gave = c.gave /\ CvStill(Cv!Ended(c, id), c)
           /\ Cv!Ended(c, id).speaking = c.speaking /\ Cv!Ended(c, id).wire = c.wire
           /\ Cv!Ended(c, id).used = c.used
<1> DEFINE k == Cv!Idle
           l == IF c.jobs[id].kind = "preview" THEN c.locked ELSE FALSE
           d == [c EXCEPT !.jobs[id] = k, !.locked = l]
<1>1. c \in CvState /\ Cv!Ended(c, id) = d
  BY CvIdsAre DEF Cv!Ended
<1>2. l \in BOOLEAN
  BY <1>1 DEF CvState
<1>3. k \in CvJob /\ k.at = "idle" /\ k.kind = "none" /\ k.left = {}
  BY DEF Cv!Idle, CvJob, CvVoice, CvKinds, CvPlaces, Cv!NoVoice
<1>4. CvShape(id, c.used, k) /\ CvOwes(c, id, k)
  BY <1>3 DEF CvShape, CvOwes, CvEnrolling
<1> HIDE DEF k, l
<1>5. CvStill(d, c) /\ d.wire = c.wire /\ d.used = c.used /\ d.speaking = c.speaking
      /\ d.jobs = [c.jobs EXCEPT ![id] = k] /\ d.effect = c.effect /\ d.gave = c.gave
  BY <1>1, <1>2, <1>3 DEF CvStill, CvState
<1>6. CvQuiet(c, id)
  BY CvServedOrQuiet
<1> HIDE DEF d
<1>7. k.left \subseteq c.jobs[id].left
  BY <1>3
<1>8. CvBase(d)
  BY <1>3, <1>4, <1>5, <1>6, <1>7, CvJobKeeps
<1> QED BY <1>1, <1>5, <1>8 DEF k, CvStill

\* the job goes on to another place
LEMMA CvAtKeeps ==
    ASSUME NEW c, CvBase(c), NEW id \in Cv!Ids, NEW at \in CvPlaces, CvQuiet(c, id),
           at # "idle", c.jobs[id].at # "idle", c.speaking # id \/ at = "speaking",
           CvShape(id, c.used, [c.jobs[id] EXCEPT !.at = at]),
           CvOwes(c, id, [c.jobs[id] EXCEPT !.at = at]),
           c.jobs[id].at = "list" => c.known = c.stored
    PROVE  /\ CvBase(Cv!At(c, id, at)) /\ CvStill(Cv!At(c, id, at), c)
           /\ Cv!At(c, id, at).jobs = [c.jobs EXCEPT ![id] = [c.jobs[id] EXCEPT !.at = at]]
           /\ Cv!At(c, id, at).effect = c.effect /\ Cv!At(c, id, at).gave = c.gave
           /\ Cv!At(c, id, at).wire = c.wire /\ Cv!At(c, id, at).used = c.used
           /\ Cv!At(c, id, at).speaking = c.speaking
<1> DEFINE k == [c.jobs[id] EXCEPT !.at = at]
           d == [c EXCEPT !.jobs[id] = k]
<1>1. c \in CvState /\ c.jobs[id] \in CvJob
  BY CvIdsAre DEF CvState
<1>2. k \in CvJob /\ k.at = at /\ k.kind = c.jobs[id].kind /\ k.v = c.jobs[id].v
      /\ k.left = c.jobs[id].left
  BY <1>1 DEF CvJob
<1>3. Cv!At(c, id, at) = d
  BY <1>1 DEF Cv!At, CvState
<1>4. CvShape(id, c.used, k) /\ CvOwes(c, id, k)
  OBVIOUS
<1> HIDE DEF k
<1>5. CvStill(d, c) /\ d.wire = c.wire /\ d.used = c.used /\ d.speaking = c.speaking
      /\ d.jobs = [c.jobs EXCEPT ![id] = k] /\ d.effect = c.effect /\ d.gave = c.gave
  BY <1>1, <1>2 DEF CvStill, CvState
<1> HIDE DEF d
<1>6. CvBase(d)
  BY <1>2, <1>4, <1>5, CvJobKeeps
<1> QED BY <1>3, <1>5, <1>6 DEF k

LEMMA CvSettledKeeps ==
    ASSUME NEW c, NEW d, CvSettled(c), d.fresh = c.fresh, d.effect = c.effect, d.gave = c.gave,
           d.raw = c.raw, d.known = c.known, Cv!Live(c, 0) => Cv!Live(d, 0)
    PROVE  CvSettled(d)
BY DEF CvSettled, Cv!Missing

LEMMA CvSyncGoesOnKept == ASSUME CvInv(cv), Cv!SyncGoesOn PROVE CvInv(cv')
<1>1. CvBase(cv) /\ CvSettled(cv) /\ 0 \in Cv!Ids /\ cv \in CvState
  BY CvIdsAre DEF CvInv
<1>2. CvOwes(cv, 0, cv.jobs[0])
  BY <1>1 DEF CvBase, CvHolds, CvJobOK
<1>3. CASE cv.jobs[0].at = "ok" /\ cv.jobs[0].left = {} /\ cv' = Cv!Ended(cv, 0)
  <2>1. ~cv.fresh
    BY <1>2, <1>3 DEF CvOwes
  <2>2. CvBase(cv') /\ cv'.fresh = cv.fresh
    BY <1>1, <1>3, CvEndedKeeps
  <2> QED BY <2>1, <2>2 DEF CvInv, CvSettled
<1>4. ASSUME cv.jobs[0].at = "ok",
             NEW v \in cv.jobs[0].left, cv' = Cv!Noted(Cv!Posts(cv, v, cv.jobs[0].left \ {v}))
      PROVE  CvInv(cv')
  <2> DEFINE l == cv.jobs[0].left \ {v}
  <2>1. v \in Cv!Refs /\ l \in SUBSET Cv!Refs /\ \A w \in l \cup {v} : w \in CvKept(cv) \/ Cv!Deleting(cv, w)
    <3>1. cv.jobs[0].left \subseteq Cv!Refs
      BY <1>1 DEF CvState, CvJob
    <3> QED BY <1>2, <3>1 DEF CvOwes
  <2> HIDE DEF l
  <2>2. CvBase(Cv!Noted(Cv!Posts(cv, v, l))) /\ CvSettled(Cv!Noted(Cv!Posts(cv, v, l)))
    BY <1>1, <1>4, <2>1, CvPostsKeeps
  <2> QED BY <1>4, <2>2 DEF CvInv, l
<1>5. CASE cv.jobs[0].at = "err" /\ cv' = [Cv!Ended(cv, 0) EXCEPT !.gave = TRUE]
  <2> DEFINE e == Cv!Ended(cv, 0)
  <2>1. CvBase(e) /\ e \in CvState
    BY <1>1, <1>5, CvEndedKeeps DEF CvStill
  <2> HIDE DEF e
  <2>2. cv' = [e EXCEPT !.gave = TRUE]
    BY <1>5 DEF e
  <2>3. CvSame(cv', e) /\ cv'.gave
    BY <2>1, <2>2 DEF CvSame, CvStill, CvState
  <2>4. CvBase(cv')
    BY <2>1, <2>3, CvSameKeeps
  <2> QED BY <2>3, <2>4 DEF CvInv, CvSettled
<1> QED BY <1>3, <1>4, <1>5 DEF Cv!SyncGoesOn

LEMMA CvBeginKeeps ==
    ASSUME CvInv(cv), cv.used < CvJobs,
           NEW kind \in {"enroll", "delete", "rename", "preview"}, NEW v \in Cv!Refs, NEW at \in CvPlaces,
           at \notin {"ok", "idle"},
           CvShape(cv.used + 1, cv.used + 1, [kind |-> kind, v |-> v, at |-> at, left |-> {}]),
           (kind = "delete" \/ (kind = "enroll" /\ at = "save")) \/ v \in CvKept(cv) \/ Cv!Deleting(cv, v),
           NEW l \in BOOLEAN
    PROVE  CvInv(Cv!Noted([Cv!Begins(cv, kind, v, at) EXCEPT !.locked = l]))
<1> DEFINE k == [kind |-> kind, v |-> v, at |-> at, left |-> {}]
           id == cv.used + 1
           b == Cv!Begins(cv, kind, v, at)
           d == [b EXCEPT !.locked = l]
           n == Cv!Noted(d)
<1>1. CvBase(cv) /\ CvSettled(cv) /\ 0 \in Cv!Ids /\ cv \in CvState
  BY CvIdsAre DEF CvInv
<1>2. id \in Cv!Ids /\ cv.used \in Cv!Ids /\ id # 0 /\ cv.used <= id /\ id > cv.used /\ cv.used \in Int
  BY <1>1 DEF CvState, Cv!Ids, CvBase
<1>3. k \in CvJob /\ CvOpens(cv, id, k)
  BY DEF CvJob, CvVoice, CvKinds, CvOpens, CvEnrolling, CvEnrols
<1>4. CvShape(id, id, k)
  OBVIOUS
<1>5. b = [cv EXCEPT !.jobs[id] = k, !.used = id]
  BY <1>1 DEF Cv!Begins, CvState
<1> HIDE DEF k, id, b
<1>6. /\ b \in CvState /\ b.jobs = [cv.jobs EXCEPT ![id] = k] /\ b.used = id
      /\ CvStill(b, cv) /\ b.wire = cv.wire /\ b.speaking = cv.speaking
      /\ b.effect = cv.effect /\ b.gave = cv.gave
  BY <1>1, <1>2, <1>3, <1>5 DEF CvState, CvStill
<1>7. /\ d.jobs = [cv.jobs EXCEPT ![id] = k] /\ d.used = id
      /\ CvStill(d, cv) /\ d.wire = cv.wire /\ d.speaking = cv.speaking
      /\ d.effect = cv.effect /\ d.gave = cv.gave
  BY <1>6 DEF CvState, CvStill
<1> HIDE DEF d
<1>8. cv.jobs[id].kind = "none" /\ cv.jobs[id].at = "idle"
  BY <1>1, <1>2 DEF CvBase, CvHolds, CvJobOK, CvShape
<1>9. CvQuiet(cv, id)
  BY <1>1, <1>2, <1>8, CvServedOrQuiet
<1>10. cv.speaking # id
  <2>1. cv.speaking # Cv!Nobody => cv.speaking <= cv.used
    BY <1>1 DEF CvBase, CvHolds
  <2>2. id # Cv!Nobody
    BY <1>1, <1>2, CvIdsAre
  <2>3. id \in Int
    BY <1>2 DEF Cv!Ids
  <2> QED BY <1>2, <2>1, <2>2, <2>3
<1>11. id <= id
  BY <1>2 DEF Cv!Ids
<1>12. CvBase(n)
  BY <1>1, <1>2, <1>3, <1>4, <1>7, <1>8, <1>9, <1>10, <1>11, CvNewKeeps
<1>13. /\ n.fresh = d.fresh /\ n.effect = d.effect /\ n.gave = d.gave /\ n.raw = d.raw
       /\ n.known = d.known /\ n.jobs = d.jobs
  BY <1>7, CvNotedFields DEF CvStill
<1>14. Cv!Live(cv, 0) => Cv!Live(n, 0)
  BY <1>1, <1>2, <1>7, <1>13 DEF Cv!Live, CvState
<1>15. CvSettled(n)
  BY <1>1, <1>7, <1>13, <1>14, CvSettledKeeps DEF CvStill
<1> QED BY <1>12, <1>15 DEF CvInv, d, b

LEMMA CvUsersAsk ==
    ASSUME CvInv(cv), Cv!MayAsk,
           NEW kind \in {"enroll", "delete", "rename", "preview"}, NEW v \in Cv!Refs,
           NEW at \in {"save", "posted", "ask"},
           kind = "delete" => at = "posted", kind = "rename" => at = "save", kind = "preview" => at # "save",
           at = "ask" => kind = "preview", at = "save" => kind \in {"enroll", "rename"},
           (kind = "delete" \/ (kind = "enroll" /\ at = "save")) \/ v \in CvKept(cv) \/ Cv!Deleting(cv, v),
           NEW l \in BOOLEAN
    PROVE  CvInv(Cv!Noted([Cv!Begins(cv, kind, v, at) EXCEPT !.locked = l]))
<1> DEFINE i == cv.used + 1
<1>1. i # 0 /\ ~(i > i)
  BY CvIdsAre DEF CvInv, CvState, Cv!Ids
<1> HIDE DEF i
<1>2. CvShape(i, i, [kind |-> kind, v |-> v, at |-> at, left |-> {}])
  BY <1>1 DEF CvShape
<1>3. cv.used < CvJobs /\ at \in CvPlaces /\ at \notin {"ok", "idle"}
  BY DEF Cv!MayAsk, CvPlaces
<1> QED BY <1>2, <1>3, CvBeginKeeps DEF i

LEMMA CvSaveVoiceKept == ASSUME CvInv(cv), Cv!SaveVoice PROVE CvInv(cv')
<1>1. PICK v \in Cv!Refs : cv' = Cv!Noted([Cv!Begins(cv, "enroll", v, "save") EXCEPT !.locked = TRUE])
  BY DEF Cv!SaveVoice
<1> QED BY <1>1, CvUsersAsk DEF Cv!SaveVoice

LEMMA CvKnownIsKept ==
    ASSUME NEW c, CvBase(c), NEW v \in c.known PROVE v \in Cv!Refs /\ (v \in CvKept(c) \/ Cv!Deleting(c, v))
<1>1. v \in Cv!Refs
  BY DEF CvBase, CvState
<1>2. ASSUME v \notin c.stored PROVE Cv!Deleting(c, v)
  <2>1. PICK i \in Cv!Ids : c.jobs[i].at = "list" /\ c.jobs[i].v = v /\ c.jobs[i].kind = "delete"
    BY <1>1, <1>2 DEF CvBase, CvListed
  <2> QED BY <2>1 DEF Cv!Deleting, Cv!Live
<1> QED BY <1>1, <1>2 DEF CvKept

LEMMA CvDeleteVoiceKept == ASSUME CvInv(cv), Cv!DeleteVoice PROVE CvInv(cv')
<1>1. PICK v \in cv.known : cv' = Cv!Noted([Cv!Begins(cv, "delete", v, "posted") EXCEPT !.locked = TRUE])
  BY DEF Cv!DeleteVoice, Cv!Requested
<1> QED BY <1>1, CvKnownIsKept, CvUsersAsk DEF Cv!DeleteVoice, CvInv

LEMMA CvRenameVoiceKept == ASSUME CvInv(cv), Cv!RenameVoice PROVE CvInv(cv')
<1>1. PICK v \in cv.known \cap cv.stored :
        cv' = Cv!Noted([Cv!Begins(cv, "rename", v, "save") EXCEPT !.locked = TRUE])
  BY DEF Cv!RenameVoice
<1> QED BY <1>1, CvKnownIsKept, CvUsersAsk DEF Cv!RenameVoice, CvInv

LEMMA CvPreviewKept == ASSUME CvInv(cv), Cv!Preview PROVE CvInv(cv')
<1>1. PICK v \in cv.known, at \in {"posted", "ask"} : cv' = Cv!Noted(Cv!Begins(cv, "preview", v, at))
  BY DEF Cv!Preview
<1> DEFINE b == Cv!Begins(cv, "preview", v, at)
           l == cv.locked
<1>2. l \in BOOLEAN /\ v \in Cv!Refs /\ (v \in CvKept(cv) \/ Cv!Deleting(cv, v)) /\ Cv!MayAsk
  BY <1>1, CvKnownIsKept DEF CvInv, CvBase, CvState, Cv!Preview
<1>3. b = [b EXCEPT !.locked = l]
  BY DEF Cv!Begins, CvInv, CvBase, CvState
<1> HIDE DEF l
<1>4. CvInv(Cv!Noted([b EXCEPT !.locked = l]))
  BY <1>2, CvUsersAsk
<1> QED BY <1>1, <1>3, <1>4

\* the row is saved, and the page is told next
LEMMA CvStoreSavesKept == ASSUME CvInv(cv), Cv!StoreSaves PROVE CvInv(cv')
<1>1. PICK id \in Cv!Ids :
        /\ cv.jobs[id].at = "save"
        /\ \/ cv' = Cv!Ended(cv, id)
           \/ cv' = Cv!At([cv EXCEPT !.stored = @ \cup {cv.jobs[id].v}], id, "list")
           \/ Cv!MayFail /\ cv' = Cv!Ended(Cv!Troubled(cv), id)
  BY DEF Cv!StoreSaves
<1> DEFINE j == cv.jobs[id]
           v == j.v
<1>2. CvBase(cv) /\ CvSettled(cv) /\ 0 \in Cv!Ids /\ cv \in CvState /\ cv.trouble + 1 \in Int
  BY CvIdsAre DEF CvInv, CvState
<1>3. CvJobOK(cv, id) /\ id # 0 /\ v \in Cv!Refs /\ j \in CvJob
  BY <1>1, <1>2 DEF CvBase, CvHolds, CvJobOK, CvShape, CvState
<1>4. ASSUME NEW c, CvSame(c, cv), c.effect = cv.effect, c.gave = cv.gave, cv' = Cv!Ended(c, id)
      PROVE  CvInv(cv')
  <2>1. CvBase(c) /\ c.jobs = cv.jobs
    BY <1>2, <1>4, CvSameKeeps DEF CvSame
  <2>2. /\ CvBase(cv') /\ cv'.jobs = [cv.jobs EXCEPT ![id] = Cv!Idle] /\ cv'.fresh = cv.fresh
        /\ cv'.effect = cv.effect /\ cv'.gave = cv.gave /\ cv'.raw = cv.raw /\ cv'.known = cv.known
    <3>1. c.jobs[id].at # "served" /\ c.jobs[id].at # "list"
      BY <1>1, <2>1
    <3>2. /\ CvBase(cv') /\ cv'.jobs = [c.jobs EXCEPT ![id] = Cv!Idle] /\ cv'.fresh = c.fresh
          /\ cv'.effect = c.effect /\ cv'.gave = c.gave /\ CvStill(cv', c)
      BY <1>4, <2>1, <3>1, CvEndedKeeps
    <3> QED BY <1>4, <3>2 DEF CvSame, CvStill
  <2>3. Cv!Live(cv, 0) => Cv!Live(cv', 0)
    BY <1>2, <1>3, <2>2 DEF Cv!Live, CvState
  <2> QED BY <1>2, <2>2, <2>3, CvSettledKeeps DEF CvInv
<1>5. CASE cv' = Cv!Ended(cv, id)
  BY <1>2, <1>4, <1>5 DEF CvSame, CvStill
<1>6. CASE Cv!MayFail /\ cv' = Cv!Ended(Cv!Troubled(cv), id)
  <2> DEFINE n == cv.trouble + 1
             c == [cv EXCEPT !.trouble = n]
  <2>1. c = Cv!Troubled(cv) /\ n \in Int
    BY <1>2 DEF Cv!Troubled, CvState
  <2> HIDE DEF n
  <2>2. CvSame(c, cv) /\ c.effect = cv.effect /\ c.gave = cv.gave
    BY <1>2, <2>1 DEF CvSame, CvStill, CvState
  <2> HIDE DEF c
  <2> QED BY <1>4, <1>6, <2>1, <2>2
<1>7. CASE cv' = Cv!At([cv EXCEPT !.stored = @ \cup {v}], id, "list")
  <2> DEFINE s == cv.stored \cup {v}
             k == [j EXCEPT !.at = "list"]
  <2>1. cv' = [cv EXCEPT !.stored = s, !.jobs[id] = k] /\ s \in SUBSET Cv!Refs
    BY <1>2, <1>3, <1>7 DEF Cv!At, CvState
  <2>2. k \in CvJob /\ k.at = "list" /\ k.kind = j.kind /\ k.v = v /\ k.left = j.left
    BY <1>3 DEF CvJob, CvPlaces
  <2>9. s = cv.stored \cup {v} /\ j = cv.jobs[id] /\ v = cv.jobs[id].v
    OBVIOUS
  <2> HIDE DEF s, k, v, j
  <2>3. /\ cv' \in CvState /\ cv'.stored = s /\ cv'.known = cv.known /\ cv'.races = cv.races
        /\ cv'.has = cv.has /\ cv'.raw = cv.raw /\ cv'.polls = cv.polls /\ cv'.fresh = cv.fresh
        /\ cv'.ready = cv.ready /\ cv'.wire = cv.wire /\ cv'.used = cv.used
        /\ cv'.speaking = cv.speaking /\ cv'.effect = cv.effect /\ cv'.gave = cv.gave
        /\ cv'.jobs = [cv.jobs EXCEPT ![id] = k] /\ cv'.jobs[id] = k
        /\ \A i \in Cv!Ids : i # id => cv'.jobs[i] = cv.jobs[i]
    BY <1>2, <2>1, <2>2 DEF CvState
  <2>4. CvKept(cv) \subseteq CvKept(cv') /\ v \in CvKept(cv')
    BY <2>3, <2>9 DEF CvKept
  <2>5. CvHolds(cv')
    <3>1. ASSUME NEW i \in Cv!Ids PROVE CvJobOK(cv', i)
      <4>1. CASE i = id
        BY <1>1, <1>3, <2>2, <2>3, <2>4, <2>9, <4>1 DEF CvJobOK, CvShape, CvOwes
      <4>2. CASE i # id
        <5>1. cv'.jobs[i] = cv.jobs[i] /\ CvJobOK(cv, i)
          BY <1>2, <2>3, <4>2 DEF CvBase, CvHolds
        <5> QED BY <2>3, <2>4, <5>1 DEF CvJobOK, CvOwes
      <4> QED BY <4>1, <4>2
    <3>2. ASSUME NEW r \in cv'.wire PROVE CvWireOK(cv', r)
      <4>1. CvWireOK(cv, r) /\ r.id \in Cv!Ids \cup {Cv!Nobody}
        BY <1>2, <2>3 DEF CvBase, CvHolds, CvState, CvRequest
      <4>2. r.id # Cv!Nobody => cv'.jobs[r.id] = cv.jobs[r.id]
        BY <1>1, <2>3, <2>9, <4>1 DEF CvWireOK
      <4> QED BY <2>3, <2>4, <4>1, <4>2 DEF CvWireOK
    <3>3. cv.speaking # Cv!Nobody => cv'.jobs[cv.speaking] = cv.jobs[cv.speaking]
      <4>1. cv.speaking # Cv!Nobody => cv.jobs[cv.speaking].at \in {"speaking", "idle"}
        BY <1>2 DEF CvBase, CvHolds
      <4>2. cv.speaking \in Cv!Ids \cup {Cv!Nobody}
        BY <1>2 DEF CvState
      <4> QED BY <1>1, <2>3, <4>1, <4>2
    <3> QED BY <1>2, <2>3, <2>4, <3>1, <3>2, <3>3 DEF CvBase, CvHolds
  <2>6. CvNoted(cv')
    <3>1. ASSUME NEW w \in Cv!Refs, Cv!Enrolling(cv', w) PROVE Cv!Enrolling(cv, w)
      <4>1. cv'.jobs[0] = cv.jobs[0]
        BY <1>2, <1>3, <2>3
      <4> QED BY <1>1, <2>2, <2>3, <2>9, <3>1, <4>1 DEF Cv!Enrolling, Cv!Live
    <3>2. ASSUME NEW w \in Cv!Refs, Cv!Deleting(cv', w) PROVE Cv!Deleting(cv, w)
      BY <1>1, <2>2, <2>3, <2>9, <3>2 DEF Cv!Deleting, Cv!Live
    <3> QED BY <1>2, <2>3, <3>1, <3>2, CvFewerNoted DEF CvFewer, CvBase
  <2>7. CvListed(cv')
    <3> SUFFICES ASSUME NEW w \in Cv!Refs, (w \in cv'.known) # (w \in cv'.stored)
                 PROVE  \E i \in Cv!Ids : cv'.jobs[i].at = "list" /\ cv'.jobs[i].v = w
                                       /\ (w \notin cv'.stored => cv'.jobs[i].kind = "delete")
      BY DEF CvListed
    <3>1. CASE w = v
      BY <2>2, <2>3, <2>9, <3>1
    <3>2. CASE w # v
      <4>1. (w \in cv.known) # (w \in cv.stored)
        BY <2>3, <2>9, <3>2
      <4>2. PICK i \in Cv!Ids : cv.jobs[i].at = "list" /\ cv.jobs[i].v = w
                             /\ (w \notin cv.stored => cv.jobs[i].kind = "delete")
        BY <1>2, <4>1 DEF CvBase, CvListed
      <4> QED BY <1>1, <2>3, <2>9, <4>2
    <3> QED BY <3>1, <3>2
  <2>8. CvTold(cv') /\ CvSettled(cv')
    <3>1. Cv!Live(cv, 0) => Cv!Live(cv', 0)
      BY <1>2, <1>3, <2>3 DEF Cv!Live
    <3>2. CvSettled(cv')
      BY <1>2, <2>3, <3>1, CvSettledKeeps
    <3> QED BY <1>2, <2>3, <3>2 DEF CvBase, CvTold
  <2> QED BY <1>2, <2>3, <2>5, <2>6, <2>7, <2>8 DEF CvInv, CvBase
<1> QED BY <1>1, <1>5, <1>6, <1>7

\* the page shows what is stored
LEMMA CvListKept == ASSUME CvInv(cv), Cv!List PROVE CvInv(cv')
<1> DEFINE c == [cv EXCEPT !.known = cv.stored, !.effect = TRUE]
<1>1. PICK id \in Cv!Ids :
        /\ cv.jobs[id].at = "list"
        /\ cv' = IF cv.jobs[id].kind = "enroll" THEN Cv!At(c, id, "posted") ELSE Cv!Ended(c, id)
  BY DEF Cv!List
<1>2. CvBase(cv) /\ CvSettled(cv) /\ 0 \in Cv!Ids /\ cv \in CvState
  BY CvIdsAre DEF CvInv
<1>3. /\ c \in CvState /\ c.known = cv.stored /\ c.effect /\ c.stored = cv.stored
      /\ c.races = cv.races /\ c.has = cv.has /\ c.raw = cv.raw /\ c.polls = cv.polls
      /\ c.fresh = cv.fresh /\ c.ready = cv.ready /\ c.wire = cv.wire /\ c.jobs = cv.jobs
      /\ c.used = cv.used /\ c.speaking = cv.speaking
  BY <1>2 DEF CvState
<1> HIDE DEF c
<1>4. CvHolds(c) /\ CvTold(c)
  BY <1>2, <1>3 DEF CvBase, CvHolds, CvJobOK, CvOwes, CvWireOK, CvKept, CvTold
<1>5. CvNoted(c)
  BY <1>2, <1>3 DEF CvBase, CvNoted, Cv!Enrolling, Cv!Deleting, Cv!Live
<1>6. CvListed(c)
  BY <1>3 DEF CvListed
<1>7. CvBase(c)
  BY <1>2, <1>3, <1>4, <1>5, <1>6 DEF CvBase
<1>8. CASE cv.jobs[id].kind = "enroll"
  <2> DEFINE j == c.jobs[id]
             k == [j EXCEPT !.at = "posted"]
  <2>1. j \in CvJob /\ CvJobOK(c, id) /\ j.kind = "enroll" /\ j.at = "list"
    BY <1>1, <1>3, <1>7, <1>8 DEF CvBase, CvHolds, CvState
  <2>2. k.at = "posted" /\ k.kind = j.kind /\ k.v = j.v /\ k.left = j.left
    BY <2>1 DEF CvJob
  <2>3. CvShape(id, c.used, k) /\ CvOwes(c, id, k)
    <3> HIDE DEF k, j
    <3>1. CvShape(id, c.used, j) /\ CvOwes(c, id, j)
      BY <2>1 DEF CvJobOK, j
    <3> QED BY <2>1, <2>2, <3>1 DEF CvShape, CvOwes, CvEnrolling, CvEnrols
  <2>4. CvQuiet(c, id) /\ c.speaking # id
    <3>1. c.speaking # id
      BY <1>2, <1>7, <2>1, CvIdsAre DEF CvBase, CvHolds
    <3> QED BY <1>7, <2>1, <3>1, CvServedOrQuiet
  <2>5. CvBase(Cv!At(c, id, "posted")) /\ Cv!At(c, id, "posted").effect
    <3>1. CvShape(id, c.used, [c.jobs[id] EXCEPT !.at = "posted"])
          /\ CvOwes(c, id, [c.jobs[id] EXCEPT !.at = "posted"])
      BY <2>3
    <3>2. c.jobs[id].at = "list" /\ c.known = c.stored /\ "posted" \in CvPlaces
      BY <1>3, <2>1 DEF CvPlaces
    <3> HIDE DEF j, k
    <3> QED BY <1>3, <1>7, <2>4, <3>1, <3>2, CvAtKeeps
  <2> QED BY <1>1, <1>8, <2>5 DEF CvInv, CvSettled
<1>9. CASE cv.jobs[id].kind # "enroll"
  <2>1. c.jobs[id].at = "list" /\ c.known = c.stored
    BY <1>1, <1>3
  <2>2. CvBase(Cv!Ended(c, id)) /\ Cv!Ended(c, id).effect = c.effect
    BY <1>7, <2>1, CvEndedKeeps
  <2> QED BY <1>1, <1>3, <1>9, <2>2 DEF CvInv, CvSettled
<1> QED BY <1>8, <1>9

\* a job of the user ends
LEMMA CvUsersEnd ==
    ASSUME CvInv(cv), NEW id \in Cv!Ids, id # 0, cv.jobs[id].at \notin {"served", "list"},
           cv' = Cv!Ended(cv, id)
    PROVE  CvInv(cv')
<1>1. CvBase(cv) /\ CvSettled(cv) /\ 0 \in Cv!Ids /\ cv \in CvState
  BY CvIdsAre DEF CvInv
<1>2. /\ CvBase(cv') /\ cv'.jobs = [cv.jobs EXCEPT ![id] = Cv!Idle] /\ cv'.fresh = cv.fresh
      /\ cv'.effect = cv.effect /\ cv'.gave = cv.gave /\ CvStill(cv', cv)
  BY <1>1, CvEndedKeeps
<1>3. Cv!Live(cv, 0) => Cv!Live(cv', 0)
  BY <1>1, <1>2 DEF Cv!Live, CvState
<1> QED BY <1>1, <1>2, <1>3, CvSettledKeeps DEF CvInv, CvStill

LEMMA CvEnrolledKept == ASSUME CvInv(cv), Cv!Enrolled PROVE CvInv(cv')
<1>1. PICK id \in Cv!Ids \ {0} : cv.jobs[id].at \in {"ok", "err"} /\ cv' = Cv!Ended(cv, id)
  BY DEF Cv!Enrolled
<1> QED BY <1>1, CvUsersEnd

\* a job goes on where nothing is changed
LEMMA CvGoesOn ==
    ASSUME NEW c, CvInv(c), NEW id \in Cv!Ids, NEW at \in CvPlaces, at # "idle",
           c.jobs[id].at \notin {"idle", "served", "list"}, c.speaking # id,
           CvShape(id, c.used, [c.jobs[id] EXCEPT !.at = at]),
           CvOwes(c, id, [c.jobs[id] EXCEPT !.at = at])
    PROVE  CvInv(Cv!At(c, id, at))
<1> DEFINE d == Cv!At(c, id, at)
<1>1. CvBase(c) /\ CvSettled(c) /\ 0 \in Cv!Ids /\ c \in CvState
  BY CvIdsAre DEF CvInv
<1>2. CvQuiet(c, id)
  BY <1>1, CvServedOrQuiet
<1>3. /\ CvBase(d) /\ d.jobs = [c.jobs EXCEPT ![id] = [c.jobs[id] EXCEPT !.at = at]]
      /\ d.fresh = c.fresh /\ d.effect = c.effect /\ d.gave = c.gave /\ CvStill(d, c)
  BY <1>1, <1>2, CvAtKeeps DEF CvStill
<1> HIDE DEF d
<1>4. Cv!Live(c, 0) => Cv!Live(d, 0)
  BY <1>1, <1>3 DEF Cv!Live, CvState
<1> QED BY <1>1, <1>3, <1>4, CvSettledKeeps DEF CvInv, CvStill, d

LEMMA CvPreviewEnrolledKept == ASSUME CvInv(cv), Cv!PreviewEnrolled PROVE CvInv(cv')
<1>1. PICK id \in Cv!Ids :
        /\ cv.jobs[id].kind = "preview"
        /\ \/ cv.jobs[id].at = "ok" /\ cv' = Cv!At(cv, id, "ask")
           \/ cv.jobs[id].at = "err" /\ cv' = Cv!Ended(cv, id)
  BY DEF Cv!PreviewEnrolled
<1>2. CvJobOK(cv, id) /\ id # 0 /\ cv.jobs[id] \in CvJob /\ cv \in CvState
  BY <1>1, CvIdsAre DEF CvInv, CvBase, CvHolds, CvJobOK, CvShape, CvState
<1>3. CASE cv.jobs[id].at = "ok" /\ cv' = Cv!At(cv, id, "ask")
  <2> DEFINE k == [cv.jobs[id] EXCEPT !.at = "ask"]
  <2>1. k.at = "ask" /\ k.kind = "preview" /\ k.v = cv.jobs[id].v /\ k.left = cv.jobs[id].left
    BY <1>1, <1>2 DEF CvJob
  <2>4. CvShape(id, cv.used, k) /\ CvOwes(cv, id, k)
    <3> HIDE DEF k
    <3> QED BY <1>1, <1>2, <1>3, <2>1 DEF CvJobOK, CvShape, CvOwes, CvEnrolling, CvEnrols
  <2>5. cv.speaking # id
    BY <1>3, CvIdsAre DEF CvInv, CvBase, CvHolds
  <2>6. "ask" \in CvPlaces /\ cv.jobs[id].at \notin {"idle", "served", "list"}
    BY <1>3 DEF CvPlaces
  <2>7. CvShape(id, cv.used, [cv.jobs[id] EXCEPT !.at = "ask"])
        /\ CvOwes(cv, id, [cv.jobs[id] EXCEPT !.at = "ask"])
    BY <2>4
  <2> HIDE DEF k
  <2> QED BY <1>2, <1>3, <2>5, <2>6, <2>7, CvGoesOn
<1>4. CASE cv.jobs[id].at = "err" /\ cv' = Cv!Ended(cv, id)
  BY <1>2, <1>4, CvUsersEnd
<1> QED BY <1>1, <1>3, <1>4

LEMMA CvTroubledSame ==
    ASSUME NEW c \in CvState
    PROVE  CvSame(Cv!Troubled(c), c) /\ Cv!Troubled(c).effect = c.effect /\ Cv!Troubled(c).gave = c.gave
<1> DEFINE n == c.trouble + 1
           d == [c EXCEPT !.trouble = n]
<1>1. n \in Int /\ Cv!Troubled(c) = d
  BY DEF Cv!Troubled, CvState
<1> HIDE DEF n
<1>2. CvSame(d, c) /\ d.effect = c.effect /\ d.gave = c.gave
  BY <1>1 DEF CvSame, CvStill, CvState
<1> HIDE DEF d
<1> QED BY <1>1, <1>2

LEMMA CvTroubledKeeps ==
    ASSUME NEW c, CvInv(c) PROVE CvInv(Cv!Troubled(c)) /\ Cv!Troubled(c).jobs = c.jobs
<1> DEFINE d == Cv!Troubled(c)
<1>1. CvBase(c) /\ CvSettled(c) /\ c \in CvState
  BY DEF CvInv, CvBase
<1>2. CvSame(d, c) /\ d.effect = c.effect /\ d.gave = c.gave
  BY <1>1, CvTroubledSame
<1> HIDE DEF d
<1>3. CvBase(d)
  BY <1>1, <1>2, CvSameKeeps
<1>4. CvSettled(d)
  BY <1>1, <1>2, CvSettledKeeps DEF CvSame, CvStill, Cv!Live
<1> QED BY <1>2, <1>3, <1>4 DEF CvInv, d, CvSame

\* the rows and a job change, nothing else
CvPlaced(d, c, id, k, s) ==
    /\ d \in CvState /\ d.stored = s /\ d.known = c.known /\ d.races = c.races /\ d.has = c.has
    /\ d.raw = c.raw /\ d.polls = c.polls /\ d.fresh = c.fresh /\ d.ready = c.ready
    /\ d.wire = c.wire /\ d.used = c.used /\ d.speaking = c.speaking /\ d.effect = c.effect
    /\ d.gave = c.gave /\ d.jobs = [c.jobs EXCEPT ![id] = k]

\* the row is deleted; what was enrolled meanwhile is noted
LEMMA CvRowDeletedKeeps ==
    ASSUME CvInv(cv), NEW id \in Cv!Ids, cv.jobs[id].kind = "delete", cv.jobs[id].at = "ok",
           NEW s, s = cv.stored \ {cv.jobs[id].v}, NEW k \in CvJob,
           k.at = "list", k.kind = "delete", k.v = cv.jobs[id].v, k.left = cv.jobs[id].left,
           CvPlaced(cv', cv, id, k, s)
    PROVE  CvInv(cv')
<1> DEFINE j == cv.jobs[id]
           v == j.v
<1>1. CvBase(cv) /\ CvSettled(cv) /\ 0 \in Cv!Ids /\ cv \in CvState
  BY CvIdsAre DEF CvInv
<1>2. CvJobOK(cv, id) /\ id # 0 /\ v \in Cv!Refs /\ j \in CvJob
  BY <1>1 DEF CvBase, CvHolds, CvJobOK, CvShape, CvState
<1>4. k \in CvJob /\ k.at = "list" /\ k.kind = "delete" /\ k.v = v /\ k.left = j.left
  OBVIOUS
<1>5. s = cv.stored \ {v} /\ j = cv.jobs[id] /\ v = cv.jobs[id].v
  OBVIOUS
<1> HIDE DEF v, j
<1>6. /\ cv' \in CvState /\ cv'.stored = s /\ cv'.known = cv.known /\ cv'.races = cv.races
      /\ cv'.has = cv.has /\ cv'.raw = cv.raw /\ cv'.polls = cv.polls /\ cv'.fresh = cv.fresh
      /\ cv'.ready = cv.ready /\ cv'.wire = cv.wire /\ cv'.used = cv.used
      /\ cv'.speaking = cv.speaking /\ cv'.effect = cv.effect /\ cv'.gave = cv.gave
      /\ cv'.jobs = [cv.jobs EXCEPT ![id] = k] /\ cv'.jobs[id] = k
      /\ \A i \in Cv!Ids : i # id => cv'.jobs[i] = cv.jobs[i]
  <2>3. cv.jobs \in [Cv!Ids -> CvJob]
    BY <1>1 DEF CvState
  <2> QED BY <2>3 DEF CvPlaced
<1>7. Cv!Deleting(cv, v)
  BY <1>5 DEF Cv!Deleting, Cv!Live
<1>8. ASSUME NEW w \in Cv!Refs, w \in CvKept(cv), w = v => Cv!Enrolling(cv, v) \/ v \in cv.races
      PROVE  w \in CvKept(cv')
  <2>1. Cv!Enrolling(cv, v) => v \in cv.races
    BY <1>1, <1>2, <1>7 DEF CvBase, CvNoted
  <2> QED BY <1>5, <1>6, <1>8, <2>1 DEF CvKept
<1>9. CvHolds(cv')
  <2>1. cv'.has \subseteq CvKept(cv')
    <3> SUFFICES ASSUME NEW w \in cv.has PROVE w \in CvKept(cv')
      BY <1>6
    <3>1. w \in CvKept(cv) /\ w \in Cv!Refs
      BY <1>1 DEF CvBase, CvHolds, CvKept, CvState
    <3>2. w = v => v \in cv.races
      BY <1>2, <1>5 DEF CvJobOK, CvOwes
    <3> QED BY <1>8, <3>1, <3>2
  <2>2. ASSUME NEW i \in Cv!Ids PROVE CvJobOK(cv', i)
    <3>1. CASE i = id
      <4>1. k.left = {}
        BY <1>2, <1>4, <1>5 DEF CvJobOK, CvShape
      <4>2. CvShape(id, cv.used, k)
        BY <1>2, <1>4, <1>5, <4>1 DEF CvJobOK, CvShape
      <4>3. CvOwes(cv', id, k)
        BY <1>4, <4>1 DEF CvOwes, CvEnrolling, CvEnrols
      <4> QED BY <1>6, <3>1, <4>2, <4>3 DEF CvJobOK
    <3>2. CASE i # id
      <4> DEFINE m == cv.jobs[i]
      <4>1. cv'.jobs[i] = m /\ CvShape(i, cv.used, m) /\ CvOwes(cv, i, m) /\ m \in CvJob
        BY <1>1, <1>6, <3>2 DEF CvBase, CvHolds, CvJobOK, CvState
      <4>2. ASSUME CvEnrolling(m) PROVE m.v \in CvKept(cv')
        <5>1. m.v \in Cv!Refs /\ m.v \in CvKept(cv)
          BY <4>1, <4>2 DEF CvShape, CvOwes, CvEnrolling
        <5>2. Cv!Enrolling(cv, m.v)
          BY <4>2 DEF Cv!Enrolling, CvEnrolling, CvEnrols, Cv!Live
        <5> QED BY <1>8, <5>1, <5>2
      <4>3. m.left \subseteq CvKept(cv')
        <5> SUFFICES ASSUME NEW w \in m.left PROVE w \in CvKept(cv')
          OBVIOUS
        <5>1. i = 0
          BY <4>1 DEF CvShape
        <5>2. Cv!Enrolling(cv, w) /\ w \in Cv!Refs /\ w \in CvKept(cv)
          BY <4>1, <5>1 DEF Cv!Enrolling, CvOwes, CvJob
        <5> QED BY <1>8, <5>2
      <4> HIDE DEF m
      <4>4. CvOwes(cv', i, m)
        BY <1>6, <4>1, <4>2, <4>3 DEF CvOwes
      <4> QED BY <1>6, <4>1, <4>4 DEF CvJobOK
    <3> QED BY <3>1, <3>2
  <2>3. ASSUME NEW r \in cv'.wire PROVE CvWireOK(cv', r)
    <3>1. r \in cv.wire /\ CvWireOK(cv, r) /\ r.id \in Cv!Ids \cup {Cv!Nobody}
      BY <1>1, <1>6 DEF CvBase, CvHolds, CvState, CvRequest
    <3>2. r.id # Cv!Nobody => cv'.jobs[r.id] = cv.jobs[r.id]
      BY <1>5, <1>6, <3>1 DEF CvWireOK
    <3>3. ASSUME r.op = "enroll" PROVE r.v \in CvKept(cv')
      <4>1. Cv!Enrolling(cv, r.v) /\ r.v \in Cv!Refs /\ r.v \in CvKept(cv)
        BY <3>1, <3>3 DEF Cv!Enrolling, CvWireOK
      <4> QED BY <1>8, <4>1
    <3> QED BY <1>6, <3>1, <3>2, <3>3 DEF CvWireOK
  <2>4. cv.speaking # Cv!Nobody => cv'.jobs[cv.speaking] = cv.jobs[cv.speaking]
    <3>1. cv.speaking # Cv!Nobody => cv.jobs[cv.speaking].at \in {"speaking", "idle"}
      BY <1>1 DEF CvBase, CvHolds
    <3>2. cv.speaking \in Cv!Ids \cup {Cv!Nobody}
      BY <1>1 DEF CvState
    <3> QED BY <1>5, <1>6, <3>1, <3>2
  <2> QED BY <1>1, <1>6, <2>1, <2>2, <2>3, <2>4 DEF CvBase, CvHolds
<1>10. CvNoted(cv')
  <2>1. ASSUME NEW w \in Cv!Refs, Cv!Enrolling(cv', w) PROVE Cv!Enrolling(cv, w)
    <3>1. cv'.jobs[0] = cv.jobs[0]
      BY <1>1, <1>2, <1>6
    <3>2. \A i \in Cv!Ids :
            /\ Cv!Live(cv', i) => Cv!Live(cv, i)
            /\ cv'.jobs[i].v = cv.jobs[i].v /\ cv'.jobs[i].kind = cv.jobs[i].kind
      BY <1>4, <1>5, <1>6 DEF Cv!Live
    <3> QED BY <1>6, <2>1, <3>1, <3>2 DEF Cv!Enrolling
  <2>2. ASSUME NEW w \in Cv!Refs, Cv!Deleting(cv', w) PROVE Cv!Deleting(cv, w)
    <3>2. \A i \in Cv!Ids :
            /\ Cv!Live(cv', i) => Cv!Live(cv, i)
            /\ cv'.jobs[i].v = cv.jobs[i].v /\ cv'.jobs[i].kind = cv.jobs[i].kind
      BY <1>4, <1>5, <1>6 DEF Cv!Live
    <3> QED BY <1>6, <2>2, <3>2 DEF Cv!Deleting
  <2> QED BY <1>1, <1>6, <2>1, <2>2, CvFewerNoted DEF CvFewer, CvBase
<1>11. CvListed(cv')
  <2> SUFFICES ASSUME NEW w \in Cv!Refs, (w \in cv'.known) # (w \in cv'.stored)
               PROVE  \E i \in Cv!Ids : cv'.jobs[i].at = "list" /\ cv'.jobs[i].v = w
                                     /\ (w \notin cv'.stored => cv'.jobs[i].kind = "delete")
    BY DEF CvListed
  <2>1. CASE w = v
    BY <1>4, <1>6, <2>1
  <2>2. CASE w # v
    <3>1. (w \in cv.known) # (w \in cv.stored)
      BY <1>5, <1>6, <2>2
    <3>2. PICK i \in Cv!Ids : cv.jobs[i].at = "list" /\ cv.jobs[i].v = w
                           /\ (w \notin cv.stored => cv.jobs[i].kind = "delete")
      BY <1>1, <3>1 DEF CvBase, CvListed
    <3> QED BY <1>5, <1>6, <2>2, <3>2
  <2> QED BY <2>1, <2>2
<1>12. Cv!Live(cv, 0) => Cv!Live(cv', 0)
  BY <1>1, <1>2, <1>6 DEF Cv!Live
<1>13. CvSettled(cv') /\ CvTold(cv')
  <2>1. CvSettled(cv')
    BY <1>1, <1>6, <1>12, CvSettledKeeps
  <2> QED BY <1>1, <1>6, <2>1 DEF CvBase, CvTold
<1> QED BY <1>1, <1>6, <1>9, <1>10, <1>11, <1>13 DEF CvInv, CvBase

LEMMA CvStoreDeletesKept == ASSUME CvInv(cv), Cv!StoreDeletes PROVE CvInv(cv')
<1>1. PICK id \in Cv!Ids :
        /\ cv.jobs[id].kind = "delete"
        /\ \/ cv.jobs[id].at = "ok" /\ cv' = Cv!At([cv EXCEPT !.stored = @ \ {cv.jobs[id].v}], id, "list")
           \/ cv.jobs[id].at = "ok" /\ Cv!MayFail /\ cv' = Cv!At(Cv!Troubled(cv), id, "list")
           \/ cv.jobs[id].at = "err" /\ cv' = Cv!Ended(cv, id)
  BY DEF Cv!StoreDeletes
<1> DEFINE c == Cv!Troubled(cv)
<1>2. CvInv(c) /\ c.jobs = cv.jobs
  BY CvTroubledKeeps
<1> HIDE DEF c
<1>3. CvJobOK(cv, id) /\ id # 0 /\ CvJobOK(c, id) /\ c.jobs[id] \in CvJob /\ c \in CvState /\ CvBase(c)
  BY <1>1, <1>2 DEF CvInv, CvBase, CvHolds, CvJobOK, CvShape, CvState
<1>4. CASE cv.jobs[id].at = "ok" /\ Cv!MayFail /\ cv' = Cv!At(c, id, "list")
  <2> DEFINE k == [c.jobs[id] EXCEPT !.at = "list"]
  <2>1. k.at = "list" /\ k.kind = "delete" /\ k.v = c.jobs[id].v /\ k.left = c.jobs[id].left
    BY <1>1, <1>2, <1>3 DEF CvJob
  <2>2. CvShape(id, c.used, k) /\ CvOwes(c, id, k)
    <3> HIDE DEF k
    <3> QED BY <1>1, <1>2, <1>3, <2>1 DEF CvJobOK, CvShape, CvOwes, CvEnrolling, CvEnrols
  <2>3. c.jobs[id].at = "ok" /\ c.speaking # id
    BY <1>2, <1>3, <1>4, CvIdsAre DEF CvInv, CvBase, CvHolds
  <2>4. CvShape(id, c.used, [c.jobs[id] EXCEPT !.at = "list"])
        /\ CvOwes(c, id, [c.jobs[id] EXCEPT !.at = "list"]) /\ "list" \in CvPlaces
        /\ c.jobs[id].at \notin {"idle", "served", "list"}
    BY <2>2, <2>3 DEF CvPlaces
  <2> HIDE DEF k
  <2> QED BY <1>2, <1>3, <1>4, <2>3, <2>4, CvGoesOn
<1>5. CASE cv.jobs[id].at = "err" /\ cv' = Cv!Ended(cv, id)
  BY <1>3, <1>5, CvUsersEnd
<1>6. CASE cv.jobs[id].at = "ok" /\ cv' = Cv!At([cv EXCEPT !.stored = @ \ {cv.jobs[id].v}], id, "list")
  <2> DEFINE s == cv.stored \ {cv.jobs[id].v}
             k == [cv.jobs[id] EXCEPT !.at = "list"]
  <2>1. cv' = [cv EXCEPT !.stored = s, !.jobs[id] = k]
    BY <1>6 DEF Cv!At, CvInv, CvBase, CvState
  <2>2. /\ s = cv.stored \ {cv.jobs[id].v} /\ k \in CvJob /\ k.at = "list" /\ k.kind = "delete"
        /\ k.v = cv.jobs[id].v /\ k.left = cv.jobs[id].left
    BY <1>1 DEF CvInv, CvBase, CvState, CvJob, CvPlaces
  <2>4. s \in SUBSET Cv!Refs
    BY DEF CvInv, CvBase, CvState
  <2>3. cv.jobs[id].kind = "delete" /\ cv.jobs[id].at = "ok" /\ CvInv(cv) /\ id \in Cv!Ids
    BY <1>1, <1>6
  <2> HIDE DEF s, k
  <2>5. CvPlaced(cv', cv, id, k, s)
    BY <2>1, <2>2, <2>4 DEF CvPlaced, CvInv, CvBase, CvState
  <2> QED BY <2>2, <2>3, <2>5, CvRowDeletedKeeps
<1> QED BY <1>1, <1>4, <1>5, <1>6 DEF c

LEMMA CvHostPreviewsKept == ASSUME CvInv(cv), Cv!HostPreviews PROVE CvInv(cv')
<1>1. PICK id \in Cv!Ids :
        /\ cv.jobs[id].at = "ask"
        /\ \/ cv' = Cv!Ended(cv, id)
           \/ cv' = Cv!At([cv EXCEPT !.speaking = id], id, "speaking")
  BY DEF Cv!HostPreviews
<1>2. CvBase(cv) /\ CvSettled(cv) /\ 0 \in Cv!Ids /\ cv \in CvState
  BY CvIdsAre DEF CvInv
<1>3. CvShape(id, cv.used, cv.jobs[id]) /\ CvOwes(cv, id, cv.jobs[id]) /\ cv.jobs[id] \in CvJob
  BY <1>2 DEF CvBase, CvHolds, CvJobOK, CvState
<1>4. id # 0 /\ cv.jobs[id].kind = "preview" /\ id <= cv.used
  <2>1. id # 0 /\ cv.jobs[id].kind = "preview" /\ ~(id > cv.used)
    BY <1>1, <1>3 DEF CvShape
  <2> QED BY <1>2, <2>1 DEF CvState, Cv!Ids
<1>5. CASE cv' = Cv!At([cv EXCEPT !.speaking = id], id, "speaking")
  <2> DEFINE k == [cv.jobs[id] EXCEPT !.at = "speaking"]
  <2>1. /\ k \in CvJob /\ k.at = "speaking" /\ k.kind = "preview" /\ k.v = cv.jobs[id].v
        /\ k.left = cv.jobs[id].left
    BY <1>3, <1>4 DEF CvJob, CvPlaces
  <2>2. cv' = [cv EXCEPT !.speaking = id, !.jobs[id] = k]
    BY <1>2, <1>5 DEF Cv!At, CvState
  <2> HIDE DEF k
  <2>3. /\ CvStill(cv', cv) /\ cv'.wire = cv.wire /\ cv'.used = cv.used /\ cv'.speaking = id
        /\ cv'.jobs = [cv.jobs EXCEPT ![id] = k] /\ cv'.effect = cv.effect /\ cv'.gave = cv.gave
    BY <1>2, <2>1, <2>2 DEF CvState, CvStill
  <2>4. CvQuiet(cv, id)
    BY <1>1, <1>2, CvServedOrQuiet
  <2>5. CvShape(id, cv.used, k) /\ CvOwes(cv, id, k)
    BY <1>1, <1>3, <1>4, <2>1 DEF CvShape, CvOwes, CvEnrolling, CvEnrols
  <2>6. /\ cv.jobs[id].at # "idle" /\ cv.jobs[id].at # "list"
        /\ (k.kind \in CvEnrols <=> cv.jobs[id].kind \in CvEnrols)
        /\ (k.kind = "delete" <=> cv.jobs[id].kind = "delete") /\ k.left \subseteq cv.jobs[id].left
    BY <1>1, <1>4, <2>1
  <2>7. CvBase(cv')
    BY <1>2, <1>4, <2>1, <2>3, <2>4, <2>5, <2>6, CvJobKeeps
  <2>8. Cv!Live(cv, 0) => Cv!Live(cv', 0)
    BY <1>2, <1>4, <2>3 DEF Cv!Live, CvState
  <2> QED BY <1>2, <2>3, <2>7, <2>8, CvSettledKeeps DEF CvInv, CvStill
<1>6. CASE cv' = Cv!Ended(cv, id)
  BY <1>1, <1>4, <1>6, CvUsersEnd
<1> QED BY <1>1, <1>5, <1>6

LEMMA CvSilentKeeps ==
    ASSUME NEW c, CvInv(c) PROVE CvInv([c EXCEPT !.speaking = Cv!Nobody])
<1> DEFINE n == Cv!Nobody
           d == [c EXCEPT !.speaking = n]
<1>1. CvBase(c) /\ CvSettled(c) /\ c \in CvState /\ n \in Cv!Ids \cup {Cv!Nobody} /\ n = Cv!Nobody
  BY DEF CvInv, CvBase
<1> HIDE DEF n
<1>2. CvSame(d, c) /\ d.effect = c.effect /\ d.gave = c.gave
  BY <1>1 DEF CvSame, CvStill, CvState
<1> HIDE DEF d
<1>3. CvBase(d)
  BY <1>1, <1>2, CvSameKeeps
<1>4. CvSettled(d)
  BY <1>1, <1>2, CvSettledKeeps DEF CvSame, CvStill, Cv!Live
<1> QED BY <1>3, <1>4 DEF CvInv, d, n

LEMMA CvPreviewEndsKept == ASSUME CvInv(cv), Cv!PreviewEnds PROVE CvInv(cv')
<1> DEFINE id == cv.speaking
           c == IF Cv!Live(cv, id) THEN Cv!Ended(cv, id) ELSE cv
<1>1. id # Cv!Nobody /\ cv' = [c EXCEPT !.speaking = Cv!Nobody]
  BY DEF Cv!PreviewEnds
<1>2. CvBase(cv) /\ CvSettled(cv) /\ 0 \in Cv!Ids /\ cv \in CvState
  BY CvIdsAre DEF CvInv
<1>3. id \in Cv!Ids /\ id # 0 /\ cv.jobs[id].at \in {"speaking", "idle"}
  BY <1>1, <1>2 DEF CvBase, CvHolds, CvState
<1>4. CvInv(c)
  <2>1. CASE ~Cv!Live(cv, id)
    BY <2>1
  <2>2. CASE Cv!Live(cv, id)
    <3> HIDE DEF id
    <3> DEFINE e == Cv!Ended(cv, id)
    <3>1. /\ CvBase(e) /\ e.jobs = [cv.jobs EXCEPT ![id] = Cv!Idle] /\ e.fresh = cv.fresh
          /\ e.effect = cv.effect /\ e.gave = cv.gave /\ CvStill(e, cv)
      BY <1>2, <1>3, CvEndedKeeps
    <3> HIDE DEF e
    <3>2. Cv!Live(cv, 0) => Cv!Live(e, 0)
      BY <1>2, <1>3, <3>1 DEF Cv!Live, CvState
    <3>3. CvInv(e)
      BY <1>2, <3>1, <3>2, CvSettledKeeps DEF CvInv, CvStill
    <3> QED BY <2>2, <3>3 DEF e
  <2> QED BY <2>1, <2>2
<1> HIDE DEF c
<1> QED BY <1>1, <1>4, CvSilentKeeps

LEMMA CvDialogClosesKept == ASSUME CvInv(cv), Cv!DialogCloses PROVE CvInv(cv')
<1> DEFINE j == [id \in Cv!Ids |-> IF cv.jobs[id].at \in {"ask", "speaking"} THEN Cv!Idle ELSE cv.jobs[id]]
<1>1. CvBase(cv) /\ CvSettled(cv) /\ 0 \in Cv!Ids /\ cv \in CvState
  BY CvIdsAre DEF CvInv
<1>2. cv' = [cv EXCEPT !.locked = FALSE, !.jobs = j]
  BY DEF Cv!DialogCloses
<1>3. /\ Cv!Idle \in CvJob /\ Cv!Idle.kind = "none" /\ Cv!Idle.at = "idle" /\ Cv!Idle.left = {}
  BY DEF Cv!Idle, CvJob, CvVoice, CvKinds, CvPlaces, Cv!NoVoice
<1>4. ASSUME NEW i \in Cv!Ids
      PROVE  /\ j[i] \in CvJob
             /\ j[i] = cv.jobs[i] \/ (j[i] = Cv!Idle /\ cv.jobs[i].at \in {"ask", "speaking"})
  <2>1. j[i] = IF cv.jobs[i].at \in {"ask", "speaking"} THEN Cv!Idle ELSE cv.jobs[i]
    OBVIOUS
  <2> HIDE DEF j
  <2>2. cv.jobs[i] \in CvJob
    BY <1>1 DEF CvState
  <2> QED BY <1>3, <2>1, <2>2
<1>5. j \in [Cv!Ids -> CvJob]
  BY <1>4
<1> HIDE DEF j
<1>6. /\ CvStill(cv', cv) /\ cv'.wire = cv.wire /\ cv'.jobs = j /\ cv'.used = cv.used
      /\ cv'.speaking = cv.speaking /\ cv'.effect = cv.effect /\ cv'.gave = cv.gave
  BY <1>1, <1>2, <1>5 DEF CvStill, CvState
<1>7. j[0] = cv.jobs[0]
  <2>1. cv.jobs[0].at \notin {"ask", "speaking"}
    BY <1>1 DEF CvBase, CvHolds, CvJobOK, CvShape
  <2> QED BY <1>1, <1>4, <2>1
<1>8. CvHolds(cv')
  <2>1. ASSUME NEW i \in Cv!Ids PROVE CvJobOK(cv', i)
    <3>1. CvJobOK(cv, i)
      BY <1>1 DEF CvBase, CvHolds
    <3>2. CASE j[i] = cv.jobs[i]
      BY <1>6, <3>1, <3>2 DEF CvJobOK, CvOwes, CvKept, CvStill
    <3>3. CASE j[i] = Cv!Idle /\ cv.jobs[i].at \in {"ask", "speaking"}
      <4>1. i # 0
        BY <3>1, <3>3 DEF CvJobOK, CvShape
      <4> QED BY <1>3, <1>6, <3>3, <4>1 DEF CvJobOK, CvShape, CvOwes, CvEnrolling
    <3> QED BY <1>4, <3>2, <3>3
  <2>2. ASSUME NEW r \in cv'.wire PROVE CvWireOK(cv', r)
    <3>1. CvWireOK(cv, r) /\ r.id \in Cv!Ids \cup {Cv!Nobody}
      BY <1>1, <1>6 DEF CvBase, CvHolds, CvState, CvRequest
    <3>2. r.id # Cv!Nobody => cv'.jobs[r.id] = cv.jobs[r.id]
      BY <1>4, <1>6, <3>1 DEF CvWireOK
    <3> QED BY <1>6, <3>1, <3>2 DEF CvWireOK, CvKept, CvStill
  <2>3. cv.speaking # Cv!Nobody => j[cv.speaking].at \in {"speaking", "idle"}
    <3>1. cv.speaking # Cv!Nobody => cv.speaking \in Cv!Ids /\ cv.jobs[cv.speaking].at \in {"speaking", "idle"}
      BY <1>1 DEF CvBase, CvHolds, CvState
    <3> QED BY <1>3, <1>4, <3>1
  <2> QED BY <1>1, <1>6, <2>1, <2>2, <2>3 DEF CvBase, CvHolds, CvKept, CvStill
<1>9. CvNoted(cv')
  <2>1. \A i \in Cv!Ids : Cv!Live(cv', i) => j[i] = cv.jobs[i] /\ Cv!Live(cv, i)
    BY <1>3, <1>4, <1>6 DEF Cv!Live
  <2>2. ASSUME NEW w \in Cv!Refs, Cv!Enrolling(cv', w) PROVE Cv!Enrolling(cv, w)
    BY <1>6, <1>7, <2>1, <2>2 DEF Cv!Enrolling
  <2>3. ASSUME NEW w \in Cv!Refs, Cv!Deleting(cv', w) PROVE Cv!Deleting(cv, w)
    BY <1>6, <2>1, <2>3 DEF Cv!Deleting
  <2> QED BY <1>1, <1>6, <2>2, <2>3, CvFewerNoted DEF CvFewer, CvBase, CvStill
<1>10. CvListed(cv')
  <2> SUFFICES ASSUME NEW w \in Cv!Refs, (w \in cv'.known) # (w \in cv'.stored)
               PROVE  \E i \in Cv!Ids : cv'.jobs[i].at = "list" /\ cv'.jobs[i].v = w
                                     /\ (w \notin cv'.stored => cv'.jobs[i].kind = "delete")
    BY DEF CvListed
  <2>1. (w \in cv.known) # (w \in cv.stored) /\ cv'.stored = cv.stored
    BY <1>6 DEF CvStill
  <2>2. PICK i \in Cv!Ids : cv.jobs[i].at = "list" /\ cv.jobs[i].v = w
                         /\ (w \notin cv.stored => cv.jobs[i].kind = "delete")
    BY <1>1, <2>1 DEF CvBase, CvListed
  <2>3. j[i] = cv.jobs[i]
    BY <1>4, <2>2
  <2> QED BY <1>6, <2>1, <2>2, <2>3
<1>11. CvTold(cv')
  BY <1>1, <1>6 DEF CvBase, CvStill, CvTold
<1>12. CvSettled(cv')
  BY <1>1, <1>6, <1>7, CvSettledKeeps DEF CvStill, Cv!Live
<1> QED BY <1>1, <1>6, <1>8, <1>9, <1>10, <1>11, <1>12 DEF CvInv, CvBase, CvStill

\* only the requests on the wire change
CvWired(d, c, w) ==
    /\ CvStill(d, c) /\ d.jobs = c.jobs /\ d.used = c.used /\ d.speaking = c.speaking
    /\ d.effect = c.effect /\ d.gave = c.gave /\ d.wire = w

\* a request that a job of this moment makes, or made
CvAsked(c, w, q) ==
    /\ q.v \in Cv!Refs
    /\ q.op = "enroll" => q.v \in CvKept(c) /\ Cv!Enrolling(c, q.v)
    /\ q.id # Cv!Nobody =>
         /\ c.jobs[q.id].at = "served" /\ c.jobs[q.id].v = q.v
         /\ q.op = "remove" <=> c.jobs[q.id].kind = "delete"
         /\ \A p \in w : p.id = q.id => p = q

LEMMA CvWireKeeps ==
    ASSUME NEW c, NEW d, NEW w, CvInv(c), CvWired(d, c, w),
           \A q \in w : q \in c.wire \/ CvAsked(c, w, q)
    PROVE  CvInv(d)
<1>1. CvBase(c) /\ CvSettled(c) /\ c \in CvState /\ d \in CvState
  BY DEF CvInv, CvBase, CvWired, CvStill
<1>2. ASSUME NEW q \in w PROVE CvWireOK(d, q)
  <2>1. CASE q \in c.wire
    <3>1. CvWireOK(c, q)
      BY <1>1, <2>1 DEF CvBase, CvHolds
    <3>2. ASSUME q.id # Cv!Nobody, NEW p \in w, p.id = q.id PROVE p = q
      <4>1. CASE p \in c.wire
        BY <3>1, <3>2, <4>1 DEF CvWireOK
      <4>2. CASE CvAsked(c, w, p)
        BY <3>2, <4>2 DEF CvAsked
      <4> QED BY <4>1, <4>2
    <3> QED BY <3>1, <3>2 DEF CvWireOK, CvWired, CvStill, CvKept
  <2>2. CASE CvAsked(c, w, q)
    BY <2>2 DEF CvAsked, CvWireOK, CvWired, CvStill, CvKept
  <2> QED BY <2>1, <2>2
<1>3. CvHolds(d)
  <2>1. \A i \in Cv!Ids : CvJobOK(d, i)
    BY <1>1 DEF CvBase, CvHolds, CvJobOK, CvOwes, CvKept, CvWired, CvStill
  <2> QED BY <1>1, <1>2, <2>1 DEF CvBase, CvHolds, CvKept, CvWired, CvStill
<1>4. CvNoted(d)
  <2>1. ASSUME NEW v \in Cv!Refs, Cv!Enrolling(d, v) PROVE Cv!Enrolling(c, v)
    <3>1. CASE \E r \in w : r.op = "enroll" /\ r.v = v
      BY <3>1 DEF Cv!Enrolling, CvAsked
    <3>2. CASE ~ \E r \in w : r.op = "enroll" /\ r.v = v
      BY <2>1, <3>2 DEF Cv!Enrolling, Cv!Live, CvWired
    <3> QED BY <3>1, <3>2
  <2>2. ASSUME NEW v \in Cv!Refs, Cv!Deleting(d, v) PROVE Cv!Deleting(c, v)
    BY <2>2 DEF Cv!Deleting, Cv!Live, CvWired
  <2> QED BY <1>1, <2>1, <2>2, CvFewerNoted DEF CvFewer, CvBase, CvWired, CvStill
<1>5. CvListed(d) /\ CvTold(d)
  BY <1>1 DEF CvBase, CvListed, CvTold, CvWired, CvStill
<1>6. CvSettled(d)
  BY <1>1, CvSettledKeeps DEF CvWired, CvStill, Cv!Live
<1> QED BY <1>1, <1>3, <1>4, <1>5, <1>6 DEF CvInv, CvBase

LEMMA CvHostTakesKept == ASSUME CvInv(cv), Cv!HostTakes PROVE CvInv(cv')
<1> DEFINE q(id) == [id |-> id, op |-> Cv!Op(id), v |-> cv.jobs[id].v]
<1>1. PICK id \in Cv!Ids :
        /\ cv.jobs[id].at = "posted"
        /\ \/ cv' = Cv!At(cv, id, "err")
           \/ cv' = Cv!At([cv EXCEPT !.busy = id, !.wire = @ \cup {q(id)}], id, "served")
  BY DEF Cv!HostTakes
<1>2. CvBase(cv) /\ CvSettled(cv) /\ 0 \in Cv!Ids /\ cv \in CvState
  BY CvIdsAre DEF CvInv
<1>3. CvShape(id, cv.used, cv.jobs[id]) /\ CvOwes(cv, id, cv.jobs[id]) /\ cv.jobs[id] \in CvJob
      /\ cv.speaking # id
  <2>1. id # Cv!Nobody
    BY <1>2, CvIdsAre
  <2> QED BY <1>1, <1>2, <2>1 DEF CvBase, CvHolds, CvJobOK, CvState
<1>4. ASSUME NEW at \in {"err", "served"}
      PROVE  CvInv(Cv!At(cv, id, at)) /\ Cv!At(cv, id, at).jobs[id].at = at
             /\ Cv!At(cv, id, at) = [cv EXCEPT !.jobs[id] = [cv.jobs[id] EXCEPT !.at = at]]
  <2> DEFINE k == [cv.jobs[id] EXCEPT !.at = at]
  <2>1. k \in CvJob /\ k.at = at /\ k.kind = cv.jobs[id].kind /\ k.v = cv.jobs[id].v
        /\ k.left = cv.jobs[id].left
    BY <1>3, <1>4 DEF CvJob, CvPlaces
  <2>2. CvShape(id, cv.used, k) /\ CvOwes(cv, id, k)
    <3> HIDE DEF k
    <3> QED BY <1>1, <1>3, <1>4, <2>1 DEF CvShape, CvOwes, CvEnrolling, CvEnrols
  <2>3. CvShape(id, cv.used, [cv.jobs[id] EXCEPT !.at = at])
        /\ CvOwes(cv, id, [cv.jobs[id] EXCEPT !.at = at]) /\ at \in CvPlaces /\ at # "idle"
        /\ cv.jobs[id].at \notin {"idle", "served", "list"}
    BY <1>1, <1>4, <2>2 DEF CvPlaces
  <2>4. Cv!At(cv, id, at) = [cv EXCEPT !.jobs[id] = k]
    BY <1>2 DEF Cv!At, CvState
  <2>5. Cv!At(cv, id, at).jobs[id].at = at
    <3> HIDE DEF k
    <3> QED BY <1>2, <2>1, <2>4 DEF CvState
  <2> HIDE DEF k
  <2>6. CvInv(Cv!At(cv, id, at))
    BY <1>3, <2>3, CvGoesOn
  <2> QED BY <2>4, <2>5, <2>6 DEF k
<1>5. CASE cv' = Cv!At(cv, id, "err")
  BY <1>4, <1>5
<1>6. CASE cv' = Cv!At([cv EXCEPT !.busy = id, !.wire = @ \cup {q(id)}], id, "served")
  <2> DEFINE k == [cv.jobs[id] EXCEPT !.at = "served"]
             c == [cv EXCEPT !.jobs[id] = k]
             r == q(id)
             w == cv.wire \cup {r}
  <2>1. CvInv(c)
    BY <1>4
  <2>2. k \in CvJob /\ k.at = "served" /\ k.kind = cv.jobs[id].kind /\ k.v = cv.jobs[id].v
    BY <1>3 DEF CvJob, CvPlaces
  <2>3. cv' = [cv EXCEPT !.busy = id, !.wire = w, !.jobs[id] = k]
    BY <1>2, <1>6 DEF Cv!At, CvState
  <2>4. /\ r \in CvRequest /\ r.id = id /\ r.v = cv.jobs[id].v
        /\ (r.op = "remove" <=> cv.jobs[id].kind = "delete") /\ w = cv.wire \cup {r}
    BY <1>3 DEF Cv!Op, CvRequest, CvJob
  <2> HIDE DEF k, r, w
  <2>5. w \in SUBSET CvRequest
    BY <1>2, <2>4 DEF CvState
  <2>6. /\ c \in CvState /\ c.jobs = [cv.jobs EXCEPT ![id] = k] /\ c.jobs[id] = k /\ c.wire = cv.wire
        /\ CvStill(c, cv)
    BY <1>2, <2>2 DEF CvState, CvStill
  <2>7. CvWired(cv', c, w)
    BY <1>2, <2>2, <2>3, <2>5 DEF CvWired, CvStill, CvState
  <2> HIDE DEF c
  <2>8. CvAsked(c, w, r)
    <3>1. r.v \in Cv!Refs
      BY <1>1, <1>3, <2>4 DEF CvShape
    <3>2. \A p \in w : p.id = r.id => p = r
      <4>1. CvQuiet(cv, id)
        BY <1>1, <1>2, CvServedOrQuiet
      <4> QED BY <2>4, <4>1 DEF CvQuiet
    <3>3. ASSUME r.op = "enroll" PROVE r.v \in CvKept(c) /\ Cv!Enrolling(c, r.v)
      <4>1. cv.jobs[id].kind \in CvEnrols
        BY <1>1, <1>3, <2>4, <3>3 DEF CvShape, CvJob, CvKinds, CvEnrols
      <4>2. r.v \in CvKept(cv)
        BY <1>1, <1>3, <2>4, <4>1 DEF CvOwes, CvEnrolling
      <4>3. Cv!Enrolling(c, r.v)
        BY <2>2, <2>4, <2>6, <4>1 DEF Cv!Enrolling, Cv!Live, CvEnrols
      <4> QED BY <2>6, <4>2, <4>3 DEF CvKept, CvStill
    <3> QED BY <2>2, <2>4, <2>6, <3>1, <3>2, <3>3 DEF CvAsked
  <2> QED BY <2>1, <2>4, <2>6, <2>7, <2>8, CvWireKeeps
<1> QED BY <1>1, <1>5, <1>6

\* a job that was served learns how it went
LEMMA CvServedKeeps ==
    ASSUME NEW c, CvInv(c), NEW id \in Cv!Ids, c.jobs[id].at = "served", CvQuiet(c, id),
           NEW at \in {"ok", "err"},
           at = "ok" => ~c.fresh /\ (c.jobs[id].kind = "delete" => c.jobs[id].v \notin c.has)
    PROVE  CvInv([c EXCEPT !.jobs[id].at = at])
<1> DEFINE k == [c.jobs[id] EXCEPT !.at = at]
           d == [c EXCEPT !.jobs[id] = k]
<1>1. CvBase(c) /\ CvSettled(c) /\ 0 \in Cv!Ids /\ c \in CvState
  BY CvIdsAre DEF CvInv
<1>2. CvShape(id, c.used, c.jobs[id]) /\ CvOwes(c, id, c.jobs[id]) /\ c.jobs[id] \in CvJob
      /\ c.speaking # id
  <2>1. id # Cv!Nobody
    BY <1>1, CvIdsAre
  <2> QED BY <1>1, <2>1 DEF CvBase, CvHolds, CvJobOK, CvState
<1>3. k \in CvJob /\ k.at = at /\ k.kind = c.jobs[id].kind /\ k.v = c.jobs[id].v
      /\ k.left = c.jobs[id].left
  BY <1>2 DEF CvJob, CvPlaces
<1>4. [c EXCEPT !.jobs[id].at = at] = d
  BY <1>1 DEF CvState
<1> HIDE DEF k
<1>5. CvShape(id, c.used, k)
  BY <1>2, <1>3 DEF CvShape
<1>6. CvOwes(c, id, k)
  BY <1>2, <1>3 DEF CvOwes, CvEnrolling, CvEnrols
<1>7. CvStill(d, c) /\ d.wire = c.wire /\ d.used = c.used /\ d.speaking = c.speaking
      /\ d.jobs = [c.jobs EXCEPT ![id] = k] /\ d.effect = c.effect /\ d.gave = c.gave
  BY <1>1, <1>3 DEF CvStill, CvState
<1> HIDE DEF d
<1>8. CvBase(d)
  BY <1>1, <1>2, <1>3, <1>5, <1>6, <1>7, CvJobKeeps
<1>9. Cv!Live(c, 0) => Cv!Live(d, 0)
  BY <1>1, <1>3, <1>7 DEF Cv!Live, CvState
<1>10. CvSettled(d)
  BY <1>1, <1>7, <1>9, CvSettledKeeps DEF CvStill
<1> QED BY <1>4, <1>8, <1>10 DEF CvInv

LEMMA CvIdleHostKeeps ==
    ASSUME NEW c, CvInv(c) PROVE CvInv([c EXCEPT !.busy = Cv!Nobody]) /\ CvSame([c EXCEPT !.busy = Cv!Nobody], c)
<1> DEFINE n == Cv!Nobody
           d == [c EXCEPT !.busy = n]
<1>1. CvBase(c) /\ CvSettled(c) /\ c \in CvState /\ n \in Cv!Ids \cup {Cv!Nobody}
  BY DEF CvInv, CvBase
<1> HIDE DEF n
<1>2. CvSame(d, c) /\ d.effect = c.effect /\ d.gave = c.gave
  BY <1>1 DEF CvSame, CvStill, CvState
<1> HIDE DEF d
<1>3. CvBase(d)
  BY <1>1, <1>2, CvSameKeeps
<1>4. CvSettled(d)
  BY <1>1, <1>2, CvSettledKeeps DEF CvSame, CvStill, Cv!Live
<1> QED BY <1>2, <1>3, <1>4 DEF CvInv, d, n

\* whoever waits for the answer gets it
LEMMA CvRepliedKeeps ==
    ASSUME NEW c, CvInv(c), NEW r, r.id \in Cv!Ids \cup {Cv!Nobody}, NEW at \in {"ok", "err"},
           r.id # Cv!Nobody =>
             /\ c.jobs[r.id].at = "served" /\ CvQuiet(c, r.id)
             /\ at = "ok" /\ c.jobs[r.id].kind = "delete" => c.jobs[r.id].v \notin c.has,
           at = "ok" => ~c.fresh
    PROVE  CvInv(Cv!Replied(c, r, at))
<1>1. CASE r.id = Cv!Nobody
  BY <1>1 DEF Cv!Replied
<1>2. CASE r.id # Cv!Nobody
  <2> DEFINE d == [c EXCEPT !.busy = Cv!Nobody]
  <2>1. CvInv(d) /\ CvSame(d, c)
    BY CvIdleHostKeeps
  <2>2. Cv!Replied(c, r, at) = [d EXCEPT !.jobs[r.id].at = at]
    BY <1>2 DEF Cv!Replied, Cv!At
  <2> HIDE DEF d
  <2>3. d.jobs[r.id].at = "served" /\ CvQuiet(d, r.id) /\ r.id \in Cv!Ids
    BY <1>2, <2>1 DEF CvSame, CvQuiet
  <2>4. at = "ok" => ~d.fresh /\ (d.jobs[r.id].kind = "delete" => d.jobs[r.id].v \notin d.has)
    BY <1>2, <2>1 DEF CvSame, CvStill
  <2>5. CvInv([d EXCEPT !.jobs[r.id].at = at])
    BY <2>1, <2>3, <2>4, CvServedKeeps
  <2> QED BY <2>2, <2>5
<1> QED BY <1>1, <1>2

\* a request is done with
LEMMA CvHandledKeeps ==
    ASSUME CvInv(cv), NEW r \in cv.wire
    PROVE  /\ CvInv(Cv!Handled(r)) /\ CvWired(Cv!Handled(r), cv, cv.wire \ {r})
           /\ CvWireOK(cv, r) /\ r \in CvRequest
           /\ r.id # Cv!Nobody => CvQuiet(Cv!Handled(r), r.id)
<1> DEFINE w == cv.wire \ {r}
           d == [cv EXCEPT !.wire = w]
<1>1. CvBase(cv) /\ cv \in CvState /\ w \in SUBSET CvRequest /\ Cv!Handled(r) = d
  BY DEF CvInv, CvBase, CvState, Cv!Handled
<1>2. CvWireOK(cv, r) /\ r \in CvRequest
  BY <1>1 DEF CvBase, CvHolds, CvState
<1>3. w = cv.wire \ {r}
  OBVIOUS
<1> HIDE DEF w
<1>4. CvWired(d, cv, w)
  BY <1>1 DEF CvWired, CvStill, CvState
<1> HIDE DEF d
<1>5. CvInv(d)
  BY <1>3, <1>4, CvWireKeeps
<1>6. r.id # Cv!Nobody => CvQuiet(d, r.id)
  BY <1>2, <1>3, <1>4 DEF CvWireOK, CvQuiet, CvWired
<1> QED BY <1>1, <1>2, <1>3, <1>4, <1>5, <1>6

\* what the sidecar has changes, and nothing that was said of it stands
CvChanged(d, c, h) ==
    /\ d \in CvState /\ d.stored = c.stored /\ d.known = c.known /\ d.races = c.races
    /\ d.wire = c.wire /\ d.jobs = c.jobs /\ d.used = c.used /\ d.speaking = c.speaking
    /\ d.has = h /\ ~d.fresh /\ \A p \in d.polls : p.old

LEMMA CvChangedKeeps ==
    ASSUME NEW c, NEW d, NEW h, CvInv(c), CvChanged(d, c, h),
           \A v \in h : v \in c.has
                        \/ (v \in Cv!Refs /\ v \in CvKept(c) /\ (Cv!Deleting(c, v) => v \in c.races))
    PROVE  CvInv(d)
<1>1. CvBase(c) /\ c \in CvState /\ d \in CvState
  BY DEF CvInv, CvBase, CvChanged
<1>2. CvHolds(d)
  <2>1. ASSUME NEW i \in Cv!Ids PROVE CvJobOK(d, i)
    <3>1. CvShape(i, c.used, c.jobs[i]) /\ CvOwes(c, i, c.jobs[i])
      BY <1>1 DEF CvBase, CvHolds, CvJobOK
    <3>2. ASSUME c.jobs[i].kind = "delete", c.jobs[i].at = "ok"
          PROVE  c.jobs[i].v \notin h \/ c.jobs[i].v \in c.races
      <4>1. Cv!Deleting(c, c.jobs[i].v)
        BY <3>2 DEF Cv!Deleting, Cv!Live
      <4>2. c.jobs[i].v \notin c.has \/ c.jobs[i].v \in c.races
        BY <3>1, <3>2 DEF CvOwes
      <4> QED BY <4>1, <4>2
    <3> QED BY <3>1, <3>2 DEF CvJobOK, CvOwes, CvKept, CvChanged
  <2>2. \A r \in d.wire : CvWireOK(d, r)
    BY <1>1 DEF CvBase, CvHolds, CvWireOK, CvKept, CvChanged
  <2>3. d.has \subseteq CvKept(d)
    BY <1>1 DEF CvBase, CvHolds, CvKept, CvChanged
  <2> QED BY <1>1, <2>1, <2>2, <2>3 DEF CvBase, CvHolds, CvChanged
<1>3. CvNoted(d) /\ CvListed(d)
  BY <1>1 DEF CvBase, CvNoted, CvListed, Cv!Enrolling, Cv!Deleting, Cv!Live, CvChanged
<1>4. CvTold(d) /\ CvSettled(d)
  BY DEF CvTold, CvSettled, CvChanged
<1> QED BY <1>1, <1>2, <1>3, <1>4 DEF CvInv, CvBase

LEMMA CvHasIs ==
    ASSUME NEW c \in CvState, NEW h \in SUBSET CvVoice
    PROVE  CvChanged(Cv!Has(c, h), c, h) /\ Cv!Has(c, h).ready = c.ready
<1> DEFINE p == {[q EXCEPT !.old = TRUE] : q \in c.polls}
           d == [c EXCEPT !.has = h, !.fresh = FALSE, !.polls = p]
<1>1. Cv!Has(c, h) = d
  BY DEF Cv!Has
<1>2. \A q \in c.polls : [q EXCEPT !.old = TRUE] \in CvAnswer /\ [q EXCEPT !.old = TRUE].old
  BY DEF CvState, CvAnswer
<1>3. p \in SUBSET CvAnswer /\ \A q \in p : q.old
  BY <1>2
<1> HIDE DEF p
<1>4. CvChanged(d, c, h) /\ d.ready = c.ready
  BY <1>3 DEF CvState, CvChanged
<1> QED BY <1>1, <1>4

LEMMA CvHostTimesOutKept == ASSUME CvInv(cv), Cv!HostTimesOut PROVE CvInv(cv')
<1>1. PICK r \in cv.wire :
        /\ cv.busy # Cv!Nobody /\ r.id = cv.busy
        /\ cv' = Cv!At([Cv!Troubled(cv) EXCEPT !.busy = Cv!Nobody,
                       !.wire = (@ \ {r}) \cup {[r EXCEPT !.id = Cv!Nobody]}], r.id, "err")
  BY DEF Cv!HostTimesOut
<1> DEFINE c == Cv!Troubled(cv)
           n == Cv!Nobody
           q == [r EXCEPT !.id = n]
           w == (cv.wire \ {r}) \cup {q}
           d == [c EXCEPT !.busy = n, !.wire = w]
<1>2. CvInv(c) /\ c.jobs = cv.jobs /\ CvSame(c, cv)
  BY CvTroubledKeeps, CvTroubledSame DEF CvInv, CvBase
<1>3. cv' = [d EXCEPT !.jobs[r.id].at = "err"]
  <2>1. c.wire = cv.wire
    BY <1>2 DEF CvSame
  <2> HIDE DEF c
  <2> QED BY <1>1, <2>1 DEF Cv!At, c
<1> HIDE DEF c
<1>4. CvWireOK(cv, r) /\ r \in CvRequest /\ r.id \in Cv!Ids /\ n \in Cv!Ids \cup {Cv!Nobody} /\ n = Cv!Nobody
      /\ cv.wire \in SUBSET CvRequest
  BY <1>1 DEF CvInv, CvBase, CvHolds, CvState, CvRequest
<1> HIDE DEF n
<1>5. q \in CvRequest /\ q.id = Cv!Nobody /\ q.op = r.op /\ q.v = r.v
  BY <1>4 DEF CvRequest
<1>6. w \in SUBSET CvRequest /\ w = (cv.wire \ {r}) \cup {q}
  BY <1>4, <1>5
<1> HIDE DEF q, w
<1>7. CvWired(d, c, w)
  BY <1>2, <1>4, <1>6 DEF CvWired, CvStill, CvState, CvInv, CvBase
<1> HIDE DEF d
<1>8. CvAsked(c, w, q)
  <2>1. r \in c.wire /\ q.v \in Cv!Refs
    BY <1>2, <1>4, <1>5 DEF CvSame, CvWireOK
  <2>2. q.op = "enroll" => q.v \in CvKept(c) /\ Cv!Enrolling(c, q.v)
    BY <1>2, <1>4, <1>5, <2>1 DEF CvWireOK, CvKept, CvSame, CvStill, Cv!Enrolling
  <2> QED BY <1>5, <2>1, <2>2 DEF CvAsked
<1>9. CvInv(d)
  BY <1>2, <1>6, <1>7, <1>8, CvWireKeeps DEF CvSame
<1>10. d.jobs[r.id].at = "served" /\ CvQuiet(d, r.id)
  <2>1. r.id # Cv!Nobody /\ d.jobs = cv.jobs /\ d.wire = w
    BY <1>1, <1>2, <1>7 DEF CvWired
  <2> QED BY <1>4, <1>5, <1>6, <2>1 DEF CvWireOK, CvQuiet
<1>11. CvInv([d EXCEPT !.jobs[r.id].at = "err"])
  <2> DEFINE at == "err"
  <2>1. at \in {"ok", "err"} /\ at # "ok"
    OBVIOUS
  <2> HIDE DEF at
  <2>2. CvInv([d EXCEPT !.jobs[r.id].at = at])
    BY <1>4, <1>9, <1>10, <2>1, CvServedKeeps
  <2> QED BY <2>2 DEF at
<1> QED BY <1>3, <1>11

\* an answer the sidecar gives
LEMMA CvAnswerKeeps ==
    ASSUME CvInv(cv), NEW r \in cv.wire, NEW c, CvInv(c), c.jobs = cv.jobs, c.wire = cv.wire \ {r},
           NEW at \in {"ok", "err"},
           at = "ok" => ~c.fresh /\ (r.op = "remove" => r.v \notin c.has)
    PROVE  CvInv(Cv!Replied(c, r, at))
<1>1. CvWireOK(cv, r) /\ r \in CvRequest
  BY CvHandledKeeps
<1>2. r.id \in Cv!Ids \cup {Cv!Nobody}
  BY <1>1 DEF CvRequest
<1>3. r.id # Cv!Nobody => c.jobs[r.id].at = "served" /\ CvQuiet(c, r.id)
  BY <1>1 DEF CvWireOK, CvQuiet
<1>4. r.id # Cv!Nobody /\ at = "ok" /\ c.jobs[r.id].kind = "delete" => c.jobs[r.id].v \notin c.has
  BY <1>1 DEF CvWireOK
<1> QED BY <1>2, <1>3, <1>4, CvRepliedKeeps

LEMMA CvRefusedKept ==
    ASSUME CvInv(cv), NEW r \in cv.wire
    PROVE  CvInv(Cv!Replied(Cv!Handled(r), r, "err")) /\ CvInv(Cv!Replied(Cv!Troubled(Cv!Handled(r)), r, "err"))
<1> DEFINE h == Cv!Handled(r)
           t == Cv!Troubled(h)
           at == "err"
<1>1. CvInv(h) /\ CvWired(h, cv, cv.wire \ {r})
  BY CvHandledKeeps
<1> HIDE DEF h
<1>2. CvInv(t) /\ CvSame(t, h)
  BY <1>1, CvTroubledKeeps, CvTroubledSame DEF CvInv, CvBase
<1>3. at \in {"ok", "err"} /\ at # "ok"
  OBVIOUS
<1> HIDE DEF t, at
<1>4. CvInv(Cv!Replied(h, r, at))
  BY <1>1, <1>3, CvAnswerKeeps DEF CvWired
<1>5. CvInv(Cv!Replied(t, r, at))
  BY <1>1, <1>2, <1>3, CvAnswerKeeps DEF CvWired, CvSame
<1> QED BY <1>4, <1>5 DEF h, t, at

LEMMA CvSidecarEnrolsKept == ASSUME CvInv(cv), Cv!SidecarEnrols PROVE CvInv(cv')
<1>1. PICK r \in cv.wire :
        /\ r.op = "enroll"
        /\ \/ cv' = Cv!Replied(Cv!Has(Cv!Handled(r), cv.has \cup {r.v}), r, "ok")
           \/ cv' = Cv!Replied(Cv!Handled(r), r, "err")
           \/ cv' = Cv!Replied(Cv!Troubled(Cv!Handled(r)), r, "err")
  BY DEF Cv!SidecarEnrols
<1>2. CASE cv' = Cv!Replied(Cv!Has(Cv!Handled(r), cv.has \cup {r.v}), r, "ok")
  <2> DEFINE h == Cv!Handled(r)
             s == cv.has \cup {r.v}
             c == Cv!Has(h, s)
             at == "ok"
  <2>1. CvInv(h) /\ CvWired(h, cv, cv.wire \ {r}) /\ CvWireOK(cv, r) /\ r \in CvRequest
    BY CvHandledKeeps
  <2>2. h \in CvState /\ s \in SUBSET CvVoice /\ h.jobs = cv.jobs /\ h.wire = cv.wire \ {r}
    BY <2>1 DEF CvInv, CvBase, CvState, CvRequest, CvWired
  <2>3. at = "ok" /\ s = cv.has \cup {r.v}
    OBVIOUS
  <2> HIDE DEF h, s, at
  <2>4. CvChanged(c, h, s)
    BY <2>2, CvHasIs
  <2> HIDE DEF c
  <2>5. r.v \in Cv!Refs /\ r.v \in CvKept(h) /\ (Cv!Deleting(h, r.v) => r.v \in h.races)
    <3>1. r.v \in Cv!Refs /\ r.v \in CvKept(cv) /\ Cv!Enrolling(cv, r.v)
      BY <1>1, <2>1 DEF CvWireOK, Cv!Enrolling
    <3>2. Cv!Deleting(h, r.v) => Cv!Deleting(cv, r.v)
      BY <2>2 DEF Cv!Deleting, Cv!Live
    <3>3. Cv!Deleting(cv, r.v) => r.v \in cv.races
      BY <3>1 DEF CvInv, CvBase, CvNoted
    <3> QED BY <2>1, <3>1, <3>2, <3>3 DEF CvKept, CvWired, CvStill
  <2>6. CvInv(c)
    <3>1. h.has = cv.has
      BY <2>1 DEF CvWired, CvStill
    <3> QED BY <2>1, <2>3, <2>4, <2>5, <3>1, CvChangedKeeps
  <2>7. CvInv(Cv!Replied(c, r, at))
    <3>1. c.jobs = cv.jobs /\ c.wire = cv.wire \ {r} /\ ~c.fresh /\ r.op # "remove" /\ at \in {"ok", "err"}
      BY <1>1, <2>2, <2>3, <2>4 DEF CvChanged
    <3> QED BY <2>6, <3>1, CvAnswerKeeps
  <2> QED BY <1>2, <2>7 DEF c, h, s, at
<1> QED BY <1>1, <1>2, CvRefusedKept

LEMMA CvSidecarRemovesKept == ASSUME CvInv(cv), Cv!SidecarRemoves PROVE CvInv(cv')
<1>1. PICK r \in cv.wire :
        /\ r.op = "remove"
        /\ cv' = IF cv.ready THEN Cv!Replied(Cv!Has(Cv!Handled(r), cv.has \ {r.v}), r, "ok")
                 ELSE Cv!Replied(Cv!Handled(r), r, "err")
  BY DEF Cv!SidecarRemoves
<1>2. CASE cv' = Cv!Replied(Cv!Has(Cv!Handled(r), cv.has \ {r.v}), r, "ok")
  <2> DEFINE h == Cv!Handled(r)
             s == cv.has \ {r.v}
             c == Cv!Has(h, s)
             at == "ok"
  <2>1. CvInv(h) /\ CvWired(h, cv, cv.wire \ {r})
    BY CvHandledKeeps
  <2>2. h \in CvState /\ s \in SUBSET CvVoice /\ h.jobs = cv.jobs /\ h.wire = cv.wire \ {r}
        /\ h.has = cv.has
    BY <2>1 DEF CvInv, CvBase, CvState, CvWired, CvStill
  <2>3. at \in {"ok", "err"} /\ s = cv.has \ {r.v}
    OBVIOUS
  <2> HIDE DEF h, s, at
  <2>4. CvChanged(c, h, s)
    BY <2>2, CvHasIs
  <2> HIDE DEF c
  <2>5. CvInv(c)
    BY <2>1, <2>2, <2>3, <2>4, CvChangedKeeps
  <2>6. CvInv(Cv!Replied(c, r, at))
    <3>1. c.jobs = cv.jobs /\ c.wire = cv.wire \ {r} /\ ~c.fresh /\ r.v \notin c.has
      BY <2>2, <2>3, <2>4 DEF CvChanged
    <3> QED BY <2>3, <2>5, <3>1, CvAnswerKeeps
  <2> QED BY <1>2, <2>6 DEF c, h, s, at
<1>3. CASE cv' = Cv!Replied(Cv!Handled(r), r, "err")
  BY <1>3, CvRefusedKept
<1> QED BY <1>1, <1>2, <1>3

LEMMA CvQwenRetiresKept == ASSUME CvInv(cv), Cv!QwenRetires PROVE CvInv(cv')
<1> DEFINE t == Cv!Troubled(cv)
           h == Cv!Has(t, {})
<1>1. CvInv(t) /\ t \in CvState /\ {} \in SUBSET CvVoice
  BY CvTroubledKeeps DEF CvInv, CvBase
<1>2. cv' = [h EXCEPT !.ready = FALSE]
  BY DEF Cv!QwenRetires
<1> HIDE DEF t
<1>3. CvChanged(h, t, {})
  BY <1>1, CvHasIs
<1> HIDE DEF h
<1>4. CvChanged(cv', t, {})
  BY <1>2, <1>3 DEF CvChanged, CvState
<1> QED BY <1>1, <1>4, CvChangedKeeps

LEMMA CvSidecarRestartsKept == ASSUME CvInv(cv), Cv!SidecarRestarts PROVE CvInv(cv')
<1> DEFINE t == Cv!Troubled(cv)
           h == Cv!Has(t, {})
           w == {}
           n == Cv!Nobody
           j == [id \in Cv!Ids |-> IF cv.jobs[id].at = "served" THEN [cv.jobs[id] EXCEPT !.at = "err"]
                                ELSE cv.jobs[id]]
<1>1. CvInv(t) /\ t \in CvState /\ CvSame(t, cv) /\ {} \in SUBSET CvVoice
  BY CvTroubledKeeps, CvTroubledSame DEF CvInv, CvBase
<1>2. cv' = [h EXCEPT !.ready = TRUE, !.wire = w, !.busy = n, !.jobs = j]
  BY DEF Cv!SidecarRestarts
<1> HIDE DEF t
<1>3. CvChanged(h, t, {})
  BY <1>1, CvHasIs
<1> HIDE DEF h
<1>4. CvInv(h) /\ h \in CvState /\ h.jobs = cv.jobs
  BY <1>1, <1>3, CvChangedKeeps DEF CvChanged, CvSame
<1>5. w \in SUBSET CvRequest /\ n \in Cv!Ids \cup {Cv!Nobody} /\ w = {}
  OBVIOUS
<1> HIDE DEF w, n
<1>6. ASSUME NEW i \in Cv!Ids
      PROVE  /\ j[i] \in CvJob /\ j[i].kind = cv.jobs[i].kind /\ j[i].v = cv.jobs[i].v
             /\ j[i].left = cv.jobs[i].left
             /\ j[i].at = cv.jobs[i].at \/ (cv.jobs[i].at = "served" /\ j[i].at = "err")
  <2> DEFINE m == cv.jobs[i]
             k == [m EXCEPT !.at = "err"]
  <2>1. m \in CvJob
    BY DEF CvInv, CvBase, CvState
  <2>2. k \in CvJob /\ k.at = "err" /\ k.kind = m.kind /\ k.v = m.v /\ k.left = m.left
    BY <2>1 DEF CvJob, CvPlaces
  <2>3. j[i] = IF m.at = "served" THEN k ELSE m
    OBVIOUS
  <2>4. m = cv.jobs[i]
    OBVIOUS
  <2> HIDE DEF j, k, m
  <2> QED BY <2>1, <2>2, <2>3, <2>4
<1>7. j \in [Cv!Ids -> CvJob]
  BY <1>6
<1> HIDE DEF j
<1>9. /\ cv' \in CvState /\ cv'.stored = h.stored /\ cv'.known = h.known /\ cv'.races = h.races
      /\ cv'.has = {} /\ ~cv'.fresh /\ cv'.polls = h.polls /\ cv'.wire = {} /\ cv'.jobs = j
      /\ cv'.used = h.used /\ cv'.speaking = h.speaking
  BY <1>2, <1>3, <1>4, <1>5, <1>7 DEF CvState, CvChanged
<1>10. CvBase(h) /\ 0 \in Cv!Ids
  BY <1>4, CvIdsAre DEF CvInv
<1>11. CvHolds(cv')
  <2>1. ASSUME NEW i \in Cv!Ids PROVE CvJobOK(cv', i)
    <3>1. CvShape(i, h.used, h.jobs[i]) /\ CvOwes(h, i, h.jobs[i]) /\ h.jobs[i] = cv.jobs[i]
      BY <1>4, <1>10 DEF CvBase, CvHolds, CvJobOK
    <3>2. CvShape(i, h.used, j[i])
      BY <1>6, <3>1 DEF CvShape
    <3>3. CvOwes(cv', i, j[i])
      BY <1>6, <1>9, <3>1 DEF CvOwes, CvEnrolling, CvKept
    <3> QED BY <1>9, <3>2, <3>3 DEF CvJobOK
  <2>2. cv'.speaking # Cv!Nobody =>
          cv'.speaking # 0 /\ cv'.speaking <= cv'.used /\ cv'.jobs[cv'.speaking].at \in {"speaking", "idle"}
    <3>1. h.speaking # Cv!Nobody =>
              /\ h.speaking \in Cv!Ids /\ h.speaking # 0 /\ h.speaking <= h.used
              /\ cv.jobs[h.speaking].at \in {"speaking", "idle"}
      BY <1>4, <1>10 DEF CvBase, CvHolds, CvState
    <3> QED BY <1>6, <1>9, <3>1
  <2> QED BY <1>9, <2>1, <2>2 DEF CvHolds
<1>12. CvNoted(cv')
  <2>1. \A i \in Cv!Ids : Cv!Live(cv', i) => Cv!Live(h, i)
    BY <1>4, <1>6, <1>9 DEF Cv!Live
  <2>2. ASSUME NEW v \in Cv!Refs, Cv!Enrolling(cv', v) PROVE Cv!Enrolling(h, v)
    BY <1>4, <1>6, <1>9, <1>10, <2>1, <2>2 DEF Cv!Enrolling
  <2>3. ASSUME NEW v \in Cv!Refs, Cv!Deleting(cv', v) PROVE Cv!Deleting(h, v)
    BY <1>4, <1>6, <1>9, <2>1, <2>3 DEF Cv!Deleting
  <2> QED BY <1>9, <1>10, <2>2, <2>3, CvFewerNoted DEF CvFewer, CvBase
<1>13. CvListed(cv')
  <2> SUFFICES ASSUME NEW v \in Cv!Refs, (v \in cv'.known) # (v \in cv'.stored)
               PROVE  \E i \in Cv!Ids : cv'.jobs[i].at = "list" /\ cv'.jobs[i].v = v
                                     /\ (v \notin cv'.stored => cv'.jobs[i].kind = "delete")
    BY DEF CvListed
  <2>1. (v \in h.known) # (v \in h.stored)
    BY <1>9
  <2>2. PICK i \in Cv!Ids : h.jobs[i].at = "list" /\ h.jobs[i].v = v
                         /\ (v \notin h.stored => h.jobs[i].kind = "delete")
    BY <1>10, <2>1 DEF CvBase, CvListed
  <2> QED BY <1>4, <1>6, <1>9, <2>2
<1>14. CvTold(cv') /\ CvSettled(cv')
  BY <1>3, <1>9 DEF CvTold, CvSettled, CvChanged
<1> QED BY <1>9, <1>10, <1>11, <1>12, <1>13, <1>14 DEF CvInv, CvBase

LEMMA CvNextKept == ASSUME CvInv(cv), Cv!Next PROVE CvInv(cv')
BY CvPollKept, CvOnModelsKept, CvListedKept, CvSyncGoesOnKept, CvSaveVoiceKept, CvStoreSavesKept, CvListKept,
   CvEnrolledKept, CvDeleteVoiceKept, CvStoreDeletesKept, CvRenameVoiceKept, CvPreviewKept, CvPreviewEnrolledKept,
   CvHostPreviewsKept, CvPreviewEndsKept, CvDialogClosesKept, CvHostTakesKept, CvHostTimesOutKept,
   CvSidecarEnrolsKept, CvSidecarRemovesKept, CvSidecarRestartsKept, CvQwenRetiresKept DEF Cv!Next

LEMMA CvInitKept == ASSUME CvJobs \in Nat, Cv!Init PROVE CvInv(cv)
<1>1. PICK s \in SUBSET Cv!Refs :
        cv = [stored |-> s, known |-> s, raw |-> [ready |-> FALSE, has |-> {}],
              polls |-> {}, fresh |-> FALSE, effect |-> FALSE, gave |-> FALSE, locked |-> FALSE,
              jobs |-> [id \in Cv!Ids |-> Cv!Idle], used |-> 0,
              busy |-> Cv!Nobody, speaking |-> Cv!Nobody, wire |-> {},
              ready |-> TRUE, has |-> {}, races |-> {}, trouble |-> 0]
  BY DEF Cv!Init
<1>2. Cv!Idle \in CvJob /\ Cv!Idle.kind = "none" /\ Cv!Idle.at = "idle" /\ Cv!Idle.left = {}
  BY DEF Cv!Idle, CvJob, CvVoice, CvKinds, CvPlaces, Cv!NoVoice
<1> DEFINE j == [id \in Cv!Ids |-> Cv!Idle]
<1>3. j \in [Cv!Ids -> CvJob] /\ \A id \in Cv!Ids : j[id] = Cv!Idle
  BY <1>2
<1>4. 0 \in Cv!Ids
  BY DEF Cv!Ids
<1> HIDE DEF j
<1>5. /\ cv \in CvState /\ cv.stored = s /\ cv.known = s /\ cv.has = {} /\ cv.wire = {} /\ cv.jobs = j
      /\ cv.speaking = Cv!Nobody /\ ~cv.fresh /\ cv.polls = {} /\ cv.used = 0
  <2>1. cv = [stored |-> s, known |-> s, raw |-> [ready |-> FALSE, has |-> {}],
              polls |-> {}, fresh |-> FALSE, effect |-> FALSE, gave |-> FALSE, locked |-> FALSE,
              jobs |-> j, used |-> 0, busy |-> Cv!Nobody, speaking |-> Cv!Nobody, wire |-> {},
              ready |-> TRUE, has |-> {}, races |-> {}, trouble |-> 0]
    BY <1>1 DEF j
  <2>2. cv \in CvState
    BY <1>3, <1>4, <2>1 DEF CvState
  <2> QED BY <2>1, <2>2
<1>6. CvHolds(cv)
  BY <1>2, <1>3, <1>5 DEF CvHolds, CvJobOK, CvShape, CvOwes, CvEnrolling
<1>7. CvNoted(cv) /\ CvListed(cv) /\ CvTold(cv) /\ CvSettled(cv)
  BY <1>2, <1>3, <1>5 DEF CvNoted, CvListed, CvTold, CvSettled, Cv!Deleting, Cv!Live
<1> QED BY <1>5, <1>6, <1>7 DEF CvInv, CvBase

LEMMA CvAgreeHolds == ASSUME CvInv(cv) PROVE Cv!VoicesAgree
<1>1. cv.has \subseteq cv.stored \cup cv.races
  BY DEF CvInv, CvBase, CvHolds, CvKept
<1>2. ASSUME cv.fresh, cv.ready, \A id \in Cv!Ids : ~Cv!Live(cv, id), ~cv.effect, ~cv.gave
      PROVE  cv.stored \subseteq cv.has
  <2>1. 0 \in Cv!Ids /\ cv \in CvState
    BY CvIdsAre DEF CvInv
  <2>2. Cv!Missing(cv) = {} /\ cv.raw.ready /\ cv.raw.has = cv.has
    BY <1>2, <2>1 DEF CvInv, CvBase, CvSettled, CvTold
  <2>3. cv.known \subseteq cv.has
    BY <2>2 DEF Cv!Missing
  <2>4. cv.stored \subseteq cv.known
    <3>1. \A v \in Cv!Refs : (v \in cv.known) # (v \in cv.stored) => \E id \in Cv!Ids : cv.jobs[id].at = "list"
      BY DEF CvInv, CvBase, CvListed
    <3>2. \A id \in Cv!Ids : cv.jobs[id].at = "idle"
      BY <1>2 DEF Cv!Live
    <3> QED BY <2>1, <3>1, <3>2 DEF CvState
  <2> QED BY <2>3, <2>4
<1> QED BY <1>1, <1>2 DEF Cv!VoicesAgree

VoicesPart == IF subject = "cv" THEN CvInv(cv) ELSE cv = Off

(* A deleted voice stays deleted, however the enrolments, removals,         *)
(* timeouts and restarts fall, unless it was enrolled while it was deleted, *)
(* and at rest the sidecar has every stored voice or the last attempt       *)
(* failed (useSettings.ts:148-178, 318-329).                                *)
THEOREM VoicesStayAgreed == ASSUME CvJobs \in Nat PROVE PartsSpec => []VoicesAgree
<1>1. PartsInit => VoicesPart
  BY CvInitKept DEF PartsInit, VoicesPart
<1>2. VoicesPart /\ [PartsNext]_<<vars, parts>> => VoicesPart'
  <2> SUFFICES ASSUME VoicesPart, [PartsNext]_<<vars, parts>> PROVE VoicesPart'
    OBVIOUS
  <2>1. subject' = subject /\ (cv' = cv \/ (subject = "cv" /\ Cv!Next))
    BY StepOfPart
  <2>2. CASE subject = "cv"
    <3>1. CvInv(cv)
      BY <2>2 DEF VoicesPart
    <3>2. CvInv(cv')
      BY <2>1, <2>2, <3>1, CvNextKept
    <3> QED BY <2>1, <2>2, <3>2 DEF VoicesPart
  <2>3. CASE subject # "cv"
    BY <2>1, <2>3 DEF VoicesPart
  <2> QED BY <2>2, <2>3
<1>3. VoicesPart => VoicesAgree
  BY CvAgreeHolds DEF VoicesPart, VoicesAgree
<1> QED BY <1>1, <1>2, <1>3, PTL DEF PartsSpec
=============================================================================
