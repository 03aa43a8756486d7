--------------------------- MODULE ResourceLeases ---------------------------
(***************************************************************************)
(* The local stores of the browser are shared by leases                     *)
(* (storage/resource-lifecycle.ts): one open at a time serves every holder,  *)
(* and the last release closes what was opened, one microtask later, so that *)
(* an effect that is set up again at once finds it open.                     *)
(* hooks/useAppStorage.ts holds a lease per effect and keeps references.     *)
(***************************************************************************)
EXTENDS Integers, FiniteSets

CONSTANTS RlLeases, RlOpens     \* bounds on leases and on opens

Holders == 1..RlLeases
Opens == 1..RlOpens
None == 0

VARIABLE rl

\* a lease: held or not, the open it waits for, whether its effect has assigned the references
Init ==
    rl = [lease |-> [h \in Holders |-> [at |-> "none", of |-> None, owns |-> FALSE]],
          status |-> [o \in Opens |-> "none"], pending |-> None, resource |-> None,
          scheduled |-> FALSE, waiters |-> {}, ref |-> None]

Held(r) == {h \in Holders : r.lease[h].at = "held"}
Fresh(r) == {o \in Opens : r.status[o] = "none"}

\* acquireResource: what is open or being opened is shared
AcquireResource(r) ==
    IF r.pending # None THEN {[r |-> r, of |-> r.pending]}
    ELSE {[r |-> [r EXCEPT !.pending = o, !.status[o] = "opening"], of |-> o]
          : o \in {o \in Fresh(r) : \A p \in Fresh(r) : o <= p}}

Acquire ==
    \E h \in Holders, a \in AcquireResource(rl) :
        /\ rl.lease[h].at = "none" /\ \A g \in 1..h - 1 : rl.lease[g].at # "none"
        /\ rl' = [a.r EXCEPT !.lease[h] = [at |-> "held", of |-> a.of, owns |-> FALSE]]

Opened ==
    \E o \in Opens :
        /\ rl.status[o] = "opening"
        /\ \/ rl' = [rl EXCEPT !.status[o] = "open",
                               !.resource = IF rl.pending = o THEN o ELSE @]
           \/ rl' = [rl EXCEPT !.status[o] = "failed",
                               !.pending = IF @ = o THEN None ELSE @]

\* the effect takes what it waited for, if it is still the holder
Assign ==
    \E h \in Held(rl) :
        /\ rl.status[rl.lease[h].of] # "opening" /\ ~rl.lease[h].owns
        /\ rl.status[rl.lease[h].of] # "failed"
        /\ rl' = [rl EXCEPT !.lease[h].owns = TRUE, !.ref = rl.lease[h].of]

\* the last release schedules the close and clears the references
Release ==
    \E h \in Held(rl) :
        LET l == rl.lease[h]
            last == Held(rl) = {h}
            released == [rl EXCEPT !.lease[h].at = "released"]
        IN  rl' = IF last
                  THEN [released EXCEPT !.scheduled = TRUE,
                            !.ref = IF ~l.owns \/ @ = l.of THEN None ELSE @]
                  ELSE released

CloseResource(r) ==
    IF r.resource = None THEN r
    ELSE [r EXCEPT !.status[r.resource] = "closed", !.resource = None, !.pending = None]

\* mutant: closes although somebody holds a lease again
MutantScheduleClose(r) ==
    IF r.resource # None THEN CloseResource(r)
    ELSE IF r.pending # None THEN [r EXCEPT !.waiters = @ \cup {r.pending}]
    ELSE r

\* scheduleClose: its microtask
ScheduleClose(r) ==
    IF Held(r) # {} THEN r
    ELSE IF r.resource # None THEN CloseResource(r)
    ELSE IF r.pending # None THEN [r EXCEPT !.waiters = @ \cup {r.pending}]
    ELSE r

Microtask ==
    /\ rl.scheduled
    /\ rl' = [ScheduleClose(rl) EXCEPT !.scheduled = FALSE]

\* an open that nobody waits for any more has ended
OpenedUnused ==
    \E o \in rl.waiters :
        /\ rl.status[o] # "opening"
        /\ LET r == [rl EXCEPT !.waiters = @ \ {o}]
           IN  rl' = IF Held(r) = {} /\ r.pending = o
                     THEN IF r.status[o] = "failed" THEN [r EXCEPT !.pending = None] ELSE CloseResource(r)
                     ELSE r

Next == Acquire \/ Opened \/ Assign \/ Release \/ Microtask \/ OpenedUnused
Spec == Init /\ [][Next]_rl

-----------------------------------------------------------------------------
(* Nobody holds a lease on stores that were closed, the references never     *)
(* name closed stores, and when nobody holds a lease and nothing is under    *)
(* way no stores are left open (resource-lifecycle.ts:12-53,                 *)
(* useAppStorage.ts:93-100).                                                *)
LeaseHolds ==
    /\ \A h \in Held(rl) : rl.status[rl.lease[h].of] # "closed"
    /\ rl.ref # None => rl.status[rl.ref] = "open"
    /\ (Held(rl) = {} /\ ~rl.scheduled /\ rl.waiters = {})
           => \A o \in Opens : rl.status[o] \notin {"open", "opening"}
=============================================================================
