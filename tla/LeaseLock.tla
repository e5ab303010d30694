------------------------------ MODULE LeaseLock ------------------------------
(***************************************************************************)
(* What the deduplication service promises the workers of a workspace about *)
(* one target, without clocks, rows or messages: a lease is granted at most *)
(* once and only while nobody holds the target, and a contact is recorded   *)
(* as settled only for the lease that holds the target.  TargetLease         *)
(* implements this specification under the mapping stated there.            *)
(***************************************************************************)

CONSTANTS Leases, NoLease

VARIABLES holder,    \* the lease that holds the target, or NoLease
          ever,      \* leases granted so far
          settled    \* leases whose contact is recorded

lockVars == <<holder, ever, settled>>

Init == holder = NoLease /\ ever = {} /\ settled = {}

Acquire(l) == /\ holder = NoLease /\ l \notin ever
              /\ holder' = l
              /\ ever' = ever \cup {l}
              /\ UNCHANGED settled

Release == /\ holder # NoLease
           /\ holder' = NoLease
           /\ UNCHANGED <<ever, settled>>

Settle == /\ holder # NoLease
          /\ settled' = settled \cup {holder}
          /\ UNCHANGED <<holder, ever>>

Next == Release \/ Settle \/ \E l \in Leases : Acquire(l)

Spec == Init /\ [][Next]_lockVars
=============================================================================
