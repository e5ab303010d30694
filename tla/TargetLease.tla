----------------------------- MODULE TargetLease -----------------------------
(***************************************************************************)
(* The outreach lease of one target in one workspace: the row the server    *)
(* keeps for it (server/dedup_api.py), the HTTP client of a worker           *)
(* (agent/cloud_dedup.py) and the part of the automation engine that claims  *)
(* a target, follows it and confirms (agent/x_automation_engine.py).         *)
(*                                                                         *)
(* A worker is the engine of one account.  Every attempt has a lease id of   *)
(* its own (uuid4), written <<worker, attempt>>.  Statements name the        *)
(* workspace and the target, so the rows of other targets never matter.      *)
(***************************************************************************)
EXTENDS Integers, FiniteSets

CONSTANTS Workers,
          Classic,      \* workers whose chain hop runs without the scout filter
          MaxAttempts,  \* bound: sessions in which a worker meets the target
          ClaimTTL,     \* CLAIM_TTL_MINUTES, in ticks of the clock
          ConfirmTTL,   \* CONFIRM_TTL_DAYS, in ticks
          PruneAfter,   \* age of an expired row the maintenance deletes
          MaxTime,      \* bound: the clock stops there
          RowLocks,     \* TRUE: SELECT ... FOR UPDATE locks (PostgreSQL)
          NoLease

Leases == Workers \X (1..MaxAttempts)

ASSUME LeaseAssumption ==
    /\ Classic \subseteq Workers
    /\ MaxAttempts \in Nat
    /\ ClaimTTL \in Nat \ {0} /\ ConfirmTTL \in Nat /\ ClaimTTL <= ConfirmTTL
    /\ PruneAfter \in Nat /\ MaxTime \in Nat
    /\ RowLocks \in BOOLEAN
    /\ NoLease \notin Leases

VARIABLES
    now,       \* the database clock
    row,       \* the row of the target: status, lease and expiry
    lock,      \* lease of the confirmation that has locked the row, or NoLease
    net,       \* requests the server has not finished
    pc,        \* where each worker stands
    tries,     \* attempts each worker has made
    kind,      \* why the worker believes it may visit the target
    reply,     \* answer that waits for the worker
    visited,   \* the worker's account has the target in its history pool
    granted,   \* leases the server has committed (ghost)
    grantAt, termEnd,  \* when a granted lease starts and ends (ghost)
    confirmed, \* leases the server has confirmed (ghost)
    follows    \* the follows that reached X (ghost)

serverVars == <<row, lock, net>>
workerVars == <<pc, tries, kind, reply, visited>>
termVars   == <<granted, grantAt, termEnd, confirmed>>
vars == <<now, serverVars, workerVars, termVars, follows>>

NoRow == [status |-> "NONE", lease |-> NoLease, expires |-> 0]
Rows == [status : {"NONE", "CLAIMED", "CONFIRMED"}, lease : Leases \cup {NoLease}, expires : Nat]

Request(op, l) == [op |-> op, lease |-> l, stage |-> "sent", stamp |-> 0]
Requests == [op : {"claim", "confirm"}, lease : Leases, stage : {"sent", "read"}, stamp : Nat]

Kinds == {"granted", "failopen", "unclaimed"}
Follows == [lease : Leases, at : Nat, kind : Kinds, inTerm : BOOLEAN]

TypeOK ==
    /\ now \in Nat
    /\ row \in Rows
    /\ lock \in Leases \cup {NoLease}
    /\ net \in SUBSET Requests
    /\ pc \in [Workers -> {"idle", "claiming", "visiting", "contacted", "confirming"}]
    /\ tries \in [Workers -> 0..MaxAttempts]
    /\ kind \in [Workers -> Kinds]
    /\ reply \in [Workers -> {"none", "yes", "no", "error"}]
    /\ visited \in [Workers -> BOOLEAN]
    /\ granted \in SUBSET Leases
    /\ grantAt \in [Leases -> Nat]
    /\ termEnd \in [Leases -> Nat]
    /\ confirmed \in SUBSET Leases
    /\ follows \in SUBSET Follows

Init ==
    /\ now = 0
    /\ row = NoRow /\ lock = NoLease /\ net = {}
    /\ pc = [w \in Workers |-> "idle"]
    /\ tries = [w \in Workers |-> 0]
    /\ kind = [w \in Workers |-> "unclaimed"]
    /\ reply = [w \in Workers |-> "none"]
    /\ visited = [w \in Workers |-> FALSE]
    /\ granted = {} /\ confirmed = {}
    /\ grantAt = [l \in Leases |-> 0]
    /\ termEnd = [l \in Leases |-> 0]
    /\ follows = {}

Current(w) == <<w, tries[w]>>

-----------------------------------------------------------------------------
(* The server.  A claim is one conditional upsert; a confirmation reads the  *)
(* row, checks it and writes it, under a row lock where there is one.        *)

Unlocked == lock = NoLease

\* Nobody may be waiting for the answer any more.
Awaited(q) == /\ q.lease = Current(q.lease[1])
              /\ pc[q.lease[1]] = IF q.op = "claim" THEN "claiming" ELSE "confirming"

Answer(q, r) == reply' = IF Awaited(q) THEN [reply EXCEPT ![q.lease[1]] = r] ELSE reply

\* Mutant of Free: the upsert ignores the expiry of a confirmed row.
FreeUnlessClaimed == row.status # "CLAIMED" \/ row.expires <= now

\* The upsert wins when there is no row or the row has expired.
Free == row.status = "NONE" \/ row.expires <= now

SameAttempt(l) == row.status = "CLAIMED" /\ row.lease = l /\ row.expires > now

ClaimTarget(q) ==
    /\ q.op = "claim" /\ Unlocked
    /\ net' = net \ {q}
    /\ IF Free
       THEN /\ row' = [status |-> "CLAIMED", lease |-> q.lease, expires |-> now + ClaimTTL]
            /\ granted' = granted \cup {q.lease}
            /\ grantAt' = [grantAt EXCEPT ![q.lease] = now]
            /\ termEnd' = [termEnd EXCEPT ![q.lease] = now + ClaimTTL]
            /\ Answer(q, "yes")
       ELSE /\ Answer(q, IF SameAttempt(q.lease) THEN "yes" ELSE "no")
            /\ UNCHANGED <<row, granted, grantAt, termEnd>>
    /\ UNCHANGED <<now, lock, pc, tries, kind, visited, confirmed, follows>>

\* Mutant of Confirmable: the lease of the row is not compared.
ConfirmableByAnyone(q) == row.status = "CLAIMED" /\ row.expires > now

\* The confirmation finds its own claim, not yet expired.
Confirmable(q) == row.status = "CLAIMED" /\ row.lease = q.lease /\ row.expires > now

\* The request whose check has passed at this moment.
Checked(q) == [op |-> "confirm", lease |-> q.lease, stage |-> "read", stamp |-> now]

ConfirmRead(q) ==
    /\ q.op = "confirm" /\ q.stage = "sent" /\ Unlocked
    /\ IF Confirmable(q)
       THEN /\ net' = (net \ {q}) \cup {Checked(q)}
            /\ lock' = IF RowLocks THEN q.lease ELSE NoLease
            /\ UNCHANGED reply
       ELSE /\ net' = net \ {q}
            /\ Answer(q, IF row.status = "CONFIRMED" /\ row.lease = q.lease THEN "yes" ELSE "no")
            /\ UNCHANGED lock
    /\ UNCHANGED <<now, row, pc, tries, kind, visited, termVars, follows>>

\* UPDATE ... WHERE id: whatever the row holds by now is confirmed.
ConfirmWrite(q) ==
    /\ q.stage = "read"
    /\ net' = net \ {q}
    /\ lock' = IF RowLocks THEN NoLease ELSE lock
    /\ row' = IF row.status = "NONE" THEN row
              ELSE [status |-> "CONFIRMED", lease |-> row.lease, expires |-> q.stamp + ConfirmTTL]
    /\ confirmed' = confirmed \cup {q.lease}
    /\ termEnd' = [termEnd EXCEPT ![q.lease] = q.stamp + ConfirmTTL]
    /\ Answer(q, "yes")
    /\ UNCHANGED <<now, pc, tries, kind, visited, granted, grantAt, follows>>

\* A lock or statement timeout, or any other error: the transaction is rolled back.
RequestFails(q) ==
    /\ net' = net \ {q}
    /\ lock' = IF q.stage = "read" /\ RowLocks THEN NoLease ELSE lock
    /\ Answer(q, "error")
    /\ UNCHANGED <<now, row, pc, tries, kind, visited, termVars, follows>>

Prune ==
    /\ row.status # "NONE" /\ row.expires + PruneAfter < now /\ Unlocked
    /\ row' = NoRow
    /\ UNCHANGED <<now, lock, net, workerVars, termVars, follows>>

-----------------------------------------------------------------------------
(* The worker.  It may be paused, for any time, wherever it stands.          *)

Followed(w) == \E f \in follows : f.lease[1] = w

Claim(w) ==
    /\ pc[w] = "idle" /\ ~visited[w] /\ tries[w] < MaxAttempts
    /\ tries' = [tries EXCEPT ![w] = @ + 1]
    /\ net' = net \cup {Request("claim", <<w, tries[w] + 1>>)}
    /\ pc' = [pc EXCEPT ![w] = "claiming"]
    /\ UNCHANGED <<now, row, lock, kind, reply, visited, termVars, follows>>

\* The classic chain hop goes to a candidate without claiming it.
HopWithoutClaim(w) ==
    /\ w \in Classic
    /\ pc[w] = "idle" /\ ~visited[w] /\ tries[w] < MaxAttempts
    /\ tries' = [tries EXCEPT ![w] = @ + 1]
    /\ kind' = [kind EXCEPT ![w] = "unclaimed"]
    /\ pc' = [pc EXCEPT ![w] = "visiting"]
    /\ UNCHANGED <<now, serverVars, reply, visited, termVars, follows>>

ClaimAnswered(w) ==
    /\ pc[w] = "claiming" /\ reply[w] # "none"
    /\ reply' = [reply EXCEPT ![w] = "none"]
    /\ pc' = [pc EXCEPT ![w] = IF reply[w] = "no" THEN "idle" ELSE "visiting"]
    /\ kind' = [kind EXCEPT ![w] = IF reply[w] = "yes" THEN "granted" ELSE "failopen"]
    /\ UNCHANGED <<now, serverVars, tries, visited, termVars, follows>>

\* No answer within 0.8 s counts as allowed; the server may still commit the claim.
ClaimTimesOut(w) ==
    /\ pc[w] = "claiming"
    /\ reply' = [reply EXCEPT ![w] = "none"]
    /\ pc' = [pc EXCEPT ![w] = "visiting"]
    /\ kind' = [kind EXCEPT ![w] = "failopen"]
    /\ UNCHANGED <<now, serverVars, tries, visited, termVars, follows>>

InTerm(w) == Current(w) \in granted /\ now < termEnd[Current(w)]

\* The click reaches X; only a verified one is remembered.  It is confirmed then, or
\* because posts were liked too.  An account that follows already is not offered the
\* button again.
Follow(w) ==
    /\ pc[w] = "visiting" /\ ~Followed(w)
    /\ follows' = follows \cup {[lease |-> Current(w), at |-> now,
                                 kind |-> kind[w], inTerm |-> InTerm(w)]}
    /\ \E verified, liked \in BOOLEAN :
         /\ pc' = [pc EXCEPT ![w] = IF verified \/ liked THEN "contacted" ELSE "idle"]
         /\ visited' = [visited EXCEPT ![w] = verified]
    /\ UNCHANGED <<now, serverVars, tries, kind, reply, termVars>>

\* The batch over a creator's followers also confirms a target whose posts it only liked.
OnlyLike(w) ==
    /\ pc[w] = "visiting"
    /\ pc' = [pc EXCEPT ![w] = "contacted"]
    /\ UNCHANGED <<now, serverVars, tries, kind, reply, visited, termVars, follows>>

\* The hover card shows that the account follows the target already.
AlreadyFollowing(w) ==
    /\ pc[w] = "visiting"
    /\ pc' = [pc EXCEPT ![w] = "idle"]
    /\ visited' = [visited EXCEPT ![w] = TRUE]
    /\ UNCHANGED <<now, serverVars, tries, kind, reply, termVars, follows>>

\* The profile cannot be opened, the account is filtered or the safety policy
\* refuses; or the run is stopped, or its process ends, before or after the follow.
Abandon(w) ==
    /\ pc[w] \in {"visiting", "contacted"}
    /\ pc' = [pc EXCEPT ![w] = "idle"]
    /\ UNCHANGED <<now, serverVars, tries, kind, reply, visited, termVars, follows>>

\* Without a lease in _active_target_leases nothing is sent.
Confirm(w) ==
    /\ pc[w] = "contacted"
    /\ IF kind[w] = "unclaimed"
       THEN /\ pc' = [pc EXCEPT ![w] = "idle"]
            /\ UNCHANGED net
       ELSE /\ pc' = [pc EXCEPT ![w] = "confirming"]
            /\ net' = net \cup {Request("confirm", Current(w))}
    /\ UNCHANGED <<now, row, lock, tries, kind, reply, visited, termVars, follows>>

\* Answered or not, the worker goes on and never asks again.
ConfirmEnds(w) ==
    /\ pc[w] = "confirming"
    /\ pc' = [pc EXCEPT ![w] = "idle"]
    /\ reply' = [reply EXCEPT ![w] = "none"]
    /\ UNCHANGED <<now, serverVars, tries, kind, visited, termVars, follows>>

-----------------------------------------------------------------------------
\* A transaction is shorter than the retention it starts.
Tick == /\ now < MaxTime
        /\ \A q \in net : q.stage = "read" => now + 1 < q.stamp + ConfirmTTL
        /\ now' = now + 1
        /\ UNCHANGED <<serverVars, workerVars, termVars, follows>>

Server == \/ \E q \in net : ClaimTarget(q) \/ ConfirmRead(q) \/ ConfirmWrite(q) \/ RequestFails(q)
          \/ Prune

Worker == \E w \in Workers : \/ Claim(w) \/ HopWithoutClaim(w) \/ ClaimAnswered(w)
                             \/ ClaimTimesOut(w) \/ Follow(w) \/ OnlyLike(w)
                             \/ AlreadyFollowing(w) \/ Abandon(w)
                             \/ Confirm(w) \/ ConfirmEnds(w)

Next == Server \/ Worker \/ Tick

Spec == Init /\ [][Next]_vars

-----------------------------------------------------------------------------
(* Properties. *)

Holder == IF row.status # "NONE" /\ (row.expires > now \/ lock # NoLease)
          THEN row.lease ELSE NoLease

Promise == INSTANCE LeaseLock WITH holder <- Holder, ever <- granted, settled <- confirmed

\* The row, its expiry and its maintenance implement an exclusive lease: a claim
\* that comes late, is repeated or meets an expired row never takes the target
\* from its holder, and no confirmation is recorded for a lease that has lost it.
ImplementsLeaseLock == Promise!Spec

\* A worker has issued the lease.
Issued(l) == l[2] <= tries[l[1]]

\* The inductive invariant, part one: every request is made once, a claim on its
\* way has not been granted, and a confirmation past its check owns the row.
OwnsRow(q) ==
    /\ lock = q.lease
    /\ row.status = "CLAIMED" /\ row.lease = q.lease
    /\ q.lease \in granted /\ grantAt[q.lease] <= q.stamp
    /\ q.stamp <= now /\ now < q.stamp + ConfirmTTL
    /\ \A f \in follows : f.lease = q.lease => f.at <= q.stamp

NetInv ==
    /\ \A q \in net : /\ Issued(q.lease)
                      /\ q.op = "claim" => q.stage = "sent" /\ q.lease \notin granted
                      /\ q.stage = "read" => OwnsRow(q)
    /\ \A q, r \in net : q.op = r.op /\ q.lease = r.lease => q = r

\* Part two: the row belongs to the latest lease, and the terms of two leases
\* never overlap.
RowInv ==
    /\ row.status # "NONE" => row.lease \in granted /\ row.expires = termEnd[row.lease]
    /\ row.status = "CLAIMED" => row.expires = grantAt[row.lease] + ClaimTTL
    /\ granted \subseteq {l \in Leases : Issued(l)} /\ confirmed \subseteq granted
    /\ \A l \in granted :
         /\ grantAt[l] <= now
         /\ row.status = "NONE" \/ l # row.lease => termEnd[l] <= now
         /\ row.status # "NONE" /\ l # row.lease => termEnd[l] <= grantAt[row.lease]
    /\ \A l, m \in granted : l # m => termEnd[l] <= grantAt[m] \/ termEnd[m] <= grantAt[l]

\* Part three: what a follow was based on is still true of its lease.
FollowInv ==
    \A f \in follows :
        /\ f.at <= now /\ Issued(f.lease)
        /\ f.kind = "granted" => f.lease \in granted /\ grantAt[f.lease] <= f.at
        /\ f.inTerm => f.lease \in granted /\ f.at < termEnd[f.lease]
        /\ f.lease \in confirmed => f.at + ConfirmTTL <= termEnd[f.lease]

\* Part four: no confirmation precedes the follow, and a worker that was told
\* "allowed" has a committed lease.
WorkerInv ==
    \A w \in Workers :
        /\ pc[w] # "idle" => tries[w] # 0
        /\ pc[w] \notin {"claiming", "confirming"} => reply[w] = "none"
        /\ pc[w] = "claiming" /\ reply[w] = "yes" => Current(w) \in granted
        /\ pc[w] = "visiting" /\ kind[w] = "granted" => Current(w) \in granted
        /\ pc[w] \in {"claiming", "visiting", "contacted"} =>
             /\ Current(w) \notin confirmed
             /\ \A q \in net : ~(q.op = "confirm" /\ q.lease = Current(w))

\* TypeOK and the four parts together are inductive, if confirmations lock the row.
LeaseInv == TypeOK /\ NetInv /\ RowInv /\ FollowInv /\ WorkerInv

\* A follow for which the server had granted the target and the grant still ran.
Covered(f) == f.kind = "granted" /\ f.inTerm

\* Two accounts never contact one target within the retention period when the
\* first contact was granted and confirmed and the second had a running grant:
\* whatever else was delayed, lost or paused, only a fail-open claim, an unclaimed
\* hop, an expired claim or a lost confirmation lets them collide.
ConfirmedContactIsKept ==
    \A e, f \in follows :
        (e.lease[1] # f.lease[1] /\ e.at <= f.at /\ e.kind = "granted" /\ e.lease \in confirmed /\ Covered(f))
            => f.at >= e.at + ConfirmTTL
=============================================================================
