-------------------------- MODULE TargetLeaseProofs --------------------------
(***************************************************************************)
(* Proofs about TargetLease, for any workers, any number of attempts and any *)
(* terms, where confirmations lock the row (PostgreSQL).                     *)
(***************************************************************************)
EXTENDS TargetLease, TLAPS

USE LeaseAssumption DEF vars, serverVars, workerVars, termVars

-----------------------------------------------------------------------------
(* Types. *)

LEMMA LeaseTypes ==
    /\ \A l \in Leases : l[1] \in Workers /\ l[2] \in 1..MaxAttempts /\ l # NoLease
                         /\ l = <<l[1], l[2]>>
    /\ \A op \in {"claim", "confirm"}, l \in Leases : Request(op, l) \in Requests
    /\ NoRow \in Rows
<1>1. \A l \in Leases : l[1] \in Workers /\ l[2] \in 1..MaxAttempts /\ l # NoLease /\ l = <<l[1], l[2]>>
  BY DEF Leases
<1>2. \A op \in {"claim", "confirm"}, l \in Leases : Request(op, l) \in Requests
  BY DEF Request, Requests
<1>3. NoRow \in Rows
  BY DEF NoRow, Rows
<1>4. QED
  BY <1>1, <1>2, <1>3

LEMMA CheckedType ==
    ASSUME TypeOK, NEW q \in net
    PROVE  Checked(q) \in Requests
  BY DEF Checked, TypeOK, Requests

LEMMA CurrentType ==
    ASSUME TypeOK, NEW w \in Workers, tries[w] # 0
    PROVE  Current(w) \in Leases
  BY DEF TypeOK, Current, Leases

LEMMA AnswerType ==
    ASSUME TypeOK, NEW q \in net, NEW r \in {"yes", "no", "error"}, Answer(q, r)
    PROVE  /\ reply' \in [Workers -> {"none", "yes", "no", "error"}]
           /\ \A w \in Workers : reply'[w] = reply[w] \/ (reply'[w] = r /\ Awaited(q) /\ w = q.lease[1])
<1>1. q.lease[1] \in Workers
  BY LeaseTypes DEF TypeOK, Requests
<1> DEFINE Replies == {"none", "yes", "no", "error"}
<1>a. reply \in [Workers -> Replies] /\ r \in Replies
  BY DEF TypeOK
<1> HIDE DEF Replies
<1>2. CASE Awaited(q)
  <2>1. reply' = [reply EXCEPT ![q.lease[1]] = r]
    BY <1>2 DEF Answer
  <2>2. reply' \in [Workers -> Replies]
    BY <1>1, <1>a, <2>1
  <2>3. \A w \in Workers : reply'[w] = reply[w] \/ (reply'[w] = r /\ w = q.lease[1])
    BY <1>1, <1>a, <2>1
  <2>4. QED
    BY <1>2, <2>2, <2>3 DEF Replies
<1>3. CASE ~Awaited(q)
  <2>1. reply' = reply
    BY <1>3 DEF Answer
  <2>2. QED
    BY <1>a, <2>1 DEF Replies
<1>4. QED
  BY <1>2, <1>3

LEMMA TypeStep ==
    ASSUME TypeOK, WorkerInv, [Next]_vars
    PROVE  TypeOK'
<1>1. ASSUME NEW q \in net, ClaimTarget(q) PROVE TypeOK'
  <2>1. q.lease \in Leases /\ now + ClaimTTL \in Nat
    BY DEF TypeOK, Requests
  <2>2. reply' \in [Workers -> {"none", "yes", "no", "error"}]
    BY <1>1, AnswerType DEF ClaimTarget
  <2>3. row' \in Rows /\ granted' \in SUBSET Leases
    BY <1>1, <2>1 DEF ClaimTarget, TypeOK, Rows
  <2>4. grantAt' \in [Leases -> Nat] /\ termEnd' \in [Leases -> Nat]
    BY <1>1, <2>1 DEF ClaimTarget, TypeOK
  <2>5. QED
    BY <1>1, <2>2, <2>3, <2>4 DEF ClaimTarget, TypeOK
<1>2. ASSUME NEW q \in net, ConfirmRead(q) PROVE TypeOK'
  <2>1. q \in Requests /\ q.lease \in Leases
    BY DEF TypeOK, Requests
  <2>2. reply' \in [Workers -> {"none", "yes", "no", "error"}]
    BY <1>2, AnswerType DEF ConfirmRead, TypeOK
  <2>3. net' \in SUBSET Requests
    BY <1>2, <2>1, CheckedType DEF ConfirmRead, TypeOK
  <2>4. lock' \in Leases \cup {NoLease}
    BY <1>2, <2>1 DEF ConfirmRead, TypeOK
  <2>5. QED
    BY <1>2, <2>2, <2>3, <2>4 DEF ConfirmRead, TypeOK
<1>3. ASSUME NEW q \in net, ConfirmWrite(q) PROVE TypeOK'
  <2>1. q.lease \in Leases /\ q.stamp + ConfirmTTL \in Nat
    BY DEF TypeOK, Requests
  <2>2. reply' \in [Workers -> {"none", "yes", "no", "error"}]
    BY <1>3, AnswerType DEF ConfirmWrite
  <2>3. row' \in Rows /\ confirmed' \in SUBSET Leases /\ termEnd' \in [Leases -> Nat]
    BY <1>3, <2>1 DEF ConfirmWrite, TypeOK, Rows
  <2>4. QED
    BY <1>3, <2>2, <2>3 DEF ConfirmWrite, TypeOK
<1>4. ASSUME NEW q \in net, RequestFails(q) PROVE TypeOK'
  BY <1>4, AnswerType DEF RequestFails, TypeOK
<1>5. CASE Prune
  BY <1>5, LeaseTypes DEF Prune, TypeOK
<1>6. ASSUME NEW w \in Workers, Claim(w) PROVE TypeOK'
  <2>1. tries[w] + 1 \in 1..MaxAttempts /\ tries' \in [Workers -> 0..MaxAttempts]
    BY <1>6 DEF Claim, TypeOK
  <2>2. Request("claim", <<w, tries[w] + 1>>) \in Requests
    BY <2>1, LeaseTypes DEF Leases
  <2>3. QED
    BY <1>6, <2>1, <2>2 DEF Claim, TypeOK
<1>7. ASSUME NEW w \in Workers, HopWithoutClaim(w) PROVE TypeOK'
  BY <1>7 DEF HopWithoutClaim, TypeOK, Kinds
<1>8. ASSUME NEW w \in Workers, ClaimAnswered(w) PROVE TypeOK'
  BY <1>8 DEF ClaimAnswered, TypeOK, Kinds
<1>9. ASSUME NEW w \in Workers, ClaimTimesOut(w) PROVE TypeOK'
  BY <1>9 DEF ClaimTimesOut, TypeOK, Kinds
<1>10. ASSUME NEW w \in Workers, Follow(w) PROVE TypeOK'
  <2>1. Current(w) \in Leases
    BY <1>10, CurrentType DEF Follow, WorkerInv
  <2>2. InTerm(w) \in BOOLEAN
    BY DEF InTerm
  <2>3. follows' \in SUBSET Follows
    BY <1>10, <2>1, <2>2 DEF Follow, Follows, TypeOK
  <2>4. QED
    BY <1>10, <2>3 DEF Follow, TypeOK
<1>11. ASSUME NEW w \in Workers, OnlyLike(w) \/ AlreadyFollowing(w) \/ Abandon(w) PROVE TypeOK'
  BY <1>11 DEF OnlyLike, AlreadyFollowing, Abandon, TypeOK
<1>12. ASSUME NEW w \in Workers, Confirm(w) PROVE TypeOK'
  <2>1. Request("confirm", Current(w)) \in Requests
    BY <1>12, CurrentType, LeaseTypes DEF Confirm, WorkerInv
  <2>2. QED
    BY <1>12, <2>1 DEF Confirm, TypeOK
<1>13. ASSUME NEW w \in Workers, ConfirmEnds(w) PROVE TypeOK'
  BY <1>13 DEF ConfirmEnds, TypeOK
<1>14. CASE Tick
  BY <1>14 DEF Tick, TypeOK
<1>15. CASE UNCHANGED vars
  BY <1>15 DEF TypeOK
<1>16. QED
  BY <1>1, <1>2, <1>3, <1>4, <1>5, <1>6, <1>7, <1>8, <1>9, <1>10, <1>11, <1>12, <1>13, <1>14, <1>15
     DEF Next, Server, Worker

-----------------------------------------------------------------------------
(* Requests. *)

\* While nobody holds the lock no confirmation has passed its check, and at most
\* one has at any time.
LEMMA LockMeansChecked ==
    ASSUME TypeOK, NetInv, NEW q \in net, q.stage = "read"
    PROVE  /\ ~Unlocked
           /\ q.op = "confirm"
           /\ \A r \in net : r.stage = "read" => r = q
<1>1. \A r \in net : r.stage = "read" => r.op = "confirm" /\ lock = r.lease
  BY DEF NetInv, OwnsRow, TypeOK, Requests
<1>2. q.lease \in Leases
  BY DEF TypeOK, Requests
<1>3. \A r \in net : r.stage = "read" => r = q
  BY <1>1 DEF NetInv
<1>4. ~Unlocked
  BY <1>1, <1>2, LeaseTypes DEF Unlocked
<1>5. QED
  BY <1>1, <1>3, <1>4

LEMMA NetStep ==
    ASSUME RowLocks, LeaseInv, TypeOK', [Next]_vars
    PROVE  NetInv'
<1> USE DEF LeaseInv
<1>t. \A r \in net : r \in Requests /\ r.lease \in Leases /\ r.lease[1] \in Workers /\ r.lease[2] \in Nat
  BY LeaseTypes DEF TypeOK, Requests
<1>1. ASSUME NEW q \in net, ClaimTarget(q) PROVE NetInv'
  <2>1. \A r \in net : r.stage # "read"
    BY <1>1, LockMeansChecked DEF ClaimTarget
  <2>2. \A r \in net' : r \in net /\ (r.op = "claim" => r.lease # q.lease)
    BY <1>1 DEF ClaimTarget, NetInv
  <2>3. granted' \subseteq granted \cup {q.lease} /\ tries' = tries
    BY <1>1 DEF ClaimTarget
  <2>4. QED
    BY <2>1, <2>2, <2>3 DEF NetInv, Issued
<1>2. ASSUME NEW q \in net, ConfirmRead(q) PROVE NetInv'
  <2>1. \A r \in net : r.stage # "read"
    BY <1>2, LockMeansChecked DEF ConfirmRead
  <2>2. granted' = granted /\ tries' = tries /\ follows' = follows /\ grantAt' = grantAt
        /\ row' = row /\ now' = now
    BY <1>2 DEF ConfirmRead
  <2>3. CASE Confirmable(q)
    <3> PICK c : c = Checked(q)
      OBVIOUS
    <3>1. net' = (net \ {q}) \cup {c} /\ lock' = q.lease
      BY <1>2, <2>3 DEF ConfirmRead
    <3>2. OwnsRow(c)'
      <4>1. row.status = "CLAIMED" /\ row.lease = q.lease /\ q.lease \in granted
        BY <2>3 DEF Confirmable, RowInv
      <4>2. now \in Nat /\ now < now + ConfirmTTL /\ grantAt[q.lease] <= now
        BY <4>1 DEF TypeOK, RowInv
      <4>3. \A f \in follows : f.at <= now
        BY DEF FollowInv
      <4>4. QED
        BY <2>2, <3>1, <4>1, <4>2, <4>3 DEF OwnsRow, Checked
    <3>3. \A r \in net \ {q} : ~(r.op = "confirm" /\ r.lease = q.lease)
      BY <1>2 DEF NetInv, ConfirmRead
    <3>4. c.op = "confirm" /\ c.lease = q.lease
      BY DEF Checked
    <3>5. QED
      BY <2>1, <2>2, <3>1, <3>2, <3>3, <3>4 DEF NetInv, Issued
  <2>4. CASE ~Confirmable(q)
    <3>1. net' = net \ {q}
      BY <1>2, <2>4 DEF ConfirmRead
    <3>2. QED
      BY <2>1, <2>2, <3>1 DEF NetInv, Issued
  <2>5. QED
    BY <2>3, <2>4
<1>3. ASSUME NEW q \in net, ConfirmWrite(q) PROVE NetInv'
  <2>1. \A r \in net' : r \in net /\ r.stage # "read"
    BY <1>3, LockMeansChecked DEF ConfirmWrite
  <2>2. granted' = granted /\ tries' = tries
    BY <1>3 DEF ConfirmWrite
  <2>3. QED
    BY <2>1, <2>2 DEF NetInv, Issued
<1>4. ASSUME NEW q \in net, RequestFails(q) PROVE NetInv'
  <2>1. \A r \in net' : r \in net /\ (r.stage = "read" => lock' = lock)
    BY <1>4, LockMeansChecked DEF RequestFails
  <2>2. granted' = granted /\ tries' = tries /\ follows' = follows /\ grantAt' = grantAt
        /\ row' = row /\ now' = now
    BY <1>4 DEF RequestFails
  <2>3. QED
    BY <2>1, <2>2 DEF NetInv, Issued, OwnsRow
<1>5. CASE Prune
  <2>1. \A r \in net : r.stage # "read"
    BY <1>5, LockMeansChecked DEF Prune
  <2>2. QED
    BY <1>5, <2>1 DEF Prune, NetInv, Issued
<1>6. ASSUME NEW w \in Workers, Claim(w) PROVE NetInv'
  <2> PICK l : l = <<w, tries[w] + 1>>
    OBVIOUS
  <2> DEFINE q == Request("claim", l)
  <2>1. net' = net \cup {q} /\ tries' = [tries EXCEPT ![w] = @ + 1]
        /\ UNCHANGED <<lock, row, granted, grantAt, now, follows>>
    BY <1>6 DEF Claim
  <2>2. tries \in [Workers -> 0..MaxAttempts]
    BY DEF TypeOK
  <2>3. q.op = "claim" /\ q.stage = "sent" /\ q.lease = l
    BY DEF Request
  <2>4. \A k \in Leases : Issued(k) => Issued(k)' /\ k # l
    BY <2>1, <2>2, LeaseTypes DEF Issued
  <2>5. Issued(l)'
    BY <2>1, <2>2 DEF Issued
  <2>6. l \notin granted
    BY <2>4 DEF RowInv
  <2>7. \A r \in net : Issued(r.lease)' /\ r.lease # l
    BY <1>t, <2>4 DEF NetInv
  <2>8. \A r \in net : r.stage = "read" => OwnsRow(r)'
    BY <2>1 DEF NetInv, OwnsRow
  <2> HIDE DEF q
  <2>9. QED
    BY <2>1, <2>3, <2>5, <2>6, <2>7, <2>8 DEF NetInv
<1>7. ASSUME NEW w \in Workers, HopWithoutClaim(w) PROVE NetInv'
  <2>1. tries' = [tries EXCEPT ![w] = @ + 1] /\ UNCHANGED <<net, lock, row, granted, grantAt, now, follows>>
    BY <1>7 DEF HopWithoutClaim
  <2>2. \A k \in Leases : Issued(k) => Issued(k)'
    BY <2>1, LeaseTypes DEF Issued, TypeOK
  <2>3. QED
    BY <1>t, <2>1, <2>2 DEF NetInv, OwnsRow
<1>8. ASSUME UNCHANGED <<net, lock, row, granted, grantAt, now, follows, tries>> PROVE NetInv'
  BY <1>8 DEF NetInv, OwnsRow, Issued
<1>9. ASSUME NEW w \in Workers, Follow(w) PROVE NetInv'
  <2>1. UNCHANGED <<net, lock, row, granted, grantAt, now, tries>>
    BY <1>9 DEF Follow
  <2>2. \A f \in follows' : f \in follows \/ f.lease = Current(w)
    BY <1>9 DEF Follow
  <2>3. \A r \in net : r.stage = "read" => r.lease # Current(w)
    BY <1>9, LockMeansChecked DEF Follow, WorkerInv
  <2>4. \A r \in net : r.stage = "read" => OwnsRow(r)'
    BY <2>1, <2>2, <2>3 DEF NetInv, OwnsRow
  <2>5. QED
    BY <2>1, <2>4 DEF NetInv, Issued
<1>10. ASSUME NEW w \in Workers, Confirm(w) PROVE NetInv'
  <2> DEFINE q == Request("confirm", Current(w))
  <2>1. UNCHANGED <<lock, row, granted, grantAt, now, follows, tries>> /\ net' \subseteq net \cup {q}
    BY <1>10 DEF Confirm
  <2>2. q.op = "confirm" /\ q.stage = "sent" /\ q.lease = Current(w)
    BY DEF Request
  <2>3. \A r \in net : ~(r.op = "confirm" /\ r.lease = Current(w))
    BY <1>10 DEF Confirm, WorkerInv
  <2>4. Issued(Current(w))
    BY DEF Issued, Current, TypeOK
  <2> HIDE DEF q
  <2>5. \A r \in net : r.stage = "read" => OwnsRow(r)'
    BY <2>1 DEF NetInv, OwnsRow
  <2>6. QED
    BY <2>1, <2>2, <2>3, <2>4, <2>5 DEF NetInv, Issued
<1>11. CASE Tick
  <2>1. UNCHANGED <<net, lock, row, granted, grantAt, follows, tries>> /\ now' = now + 1
    BY <1>11 DEF Tick
  <2>2. \A r \in net : r.stage = "read" => now + 1 < r.stamp + ConfirmTTL /\ r.stamp \in Nat
    BY <1>11, <1>t DEF Tick, Requests
  <2>3. \A r \in net : r.stage = "read" => OwnsRow(r)'
    BY <2>1, <2>2 DEF NetInv, OwnsRow, TypeOK
  <2>4. QED
    BY <2>1, <2>3 DEF NetInv, Issued
<1>12. QED
  BY <1>1, <1>2, <1>3, <1>4, <1>5, <1>6, <1>7, <1>8, <1>9, <1>10, <1>11
     DEF Next, Server, Worker, ClaimAnswered, ClaimTimesOut, OnlyLike, AlreadyFollowing, Abandon, ConfirmEnds

-----------------------------------------------------------------------------
(* The row and the terms. *)

LEMMA RowStep ==
    ASSUME RowLocks, LeaseInv, TypeOK', [Next]_vars
    PROVE  RowInv'
<1> USE DEF LeaseInv
<1>t. /\ now \in Nat /\ grantAt \in [Leases -> Nat] /\ termEnd \in [Leases -> Nat]
      /\ row \in Rows /\ granted \subseteq Leases /\ net \subseteq Requests
      /\ ClaimTTL \in Nat /\ ConfirmTTL \in Nat
  BY DEF TypeOK
<1>1. ASSUME NEW q \in net, ClaimTarget(q), Free PROVE RowInv'
  <2> PICK l \in Leases : l = q.lease
    BY <1>t DEF Requests
  <2>1. /\ row' = [status |-> "CLAIMED", lease |-> l, expires |-> now + ClaimTTL]
        /\ granted' = granted \cup {l}
        /\ grantAt' = [grantAt EXCEPT ![l] = now]
        /\ termEnd' = [termEnd EXCEPT ![l] = now + ClaimTTL]
        /\ UNCHANGED <<now, confirmed, tries>>
    BY <1>1 DEF ClaimTarget
  <2>2. l \notin granted /\ Issued(l)
    BY <1>1 DEF ClaimTarget, NetInv
  <2>3. \A k \in granted : termEnd[k] <= now
    BY <1>1, <1>t DEF Free, RowInv
  <2>4. /\ grantAt'[l] = now /\ termEnd'[l] = now + ClaimTTL
        /\ \A k \in granted : k # l /\ grantAt'[k] = grantAt[k] /\ termEnd'[k] = termEnd[k]
    BY <1>t, <2>1, <2>2
  <2>5. /\ row'.status = "CLAIMED" /\ row'.lease = l /\ row'.expires = now + ClaimTTL
    BY <2>1
  <2>6. granted' \subseteq {k \in Leases : Issued(k)'} /\ confirmed' \subseteq granted'
    BY <2>1, <2>2 DEF RowInv, Issued
  <2>7. \A k \in granted' : /\ grantAt'[k] <= now
                            /\ k # l => termEnd'[k] <= now /\ termEnd'[k] <= grantAt'[l]
    BY <1>t, <2>1, <2>3, <2>4 DEF RowInv
  <2>8. \A k, m \in granted' : k # m => termEnd'[k] <= grantAt'[m] \/ termEnd'[m] <= grantAt'[k]
    BY <2>1, <2>4, <2>7 DEF RowInv
  <2>9. QED
    BY <2>1, <2>4, <2>5, <2>6, <2>7, <2>8 DEF RowInv
<1>2. ASSUME NEW q \in net, ConfirmWrite(q) PROVE RowInv'
  <2> PICK l \in Leases : l = q.lease
    BY <1>t DEF Requests
  <2>1. OwnsRow(q) /\ q.stamp \in Nat
    BY <1>2, <1>t DEF ConfirmWrite, NetInv, Requests
  <2>2. /\ row' = [status |-> "CONFIRMED", lease |-> l, expires |-> q.stamp + ConfirmTTL]
        /\ confirmed' = confirmed \cup {l}
        /\ termEnd' = [termEnd EXCEPT ![l] = q.stamp + ConfirmTTL]
        /\ UNCHANGED <<now, granted, grantAt, tries>>
    BY <1>2, <2>1 DEF ConfirmWrite, OwnsRow
  <2>3. row.lease = l /\ row.status # "NONE" /\ l \in granted
    BY <2>1 DEF OwnsRow
  <2>4. \A k \in granted : k # l => termEnd'[k] = termEnd[k] /\ termEnd[k] <= now /\ termEnd[k] <= grantAt[l]
    BY <1>t, <2>2, <2>3 DEF RowInv
  <2>5. /\ row'.status = "CONFIRMED" /\ row'.lease = l /\ row'.expires = termEnd'[l]
    BY <1>t, <2>2
  <2>6. granted' \subseteq {k \in Leases : Issued(k)'} /\ confirmed' \subseteq granted'
    BY <2>2, <2>3 DEF RowInv, Issued
  <2>7. \A k, m \in granted : k # m => termEnd'[k] <= grantAt[m] \/ termEnd'[m] <= grantAt[k]
    BY <2>4 DEF RowInv
  <2>8. QED
    BY <2>2, <2>3, <2>4, <2>5, <2>6, <2>7 DEF RowInv
<1>3. CASE Prune
  <2>1. row' = NoRow /\ row'.status = "NONE" /\ UNCHANGED <<now, granted, grantAt, termEnd, confirmed, tries>>
    BY <1>3 DEF Prune, NoRow
  <2>2. \A k \in granted : termEnd[k] <= now
    BY <1>3, <1>t DEF Prune, RowInv, Rows
  <2>3. QED
    BY <2>1, <2>2 DEF RowInv, Issued
<1>4. ASSUME NEW w \in Workers, tries' = [tries EXCEPT ![w] = @ + 1],
             UNCHANGED <<now, row, granted, grantAt, termEnd, confirmed>>
      PROVE  RowInv'
  <2>1. \A k \in Leases : Issued(k) => Issued(k)'
    BY <1>4, LeaseTypes DEF Issued, TypeOK
  <2>2. QED
    BY <1>4, <2>1 DEF RowInv
<1>5. ASSUME UNCHANGED <<now, row, granted, grantAt, termEnd, confirmed, tries>> PROVE RowInv'
  BY <1>5 DEF RowInv, Issued
<1>6. CASE Tick
  <2>1. UNCHANGED <<row, granted, grantAt, termEnd, confirmed, tries>> /\ now' = now + 1
    BY <1>6 DEF Tick
  <2>2. \A k \in granted : grantAt[k] \in Nat /\ termEnd[k] \in Nat
    BY <1>t
  <2>3. QED
    BY <1>t, <2>1, <2>2 DEF RowInv, Issued
<1>7. ASSUME NEW q \in net, ClaimTarget(q), ~Free PROVE RowInv'
  BY <1>5, <1>7 DEF ClaimTarget
<1>8. QED
  BY <1>1, <1>2, <1>3, <1>4, <1>5, <1>6, <1>7
     DEF Next, Server, Worker, ConfirmRead, RequestFails, Claim, HopWithoutClaim, ClaimAnswered,
         ClaimTimesOut, Follow, OnlyLike, AlreadyFollowing, Abandon, Confirm, ConfirmEnds

-----------------------------------------------------------------------------
(* The follows. *)

LEMMA FollowStep ==
    ASSUME RowLocks, LeaseInv, TypeOK', [Next]_vars
    PROVE  FollowInv'
<1> USE DEF LeaseInv
<1>t. /\ now \in Nat /\ grantAt \in [Leases -> Nat] /\ termEnd \in [Leases -> Nat]
      /\ granted \subseteq Leases /\ net \subseteq Requests
      /\ \A f \in follows : f.lease \in Leases /\ f.at \in Nat
      /\ ClaimTTL \in Nat /\ ConfirmTTL \in Nat /\ ClaimTTL <= ConfirmTTL
  BY DEF TypeOK, Follows
<1>1. ASSUME NEW q \in net, ClaimTarget(q) PROVE FollowInv'
  <2> PICK l \in Leases : l = q.lease
    BY <1>t DEF Requests
  <2>1. /\ \A k \in Leases : k # l => grantAt'[k] = grantAt[k] /\ termEnd'[k] = termEnd[k]
        /\ granted \subseteq granted' /\ UNCHANGED <<now, confirmed, tries, follows>>
    BY <1>1, <1>t DEF ClaimTarget
  <2>2. l \notin granted /\ l \notin confirmed
    BY <1>1 DEF ClaimTarget, NetInv, RowInv
  <2>3. QED
    BY <1>t, <2>1, <2>2 DEF FollowInv, Issued
<1>2. ASSUME NEW q \in net, ConfirmWrite(q) PROVE FollowInv'
  <2> PICK l \in Leases : l = q.lease
    BY <1>t DEF Requests
  <2>1. OwnsRow(q) /\ q.stamp \in Nat
    BY <1>2, <1>t DEF ConfirmWrite, NetInv, Requests
  <2>2. /\ confirmed' = confirmed \cup {l}
        /\ termEnd' = [termEnd EXCEPT ![l] = q.stamp + ConfirmTTL]
        /\ UNCHANGED <<now, granted, grantAt, tries, follows>>
    BY <1>2 DEF ConfirmWrite
  <2>3. termEnd'[l] = q.stamp + ConfirmTTL /\ termEnd[l] <= termEnd'[l]
    <3>1. termEnd[l] = grantAt[l] + ClaimTTL /\ grantAt[l] <= q.stamp
      BY <2>1 DEF OwnsRow, RowInv
    <3>2. QED
      BY <1>t, <2>1, <2>2, <3>1
  <2>4. \A f \in follows : f.lease = l => f.at + ConfirmTTL <= termEnd'[l]
    BY <1>t, <2>1, <2>3 DEF OwnsRow
  <2>5. \A k \in Leases : k # l => termEnd'[k] = termEnd[k]
    BY <1>t, <2>2
  <2>6. \A f \in follows : f.inTerm => f.at < termEnd'[f.lease]
    <3>1. termEnd[l] \in Nat /\ termEnd'[l] \in Nat
      BY <1>t, <2>1, <2>3
    <3>2. QED
      BY <1>t, <2>3, <2>5, <3>1 DEF FollowInv
  <2>7. QED
    BY <1>t, <2>2, <2>4, <2>5, <2>6 DEF FollowInv, Issued
<1>3. ASSUME NEW w \in Workers, tries' = [tries EXCEPT ![w] = @ + 1],
             UNCHANGED <<now, follows, granted, grantAt, termEnd, confirmed>>
      PROVE  FollowInv'
  <2>1. \A k \in Leases : Issued(k) => Issued(k)'
    BY <1>3, LeaseTypes DEF Issued, TypeOK
  <2>2. QED
    BY <1>3, <1>t, <2>1 DEF FollowInv
<1>4. ASSUME UNCHANGED <<now, follows, granted, grantAt, termEnd, confirmed, tries>> PROVE FollowInv'
  BY <1>4 DEF FollowInv, Issued
<1>5. ASSUME NEW w \in Workers, Follow(w) PROVE FollowInv'
  <2> PICK l : l = Current(w)
    OBVIOUS
  <2> DEFINE f == [lease |-> l, at |-> now, kind |-> kind[w], inTerm |-> InTerm(w)]
  <2>1. follows' = follows \cup {f} /\ UNCHANGED <<now, granted, grantAt, termEnd, confirmed, tries>>
    BY <1>5 DEF Follow
  <2>2. f.lease = l /\ f.at = now /\ f.kind = kind[w] /\ (f.inTerm <=> InTerm(w))
    OBVIOUS
  <2>3. Issued(l) /\ l \notin confirmed /\ (kind[w] = "granted" => l \in granted)
    BY <1>5 DEF Issued, Current, Follow, WorkerInv, TypeOK
  <2>4. kind[w] = "granted" => grantAt[l] <= now
    BY <2>3 DEF RowInv
  <2>5. InTerm(w) => l \in granted /\ now < termEnd[l]
    BY DEF InTerm
  <2> HIDE DEF f
  <2>6. QED
    BY <1>t, <2>1, <2>2, <2>3, <2>4, <2>5 DEF FollowInv, Issued
<1>6. CASE Tick
  <2>1. UNCHANGED <<follows, granted, grantAt, termEnd, confirmed, tries>> /\ now' = now + 1
    BY <1>6 DEF Tick
  <2>2. QED
    BY <1>t, <2>1 DEF FollowInv, Issued
<1>7. QED
  BY <1>1, <1>2, <1>3, <1>4, <1>5, <1>6
     DEF Next, Server, Worker, ConfirmRead, RequestFails, Prune, Claim, HopWithoutClaim, ClaimAnswered,
         ClaimTimesOut, OnlyLike, AlreadyFollowing, Abandon, Confirm, ConfirmEnds

-----------------------------------------------------------------------------
(* The workers. *)

\* WorkerInv, for one worker.
OneWorkerInv(w) ==
    /\ pc[w] # "idle" => tries[w] # 0
    /\ pc[w] \notin {"claiming", "confirming"} => reply[w] = "none"
    /\ pc[w] = "claiming" /\ reply[w] = "yes" => Current(w) \in granted
    /\ pc[w] = "visiting" /\ kind[w] = "granted" => Current(w) \in granted
    /\ pc[w] \in {"claiming", "visiting", "contacted"} =>
         /\ Current(w) \notin confirmed
         /\ \A q \in net : ~(q.op = "confirm" /\ q.lease = Current(w))

\* A worker is not disturbed by the step of another one that leaves the leases
\* alone and sends nothing in its name.
LEMMA OtherWorkers ==
    ASSUME WorkerInv, NEW w \in Workers,
           UNCHANGED <<granted, confirmed>>,
           \A q \in net' : q \in net \/ ~(q.op = "confirm" /\ q.lease = Current(w)),
           pc'[w] = pc[w], tries'[w] = tries[w], kind'[w] = kind[w], reply'[w] = reply[w]
    PROVE  OneWorkerInv(w)'
<1>1. Current(w)' = Current(w)
  BY DEF Current
<1>2. OneWorkerInv(w)
  BY DEF WorkerInv, OneWorkerInv
<1>3. QED
  BY <1>1, <1>2 DEF OneWorkerInv

LEMMA WorkerStep ==
    ASSUME RowLocks, LeaseInv, TypeOK', [Next]_vars
    PROVE  WorkerInv'
<1> USE DEF LeaseInv
<1>t. /\ pc \in [Workers -> {"idle", "claiming", "visiting", "contacted", "confirming"}]
      /\ tries \in [Workers -> 0..MaxAttempts] /\ kind \in [Workers -> Kinds]
      /\ reply \in [Workers -> {"none", "yes", "no", "error"}] /\ MaxAttempts \in Nat
      /\ \A q \in net : q \in Requests /\ q.lease \in Leases
  BY DEF TypeOK, Requests
<1>s. SUFFICES ASSUME NEW w \in Workers PROVE OneWorkerInv(w)'
  BY DEF WorkerInv, OneWorkerInv
<1>i. OneWorkerInv(w)
  BY DEF WorkerInv, OneWorkerInv
<1>c. \A v \in Workers : v # w => Current(v) # Current(w)
  BY DEF Current
<1>1. ASSUME NEW q \in net, ClaimTarget(q) PROVE OneWorkerInv(w)'
  <2>1. UNCHANGED <<pc, tries, kind, confirmed>> /\ net' \subseteq net /\ granted \subseteq granted'
    BY <1>1 DEF ClaimTarget
  <2>2. Current(w)' = Current(w)
    BY <2>1 DEF Current
  <2>3. reply'[w] = reply[w] \/ (Awaited(q) /\ w = q.lease[1])
    BY <1>1, AnswerType DEF ClaimTarget
  <2>4. Awaited(q) /\ w = q.lease[1] => pc[w] = "claiming" /\ q.lease = Current(w)
    BY <1>1 DEF Awaited, ClaimTarget
  <2>5. reply'[w] = "yes" /\ reply'[w] # reply[w] => q.lease \in granted'
    <3>1. CASE Free
      BY <1>1, <3>1 DEF ClaimTarget
    <3>2. CASE ~Free /\ SameAttempt(q.lease)
      BY <1>1, <3>2 DEF ClaimTarget, SameAttempt, RowInv
    <3>3. CASE ~Free /\ ~SameAttempt(q.lease)
      BY <1>1, <3>3, AnswerType DEF ClaimTarget
    <3>4. QED
      BY <3>1, <3>2, <3>3
  <2>6. QED
    BY <1>i, <2>1, <2>2, <2>3, <2>4, <2>5 DEF OneWorkerInv
<1>2. ASSUME NEW q \in net, NEW r \in {"yes", "no", "error"}, Answer(q, r), r = "yes" => q.op = "confirm",
             UNCHANGED <<pc, tries, kind, granted>>,
             \A x \in net' : x \in net \/ (x.op = "confirm" /\ x.lease = q.lease /\ q.op = "confirm"),
             \A x \in confirmed' : x \in confirmed \/ (x = q.lease /\ q.op = "confirm")
      PROVE  OneWorkerInv(w)'
  <2>1. Current(w)' = Current(w)
    BY <1>2 DEF Current
  <2>2. reply'[w] = reply[w] \/ (reply'[w] = r /\ Awaited(q) /\ w = q.lease[1])
    BY <1>2, AnswerType
  <2>3. Awaited(q) /\ w = q.lease[1] => pc[w] = (IF q.op = "claim" THEN "claiming" ELSE "confirming")
    BY DEF Awaited
  <2>4. pc[w] \in {"claiming", "visiting", "contacted"} => ~(q.op = "confirm" /\ q.lease = Current(w))
    BY <1>i DEF OneWorkerInv
  <2>5. reply'[w] = reply[w] \/ (pc[w] = "claiming" /\ reply'[w] # "yes") \/ pc[w] = "confirming"
    BY <1>2, <2>2, <2>3
  <2>6. QED
    BY <1>2, <1>i, <2>1, <2>4, <2>5 DEF OneWorkerInv
<1>3. ASSUME NEW q \in net, ConfirmRead(q) PROVE OneWorkerInv(w)'
  <2>1. CASE Confirmable(q)
    <3>1. Checked(q).op = "confirm" /\ Checked(q).lease = q.lease /\ q.op = "confirm"
      BY <1>3 DEF Checked, ConfirmRead
    <3>2. \A x \in net' : x \in net \/ (x.op = "confirm" /\ x.lease = q.lease)
      BY <1>3, <2>1, <3>1 DEF ConfirmRead
    <3>3. UNCHANGED <<pc, tries, kind, reply, granted, confirmed>> /\ Current(w)' = Current(w)
      BY <1>3, <2>1 DEF ConfirmRead, Current
    <3>4. pc[w] \in {"claiming", "visiting", "contacted"} => q.lease # Current(w)
      BY <1>i, <3>1 DEF OneWorkerInv
    <3>5. QED
      BY <1>i, <3>2, <3>3, <3>4 DEF OneWorkerInv
  <2>2. CASE ~Confirmable(q)
    <3> PICK r : r = IF row.status = "CONFIRMED" /\ row.lease = q.lease THEN "yes" ELSE "no"
      OBVIOUS
    <3>1. Answer(q, r) /\ r \in {"yes", "no", "error"} /\ q.op = "confirm"
          /\ UNCHANGED <<pc, tries, kind, granted, confirmed>> /\ net' \subseteq net
      BY <1>3, <2>2 DEF ConfirmRead
    <3>2. QED
      BY <1>2, <3>1
  <2>3. QED
    BY <2>1, <2>2
<1>4. ASSUME NEW q \in net, ConfirmWrite(q) PROVE OneWorkerInv(w)'
  <2>1. q.op = "confirm"
    BY <1>4, LockMeansChecked DEF ConfirmWrite
  <2>2. Answer(q, "yes") /\ UNCHANGED <<pc, tries, kind, granted>> /\ net' \subseteq net
        /\ confirmed' = confirmed \cup {q.lease}
    BY <1>4 DEF ConfirmWrite
  <2>3. QED
    BY <1>2, <2>1, <2>2
<1>5. ASSUME NEW q \in net, RequestFails(q) PROVE OneWorkerInv(w)'
  <2>1. Answer(q, "error") /\ UNCHANGED <<pc, tries, kind, granted, confirmed>> /\ net' \subseteq net
    BY <1>5 DEF RequestFails
  <2>2. QED
    BY <1>2, <2>1
<1>6. ASSUME NEW v \in Workers, v # w,
             Claim(v) \/ HopWithoutClaim(v) \/ ClaimAnswered(v) \/ ClaimTimesOut(v) \/ Follow(v)
               \/ OnlyLike(v) \/ AlreadyFollowing(v) \/ Abandon(v) \/ Confirm(v) \/ ConfirmEnds(v)
      PROVE  OneWorkerInv(w)'
  <2>1. UNCHANGED <<granted, confirmed>> /\ pc'[w] = pc[w] /\ tries'[w] = tries[w] /\ kind'[w] = kind[w]
        /\ reply'[w] = reply[w]
    BY <1>6, <1>t DEF Claim, HopWithoutClaim, ClaimAnswered, ClaimTimesOut, Follow, OnlyLike, AlreadyFollowing, Abandon, Confirm, ConfirmEnds
  <2>2. \A q \in net' : q \in net \/ q.op = "claim" \/ q.lease = Current(v)
    BY <1>6 DEF Claim, HopWithoutClaim, ClaimAnswered, ClaimTimesOut, Follow, OnlyLike, AlreadyFollowing, Abandon, Confirm, ConfirmEnds, Request
  <2>3. QED
    BY <1>6, <1>c, <2>1, <2>2, OtherWorkers
<1>7. ASSUME Claim(w) \/ HopWithoutClaim(w) PROVE OneWorkerInv(w)'
  <2>1. tries' = [tries EXCEPT ![w] = @ + 1] /\ UNCHANGED <<reply, granted, confirmed>> /\ reply[w] = "none"
    BY <1>7, <1>i DEF Claim, HopWithoutClaim, OneWorkerInv
  <2> PICK l : l = Current(w)'
    OBVIOUS
  <2>2. tries'[w] = tries[w] + 1 /\ tries'[w] # 0 /\ l = <<w, tries[w] + 1>>
    BY <1>t, <2>1 DEF Current
  <2>3. ~Issued(l)
    BY <1>t, <2>2 DEF Issued
  <2>4. l \notin confirmed /\ l \notin granted /\ \A q \in net : q.lease # l
    BY <2>3 DEF NetInv, RowInv
  <2>5. \A q \in net' : q \in net \/ q.op = "claim"
    BY <1>7 DEF Claim, HopWithoutClaim, Request
  <2>6. pc'[w] = "claiming" \/ (pc'[w] = "visiting" /\ kind'[w] = "unclaimed")
    BY <1>7, <1>t DEF Claim, HopWithoutClaim, Kinds
  <2>7. QED
    BY <2>1, <2>2, <2>4, <2>5, <2>6 DEF OneWorkerInv
<1>8. ASSUME \/ ClaimAnswered(w) \/ ClaimTimesOut(w) \/ Follow(w) \/ OnlyLike(w)
             \/ AlreadyFollowing(w) \/ Abandon(w) \/ ConfirmEnds(w)
      PROVE  OneWorkerInv(w)'
  <2>1. UNCHANGED <<tries, granted, confirmed, net>> /\ Current(w)' = Current(w)
    BY <1>8 DEF ClaimAnswered, ClaimTimesOut, Follow, OnlyLike, AlreadyFollowing, Abandon, ConfirmEnds, Current
  <2>2. CASE ClaimAnswered(w)
    BY <1>t, <1>i, <2>1, <2>2 DEF ClaimAnswered, OneWorkerInv, Kinds
  <2>3. CASE ClaimTimesOut(w)
    BY <1>t, <1>i, <2>1, <2>3 DEF ClaimTimesOut, OneWorkerInv, Kinds
  <2>4. CASE Follow(w)
    BY <1>t, <1>i, <2>1, <2>4 DEF Follow, OneWorkerInv
  <2>5. CASE OnlyLike(w) \/ AlreadyFollowing(w) \/ Abandon(w)
    BY <1>t, <1>i, <2>1, <2>5 DEF OnlyLike, AlreadyFollowing, Abandon, OneWorkerInv
  <2>6. CASE ConfirmEnds(w)
    BY <1>t, <1>i, <2>1, <2>6 DEF ConfirmEnds, OneWorkerInv
  <2>7. QED
    BY <1>8, <2>2, <2>3, <2>4, <2>5, <2>6
<1>9. ASSUME Confirm(w) PROVE OneWorkerInv(w)'
  <2>1. UNCHANGED <<tries, reply>> /\ pc'[w] \in {"idle", "confirming"}
    BY <1>9, <1>t DEF Confirm
  <2>2. tries[w] # 0 /\ reply[w] = "none"
    BY <1>9, <1>i DEF Confirm, OneWorkerInv
  <2>3. QED
    BY <2>1, <2>2 DEF OneWorkerInv
<1>10. ASSUME UNCHANGED <<net, pc, tries, kind, reply, granted, confirmed>> PROVE OneWorkerInv(w)'
  BY <1>10, OtherWorkers
<1>11. QED
  BY <1>1, <1>3, <1>4, <1>5, <1>6, <1>7, <1>8, <1>9, <1>10 DEF Next, Server, Worker, Prune, Tick

-----------------------------------------------------------------------------
(* The theorems. *)

LEMMA InitHolds == Init => LeaseInv
<1> SUFFICES ASSUME Init PROVE LeaseInv
  OBVIOUS
<1>1. TypeOK
  BY LeaseTypes DEF Init, TypeOK, Kinds
<1>2. NetInv /\ RowInv /\ FollowInv
  BY DEF Init, NetInv, RowInv, FollowInv, NoRow
<1>3. WorkerInv
  BY DEF Init, WorkerInv
<1>4. QED
  BY <1>1, <1>2, <1>3 DEF LeaseInv

LEMMA LeaseStep ==
    ASSUME RowLocks, LeaseInv, [Next]_vars
    PROVE  LeaseInv'
<1>1. TypeOK'
  BY TypeStep DEF LeaseInv
<1>2. QED
  BY <1>1, NetStep, RowStep, FollowStep, WorkerStep DEF LeaseInv

\* Where a confirmation locks the row it reads, every statement order of the
\* server and every delay, pause or loss on the side of the workers keeps the
\* bookkeeping of build_claim_statement and confirm_in_transaction consistent:
\* the terms of two leases never overlap, a confirmation past its check still
\* owns the row, and a follow made on a granted lease stays within its term.
THEOREM LeaseInvariant ==
    ASSUME RowLocks
    PROVE  Spec => []LeaseInv
<1>1. Init => LeaseInv
  BY InitHolds
<1>2. LeaseInv /\ [Next]_vars => LeaseInv'
  BY LeaseStep
<1>3. QED
  BY <1>1, <1>2, PTL DEF Spec

LEMMA ContactStep == ASSUME LeaseInv PROVE ConfirmedContactIsKept
<1> SUFFICES ASSUME NEW e \in follows, NEW f \in follows,
                    e.lease[1] # f.lease[1], e.at <= f.at, e.kind = "granted",
                    e.lease \in confirmed, Covered(f)
             PROVE  f.at >= e.at + ConfirmTTL
  BY DEF ConfirmedContactIsKept
<1>1. /\ e.at \in Nat /\ f.at \in Nat /\ e.lease \in Leases /\ f.lease \in Leases
      /\ grantAt \in [Leases -> Nat] /\ termEnd \in [Leases -> Nat] /\ ConfirmTTL \in Nat
  BY DEF LeaseInv, TypeOK, Follows
<1>2. e.lease \in granted /\ grantAt[e.lease] <= e.at /\ e.at + ConfirmTTL <= termEnd[e.lease]
  BY DEF LeaseInv, FollowInv
<1>3. f.lease \in granted /\ grantAt[f.lease] <= f.at /\ f.at < termEnd[f.lease]
  BY DEF LeaseInv, FollowInv, Covered
<1>4. termEnd[e.lease] <= grantAt[f.lease] \/ termEnd[f.lease] <= grantAt[e.lease]
  BY <1>2, <1>3 DEF LeaseInv, RowInv
<1>5. QED
  BY <1>1, <1>2, <1>3, <1>4

\* Two accounts of a workspace never contact one target within the retention
\* period when the first contact was granted and confirmed and the second was
\* made within a granted term, however the requests of both are ordered.
THEOREM ContactIsKept ==
    ASSUME RowLocks
    PROVE  Spec => []ConfirmedContactIsKept
<1>1. Spec => []LeaseInv
  BY LeaseInvariant
<1>2. LeaseInv => ConfirmedContactIsKept
  BY ContactStep
<1>3. QED
  BY <1>1, <1>2, PTL

LEMMA LockInit == Init => Promise!Init
  BY DEF Init, NoRow, Holder, Promise!Init

LEMMA LockStep ==
    ASSUME RowLocks, LeaseInv, LeaseInv', [Next]_vars
    PROVE  [Promise!Next]_Promise!lockVars
<1>t. /\ now \in Nat /\ row \in Rows /\ net \subseteq Requests /\ ClaimTTL \in Nat \ {0}
      /\ \A q \in Requests : q.lease \in Leases /\ q.stamp \in Nat
      /\ \A l \in Leases : l # NoLease
  BY LeaseTypes DEF LeaseInv, TypeOK, Requests
<1>o. row.status # "NONE" => row.lease \in Leases /\ row.expires \in Nat
  BY <1>t DEF LeaseInv, TypeOK, RowInv
<1> USE DEF Promise!Next, Promise!lockVars
<1>1. ASSUME NEW q \in net, ClaimTarget(q), Free PROVE \E l \in Leases : Promise!Acquire(l)
  <2> PICK l \in Leases : l = q.lease
    BY <1>t
  <2>1. Holder = NoLease
    BY <1>1, <1>t DEF ClaimTarget, Free, Unlocked, Holder, Rows
  <2>2. Holder' = l
    <3>1. row' = [status |-> "CLAIMED", lease |-> l, expires |-> now + ClaimTTL] /\ now' = now
      BY <1>1 DEF ClaimTarget
    <3>2. row'.status = "CLAIMED" /\ row'.lease = l /\ row'.expires > now'
      BY <1>t, <3>1
    <3>3. QED
      BY <3>2 DEF Holder
  <2>3. l \notin granted /\ granted' = granted \cup {l} /\ confirmed' = confirmed
    BY <1>1 DEF ClaimTarget, LeaseInv, NetInv
  <2>4. Promise!Acquire(l)
    BY <2>1, <2>2, <2>3 DEF Promise!Acquire
  <2>5. QED
    BY <2>4
<1>2. ASSUME UNCHANGED <<granted, confirmed>>, Holder' = Holder \/ Holder' = NoLease
      PROVE  [Promise!Next]_Promise!lockVars
  BY <1>2 DEF Promise!Release
<1>3. ASSUME NEW q \in net, ConfirmRead(q) PROVE [Promise!Next]_Promise!lockVars
  <2>1. Confirmable(q) => Holder = row.lease /\ Holder' = row.lease
    BY <1>3, <1>t DEF ConfirmRead, Confirmable, Holder
  <2>2. ~Confirmable(q) => Holder' = Holder
    BY <1>3 DEF ConfirmRead, Holder
  <2>3. QED
    BY <1>2, <1>3, <2>1, <2>2 DEF ConfirmRead
<1>4. ASSUME NEW q \in net, ConfirmWrite(q) PROVE Promise!Settle
  <2> PICK l \in Leases : l = q.lease
    BY <1>t
  <2>1. OwnsRow(q) /\ q.stamp \in Nat
    BY <1>4, <1>t DEF ConfirmWrite, LeaseInv, NetInv
  <2>2. Holder = l
    BY <1>t, <2>1 DEF OwnsRow, Holder
  <2>3. row' = [status |-> "CONFIRMED", lease |-> l, expires |-> q.stamp + ConfirmTTL] /\ now' = now
        /\ confirmed' = confirmed \cup {l} /\ granted' = granted
    BY <1>4, <2>1 DEF ConfirmWrite, OwnsRow
  <2>4. row'.status = "CONFIRMED" /\ row'.lease = l /\ row'.expires = q.stamp + ConfirmTTL
    BY <2>3
  <2>5. Holder' = l
    BY <1>t, <2>1, <2>3, <2>4 DEF Holder, OwnsRow, LeaseInv, TypeOK
  <2>6. QED
    BY <1>t, <2>2, <2>3, <2>5 DEF Promise!Settle
<1>5. ASSUME NEW q \in net, RequestFails(q) PROVE [Promise!Next]_Promise!lockVars
  <2>1. UNCHANGED <<row, now, granted, confirmed>> /\ (lock' = lock \/ lock' = NoLease)
    BY <1>5 DEF RequestFails
  <2>2. QED
    BY <1>2, <2>1 DEF Holder
<1>6. CASE Prune
  <2>1. Holder' = NoLease
    BY <1>6 DEF Prune, Holder, NoRow
  <2>2. QED
    BY <1>2, <1>6, <2>1 DEF Prune
<1>7. CASE Tick
  <2>1. UNCHANGED <<row, lock, granted, confirmed>>
    BY <1>7 DEF Tick
  <2>2. now' = now + 1
    BY <1>7 DEF Tick
  <2>3. Holder' = Holder \/ Holder' = NoLease
    BY <1>t, <2>1, <2>2, <1>o DEF Holder
  <2>4. QED
    BY <1>2, <2>1, <2>3
<1>8. ASSUME UNCHANGED <<row, lock, now, granted, confirmed>> PROVE [Promise!Next]_Promise!lockVars
  BY <1>2, <1>8 DEF Holder
<1>9. ASSUME NEW q \in net, ClaimTarget(q), ~Free PROVE [Promise!Next]_Promise!lockVars
  BY <1>8, <1>9 DEF ClaimTarget
<1>10. QED
  BY <1>1, <1>3, <1>4, <1>5, <1>6, <1>7, <1>8, <1>9
     DEF Next, Server, Worker, Claim, HopWithoutClaim, ClaimAnswered, ClaimTimesOut, Follow, OnlyLike, AlreadyFollowing, Abandon,
         Confirm, ConfirmEnds

\* The table, its conditional upsert, the locked confirmation and the maintenance
\* implement an exclusive lease that is granted at most once: the requests, the
\* clock and the expiry are invisible behind it.
THEOREM LeaseImplementsLock ==
    ASSUME RowLocks
    PROVE  Spec => ImplementsLeaseLock
<1>1. Spec => []LeaseInv
  BY LeaseInvariant
<1>2. Init => Promise!Init
  BY LockInit
<1>3. LeaseInv /\ LeaseInv' /\ [Next]_vars => [Promise!Next]_Promise!lockVars
  BY LockStep
<1>4. QED
  BY <1>1, <1>2, <1>3, PTL DEF Spec, ImplementsLeaseLock, Promise!Spec
=============================================================================
