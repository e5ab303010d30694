--------------------------- MODULE MetricSyncProofs ---------------------------
(***************************************************************************)
(* Proofs about MetricSync, for any runs, any callbacks and any number of     *)
(* upserts.                                                                  *)
(***************************************************************************)
EXTENDS MetricSync, TLAPS

USE MetricAssumption DEF vars, agentVars, serverVars, sendVars

-----------------------------------------------------------------------------
(* Types. *)

LEMMA NoRowType == NoRow \in Rows
  BY DEF NoRow, Rows

LEMMA InFlightType ==
    ASSUME TypeOK, NEW t \in Threads
    PROVE  InFlight(t) \subseteq Requests
<1>1. row[t] \in Rows
  BY DEF TypeOK
<1>2. row[t].run \in Runs /\ row[t].at \in Nat
  BY <1>1 DEF Rows
<1>3. (call[t] = "checked") \in BOOLEAN
  OBVIOUS
<1>4. [run |-> row[t].run, at |-> row[t].at, checked |-> call[t] = "checked"] \in Requests
  BY <1>2, <1>3, Zenon DEF Requests
<1>5. QED
  BY <1>4 DEF InFlight

LEMMA TypeStep ==
    ASSUME TypeOK, [Next]_vars
    PROVE  TypeOK'
<1>t. TypeOK
  OBVIOUS
<1>1. ASSUME NEW r \in Runs, RecordProgress(r) PROVE TypeOK'
  BY <1>1, <1>t DEF RecordProgress, Upsert, TypeOK
<1>2. ASSUME NEW r \in Runs, RecordResult(r) PROVE TypeOK'
  BY <1>2, <1>t DEF RecordResult, Upsert, TypeOK
<1>3. ASSUME NEW r \in Runs, SyncProfile(r) PROVE TypeOK'
  BY <1>3, <1>t DEF SyncProfile, TypeOK
<1>4. ASSUME NEW t \in Threads, Pending(t) PROVE TypeOK'
  <2>1. {[run |-> r, at |-> local[r]] : r \in {q \in Runs : local[q] # 0} \ uploaded} \subseteq Rows
    BY <1>t DEF TypeOK, Rows
  <2>2. QED
    BY <1>4, <1>t, <2>1 DEF Pending, TypeOK
<1>5. ASSUME NEW t \in Threads, Send(t) PROVE TypeOK'
  BY <1>5, <1>t DEF Send, TypeOK
<1>6. ASSUME NEW t \in Threads, Lookup(t) PROVE TypeOK'
  BY <1>6, <1>t DEF Lookup, TypeOK
<1>7. ASSUME NEW t \in Threads, Insert(t) PROVE TypeOK'
  <2>1. row[t].run \in Runs /\ row[t].at \in Nat
    BY <1>t DEF TypeOK, Rows
  <2>2. QED
    BY <1>7, <1>t, <2>1 DEF Insert, TypeOK
<1>8. ASSUME NEW t \in Threads, MarkUploaded(t) PROVE TypeOK'
  <2>1. row[t].run \in Runs
    BY <1>t DEF TypeOK, Rows
  <2>2. QED
    BY <1>8, <1>t, <2>1, NoRowType DEF MarkUploaded, TypeOK
<1>9. ASSUME NEW t \in Threads, Break(t) PROVE TypeOK'
  BY <1>9, <1>t, NoRowType DEF Break, TypeOK
<1>10. ASSUME NEW t \in Threads, CallFails(t) PROVE TypeOK'
  BY <1>10, <1>t, InFlightType DEF CallFails, TypeOK
<1>11. ASSUME NEW q \in late, LateLookup(q) PROVE TypeOK'
  <2>1. q.run \in Runs /\ q.at \in Nat /\ [q EXCEPT !.checked = TRUE] \in Requests
    BY <1>t DEF TypeOK, Requests
  <2>2. QED
    BY <1>11, <1>t, <2>1 DEF LateLookup, TypeOK
<1>12. ASSUME NEW q \in late, LateInsert(q) PROVE TypeOK'
  <2>1. q.run \in Runs /\ q.at \in Nat /\ [q EXCEPT !.checked = TRUE] \in Requests
    BY <1>t DEF TypeOK, Requests
  <2>2. QED
    BY <1>12, <1>t, <2>1 DEF LateInsert, TypeOK
<1>13. ASSUME NEW q \in late, LateEnds(q) PROVE TypeOK'
  <2>1. q.run \in Runs /\ q.at \in Nat /\ [q EXCEPT !.checked = TRUE] \in Requests
    BY <1>t DEF TypeOK, Requests
  <2>2. QED
    BY <1>13, <1>t, <2>1 DEF LateEnds, TypeOK
<1>14. ASSUME Restart PROVE TypeOK'
  BY <1>14, <1>t, NoRowType, InFlightType DEF Restart, TypeOK
<1>15. CASE UNCHANGED vars
  BY <1>t, <1>15 DEF TypeOK
<1>16. QED
  BY <1>1, <1>2, <1>3, <1>4, <1>5, <1>6, <1>7, <1>8, <1>9, <1>10, <1>11, <1>12, <1>13, <1>14, <1>15 DEF Next

-----------------------------------------------------------------------------
(* The invariant. *)

\* Times of rows that are on their way are times of the local table.
LEMMA RowTypes ==
    ASSUME TypeOK
    PROVE  /\ \A t \in Threads : row[t].run \in Runs /\ row[t].at \in Nat
           /\ \A t \in Threads : \A x \in batch[t] : x \in Rows /\ x.run \in Runs /\ x.at \in Nat
           /\ \A q \in late : q \in Requests /\ q.run \in Runs /\ q.at \in Nat
           /\ \A r \in Runs : local[r] \in Nat /\ stored[r] \in Nat
           /\ time \in Nat
  BY DEF TypeOK, Rows, Requests

LEMMA FlushStep ==
    ASSUME TypeOK, FlushInv, [Next]_vars
    PROVE  FlushInv'
<1>t. TypeOK /\ FlushInv
  OBVIOUS
<1>r. /\ \A t \in Threads : row[t].run \in Runs /\ row[t].at \in Nat
      /\ \A t \in Threads : \A x \in batch[t] : x \in Rows /\ x.run \in Runs /\ x.at \in Nat
      /\ \A q \in late : q \in Requests /\ q.run \in Runs /\ q.at \in Nat
      /\ \A r \in Runs : local[r] \in Nat /\ stored[r] \in Nat
      /\ time \in Nat
  BY RowTypes
<1>1. ASSUME NEW r \in Runs, RecordProgress(r) PROVE FlushInv'
  <2>1. MarkedIsStored'
    BY <1>1, <1>t, <1>r DEF RecordProgress, Upsert, FlushInv, MarkedIsStored, TypeOK
  <2>2. \A s \in Runs : local'[s] <= time' /\ stored'[s] <= local'[s]
    BY <1>1, <1>t, <1>r DEF RecordProgress, Upsert, FlushInv, MarkedIsStored, TypeOK
  <2>3. \A u \in Threads : \A x \in batch'[u] : x.at # 0 /\ x.at <= local'[x.run]
    BY <1>1, <1>t, <1>r DEF RecordProgress, Upsert, FlushInv, MarkedIsStored, TypeOK
  <2>4. \A u \in Threads : call'[u] # "none" => row'[u].at # 0 /\ row'[u].at <= local'[row'[u].run]
    BY <1>1, <1>t, <1>r DEF RecordProgress, Upsert, FlushInv, MarkedIsStored, TypeOK
  <2>5. \A u \in Threads : call'[u] = "accepted" => stored'[row'[u].run] # 0
    BY <1>1, <1>t, <1>r DEF RecordProgress, Upsert, FlushInv, MarkedIsStored, TypeOK
  <2>6. \A z \in late' : z.at # 0 /\ z.at <= local'[z.run]
    BY <1>1, <1>t, <1>r DEF RecordProgress, Upsert, FlushInv, MarkedIsStored, TypeOK
  <2>7. QED
    BY <2>1, <2>2, <2>3, <2>4, <2>5, <2>6 DEF FlushInv, MarkedIsStored
<1>2. ASSUME NEW r \in Runs, RecordResult(r) PROVE FlushInv'
  <2>1. MarkedIsStored'
    BY <1>2, <1>t, <1>r DEF RecordResult, Upsert, FlushInv, MarkedIsStored, TypeOK
  <2>2. \A s \in Runs : local'[s] <= time' /\ stored'[s] <= local'[s]
    BY <1>2, <1>t, <1>r DEF RecordResult, Upsert, FlushInv, MarkedIsStored, TypeOK
  <2>3. \A u \in Threads : \A x \in batch'[u] : x.at # 0 /\ x.at <= local'[x.run]
    BY <1>2, <1>t, <1>r DEF RecordResult, Upsert, FlushInv, MarkedIsStored, TypeOK
  <2>4. \A u \in Threads : call'[u] # "none" => row'[u].at # 0 /\ row'[u].at <= local'[row'[u].run]
    BY <1>2, <1>t, <1>r DEF RecordResult, Upsert, FlushInv, MarkedIsStored, TypeOK
  <2>5. \A u \in Threads : call'[u] = "accepted" => stored'[row'[u].run] # 0
    BY <1>2, <1>t, <1>r DEF RecordResult, Upsert, FlushInv, MarkedIsStored, TypeOK
  <2>6. \A z \in late' : z.at # 0 /\ z.at <= local'[z.run]
    BY <1>2, <1>t, <1>r DEF RecordResult, Upsert, FlushInv, MarkedIsStored, TypeOK
  <2>7. QED
    BY <2>1, <2>2, <2>3, <2>4, <2>5, <2>6 DEF FlushInv, MarkedIsStored
<1>3. ASSUME NEW r \in Runs, SyncProfile(r) PROVE FlushInv'
  <2>1. MarkedIsStored'
    BY <1>3, <1>t, <1>r DEF SyncProfile, FlushInv, MarkedIsStored, TypeOK
  <2>2. \A s \in Runs : local'[s] <= time' /\ stored'[s] <= local'[s]
    BY <1>3, <1>t, <1>r DEF SyncProfile, FlushInv, MarkedIsStored, TypeOK
  <2>3. \A u \in Threads : \A x \in batch'[u] : x.at # 0 /\ x.at <= local'[x.run]
    BY <1>3, <1>t, <1>r DEF SyncProfile, FlushInv, MarkedIsStored, TypeOK
  <2>4. \A u \in Threads : call'[u] # "none" => row'[u].at # 0 /\ row'[u].at <= local'[row'[u].run]
    BY <1>3, <1>t, <1>r DEF SyncProfile, FlushInv, MarkedIsStored, TypeOK
  <2>5. \A u \in Threads : call'[u] = "accepted" => stored'[row'[u].run] # 0
    BY <1>3, <1>t, <1>r DEF SyncProfile, FlushInv, MarkedIsStored, TypeOK
  <2>6. \A z \in late' : z.at # 0 /\ z.at <= local'[z.run]
    BY <1>3, <1>t, <1>r DEF SyncProfile, FlushInv, MarkedIsStored, TypeOK
  <2>7. QED
    BY <2>1, <2>2, <2>3, <2>4, <2>5, <2>6 DEF FlushInv, MarkedIsStored
<1>4. ASSUME NEW t \in Threads, Pending(t) PROVE FlushInv'
  <2>1. MarkedIsStored'
    BY <1>4, <1>t, <1>r DEF Pending, FlushInv, MarkedIsStored, TypeOK
  <2>2. \A s \in Runs : local'[s] <= time' /\ stored'[s] <= local'[s]
    BY <1>4, <1>t, <1>r DEF Pending, FlushInv, MarkedIsStored, TypeOK
  <2>3. \A u \in Threads : \A x \in batch'[u] : x.at # 0 /\ x.at <= local'[x.run]
    BY <1>4, <1>t, <1>r DEF Pending, FlushInv, MarkedIsStored, TypeOK
  <2>4. \A u \in Threads : call'[u] # "none" => row'[u].at # 0 /\ row'[u].at <= local'[row'[u].run]
    BY <1>4, <1>t, <1>r DEF Pending, FlushInv, MarkedIsStored, TypeOK
  <2>5. \A u \in Threads : call'[u] = "accepted" => stored'[row'[u].run] # 0
    BY <1>4, <1>t, <1>r DEF Pending, FlushInv, MarkedIsStored, TypeOK
  <2>6. \A z \in late' : z.at # 0 /\ z.at <= local'[z.run]
    BY <1>4, <1>t, <1>r DEF Pending, FlushInv, MarkedIsStored, TypeOK
  <2>7. QED
    BY <2>1, <2>2, <2>3, <2>4, <2>5, <2>6 DEF FlushInv, MarkedIsStored
<1>5. ASSUME NEW t \in Threads, Send(t) PROVE FlushInv'
  <2>1. MarkedIsStored'
    BY <1>5, <1>t, <1>r DEF Send, FlushInv, MarkedIsStored, TypeOK
  <2>2. \A s \in Runs : local'[s] <= time' /\ stored'[s] <= local'[s]
    BY <1>5, <1>t, <1>r DEF Send, FlushInv, MarkedIsStored, TypeOK
  <2>3. \A u \in Threads : \A x \in batch'[u] : x.at # 0 /\ x.at <= local'[x.run]
    BY <1>5, <1>t, <1>r DEF Send, FlushInv, MarkedIsStored, TypeOK
  <2>4. \A u \in Threads : call'[u] # "none" => row'[u].at # 0 /\ row'[u].at <= local'[row'[u].run]
    BY <1>5, <1>t, <1>r DEF Send, FlushInv, MarkedIsStored, TypeOK
  <2>5. \A u \in Threads : call'[u] = "accepted" => stored'[row'[u].run] # 0
    BY <1>5, <1>t, <1>r DEF Send, FlushInv, MarkedIsStored, TypeOK
  <2>6. \A z \in late' : z.at # 0 /\ z.at <= local'[z.run]
    BY <1>5, <1>t, <1>r DEF Send, FlushInv, MarkedIsStored, TypeOK
  <2>7. QED
    BY <2>1, <2>2, <2>3, <2>4, <2>5, <2>6 DEF FlushInv, MarkedIsStored
<1>6. ASSUME NEW t \in Threads, Lookup(t) PROVE FlushInv'
  <2>1. MarkedIsStored'
    BY <1>6, <1>t, <1>r DEF Lookup, FlushInv, MarkedIsStored, TypeOK
  <2>2. \A s \in Runs : local'[s] <= time' /\ stored'[s] <= local'[s]
    BY <1>6, <1>t, <1>r DEF Lookup, FlushInv, MarkedIsStored, TypeOK
  <2>3. \A u \in Threads : \A x \in batch'[u] : x.at # 0 /\ x.at <= local'[x.run]
    BY <1>6, <1>t, <1>r DEF Lookup, FlushInv, MarkedIsStored, TypeOK
  <2>4. \A u \in Threads : call'[u] # "none" => row'[u].at # 0 /\ row'[u].at <= local'[row'[u].run]
    BY <1>6, <1>t, <1>r DEF Lookup, FlushInv, MarkedIsStored, TypeOK
  <2>5. \A u \in Threads : call'[u] = "accepted" => stored'[row'[u].run] # 0
    BY <1>6, <1>t, <1>r DEF Lookup, FlushInv, MarkedIsStored, TypeOK
  <2>6. \A z \in late' : z.at # 0 /\ z.at <= local'[z.run]
    BY <1>6, <1>t, <1>r DEF Lookup, FlushInv, MarkedIsStored, TypeOK
  <2>7. QED
    BY <2>1, <2>2, <2>3, <2>4, <2>5, <2>6 DEF FlushInv, MarkedIsStored
<1>7. ASSUME NEW t \in Threads, Insert(t) PROVE FlushInv'
  <2>1. MarkedIsStored'
    BY <1>7, <1>t, <1>r DEF Insert, FlushInv, MarkedIsStored, TypeOK
  <2>2. \A s \in Runs : local'[s] <= time' /\ stored'[s] <= local'[s]
    BY <1>7, <1>t, <1>r DEF Insert, FlushInv, MarkedIsStored, TypeOK
  <2>3. \A u \in Threads : \A x \in batch'[u] : x.at # 0 /\ x.at <= local'[x.run]
    BY <1>7, <1>t, <1>r DEF Insert, FlushInv, MarkedIsStored, TypeOK
  <2>4. \A u \in Threads : call'[u] # "none" => row'[u].at # 0 /\ row'[u].at <= local'[row'[u].run]
    BY <1>7, <1>t, <1>r DEF Insert, FlushInv, MarkedIsStored, TypeOK
  <2>5. \A u \in Threads : call'[u] = "accepted" => stored'[row'[u].run] # 0
    BY <1>7, <1>t, <1>r DEF Insert, FlushInv, MarkedIsStored, TypeOK
  <2>6. \A z \in late' : z.at # 0 /\ z.at <= local'[z.run]
    BY <1>7, <1>t, <1>r DEF Insert, FlushInv, MarkedIsStored, TypeOK
  <2>7. QED
    BY <2>1, <2>2, <2>3, <2>4, <2>5, <2>6 DEF FlushInv, MarkedIsStored
<1>8. ASSUME NEW t \in Threads, MarkUploaded(t) PROVE FlushInv'
  <2>1. MarkedIsStored'
    BY <1>8, <1>t, <1>r DEF MarkUploaded, FlushInv, MarkedIsStored, TypeOK
  <2>2. \A s \in Runs : local'[s] <= time' /\ stored'[s] <= local'[s]
    BY <1>8, <1>t, <1>r DEF MarkUploaded, FlushInv, MarkedIsStored, TypeOK
  <2>3. \A u \in Threads : \A x \in batch'[u] : x.at # 0 /\ x.at <= local'[x.run]
    BY <1>8, <1>t, <1>r DEF MarkUploaded, FlushInv, MarkedIsStored, TypeOK
  <2>4. \A u \in Threads : call'[u] # "none" => row'[u].at # 0 /\ row'[u].at <= local'[row'[u].run]
    BY <1>8, <1>t, <1>r DEF MarkUploaded, FlushInv, MarkedIsStored, TypeOK
  <2>5. \A u \in Threads : call'[u] = "accepted" => stored'[row'[u].run] # 0
    BY <1>8, <1>t, <1>r DEF MarkUploaded, FlushInv, MarkedIsStored, TypeOK
  <2>6. \A z \in late' : z.at # 0 /\ z.at <= local'[z.run]
    BY <1>8, <1>t, <1>r DEF MarkUploaded, FlushInv, MarkedIsStored, TypeOK
  <2>7. QED
    BY <2>1, <2>2, <2>3, <2>4, <2>5, <2>6 DEF FlushInv, MarkedIsStored
<1>9. ASSUME NEW t \in Threads, Break(t) PROVE FlushInv'
  <2>1. MarkedIsStored'
    BY <1>9, <1>t, <1>r DEF Break, FlushInv, MarkedIsStored, TypeOK
  <2>2. \A s \in Runs : local'[s] <= time' /\ stored'[s] <= local'[s]
    BY <1>9, <1>t, <1>r DEF Break, FlushInv, MarkedIsStored, TypeOK
  <2>3. \A u \in Threads : \A x \in batch'[u] : x.at # 0 /\ x.at <= local'[x.run]
    BY <1>9, <1>t, <1>r DEF Break, FlushInv, MarkedIsStored, TypeOK
  <2>4. \A u \in Threads : call'[u] # "none" => row'[u].at # 0 /\ row'[u].at <= local'[row'[u].run]
    BY <1>9, <1>t, <1>r DEF Break, FlushInv, MarkedIsStored, TypeOK
  <2>5. \A u \in Threads : call'[u] = "accepted" => stored'[row'[u].run] # 0
    BY <1>9, <1>t, <1>r DEF Break, FlushInv, MarkedIsStored, TypeOK
  <2>6. \A z \in late' : z.at # 0 /\ z.at <= local'[z.run]
    BY <1>9, <1>t, <1>r DEF Break, FlushInv, MarkedIsStored, TypeOK
  <2>7. QED
    BY <2>1, <2>2, <2>3, <2>4, <2>5, <2>6 DEF FlushInv, MarkedIsStored
<1>10. ASSUME NEW t \in Threads, CallFails(t) PROVE FlushInv'
  <2>1. MarkedIsStored'
    BY <1>10, <1>t, <1>r DEF CallFails, InFlight, FlushInv, MarkedIsStored, TypeOK
  <2>2. \A s \in Runs : local'[s] <= time' /\ stored'[s] <= local'[s]
    BY <1>10, <1>t, <1>r DEF CallFails, InFlight, FlushInv, MarkedIsStored, TypeOK
  <2>3. \A u \in Threads : \A x \in batch'[u] : x.at # 0 /\ x.at <= local'[x.run]
    BY <1>10, <1>t, <1>r DEF CallFails, InFlight, FlushInv, MarkedIsStored, TypeOK
  <2>4. \A u \in Threads : call'[u] # "none" => row'[u].at # 0 /\ row'[u].at <= local'[row'[u].run]
    BY <1>10, <1>t, <1>r DEF CallFails, InFlight, FlushInv, MarkedIsStored, TypeOK
  <2>5. \A u \in Threads : call'[u] = "accepted" => stored'[row'[u].run] # 0
    BY <1>10, <1>t, <1>r DEF CallFails, InFlight, FlushInv, MarkedIsStored, TypeOK
  <2>6. \A z \in late' : z.at # 0 /\ z.at <= local'[z.run]
    BY <1>10, <1>t, <1>r DEF CallFails, InFlight, FlushInv, MarkedIsStored, TypeOK
  <2>7. QED
    BY <2>1, <2>2, <2>3, <2>4, <2>5, <2>6 DEF FlushInv, MarkedIsStored
<1>11. ASSUME NEW q \in late, LateLookup(q) PROVE FlushInv'
  <2>0. [q EXCEPT !.checked = TRUE].run = q.run /\ [q EXCEPT !.checked = TRUE].at = q.at
    BY <1>r DEF Requests
  <2>1. MarkedIsStored'
    BY <2>0, <1>11, <1>t, <1>r DEF LateLookup, FlushInv, MarkedIsStored, TypeOK
  <2>2. \A s \in Runs : local'[s] <= time' /\ stored'[s] <= local'[s]
    BY <2>0, <1>11, <1>t, <1>r DEF LateLookup, FlushInv, MarkedIsStored, TypeOK
  <2>3. \A u \in Threads : \A x \in batch'[u] : x.at # 0 /\ x.at <= local'[x.run]
    BY <2>0, <1>11, <1>t, <1>r DEF LateLookup, FlushInv, MarkedIsStored, TypeOK
  <2>4. \A u \in Threads : call'[u] # "none" => row'[u].at # 0 /\ row'[u].at <= local'[row'[u].run]
    BY <2>0, <1>11, <1>t, <1>r DEF LateLookup, FlushInv, MarkedIsStored, TypeOK
  <2>5. \A u \in Threads : call'[u] = "accepted" => stored'[row'[u].run] # 0
    BY <2>0, <1>11, <1>t, <1>r DEF LateLookup, FlushInv, MarkedIsStored, TypeOK
  <2>6. \A z \in late' : z.at # 0 /\ z.at <= local'[z.run]
    BY <2>0, <1>11, <1>t, <1>r DEF LateLookup, FlushInv, MarkedIsStored, TypeOK
  <2>7. QED
    BY <2>1, <2>2, <2>3, <2>4, <2>5, <2>6 DEF FlushInv, MarkedIsStored
<1>12. ASSUME NEW q \in late, LateInsert(q) PROVE FlushInv'
  <2>1. MarkedIsStored'
    BY <1>12, <1>t, <1>r DEF LateInsert, FlushInv, MarkedIsStored, TypeOK
  <2>2. \A s \in Runs : local'[s] <= time' /\ stored'[s] <= local'[s]
    BY <1>12, <1>t, <1>r DEF LateInsert, FlushInv, MarkedIsStored, TypeOK
  <2>3. \A u \in Threads : \A x \in batch'[u] : x.at # 0 /\ x.at <= local'[x.run]
    BY <1>12, <1>t, <1>r DEF LateInsert, FlushInv, MarkedIsStored, TypeOK
  <2>4. \A u \in Threads : call'[u] # "none" => row'[u].at # 0 /\ row'[u].at <= local'[row'[u].run]
    BY <1>12, <1>t, <1>r DEF LateInsert, FlushInv, MarkedIsStored, TypeOK
  <2>5. \A u \in Threads : call'[u] = "accepted" => stored'[row'[u].run] # 0
    BY <1>12, <1>t, <1>r DEF LateInsert, FlushInv, MarkedIsStored, TypeOK
  <2>6. \A z \in late' : z.at # 0 /\ z.at <= local'[z.run]
    BY <1>12, <1>t, <1>r DEF LateInsert, FlushInv, MarkedIsStored, TypeOK
  <2>7. QED
    BY <2>1, <2>2, <2>3, <2>4, <2>5, <2>6 DEF FlushInv, MarkedIsStored
<1>13. ASSUME NEW q \in late, LateEnds(q) PROVE FlushInv'
  <2>1. MarkedIsStored'
    BY <1>13, <1>t, <1>r DEF LateEnds, FlushInv, MarkedIsStored, TypeOK
  <2>2. \A s \in Runs : local'[s] <= time' /\ stored'[s] <= local'[s]
    BY <1>13, <1>t, <1>r DEF LateEnds, FlushInv, MarkedIsStored, TypeOK
  <2>3. \A u \in Threads : \A x \in batch'[u] : x.at # 0 /\ x.at <= local'[x.run]
    BY <1>13, <1>t, <1>r DEF LateEnds, FlushInv, MarkedIsStored, TypeOK
  <2>4. \A u \in Threads : call'[u] # "none" => row'[u].at # 0 /\ row'[u].at <= local'[row'[u].run]
    BY <1>13, <1>t, <1>r DEF LateEnds, FlushInv, MarkedIsStored, TypeOK
  <2>5. \A u \in Threads : call'[u] = "accepted" => stored'[row'[u].run] # 0
    BY <1>13, <1>t, <1>r DEF LateEnds, FlushInv, MarkedIsStored, TypeOK
  <2>6. \A z \in late' : z.at # 0 /\ z.at <= local'[z.run]
    BY <1>13, <1>t, <1>r DEF LateEnds, FlushInv, MarkedIsStored, TypeOK
  <2>7. QED
    BY <2>1, <2>2, <2>3, <2>4, <2>5, <2>6 DEF FlushInv, MarkedIsStored
<1>14. ASSUME Restart PROVE FlushInv'
  <2>1. MarkedIsStored'
    BY <1>14, <1>t, <1>r DEF Restart, InFlight, FlushInv, MarkedIsStored, TypeOK
  <2>2. \A s \in Runs : local'[s] <= time' /\ stored'[s] <= local'[s]
    BY <1>14, <1>t, <1>r DEF Restart, InFlight, FlushInv, MarkedIsStored, TypeOK
  <2>3. \A u \in Threads : \A x \in batch'[u] : x.at # 0 /\ x.at <= local'[x.run]
    BY <1>14, <1>t, <1>r DEF Restart, InFlight, FlushInv, MarkedIsStored, TypeOK
  <2>4. \A u \in Threads : call'[u] # "none" => row'[u].at # 0 /\ row'[u].at <= local'[row'[u].run]
    BY <1>14, <1>t, <1>r DEF Restart, InFlight, FlushInv, MarkedIsStored, TypeOK
  <2>5. \A u \in Threads : call'[u] = "accepted" => stored'[row'[u].run] # 0
    BY <1>14, <1>t, <1>r DEF Restart, InFlight, FlushInv, MarkedIsStored, TypeOK
  <2>6. \A z \in late' : z.at # 0 /\ z.at <= local'[z.run]
    BY <1>14, <1>t, <1>r DEF Restart, InFlight, FlushInv, MarkedIsStored, TypeOK
  <2>7. QED
    BY <2>1, <2>2, <2>3, <2>4, <2>5, <2>6 DEF FlushInv, MarkedIsStored
<1>15. CASE UNCHANGED vars
  BY <1>t, <1>15 DEF FlushInv, MarkedIsStored
<1>16. QED
  BY <1>1, <1>2, <1>3, <1>4, <1>5, <1>6, <1>7, <1>8, <1>9, <1>10, <1>11, <1>12, <1>13, <1>14, <1>15 DEF Next

\* The invariant of the flush: a marked row is stored at the server, and nothing that
\* travels or is stored was not recorded before.
THEOREM MetricInvariant == Spec => []MetricInv
<1>1. Init => TypeOK
  BY NoRowType DEF Init, TypeOK
<1>2. Init => FlushInv
  BY DEF Init, FlushInv, MarkedIsStored
<1>3. MetricInv /\ [Next]_vars => MetricInv'
  BY TypeStep, FlushStep DEF MetricInv
<1>4. QED
  BY <1>1, <1>2, <1>3, PTL DEF Spec, MetricInv

LEMMA StoredStep ==
    ASSUME TypeOK, [Next]_vars
    PROVE  \A s \in Runs : stored[s] # 0 => stored'[s] = stored[s]
<1>1. ASSUME NEW r \in Runs, RecordProgress(r) PROVE \A s \in Runs : stored[s] # 0 => stored'[s] = stored[s]
  BY <1>1 DEF RecordProgress, Upsert
<1>2. ASSUME NEW r \in Runs, RecordResult(r) PROVE \A s \in Runs : stored[s] # 0 => stored'[s] = stored[s]
  BY <1>2 DEF RecordResult, Upsert
<1>3. ASSUME NEW r \in Runs, SyncProfile(r) PROVE \A s \in Runs : stored[s] # 0 => stored'[s] = stored[s]
  BY <1>3 DEF SyncProfile
<1>4. ASSUME NEW t \in Threads, Pending(t) PROVE \A s \in Runs : stored[s] # 0 => stored'[s] = stored[s]
  BY <1>4 DEF Pending
<1>5. ASSUME NEW t \in Threads, Send(t) PROVE \A s \in Runs : stored[s] # 0 => stored'[s] = stored[s]
  BY <1>5 DEF Send
<1>6. ASSUME NEW t \in Threads, Lookup(t) PROVE \A s \in Runs : stored[s] # 0 => stored'[s] = stored[s]
  BY <1>6 DEF Lookup
<1>7. ASSUME NEW t \in Threads, Insert(t) PROVE \A s \in Runs : stored[s] # 0 => stored'[s] = stored[s]
  BY <1>7 DEF Insert, TypeOK
<1>8. ASSUME NEW t \in Threads, MarkUploaded(t) PROVE \A s \in Runs : stored[s] # 0 => stored'[s] = stored[s]
  BY <1>8 DEF MarkUploaded
<1>9. ASSUME NEW t \in Threads, Break(t) PROVE \A s \in Runs : stored[s] # 0 => stored'[s] = stored[s]
  BY <1>9 DEF Break
<1>10. ASSUME NEW t \in Threads, CallFails(t) PROVE \A s \in Runs : stored[s] # 0 => stored'[s] = stored[s]
  BY <1>10 DEF CallFails
<1>11. ASSUME NEW q \in late, LateLookup(q) PROVE \A s \in Runs : stored[s] # 0 => stored'[s] = stored[s]
  BY <1>11 DEF LateLookup
<1>12. ASSUME NEW q \in late, LateInsert(q) PROVE \A s \in Runs : stored[s] # 0 => stored'[s] = stored[s]
  BY <1>12 DEF LateInsert, TypeOK
<1>13. ASSUME NEW q \in late, LateEnds(q) PROVE \A s \in Runs : stored[s] # 0 => stored'[s] = stored[s]
  BY <1>13 DEF LateEnds
<1>14. ASSUME Restart PROVE \A s \in Runs : stored[s] # 0 => stored'[s] = stored[s]
  BY <1>14 DEF Restart
<1>15. CASE UNCHANGED vars
  BY <1>15
<1>16. QED
  BY <1>1, <1>2, <1>3, <1>4, <1>5, <1>6, <1>7, <1>8, <1>9, <1>10, <1>11, <1>12, <1>13, <1>14, <1>15 DEF Next

\* CountedOnce of MetricSync: what the server has stored of a run never changes.
THEOREM RunCountedOnce == Spec => CountedOnce
<1>1. MetricInv /\ [Next]_vars => [\A r \in Runs : stored[r] # 0 => stored'[r] = stored[r]]_vars
  BY StoredStep DEF MetricInv
<1>2. QED
  BY <1>1, MetricInvariant, PTL DEF Spec, CountedOnce
=============================================================================
