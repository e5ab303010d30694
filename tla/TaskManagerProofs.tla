------------------------- MODULE TaskManagerProofs -------------------------
(***************************************************************************)
(* Proofs about TaskManager, for every number of tasks, every assignment   *)
(* of tasks to profiles and every size of the pools.                       *)
(***************************************************************************)
EXTENDS TaskManager, TLAPS

USE DEF vars, poolVars, callVars, workerVars, Callers

-----------------------------------------------------------------------------
(* Commands for the browser of a profile leave the tasks alone. *)

\* Steps of a profile worker, and of others that use its browser.
WorkerStep(c) == \/ \E p \in Driven : StartProfile(c, p) \/ StopProfile(c, p) \/ RefreshProfile(c, p)
                 \/ BrowserStarts(c) \/ BrowserStops(c) \/ BrowserTells(c) \/ WorkerDone(c)

\* Where a thread stands that is in no call about tasks.
Elsewhere == {"idle"} \cup Asking \cup Answers

LEMMA WorkerStepFrame ==
    ASSUME TypeOK, NEW c \in Callers, WorkerStep(c)
    PROVE  /\ UNCHANGED <<poolVars, status, registered, at, callVars, confirmed>>
           /\ pc[c] \in Elsewhere /\ pc'[c] \in Elsewhere
           /\ pc' = [pc EXCEPT ![c] = pc'[c]]
<1>1. ASSUME NEW p \in Driven, StartProfile(c, p) \/ StopProfile(c, p) \/ RefreshProfile(c, p)
      PROVE  /\ UNCHANGED <<poolVars, status, registered, at, callVars, confirmed>>
             /\ pc[c] \in Elsewhere /\ pc'[c] \in Elsewhere
             /\ pc' = [pc EXCEPT ![c] = pc'[c]]
  BY <1>1 DEF TypeOK, StartProfile, StopProfile, RefreshProfile, Ask, Elsewhere, Asking
<1>2. ASSUME BrowserStarts(c) \/ BrowserStops(c) \/ BrowserTells(c)
      PROVE  /\ UNCHANGED <<poolVars, status, registered, at, callVars, confirmed>>
             /\ pc[c] \in Elsewhere /\ pc'[c] \in Elsewhere
             /\ pc' = [pc EXCEPT ![c] = pc'[c]]
  BY <1>2 DEF TypeOK, BrowserStarts, BrowserStops, BrowserTells, Answer, Elsewhere, Asking, Answers
<1>3. ASSUME WorkerDone(c)
      PROVE  /\ UNCHANGED <<poolVars, status, registered, at, callVars, confirmed>>
             /\ pc[c] \in Elsewhere /\ pc'[c] \in Elsewhere
             /\ pc' = [pc EXCEPT ![c] = pc'[c]]
  BY <1>3 DEF TypeOK, WorkerDone, Elsewhere
<1>4. QED
  BY <1>1, <1>2, <1>3 DEF WorkerStep

\* The steps, with those of the workers put together.
LEMMA StepCases ==
    ASSUME [Next]_vars
    PROVE  \/ \E c \in Callers : \/ \E S \in SUBSET Tasks : Begin(c, S)
                                 \/ Submit(c) \/ Register(c) \/ Return(c) \/ Confirm(c)
                                 \/ \E t \in Tasks : Collect(c, t) \/ Cancel(c, t)
                                 \/ WorkerStep(c)
           \/ \E t \in Tasks : PickUp(t) \/ Acquire(t) \/ Finish(t) \/ Store(t)
           \/ \E p \in Driven : OthersTouch(p)
           \/ UNCHANGED vars
  BY DEF Next, PoolThread, GoOn, NewCall, WorkerStep

-----------------------------------------------------------------------------
(* Types. *)

LEMMA TypeInit == Init => TypeOK
  BY DEF Init, TypeOK, Items, Final, States

LEMMA NewStateType ==
    ASSUME NEW answer, NEW old \in States
    PROVE  NewState(answer, old) \in States
  BY DEF NewState, States

LEMMA TypeStep == ManagerInv /\ WorkersInv /\ [Next]_vars => TypeOK'
<1> SUFFICES ASSUME ManagerInv, WorkersInv, [Next]_vars PROVE TypeOK'
  OBVIOUS
<1>0. TypeOK
  BY DEF ManagerInv
<1>1. ASSUME NEW c \in Callers, NEW S \in SUBSET Tasks, Begin(c, S) PROVE TypeOK'
  BY <1>0, <1>1 DEF TypeOK, Begin
<1>2. ASSUME NEW c \in Callers, Submit(c) PROVE TypeOK'
  <2>1. PICK t \in Tasks : /\ item' = [item EXCEPT ![t] = "queued"]
                           /\ left' = [left EXCEPT ![c] = @ \ {t}]
                           /\ at' = [at EXCEPT ![c] = t]
    BY <1>2 DEF Submit
  <2>2. item' \in [Tasks -> Items] /\ left' \in [Callers -> SUBSET Tasks]
        /\ at' \in [Callers -> Tasks \cup {NoTask}]
    BY <1>0, <2>1 DEF TypeOK, Items
  <2>3. QED
    BY <1>0, <1>2, <2>2 DEF TypeOK, Submit
<1>3. ASSUME NEW c \in Callers, Register(c) PROVE TypeOK'
  <2>1. at[c] \in Tasks
    BY <1>0, <1>3 DEF ManagerInv, BatchesAreApart, CallHolds, Register, TypeOK
  <2>2. QED
    BY <1>0, <1>3, <2>1 DEF TypeOK, Register
<1>4. ASSUME NEW c \in Callers, Return(c) PROVE TypeOK'
  <2>1. reported' \in [Tasks -> {"none", "PENDING", "RUNNING"} \cup Final]
    BY <1>0, <1>4 DEF TypeOK, Return
  <2>2. QED
    BY <1>0, <1>4, <2>1 DEF TypeOK, Return
<1>5. ASSUME NEW c \in Callers, Confirm(c) PROVE TypeOK'
  <2>1. at[c] \in Tasks
    BY <1>0, <1>5 DEF ManagerInv, BatchesAreApart, CallHolds, Confirm, TypeOK
  <2>2. QED
    BY <1>0, <1>5, <2>1 DEF TypeOK, Confirm, Final
<1>6. ASSUME NEW c \in Callers, NEW t \in Tasks, Collect(c, t) PROVE TypeOK'
  BY <1>0, <1>6 DEF TypeOK, Collect, Final
<1>7. ASSUME NEW c \in Callers, NEW t \in Tasks, Cancel(c, t) PROVE TypeOK'
  <2>1. item' \in [Tasks -> Items]
    BY <1>0, <1>7 DEF TypeOK, Cancel, Items
  <2>2. QED
    BY <1>0, <1>7, <2>1 DEF TypeOK, Cancel
<1>8. ASSUME NEW t \in Tasks, PickUp(t) PROVE TypeOK'
  <2>1. item' \in [Tasks -> Items] /\ status' \in [Tasks -> {"PENDING", "RUNNING"} \cup Final]
    BY <1>0, <1>8 DEF TypeOK, PickUp, Items, Running, Ended
  <2>2. QED
    BY <1>0, <1>8, <2>1 DEF TypeOK, PickUp
<1>9. ASSUME NEW t \in Tasks, Acquire(t) PROVE TypeOK'
  <2>1. ProfileOf[t] \in Profiles
    BY ManagerAssumption
  <2>2. item' \in [Tasks -> Items]
    BY <1>0, <1>9 DEF TypeOK, Acquire, Items, Running
  <2>3. QED
    BY <1>0, <1>9, <2>1, <2>2 DEF TypeOK, Acquire
<1>10. ASSUME NEW t \in Tasks, Finish(t) PROVE TypeOK'
  <2>1. item' \in [Tasks -> Items]
    BY <1>0, <1>10 DEF TypeOK, Finish, Items, Running
  <2>2. status' \in [Tasks -> {"PENDING", "RUNNING"} \cup Final]
    BY <1>0, <1>10, ManagerAssumption DEF TypeOK, Finish
  <2>3. QED
    BY <1>0, <1>10, <2>1, <2>2 DEF TypeOK, Finish
<1>11. ASSUME NEW t \in Tasks, Store(t) PROVE TypeOK'
  <2>1. item' \in [Tasks -> Items]
    BY <1>0, <1>11 DEF TypeOK, Store, Items, Ended
  <2>2. status[t] \in Final
    BY <1>11 DEF Store, ManagerInv, StatusesFit, StatusFits
  <2>3. logged' \in [Tasks -> Final \cup {"none"}]
    BY <1>0, <1>11, <2>2 DEF TypeOK, Store
  <2>4. QED
    BY <1>0, <1>11, <2>1, <2>3 DEF TypeOK, Store
<1>12. ASSUME NEW c \in Callers, NEW p \in Driven,
              StartProfile(c, p) \/ StopProfile(c, p) \/ RefreshProfile(c, p)
       PROVE  TypeOK'
  BY <1>0, <1>12 DEF TypeOK, StartProfile, StopProfile, RefreshProfile, Ask, Asking, States
<1>13. ASSUME NEW c \in Callers, BrowserStarts(c) \/ BrowserStops(c) \/ BrowserTells(c) PROVE TypeOK'
  <2>1. on[c] \in Driven
    BY <1>13 DEF WorkersInv, BrowserStarts, BrowserStops, BrowserTells, Asking
  <2>2. open' \in [Driven -> BOOLEAN]
    <3>1. CASE UNCHANGED open
      BY <1>0, <3>1 DEF TypeOK
    <3>2. ASSUME NEW b \in BOOLEAN, open' = [open EXCEPT ![on[c]] = b] PROVE open' \in [Driven -> BOOLEAN]
      BY <1>0, <3>2 DEF TypeOK
    <3>3. \/ UNCHANGED open
          \/ \E b \in BOOLEAN : open' = [open EXCEPT ![on[c]] = b]
      <4>1. \A b \in BOOLEAN : (open[on[c]] \/ b) \in BOOLEAN /\ (open[on[c]] /\ b) \in BOOLEAN
        OBVIOUS
      <4>2. QED
        BY <1>13, <4>1 DEF BrowserStarts, BrowserStops, BrowserTells
    <3>4. QED
      BY <3>1, <3>2, <3>3
  <2>3. touched' \in [Driven -> BOOLEAN]
    BY <1>0, <1>13 DEF TypeOK, BrowserStarts, BrowserStops, BrowserTells
  <2>4. pc' \in [Callers -> {"idle", "submit", "register", "collect", "cancel"} \cup Asking \cup Answers]
    BY <1>0, <1>13 DEF TypeOK, BrowserStarts, BrowserStops, BrowserTells, Answer, Answers
  <2>5. QED
    BY <1>0, <1>13, <2>2, <2>3, <2>4 DEF TypeOK, BrowserStarts, BrowserStops, BrowserTells, Answer
<1>14. ASSUME NEW c \in Callers, WorkerDone(c) PROVE TypeOK'
  <2>1. on[c] \in Driven
    BY <1>14 DEF WorkersInv, WorkerDone
  <2>2. worker' \in [Driven -> States]
    BY <1>0, <1>14, <2>1, NewStateType DEF TypeOK, WorkerDone
  <2>3. QED
    BY <1>0, <1>14, <2>2 DEF TypeOK, WorkerDone
<1>15. ASSUME NEW p \in Driven, OthersTouch(p) PROVE TypeOK'
  BY <1>0, <1>15 DEF TypeOK, OthersTouch
<1>16. CASE UNCHANGED vars
  BY <1>0, <1>16 DEF TypeOK
<1>17. QED
  BY <1>1, <1>2, <1>3, <1>4, <1>5, <1>6, <1>7, <1>8, <1>9, <1>10, <1>11, <1>12, <1>13, <1>14, <1>15, <1>16
     DEF Next, PoolThread, GoOn, NewCall
-----------------------------------------------------------------------------
(* Part one: the batches. *)

\* What a part says of the tasks and of the threads in a call about tasks survives
\* a step that changes neither.
LEMMA BatchesFrame ==
    ASSUME TypeOK, BatchesAreApart, UNCHANGED <<item, batch, left, at, registered, collected, reported>>,
           \A c \in Callers : pc'[c] = pc[c] \/ {pc[c], pc'[c]} \subseteq Elsewhere
    PROVE  BatchesAreApart'
<1>1. ASSUME NEW c \in Callers PROVE CallHolds(c)'
  BY DEF BatchesAreApart, CallHolds, Elsewhere, Asking, Answers
<1>2. QED
  BY <1>1 DEF BatchesAreApart

LEMMA BeginBatches ==
    ASSUME ManagerInv, NEW c \in Callers, NEW S \in SUBSET Tasks, Begin(c, S)
    PROVE  BatchesAreApart'
<1>1. /\ batch' = [batch EXCEPT ![c] = S] /\ left' = [left EXCEPT ![c] = S]
      /\ pc' = [pc EXCEPT ![c] = "submit"] /\ pc[c] = "idle" /\ S # {}
      /\ UNCHANGED <<item, at, registered, collected, reported>>
  BY DEF Begin
<1>2. \A t \in S : item[t] = "none" /\ reported[t] = "none" /\ \A d \in Callers : t \notin batch[d]
  BY DEF Begin, Fresh, ManagerInv, BatchesAreApart, Ended
<1>3. batch[c] = {}
  BY <1>1 DEF ManagerInv, BatchesAreApart, CallHolds
<1>4. ASSUME NEW d \in Callers PROVE CallHolds(d)'
  BY <1>1, <1>2 DEF ManagerInv, TypeOK, BatchesAreApart, CallHolds
<1>5. \A d, e \in Callers : d # e => batch'[d] \cap batch'[e] = {}
  BY <1>1, <1>2 DEF ManagerInv, TypeOK, BatchesAreApart
<1>6. \A t \in Tasks, d \in Callers : t \in batch[d] => t \in batch'[d]
  BY <1>1, <1>3 DEF ManagerInv, TypeOK
<1>7. QED
  BY <1>1, <1>4, <1>5, <1>6 DEF ManagerInv, BatchesAreApart

LEMMA SubmitBatches ==
    ASSUME ManagerInv, NEW c \in Callers, Submit(c)
    PROVE  BatchesAreApart'
<1>1. PICK t \in Tasks : /\ First(t, left[c]) /\ item' = [item EXCEPT ![t] = "queued"]
                         /\ left' = [left EXCEPT ![c] = @ \ {t}] /\ at' = [at EXCEPT ![c] = t]
  BY DEF Submit
<1>2. t \in left[c] /\ t \in batch[c] /\ item[t] = "none"
  BY <1>1 DEF First, ManagerInv, BatchesAreApart, CallHolds
<1>3. \A d \in Callers : d # c => t \notin batch[d] /\ t \notin left[d]
  BY <1>2 DEF ManagerInv, BatchesAreApart, CallHolds
<1>4. pc' = [pc EXCEPT ![c] = "register"] /\ UNCHANGED <<batch, registered, collected, reported>>
  BY DEF Submit
<1>5. ASSUME NEW d \in Callers PROVE CallHolds(d)'
  <2>1. CASE d = c
    BY <1>1, <1>2, <1>4, <2>1 DEF ManagerInv, TypeOK, BatchesAreApart, CallHolds
  <2>2. CASE d # c
    BY <1>1, <1>2, <1>3, <1>4, <2>2 DEF ManagerInv, TypeOK, BatchesAreApart, CallHolds
  <2>3. QED
    BY <2>1, <2>2
<1>6. \A u \in Tasks : u # t => item'[u] = item[u]
  BY <1>1 DEF ManagerInv, TypeOK
<1>7. item'[t] = "queued" /\ t \notin collected
  BY <1>1, <1>2 DEF ManagerInv, TypeOK, BatchesAreApart, Ended
<1>8. /\ \A u \in registered : item'[u] # "none"
      /\ \A u \in collected : item'[u] \in Ended
  BY <1>6, <1>7 DEF ManagerInv, TypeOK, BatchesAreApart
<1>9. QED
  BY <1>2, <1>4, <1>5, <1>6, <1>8 DEF ManagerInv, BatchesAreApart

LEMMA RegisterBatches ==
    ASSUME ManagerInv, NEW c \in Callers, Register(c)
    PROVE  BatchesAreApart'
<1>1. at[c] \in batch[c] \ left[c] /\ item[at[c]] # "none" /\ left[c] \subseteq batch[c]
  BY DEF Register, ManagerInv, BatchesAreApart, CallHolds
<1>2. ASSUME NEW d \in Callers PROVE CallHolds(d)'
  BY <1>1 DEF Register, ManagerInv, TypeOK, BatchesAreApart, CallHolds
<1>3. QED
  BY <1>1, <1>2 DEF Register, ManagerInv, BatchesAreApart

LEMMA ReturnBatches ==
    ASSUME ManagerInv, NEW c \in Callers, Return(c)
    PROVE  BatchesAreApart'
<1>1. /\ pc[c] = "collect" /\ batch[c] \subseteq collected /\ left[c] = {}
      /\ batch' = [batch EXCEPT ![c] = {}] /\ pc' = [pc EXCEPT ![c] = "idle"]
      /\ UNCHANGED <<item, at, left, registered, collected>>
  BY DEF Return, ManagerInv, BatchesAreApart, CallHolds
<1>2. \A t \in Tasks : t \notin batch[c] => reported'[t] = reported[t]
  BY DEF Return, ManagerInv, TypeOK
<1>3. ASSUME NEW d \in Callers PROVE CallHolds(d)'
  <2>1. CASE d = c
    BY <1>1, <2>1 DEF ManagerInv, TypeOK, BatchesAreApart, CallHolds
  <2>2. CASE d # c
    <3>1. batch'[d] = batch[d] /\ pc'[d] = pc[d] /\ batch[c] \cap batch[d] = {}
      BY <1>1, <2>2 DEF ManagerInv, TypeOK, BatchesAreApart
    <3>2. \A t \in batch[d] : reported'[t] = "none"
      BY <1>2, <3>1 DEF ManagerInv, TypeOK, BatchesAreApart, CallHolds
    <3>3. QED
      BY <1>1, <3>1, <3>2 DEF ManagerInv, BatchesAreApart, CallHolds
  <2>3. QED
    BY <2>1, <2>2
<1>4. \A d, e \in Callers : d # e => batch'[d] \cap batch'[e] = {}
  BY <1>1 DEF ManagerInv, TypeOK, BatchesAreApart
<1>5. \A t \in Tasks : reported'[t] # "none" => t \in collected'
  BY <1>1, <1>2 DEF ManagerInv, BatchesAreApart
<1>6. ASSUME NEW t \in Tasks, item[t] \in {"queued", "cancelled"} \cup Running
      PROVE  \E d \in Callers : t \in batch'[d]
  <2>1. PICK d \in Callers : t \in batch[d]
    BY <1>6 DEF ManagerInv, BatchesAreApart
  <2>2. t \notin collected
    BY <1>6 DEF ManagerInv, BatchesAreApart, Running, Ended
  <2>3. d # c
    BY <1>1, <2>1, <2>2
  <2>4. QED
    BY <1>1, <2>1, <2>3 DEF ManagerInv, TypeOK
<1>7. QED
  BY <1>1, <1>3, <1>4, <1>5, <1>6 DEF ManagerInv, BatchesAreApart

\* A work item that moves on, in the queue, in the pool or out of it.
LEMMA ItemBatches ==
    ASSUME ManagerInv, NEW t \in Tasks, NEW place \in Items \ {"none"},
           item' = [item EXCEPT ![t] = place],
           item[t] \in {"queued", "cancelled"} \cup Running,
           item[t] = "cancelled" => place = "notified",
           UNCHANGED <<pc, at, batch, left, registered, collected, reported>>
    PROVE  BatchesAreApart'
<1>1. item'[t] = place /\ \A u \in Tasks : u # t => item'[u] = item[u]
  BY DEF ManagerInv, TypeOK
<1>2. t \notin collected /\ item[t] # "none"
  BY DEF ManagerInv, BatchesAreApart, Running, Ended
<1>3. ASSUME NEW c \in Callers PROVE CallHolds(c)'
  BY <1>1, <1>2 DEF ManagerInv, TypeOK, BatchesAreApart, CallHolds, Running
<1>4. /\ \A u \in registered : item'[u] # "none"
      /\ \A u \in collected : item'[u] \in Ended
  BY <1>1, <1>2 DEF ManagerInv, TypeOK, BatchesAreApart
<1>5. \E c \in Callers : t \in batch[c]
  BY DEF ManagerInv, BatchesAreApart
<1>6. QED
  BY <1>1, <1>3, <1>4, <1>5 DEF ManagerInv, BatchesAreApart

LEMMA PoolStepMoves ==
    ASSUME ManagerInv, NEW t \in Tasks, PickUp(t) \/ Acquire(t) \/ Finish(t) \/ Store(t)
    PROVE  /\ \E place \in Items \ {"none"} :
                /\ item' = [item EXCEPT ![t] = place]
                /\ item[t] = "cancelled" => place = "notified"
           /\ item[t] \in {"queued", "cancelled"} \cup Running
           /\ UNCHANGED <<pc, at, batch, left, registered, collected, reported, confirmed>>
<1>1. CASE PickUp(t)
  BY <1>1 DEF PickUp, Items, Running, Ended
<1>2. CASE Acquire(t)
  BY <1>2 DEF Acquire, Items, Running
<1>3. CASE Finish(t)
  BY <1>3 DEF Finish, Items, Running
<1>4. CASE Store(t)
  BY <1>4 DEF Store, Items, Running, Ended
<1>5. QED
  BY <1>1, <1>2, <1>3, <1>4

LEMMA CancelBatches ==
    ASSUME ManagerInv, NEW c \in Callers, NEW t \in Tasks, Cancel(c, t)
    PROVE  BatchesAreApart'
<1>1. /\ item[t] \in {"queued", "cancelled", "notified"} /\ pc[c] = "idle"
      /\ item' = [item EXCEPT ![t] = IF item[t] = "queued" THEN "cancelled" ELSE item[t]]
      /\ pc' = [pc EXCEPT ![c] = "cancel"] /\ at' = [at EXCEPT ![c] = t]
      /\ UNCHANGED <<batch, left, registered, collected, reported>>
  BY DEF Cancel, Cancellable
<1>2. /\ item'[t] \in {"cancelled", "notified"} /\ (item'[t] # item[t] => item[t] = "queued")
      /\ \A u \in Tasks : u # t => item'[u] = item[u]
  BY <1>1 DEF ManagerInv, TypeOK
<1>3. batch[c] = {} /\ left[c] = {}
  BY <1>1 DEF ManagerInv, BatchesAreApart, CallHolds
<1>4. ASSUME NEW d \in Callers PROVE CallHolds(d)'
  <2>1. CASE d = c
    BY <1>1, <1>2, <1>3, <2>1 DEF ManagerInv, TypeOK, BatchesAreApart, CallHolds
  <2>2. CASE d # c
    BY <1>1, <1>2, <2>2 DEF ManagerInv, TypeOK, BatchesAreApart, CallHolds
  <2>3. QED
    BY <2>1, <2>2
<1>5. /\ \A u \in registered : item'[u] # "none"
      /\ \A u \in collected : item'[u] \in Ended
  BY <1>1, <1>2 DEF ManagerInv, TypeOK, BatchesAreApart, Ended
<1>6. ASSUME NEW u \in Tasks, item'[u] \in {"queued", "cancelled"} \cup Running
      PROVE  \E d \in Callers : u \in batch[d]
  BY <1>1, <1>2, <1>6 DEF ManagerInv, BatchesAreApart, Running
<1>7. QED
  BY <1>1, <1>4, <1>5, <1>6 DEF ManagerInv, BatchesAreApart

LEMMA BatchesStep == ManagerInv /\ [Next]_vars => BatchesAreApart'
<1> SUFFICES ASSUME ManagerInv, [Next]_vars PROVE BatchesAreApart'
  OBVIOUS
<1>0. TypeOK /\ BatchesAreApart
  BY DEF ManagerInv
<1>1. ASSUME NEW c \in Callers, Confirm(c) PROVE BatchesAreApart'
  <2>1. ASSUME NEW d \in Callers PROVE CallHolds(d)'
    BY <1>0, <1>1 DEF Confirm, TypeOK, BatchesAreApart, CallHolds
  <2>2. QED
    BY <1>0, <1>1, <2>1 DEF Confirm, BatchesAreApart
<1>2. ASSUME NEW c \in Callers, NEW t \in Tasks, Collect(c, t) PROVE BatchesAreApart'
  <2>1. ASSUME NEW d \in Callers PROVE CallHolds(d)'
    BY <1>0, <1>2 DEF Collect, BatchesAreApart, CallHolds
  <2>2. QED
    BY <1>0, <1>2, <2>1 DEF Collect, BatchesAreApart
<1>3. ASSUME NEW c \in Callers, WorkerStep(c) PROVE BatchesAreApart'
  <2>1. UNCHANGED <<item, batch, left, at, registered, collected, reported>>
    BY <1>0, <1>3, WorkerStepFrame
  <2>2. \A d \in Callers : pc'[d] = pc[d] \/ {pc[d], pc'[d]} \subseteq Elsewhere
    BY <1>0, <1>3, WorkerStepFrame DEF TypeOK
  <2>3. QED
    BY <1>0, <2>1, <2>2, BatchesFrame
<1>4. ASSUME NEW t \in Tasks, PickUp(t) \/ Acquire(t) \/ Finish(t) \/ Store(t) PROVE BatchesAreApart'
  BY <1>4, PoolStepMoves, ItemBatches
<1>5. ASSUME NEW p \in Driven, OthersTouch(p) PROVE BatchesAreApart'
  BY <1>0, <1>5, BatchesFrame DEF OthersTouch
<1>6. CASE UNCHANGED vars
  BY <1>0, <1>6, BatchesFrame
<1>7. QED
  BY <1>1, <1>2, <1>3, <1>4, <1>5, <1>6, StepCases, BeginBatches, SubmitBatches, RegisterBatches,
     ReturnBatches, CancelBatches
-----------------------------------------------------------------------------
(* Part two: the locks. *)

\* A step in which no task begins or ends its execution leaves the locks as they are.
LEMMA LocksFrame ==
    ASSUME LocksAreHeld, UNCHANGED locked,
           \A t \in Tasks : item'[t] = "executing" <=> item[t] = "executing"
    PROVE  LocksAreHeld'
<1>1. Executing' = Executing
  BY DEF Executing
<1>2. QED
  BY <1>1 DEF LocksAreHeld

LEMMA AcquireLocks ==
    ASSUME TypeOK, LocksAreHeld, NEW t \in Tasks, Acquire(t)
    PROVE  LocksAreHeld'
<1>1. Executing' = Executing \cup {t} /\ locked' = locked \cup {ProfileOf[t]} /\ ProfileOf[t] \notin locked
  BY DEF Acquire, Available, Executing, TypeOK
<1>2. \A u \in Executing : ProfileOf[u] # ProfileOf[t]
  BY <1>1 DEF LocksAreHeld
<1>3. QED
  BY <1>1, <1>2 DEF LocksAreHeld

LEMMA FinishLocks ==
    ASSUME TypeOK, LocksAreHeld, NEW t \in Tasks, Finish(t)
    PROVE  LocksAreHeld'
<1>1. Executing' = Executing \ {t} /\ locked' = locked \ {ProfileOf[t]} /\ t \in Executing
  BY DEF Finish, Executing, TypeOK
<1>2. \A u \in Executing' : ProfileOf[u] # ProfileOf[t]
  BY <1>1 DEF LocksAreHeld
<1>3. QED
  BY <1>1, <1>2 DEF LocksAreHeld

LEMMA LocksStep == ManagerInv /\ [Next]_vars => LocksAreHeld'
<1> SUFFICES ASSUME ManagerInv, [Next]_vars PROVE LocksAreHeld'
  OBVIOUS
<1>0. TypeOK /\ LocksAreHeld
  BY DEF ManagerInv
<1>1. ASSUME NEW c \in Callers, NEW S \in SUBSET Tasks, Begin(c, S) PROVE LocksAreHeld'
  BY <1>0, <1>1, LocksFrame DEF Begin
<1>2. ASSUME NEW c \in Callers, Submit(c) PROVE LocksAreHeld'
  <2>1. PICK t \in Tasks : t \in left[c] /\ item' = [item EXCEPT ![t] = "queued"]
    BY <1>2 DEF Submit, First
  <2>2. item[t] = "none"
    BY <2>1 DEF ManagerInv, BatchesAreApart, CallHolds
  <2>3. QED
    BY <1>0, <1>2, <2>1, <2>2, LocksFrame DEF Submit, TypeOK
<1>3. ASSUME NEW c \in Callers, Register(c) \/ Return(c) \/ Confirm(c) PROVE LocksAreHeld'
  BY <1>0, <1>3, LocksFrame DEF Register, Return, Confirm
<1>4. ASSUME NEW c \in Callers, NEW t \in Tasks, Collect(c, t) PROVE LocksAreHeld'
  BY <1>0, <1>4, LocksFrame DEF Collect
<1>5. ASSUME NEW c \in Callers, NEW t \in Tasks, Cancel(c, t) PROVE LocksAreHeld'
  BY <1>0, <1>5, LocksFrame DEF Cancel, Cancellable, TypeOK
<1>6. ASSUME NEW c \in Callers, WorkerStep(c) PROVE LocksAreHeld'
  BY <1>0, <1>6, LocksFrame, WorkerStepFrame
<1>7. ASSUME NEW t \in Tasks, PickUp(t) PROVE LocksAreHeld'
  BY <1>0, <1>7, LocksFrame DEF PickUp, TypeOK
<1>8. ASSUME NEW t \in Tasks, Store(t) PROVE LocksAreHeld'
  BY <1>0, <1>8, LocksFrame DEF Store, TypeOK
<1>9. ASSUME NEW p \in Driven, OthersTouch(p) PROVE LocksAreHeld'
  BY <1>0, <1>9, LocksFrame DEF OthersTouch
<1>10. CASE UNCHANGED vars
  BY <1>0, <1>10, LocksFrame
<1>11. QED
  BY <1>0, <1>1, <1>2, <1>3, <1>4, <1>5, <1>6, <1>7, <1>8, <1>9, <1>10, AcquireLocks, FinishLocks, StepCases

-----------------------------------------------------------------------------
(* Part three: status, executions and record follow the work item. *)

LEMMA StatusFrame ==
    ASSUME StatusesFit, UNCHANGED <<item, status, executions, logged, collected>>
    PROVE  StatusesFit'
  BY DEF StatusesFit, StatusFits

\* A step about one task leaves the others as they are.
LEMMA OthersFit ==
    ASSUME StatusesFit, NEW t \in Tasks,
           \A u \in Tasks \ {t} : /\ item'[u] = item[u] /\ status'[u] = status[u]
                                  /\ executions'[u] = executions[u] /\ logged'[u] = logged[u]
                                  /\ u \in collected' => u \in collected,
           StatusFits(t)'
    PROVE  StatusesFit'
<1>1. ASSUME NEW u \in Tasks \ {t} PROVE StatusFits(u)'
  BY DEF StatusesFit, StatusFits
<1>2. QED
  BY <1>1 DEF StatusesFit

LEMMA StatusStep == ManagerInv /\ [Next]_vars => StatusesFit'
<1> SUFFICES ASSUME ManagerInv, [Next]_vars PROVE StatusesFit'
  OBVIOUS
<1>0. TypeOK /\ StatusesFit /\ \A t \in collected : item[t] \in Ended
  BY DEF ManagerInv, BatchesAreApart
<1>1. ASSUME NEW c \in Callers, Submit(c) PROVE StatusesFit'
  <2>1. PICK t \in Tasks : t \in left[c] /\ item' = [item EXCEPT ![t] = "queued"]
    BY <1>1 DEF Submit, First
  <2>2. item[t] = "none" /\ item'[t] = "queued"
    BY <1>0, <2>1 DEF ManagerInv, BatchesAreApart, CallHolds, TypeOK
  <2>3. StatusFits(t)'
    BY <1>0, <1>1, <2>2 DEF Submit, StatusesFit, StatusFits
  <2>4. QED
    BY <1>0, <1>1, <2>1, <2>3, OthersFit DEF Submit, TypeOK
<1>2. ASSUME NEW c \in Callers, Confirm(c) PROVE StatusesFit'
  <2>1. PICK t \in Tasks : t = at[c] /\ item[t] \in {"cancelled", "notified"}
    BY <1>2 DEF Confirm, ManagerInv, BatchesAreApart, CallHolds
  <2>2. StatusFits(t)'
    BY <1>0, <1>2, <2>1 DEF Confirm, TypeOK, StatusesFit, StatusFits
  <2>3. QED
    BY <1>0, <1>2, <2>1, <2>2, OthersFit DEF Confirm, TypeOK
<1>3. ASSUME NEW c \in Callers, NEW t \in Tasks, Collect(c, t) PROVE StatusesFit'
  <2>1. StatusFits(t)'
    BY <1>0, <1>3 DEF Collect, Failure, TypeOK, StatusesFit, StatusFits, Ended, Final
  <2>2. QED
    BY <1>0, <1>3, <2>1, OthersFit DEF Collect, TypeOK
<1>4. ASSUME NEW c \in Callers, NEW t \in Tasks, Cancel(c, t) PROVE StatusesFit'
  <2>1. StatusFits(t)'
    BY <1>0, <1>4 DEF Cancel, Cancellable, TypeOK, StatusesFit, StatusFits, Ended
  <2>2. QED
    BY <1>0, <1>4, <2>1, OthersFit DEF Cancel, TypeOK
<1>5. ASSUME NEW t \in Tasks, PickUp(t) PROVE StatusesFit'
  <2>1. StatusFits(t)'
    BY <1>0, <1>5 DEF PickUp, TypeOK, StatusesFit, StatusFits, Ended
  <2>2. QED
    BY <1>0, <1>5, <2>1, OthersFit DEF PickUp, TypeOK
<1>6. ASSUME NEW t \in Tasks, Acquire(t) PROVE StatusesFit'
  <2>1. StatusFits(t)'
    BY <1>0, <1>6 DEF Acquire, TypeOK, StatusesFit, StatusFits
  <2>2. QED
    BY <1>0, <1>6, <2>1, OthersFit DEF Acquire, TypeOK
<1>7. ASSUME NEW t \in Tasks, Finish(t) PROVE StatusesFit'
  <2>1. /\ item'[t] = "storing" /\ status'[t] \in Final /\ executions'[t] = 1
        /\ logged'[t] = "none"
    BY <1>0, <1>7, ManagerAssumption DEF Finish, TypeOK, StatusesFit, StatusFits
  <2>2. StatusFits(t)'
    BY <2>1 DEF StatusFits
  <2>3. QED
    BY <1>0, <1>7, <2>2, OthersFit DEF Finish, TypeOK
<1>8. ASSUME NEW t \in Tasks, Store(t) PROVE StatusesFit'
  <2>1. /\ item[t] = "storing" /\ item'[t] \in {"finished", "raised"}
        /\ item'[t] = "finished" => logged'[t] = status[t]
        /\ status'[t] \in Final /\ executions'[t] = 1 /\ t \notin collected'
    BY <1>0, <1>8 DEF Store, TypeOK, StatusesFit, StatusFits, Ended
  <2>2. StatusFits(t)'
    BY <1>8, <2>1 DEF StatusFits, Store
  <2>3. QED
    BY <1>0, <1>8, <2>2, OthersFit DEF Store, TypeOK
<1>9. ASSUME NEW c \in Callers, WorkerStep(c) PROVE StatusesFit'
  BY <1>0, <1>9, StatusFrame, WorkerStepFrame
<1>10. CASE UNCHANGED <<item, status, executions, logged, collected>>
  BY <1>0, <1>10, StatusFrame
<1>11. QED
  BY <1>1, <1>2, <1>3, <1>4, <1>5, <1>6, <1>7, <1>8, <1>9, <1>10, StepCases
     DEF Begin, Register, Return, OthersTouch
-----------------------------------------------------------------------------
(* Part four and the reports. *)

LEMMA ConfirmedStep == ManagerInv /\ [Next]_vars => ConfirmedAreOut'
<1> SUFFICES ASSUME ManagerInv, [Next]_vars PROVE ConfirmedAreOut'
  OBVIOUS
<1>0. TypeOK /\ ConfirmedAreOut
  BY DEF ManagerInv
<1>1. ASSUME NEW c \in Callers, Submit(c) PROVE ConfirmedAreOut'
  <2>1. PICK t \in Tasks : item[t] = "none" /\ item' = [item EXCEPT ![t] = "queued"]
    BY <1>1 DEF Submit, First, ManagerInv, BatchesAreApart, CallHolds
  <2>2. QED
    BY <1>0, <1>1, <2>1 DEF Submit, ConfirmedAreOut, TypeOK
<1>2. ASSUME NEW c \in Callers, Confirm(c) PROVE ConfirmedAreOut'
  BY <1>0, <1>2 DEF Confirm, ConfirmedAreOut, ManagerInv, BatchesAreApart, CallHolds
<1>3. ASSUME NEW c \in Callers, NEW t \in Tasks, Cancel(c, t) PROVE ConfirmedAreOut'
  BY <1>0, <1>3 DEF Cancel, Cancellable, ConfirmedAreOut, TypeOK
<1>4. ASSUME NEW t \in Tasks, PickUp(t) \/ Acquire(t) \/ Finish(t) \/ Store(t) PROVE ConfirmedAreOut'
  BY <1>0, <1>4 DEF PickUp, Acquire, Finish, Store, ConfirmedAreOut, TypeOK
<1>5. ASSUME NEW c \in Callers, WorkerStep(c) PROVE ConfirmedAreOut'
  BY <1>0, <1>5, WorkerStepFrame DEF ConfirmedAreOut
<1>6. CASE UNCHANGED <<item, confirmed>>
  BY <1>0, <1>6 DEF ConfirmedAreOut
<1>7. QED
  BY <1>1, <1>2, <1>3, <1>4, <1>5, <1>6, StepCases DEF Begin, Register, Return, Collect, OthersTouch

\* What run_concurrent returns of a task of its batch.
LEMMA ReturnedIsOver ==
    ASSUME ManagerInv, NEW c \in Callers, Return(c), NEW t \in batch[c]
    PROVE  /\ reported'[t] = status[t] /\ status[t] \in Final
           /\ \/ status[t] = logged[t]
              \/ status[t] = "FAILED"
              \/ status[t] = "CANCELLED" /\ executions[t] = 0
           /\ t \in confirmed => status[t] \in {"CANCELLED", "FAILED"}
<1>1. t \in Tasks /\ t \in collected /\ reported'[t] = status[t]
  BY DEF Return, ManagerInv, TypeOK
<1>2. item[t] \in Ended /\ StatusFits(t)
  BY <1>1 DEF ManagerInv, BatchesAreApart, StatusesFit
<1>3. CASE item[t] = "finished"
  BY <1>1, <1>2, <1>3 DEF StatusFits, ManagerInv, ConfirmedAreOut
<1>4. CASE item[t] = "raised"
  BY <1>1, <1>2, <1>4 DEF StatusFits, Final
<1>5. CASE item[t] = "notified"
  BY <1>1, <1>2, <1>5 DEF StatusFits, Final
<1>6. QED
  BY <1>2, <1>3, <1>4, <1>5 DEF Ended

\* A step that reports nothing keeps what was reported: a reported task has been
\* collected, so that only a late confirmation still touches it.
LEMMA ReportsStep == ManagerInv /\ ConfirmedAreOut' /\ StatusesFit' /\ [Next]_vars
                       => CancelledIsNeverRun' /\ ReportIsTrue'
<1> SUFFICES ASSUME ManagerInv, ConfirmedAreOut', StatusesFit', [Next]_vars
             PROVE  CancelledIsNeverRun' /\ ReportIsTrue'
  OBVIOUS
<1>0. TypeOK /\ CancelledIsNeverRun /\ ReportIsTrue
  BY DEF ManagerInv
<1>1. confirmed' \subseteq Tasks /\ \A t \in confirmed' : executions'[t] = 0
  <2>1. confirmed' \subseteq Tasks
    <3>1. ASSUME NEW c \in Callers, Confirm(c) PROVE confirmed' \subseteq Tasks
      BY <1>0, <3>1 DEF Confirm, ManagerInv, BatchesAreApart, CallHolds, TypeOK
    <3>2. ASSUME NEW c \in Callers, WorkerStep(c) PROVE confirmed' \subseteq Tasks
      BY <1>0, <3>2, WorkerStepFrame DEF TypeOK
    <3>3. CASE UNCHANGED confirmed
      BY <1>0, <3>3 DEF TypeOK
    <3>4. QED
      BY <3>1, <3>2, <3>3, StepCases
         DEF Begin, Submit, Register, Return, Collect, Cancel, PickUp, Acquire, Finish, Store, OthersTouch
  <2>2. \A t \in confirmed' : item'[t] \in {"cancelled", "notified"} /\ StatusFits(t)'
    BY <2>1 DEF ConfirmedAreOut, StatusesFit
  <2>3. QED
    BY <2>1, <2>2 DEF StatusFits
<1>2. \A t \in Tasks : reported[t] # "none" => item[t] \in Ended
  BY DEF ManagerInv, BatchesAreApart
<1>3. ASSUME UNCHANGED reported,
             \A t \in Tasks : item[t] \in Ended => logged'[t] = logged[t] /\ executions'[t] = executions[t]
      PROVE  ReportIsTrue'
  BY <1>0, <1>2, <1>3 DEF ReportIsTrue
<1>4. ASSUME UNCHANGED <<reported, confirmed>> PROVE CancelledIsNeverRun'
  BY <1>0, <1>1, <1>4 DEF CancelledIsNeverRun
<1>5. ASSUME NEW c \in Callers, Return(c) PROVE CancelledIsNeverRun' /\ ReportIsTrue'
  <2>1. /\ \A t \in Tasks \ batch[c] : reported'[t] = reported[t]
        /\ UNCHANGED <<confirmed, executions, logged>>
    BY <1>5 DEF Return
  <2>2. ASSUME NEW t \in confirmed' PROVE reported'[t] \in {"none", "CANCELLED", "FAILED"}
    <3>1. CASE t \in batch[c]
      BY <1>1, <1>5, <2>1, <2>2, <3>1, ReturnedIsOver
    <3>2. CASE t \notin batch[c]
      BY <1>0, <1>1, <2>1, <2>2, <3>2 DEF CancelledIsNeverRun
    <3>3. QED
      BY <3>1, <3>2
  <2>3. ASSUME NEW t \in Tasks, reported'[t] # "none"
        PROVE  /\ reported'[t] \in Final
               /\ \/ reported'[t] = logged'[t]
                  \/ reported'[t] = "FAILED"
                  \/ reported'[t] = "CANCELLED" /\ executions'[t] = 0
    <3>1. CASE t \in batch[c]
      BY <1>5, <2>1, <3>1, ReturnedIsOver
    <3>2. CASE t \notin batch[c]
      BY <1>0, <2>1, <2>3, <3>2 DEF ReportIsTrue
    <3>3. QED
      BY <3>1, <3>2
  <2>4. QED
    BY <1>1, <2>2, <2>3 DEF CancelledIsNeverRun, ReportIsTrue
<1>6. ASSUME NEW c \in Callers, Confirm(c) PROVE CancelledIsNeverRun' /\ ReportIsTrue'
  <2>1. PICK t \in Tasks : t = at[c] /\ item[t] \in {"cancelled", "notified"}
    BY <1>6 DEF Confirm, ManagerInv, BatchesAreApart, CallHolds
  <2>2. reported[t] \in {"none", "CANCELLED", "FAILED"}
    <3>1. executions[t] = 0 /\ (reported[t] # "none" => t \in collected)
      BY <2>1 DEF ManagerInv, BatchesAreApart, StatusesFit, StatusFits
    <3>2. logged[t] = "none"
      BY <2>1 DEF ManagerInv, StatusesFit, StatusFits
    <3>3. QED
      BY <2>1, <3>1, <3>2 DEF ManagerInv, ReportIsTrue
  <2>3. QED
    BY <1>0, <1>1, <1>3, <1>6, <2>1, <2>2 DEF Confirm, CancelledIsNeverRun
<1>7. ASSUME NEW t \in Tasks, PickUp(t) \/ Acquire(t) \/ Finish(t) \/ Store(t)
      PROVE  /\ UNCHANGED <<reported, confirmed>>
             /\ \A u \in Tasks : item[u] \in Ended => logged'[u] = logged[u] /\ executions'[u] = executions[u]
  BY <1>0, <1>7 DEF PickUp, Acquire, Finish, Store, Ended, TypeOK
<1>8. ASSUME NEW c \in Callers, WorkerStep(c) PROVE UNCHANGED <<reported, confirmed, logged, executions>>
  BY <1>0, <1>8, WorkerStepFrame
<1>9. QED
  BY <1>3, <1>4, <1>5, <1>6, <1>7, <1>8, StepCases
     DEF Begin, Submit, Register, Collect, Cancel, OthersTouch
-----------------------------------------------------------------------------
(* The profile workers. *)

\* Steps of the pools and of run_concurrent leave the workers and the threads in
\* a call to one alone.
LEMMA WorkersFrame ==
    ASSUME WorkersInv, UNCHANGED workerVars,
           \A c \in Callers : pc'[c] = pc[c] \/ {pc[c], pc'[c]} \cap (Asking \cup Answers) = {}
    PROVE  WorkersInv'
<1>1. \A c \in Callers : on'[c] \in Driven <=> pc'[c] \in Asking \cup Answers
  BY DEF WorkersInv
<1>2. ASSUME NEW c \in Callers, on'[c] \in Driven PROVE AnswerIsTrue(c)'
  <2>1. pc'[c] = pc[c] /\ AnswerIsTrue(c)
    BY <1>1, <1>2 DEF WorkersInv
  <2>2. QED
    BY <2>1 DEF AnswerIsTrue, StateIsTrue
<1>3. WorkerTellsTheTruth'
  BY DEF WorkersInv, WorkerTellsTheTruth, WorkerFree, StateIsTrue
<1>4. QED
  BY <1>1, <1>2, <1>3 DEF WorkersInv

\* A step of the thread that holds the worker of p, or takes it, or gives it back,
\* and of that worker and browser alone.
LEMMA HolderStep ==
    ASSUME TypeOK, WorkersInv, NEW c \in Callers, NEW p \in Driven,
           \A d \in Callers \ {c} : on'[d] = on[d] /\ pc'[d] = pc[d] /\ on[d] # p,
           \A q \in Driven \ {p} : worker'[q] = worker[q] /\ open'[q] = open[q] /\ touched'[q] = touched[q],
           on[c] \in {p, NoProfile},
           \/ on'[c] = p /\ pc'[c] \in Asking \cup Answers /\ AnswerIsTrue(c)'
           \/ on'[c] = NoProfile /\ pc'[c] = "idle" /\ StateIsTrue(p)'
    PROVE  WorkersInv'
<1>0. NoProfile \notin Driven /\ "idle" \notin Asking \cup Answers
  BY ManagerAssumption DEF Asking, Answers
<1>1. \A d \in Callers : on'[d] \in Driven <=> pc'[d] \in Asking \cup Answers
  BY <1>0 DEF WorkersInv
<1>2. \A d, e \in Callers : on'[d] \in Driven /\ on'[d] = on'[e] => d = e
  BY <1>0 DEF WorkersInv
<1>3. ASSUME NEW d \in Callers, on'[d] \in Driven PROVE AnswerIsTrue(d)'
  <2>1. CASE d = c
    BY <1>0, <1>3, <2>1
  <2>2. CASE d # c
    <3>1. AnswerIsTrue(d) /\ on'[d] = on[d] /\ on[d] \in Driven \ {p} /\ pc'[d] = pc[d]
      BY <1>3, <2>2 DEF WorkersInv
    <3>2. QED
      BY <3>1 DEF AnswerIsTrue, StateIsTrue
  <2>3. QED
    BY <2>1, <2>2
<1>4. ASSUME NEW q \in Driven, WorkerFree(q)' PROVE StateIsTrue(q)'
  <2>1. CASE q = p
    BY <1>4, <2>1 DEF WorkerFree
  <2>2. CASE q # p
    <3>1. WorkerFree(q)
      BY <1>0, <1>4, <2>2 DEF WorkerFree
    <3>2. StateIsTrue(q)
      BY <3>1 DEF WorkersInv, WorkerTellsTheTruth
    <3>3. QED
      BY <2>2, <3>2 DEF StateIsTrue
  <2>3. QED
    BY <2>1, <2>2
<1>5. QED
  BY <1>1, <1>2, <1>3, <1>4 DEF WorkersInv, WorkerTellsTheTruth

\* A thread takes a worker nobody holds.
LEMMA AskStep ==
    ASSUME TypeOK, WorkersInv, NEW c \in Callers, NEW p \in Driven,
           StartProfile(c, p) \/ StopProfile(c, p) \/ RefreshProfile(c, p)
    PROVE  WorkersInv'
<1>1. /\ pc[c] = "idle" /\ WorkerFree(p) /\ on' = [on EXCEPT ![c] = p]
      /\ \E step \in Asking : pc' = [pc EXCEPT ![c] = step]
      /\ \E state \in States : worker' = [worker EXCEPT ![p] = state]
      /\ UNCHANGED <<open, touched>>
  <2>1. worker[p] \in States /\ {"STARTING", "STOPPING"} \subseteq States
    BY DEF TypeOK, States
  <2>2. QED
    BY <2>1 DEF StartProfile, StopProfile, RefreshProfile, Ask, Asking
<1>2. on[c] = NoProfile
  BY <1>1 DEF WorkersInv, TypeOK, Asking, Answers
<1>3. on'[c] = p /\ pc'[c] \in Asking
  BY <1>1 DEF TypeOK
<1>4. StateIsTrue(p)
  BY <1>1 DEF WorkersInv, WorkerTellsTheTruth
<1>5. pc'[c] = "refreshing" => worker' = worker
  BY <1>3 DEF StartProfile, StopProfile, RefreshProfile, Ask, TypeOK
<1>6. AnswerIsTrue(c)'
  <2>1. \/ pc'[c] \in {"starting", "stopping"}
        \/ pc'[c] = "refreshing" /\ StateIsTrue(p)'
    BY <1>1, <1>3, <1>4, <1>5 DEF StateIsTrue, Asking
  <2>2. QED
    BY <1>3, <2>1 DEF AnswerIsTrue
<1>7. /\ \A d \in Callers \ {c} : on'[d] = on[d] /\ pc'[d] = pc[d] /\ on[d] # p
      /\ \A q \in Driven \ {p} : worker'[q] = worker[q] /\ open'[q] = open[q] /\ touched'[q] = touched[q]
  BY <1>1 DEF TypeOK, WorkerFree
<1>8. QED
  BY <1>2, <1>3, <1>6, <1>7, HolderStep

\* The browser answers the thread that holds the worker.
LEMMA BrowserStep ==
    ASSUME TypeOK, WorkersInv, NEW c \in Callers,
           BrowserStarts(c) \/ BrowserStops(c) \/ BrowserTells(c)
    PROVE  WorkersInv'
<1>1. PICK p \in Driven : p = on[c] /\ pc[c] \in Asking /\ AnswerIsTrue(c)
  BY DEF WorkersInv, BrowserStarts, BrowserStops, BrowserTells, Asking
<1>2. UNCHANGED <<worker, on>> /\ \E answer \in Answers : pc' = [pc EXCEPT ![c] = answer]
  BY DEF BrowserStarts, BrowserStops, BrowserTells, Answer, Answers
<1>3. \A q \in Driven \ {p} : open'[q] = open[q] /\ touched'[q] = touched[q]
  BY <1>1 DEF BrowserStarts, BrowserStops, BrowserTells, TypeOK
<1>4. pc'[c] \in Answers /\ on'[c] = p
  BY <1>1, <1>2 DEF TypeOK
<1>5. /\ pc'[c] = "up" => open'[p]
      /\ pc'[c] = "down" => ~open'[p]
      /\ pc'[c] = "silent" => pc[c] = "refreshing" /\ UNCHANGED <<open, touched, worker>>
  <2>1. CASE BrowserStarts(c)
    BY <1>1, <2>1 DEF BrowserStarts, Answer, TypeOK
  <2>2. CASE BrowserStops(c)
    BY <1>1, <2>2 DEF BrowserStops, Answer, TypeOK
  <2>3. CASE BrowserTells(c)
    BY <1>1, <2>3 DEF BrowserTells, Answer, TypeOK
  <2>4. QED
    BY <2>1, <2>2, <2>3
<1>6. AnswerIsTrue(c)'
  <2>1. pc'[c] = "silent" => (~touched'[p] => StateIsTrue(p)')
    BY <1>1, <1>5 DEF AnswerIsTrue, StateIsTrue
  <2>2. pc'[c] # "refreshing"
    BY <1>4 DEF Answers
  <2>3. QED
    BY <1>4, <1>5, <2>1, <2>2 DEF AnswerIsTrue
<1>7. \A d \in Callers \ {c} : on'[d] = on[d] /\ pc'[d] = pc[d] /\ on[d] # p
  BY <1>1, <1>2 DEF TypeOK, WorkersInv
<1>8. QED
  BY <1>1, <1>2, <1>3, <1>4, <1>6, <1>7, HolderStep

\* The thread writes the state of the worker and gives it back.
LEMMA DoneStep ==
    ASSUME TypeOK, WorkersInv, NEW c \in Callers, WorkerDone(c)
    PROVE  WorkersInv'
<1>1. PICK p \in Driven : p = on[c] /\ pc[c] \in Answers /\ AnswerIsTrue(c)
  BY DEF WorkersInv, WorkerDone
<1>2. /\ worker'[p] = NewState(pc[c], worker[p])
      /\ on' = [on EXCEPT ![c] = NoProfile] /\ pc' = [pc EXCEPT ![c] = "idle"]
      /\ \A q \in Driven \ {p} : worker'[q] = worker[q]
      /\ UNCHANGED <<open, touched>>
  BY <1>1 DEF WorkerDone, TypeOK
<1>3. StateIsTrue(p)'
  <2>1. CASE pc[c] = "silent"
    <3>1. worker'[p] = worker[p]
      BY <1>2, <2>1 DEF NewState
    <3>2. QED
      BY <1>1, <1>2, <2>1, <3>1 DEF AnswerIsTrue, StateIsTrue
  <2>2. CASE pc[c] \in {"odd", "unreachable"}
    BY <1>2, <2>2 DEF NewState, StateIsTrue
  <2>3. CASE pc[c] \in {"up", "down"}
    BY <1>1, <1>2, <2>3 DEF NewState, AnswerIsTrue, StateIsTrue
  <2>4. QED
    BY <1>1, <2>1, <2>2, <2>3 DEF Answers
<1>4. /\ \A d \in Callers \ {c} : on'[d] = on[d] /\ pc'[d] = pc[d] /\ on[d] # p
      /\ on'[c] = NoProfile /\ pc'[c] = "idle"
  BY <1>1, <1>2 DEF TypeOK, WorkersInv
<1>5. QED
  BY <1>1, <1>2, <1>3, <1>4, HolderStep

LEMMA OthersStep ==
    ASSUME TypeOK, WorkersInv, NEW p \in Driven, OthersTouch(p)
    PROVE  WorkersInv'
<1>1. /\ touched'[p] = TRUE /\ UNCHANGED <<worker, on, pc>>
      /\ \A q \in Driven \ {p} : open'[q] = open[q] /\ touched'[q] = touched[q]
  BY DEF OthersTouch, TypeOK
<1>2. ASSUME NEW q \in Driven, StateIsTrue(q) PROVE StateIsTrue(q)'
  BY <1>1, <1>2 DEF StateIsTrue
<1>3. ASSUME NEW c \in Callers, on[c] \in Driven PROVE AnswerIsTrue(c)'
  <2>1. AnswerIsTrue(c)
    BY <1>3 DEF WorkersInv
  <2>2. CASE on[c] = p
    BY <1>1, <2>2 DEF AnswerIsTrue
  <2>3. CASE on[c] # p
    BY <1>1, <1>3, <2>1, <2>3 DEF AnswerIsTrue, StateIsTrue
  <2>4. QED
    BY <2>2, <2>3
<1>4. QED
  BY <1>1, <1>2, <1>3 DEF WorkersInv, WorkerTellsTheTruth, WorkerFree

LEMMA WorkersStep == ManagerInv /\ WorkersInv /\ [Next]_vars => WorkersInv'
<1> SUFFICES ASSUME ManagerInv, WorkersInv, [Next]_vars PROVE WorkersInv'
  OBVIOUS
<1>0. TypeOK
  BY DEF ManagerInv
<1>1. ASSUME NEW c \in Callers, WorkerStep(c) PROVE WorkersInv'
  BY <1>0, <1>1, AskStep, BrowserStep, DoneStep DEF WorkerStep
<1>2. ASSUME NEW c \in Callers,
             \/ \E S \in SUBSET Tasks : Begin(c, S)
             \/ Submit(c) \/ Register(c) \/ Return(c) \/ Confirm(c)
             \/ \E t \in Tasks : Collect(c, t) \/ Cancel(c, t)
      PROVE  WorkersInv'
  <2>1. /\ UNCHANGED workerVars
        /\ \A d \in Callers : pc'[d] = pc[d] \/ {pc[d], pc'[d]} \cap (Asking \cup Answers) = {}
    <3>1. ASSUME NEW t \in Tasks, Collect(c, t) PROVE UNCHANGED <<pc, workerVars>>
      BY <3>1 DEF Collect
    <3>2. ASSUME NEW S \in SUBSET Tasks, Begin(c, S)
          PROVE  /\ UNCHANGED workerVars
                 /\ pc[c] = "idle" /\ pc' = [pc EXCEPT ![c] = "submit"]
      BY <3>2 DEF Begin
    <3>3. ASSUME NEW t \in Tasks, Cancel(c, t)
          PROVE  /\ UNCHANGED workerVars
                 /\ pc[c] = "idle" /\ pc' = [pc EXCEPT ![c] = "cancel"]
      BY <3>3 DEF Cancel
    <3>4. ASSUME Submit(c) \/ Register(c) \/ Return(c) \/ Confirm(c)
          PROVE  /\ UNCHANGED workerVars
                 /\ pc[c] \in {"submit", "register", "collect", "cancel"}
                 /\ \E s \in {"idle", "submit", "register", "collect"} : pc' = [pc EXCEPT ![c] = s]
      BY <3>4 DEF Submit, Register, Return, Confirm
    <3>5. QED
      BY <1>0, <1>2, <3>1, <3>2, <3>3, <3>4 DEF TypeOK, Asking, Answers
  <2>2. QED
    BY <2>1, WorkersFrame
<1>3. ASSUME NEW t \in Tasks, PickUp(t) \/ Acquire(t) \/ Finish(t) \/ Store(t) PROVE WorkersInv'
  BY <1>3, WorkersFrame DEF PickUp, Acquire, Finish, Store
<1>4. CASE UNCHANGED vars
  BY <1>4, WorkersFrame
<1>5. QED
  BY <1>0, <1>1, <1>2, <1>3, <1>4, OthersStep, StepCases

-----------------------------------------------------------------------------
(* The invariants. *)

LEMMA ManagerInit == Init => ManagerInv /\ WorkersInv
<1> SUFFICES ASSUME Init PROVE ManagerInv /\ WorkersInv
  OBVIOUS
<1>1. BatchesAreApart
  BY DEF Init, BatchesAreApart, CallHolds, Running
<1>2. LocksAreHeld
  BY DEF Init, LocksAreHeld, Executing
<1>3. StatusesFit
  BY DEF Init, StatusesFit, StatusFits
<1>4. ConfirmedAreOut /\ CancelledIsNeverRun /\ ReportIsTrue
  BY DEF Init, ConfirmedAreOut, CancelledIsNeverRun, ReportIsTrue
<1>5. WorkersInv
  BY ManagerAssumption DEF Init, WorkersInv, WorkerTellsTheTruth, StateIsTrue, Asking, Answers
<1>6. QED
  BY <1>1, <1>2, <1>3, <1>4, <1>5, TypeInit DEF ManagerInv

LEMMA ManagerStep == ManagerInv /\ WorkersInv /\ [Next]_vars => ManagerInv' /\ WorkersInv'
  BY TypeStep, BatchesStep, LocksStep, StatusStep, ConfirmedStep, ReportsStep, WorkersStep DEF ManagerInv

LEMMA BothInvariants == Spec => [](ManagerInv /\ WorkersInv)
<1>1. QED
  BY ManagerInit, ManagerStep, PTL DEF Spec

\* The locks that are held are those of the executing tasks, one each, the batches
\* of the two threads are apart, and status, executions and record of a task fit
\* the place of its work item (run_concurrent, _run_task and cancel_task).
THEOREM ManagerInvariant == Spec => []ManagerInv
<1>1. QED
  BY BothInvariants, PTL

\* A task whose cancellation cancel_task confirmed was not and will not be executed,
\* and is reported as CANCELLED or FAILED if at all.
THEOREM CancelledTasksNeverRun == Spec => []CancelledIsNeverRun
<1>1. ManagerInv => CancelledIsNeverRun
  BY DEF ManagerInv
<1>2. QED
  BY <1>1, BothInvariants, PTL

\* What run_concurrent returns of a task is final, and a verdict of the executor
\* only with its record in the task store.
THEOREM ReportsAreTrue == Spec => []ReportIsTrue
<1>1. ManagerInv => ReportIsTrue
  BY DEF ManagerInv
<1>2. QED
  BY <1>1, BothInvariants, PTL

\* A worker is held by one thread at a time, which is in a call to the browser,
\* and the answer that thread has is still so unless others used the browser.
THEOREM WorkersInvariant == Spec => []WorkersInv
<1>1. QED
  BY BothInvariants, PTL

\* A profile worker says IDLE or STOPPED truly, unless others have opened or closed
\* the browser since it was told.
THEOREM WorkersTellTheTruth == Spec => []WorkerTellsTheTruth
<1>1. WorkersInv => WorkerTellsTheTruth
  BY DEF WorkersInv
<1>2. QED
  BY <1>1, BothInvariants, PTL

-----------------------------------------------------------------------------
(* The refinement. *)

\* A task nobody executed is reported as cancelled or failed.
LEMMA NotRunNotDone ==
    ASSUME ManagerInv, NEW c \in Callers, Return(c), NEW t \in batch[c], executions[t] = 0
    PROVE  status[t] \in {"CANCELLED", "FAILED"}
<1>1. t \in Tasks /\ t \in collected /\ item[t] \in Ended /\ StatusFits(t)
  BY DEF Return, ManagerInv, TypeOK, BatchesAreApart, StatusesFit
<1>2. item[t] = "notified"
  BY <1>1 DEF StatusFits, Ended
<1>3. QED
  BY <1>1, <1>2 DEF StatusFits

LEMMA RunnerFrame ==
    ASSUME UNCHANGED <<executions, confirmed, reported>>,
           \A t \in Tasks : item'[t] = "executing" <=> item[t] = "executing"
    PROVE  UNCHANGED Runner!runnerVars
  BY DEF Runner!runnerVars, Executing

LEMMA RunnerStep == ManagerInv /\ [Next]_vars => [Runner!Next]_Runner!runnerVars
<1> SUFFICES ASSUME ManagerInv, [Next]_vars PROVE Runner!Next \/ UNCHANGED Runner!runnerVars
  BY DEF Runner!runnerVars
<1>0. TypeOK
  BY DEF ManagerInv
<1>1. ASSUME NEW c \in Callers, NEW S \in SUBSET Tasks, Begin(c, S) PROVE UNCHANGED Runner!runnerVars
  BY <1>1, RunnerFrame DEF Begin
<1>2. ASSUME NEW c \in Callers, Submit(c) PROVE UNCHANGED Runner!runnerVars
  <2>1. PICK t \in Tasks : item[t] = "none" /\ item' = [item EXCEPT ![t] = "queued"]
    BY <1>2 DEF Submit, First, ManagerInv, BatchesAreApart, CallHolds
  <2>2. QED
    BY <1>0, <1>2, <2>1, RunnerFrame DEF Submit, TypeOK
<1>3. ASSUME NEW c \in Callers, Return(c) PROVE Runner!Next
  <2>1. batch[c] \in SUBSET Tasks
    BY <1>0 DEF TypeOK
  <2>2. batch[c] \cap Executing = {}
    BY <1>3 DEF Return, ManagerInv, BatchesAreApart, Executing, Ended
  <2>3. \A t \in batch[c] : reported[t] = "none"
    BY DEF ManagerInv, BatchesAreApart, CallHolds
  <2>4. [t \in batch[c] |-> status[t]] \in [batch[c] -> Final]
    BY <1>3, ReturnedIsOver
  <2>5. \A t \in batch[c] : executions[t] = 0 => status[t] \in {"CANCELLED", "FAILED"}
    BY <1>3, NotRunNotDone
  <2>6. UNCHANGED <<Executing, executions, confirmed>>
    BY <1>3 DEF Return, Executing
  <2>7. Runner!Report(batch[c])
    <3> DEFINE told == [t \in batch[c] |-> status[t]]
    <3>1. told \in [batch[c] -> Final]
      BY <2>4
    <3>2. \A t \in batch[c] : executions[t] = 0 => told[t] \in {"CANCELLED", "FAILED"}
      BY <2>5
    <3>3. reported' = [t \in Tasks |-> IF t \in batch[c] THEN told[t] ELSE reported[t]]
      BY <1>3 DEF Return
    <3>4. QED
      BY <2>2, <2>3, <2>6, <3>1, <3>2, <3>3 DEF Runner!Report
  <2>8. QED
    BY <2>1, <2>7 DEF Runner!Next
<1>4. ASSUME NEW c \in Callers, Confirm(c) PROVE Runner!Next
  <2>1. at[c] \in Tasks /\ executions[at[c]] = 0
    BY <1>4 DEF Confirm, ManagerInv, BatchesAreApart, CallHolds, StatusesFit, StatusFits
  <2>2. Runner!Refuse(at[c])
    BY <1>4, <2>1 DEF Confirm, Runner!Refuse, Executing
  <2>3. QED
    BY <2>1, <2>2 DEF Runner!Next
<1>5. ASSUME NEW t \in Tasks, Acquire(t) PROVE Runner!Next
  <2>1. executions[t] = 0 /\ t \notin confirmed /\ reported[t] = "none"
    BY <1>5 DEF Acquire, ManagerInv, StatusesFit, StatusFits, ConfirmedAreOut, BatchesAreApart, Ended
  <2>2. \A u \in Executing : ProfileOf[u] # ProfileOf[t]
    BY <1>5 DEF Acquire, Available, ManagerInv, LocksAreHeld
  <2>3. Executing' = Executing \cup {t} /\ executions' = [executions EXCEPT ![t] = 1]
    BY <1>0, <1>5, <2>1 DEF Acquire, Executing, TypeOK
  <2>4. Runner!Run(t)
    BY <1>5, <2>1, <2>2, <2>3 DEF Acquire, Runner!Run
  <2>5. QED
    BY <2>4 DEF Runner!Next
<1>6. ASSUME NEW t \in Tasks, Finish(t) PROVE Runner!Next
  <2>1. t \in Executing /\ Executing' = Executing \ {t}
    BY <1>0, <1>6 DEF Finish, Executing, TypeOK
  <2>2. Runner!End(t)
    BY <1>6, <2>1 DEF Finish, Runner!End
  <2>3. QED
    BY <2>2 DEF Runner!Next
<1>7. ASSUME NEW t \in Tasks, PickUp(t) \/ Store(t) PROVE UNCHANGED Runner!runnerVars
  BY <1>0, <1>7, RunnerFrame DEF PickUp, Store, TypeOK
<1>8. ASSUME NEW c \in Callers, NEW t \in Tasks, Collect(c, t) \/ Cancel(c, t)
      PROVE  UNCHANGED Runner!runnerVars
  BY <1>0, <1>8, RunnerFrame DEF Collect, Cancel, Cancellable, TypeOK
<1>9. ASSUME NEW c \in Callers, WorkerStep(c) \/ Register(c) PROVE UNCHANGED Runner!runnerVars
  BY <1>0, <1>9, RunnerFrame, WorkerStepFrame DEF Register
<1>10. ASSUME NEW p \in Driven, OthersTouch(p) PROVE UNCHANGED Runner!runnerVars
  BY <1>10, RunnerFrame DEF OthersTouch
<1>11. CASE UNCHANGED vars
  BY <1>11, RunnerFrame
<1>12. QED
  BY <1>1, <1>2, <1>3, <1>4, <1>5, <1>6, <1>7, <1>8, <1>9, <1>10, <1>11, StepCases

\* The pools of both threads, the futures and the profile locks implement the
\* runner that executes a task at most once, one per profile at a time, never
\* after a confirmed cancellation, and reports what is over.
THEOREM ManagerImplementsRunner == Spec => ImplementsProfileRunner
<1>1. Init => Runner!Init
  BY DEF Init, Runner!Init, Executing
<1>2. QED
  BY <1>1, RunnerStep, BothInvariants, PTL DEF Spec, ImplementsProfileRunner, Runner!Spec
=============================================================================
