------------------------- MODULE TaskPipelineProofs -------------------------
(***************************************************************************)
(* Proofs about TaskPipeline, for every number of tasks and server threads *)
(* and every value of the bounds.                                          *)
(***************************************************************************)
EXTENDS TaskPipeline, TLAPS

USE DEF vars, tableVars, storeVars, cycleVars, waitVars, faultVars

-----------------------------------------------------------------------------
(* What the shared pieces of the actions write. *)

LEMMA ValueTypes ==
    /\ NotLoaded \in [Tasks -> Statuses]
    /\ Idle \in Requests
    /\ NoTask \notin Tasks
    /\ [t \in Tasks |-> "none"] \in [Tasks -> Results]
    /\ Terminal \subseteq Statuses /\ Open \subseteq Statuses /\ Terminal \subseteq Results
    /\ \A op \in {"cancel", "pull", "script", "result"}, t \in Tasks \cup {NoTask}, v \in Results :
         Request(op, t, v) \in Requests
  BY DEF NotLoaded, Statuses, Idle, Requests, Request, Results, Terminal, Open, Tasks, NoTask

LEMMA StageType ==
    ASSUME NEW r \in Requests, NEW stage \in {"idle", "sent", "loaded", "done"}
    PROVE  /\ [r EXCEPT !.stage = stage] \in Requests
           /\ [r EXCEPT !.stage = stage].op = r.op /\ [r EXCEPT !.stage = stage].task = r.task
           /\ [r EXCEPT !.stage = stage].verdict = r.verdict
           /\ [r EXCEPT !.stage = stage].stage = stage
  BY DEF Requests

\* A reply changes one session and one request: it is kept for an agent that
\* waits, else the session ends.
LEMMA ReplyEffect ==
    ASSUME TypeOK, NEW s \in Slots, NEW rows \in [Tasks -> Statuses], Reply(s, rows)
    PROVE  /\ req' \in [Slots -> Requests] /\ view' \in [Slots -> [Tasks -> Statuses]]
           /\ \A x \in Slots : x # s => view'[x] = view[x] /\ req'[x] = req[x]
           /\ s = aSlot => /\ req'[s].op = req[s].op /\ req'[s].task = req[s].task
                           /\ req'[s].verdict = req[s].verdict /\ req'[s].stage = "done"
                           /\ view'[s] = rows
           /\ s # aSlot => req'[s] = Idle /\ view'[s] = NotLoaded
<1>1. req[s] \in Requests
  BY DEF TypeOK
<1>2. CASE s = aSlot
  <2> DEFINE r == [req[s] EXCEPT !.stage = "done"]
  <2>1. req' = [req EXCEPT ![s] = r] /\ view' = [view EXCEPT ![s] = rows]
    BY <1>2 DEF Reply
  <2>2. r \in Requests /\ r.op = req[s].op /\ r.task = req[s].task /\ r.verdict = req[s].verdict
        /\ r.stage = "done"
    BY <1>1, StageType
  <2> HIDE DEF r
  <2>3. req'[s] = r /\ view'[s] = rows
    BY <2>1 DEF TypeOK
  <2>4. req' \in [Slots -> Requests] /\ view' \in [Slots -> [Tasks -> Statuses]]
    BY <2>1, <2>2 DEF TypeOK
  <2>5. \A x \in Slots : x # s => view'[x] = view[x] /\ req'[x] = req[x]
    BY <2>1 DEF TypeOK
  <2>6. QED
    BY <1>2, <2>2, <2>3, <2>4, <2>5
<1>3. CASE s # aSlot
  <2>1. req' = [req EXCEPT ![s] = Idle] /\ view' = [view EXCEPT ![s] = NotLoaded]
    BY <1>3 DEF Reply
  <2>2. QED
    BY <1>3, <2>1, ValueTypes DEF TypeOK
<1>4. QED
  BY <1>2, <1>3

LEMMA AnsweredEffect ==
    ASSUME TypeOK, Answered
    PROVE  /\ req' \in [Slots -> Requests] /\ view' \in [Slots -> [Tasks -> Statuses]]
           /\ aSlot' = NoSlot /\ aTask' = NoTask /\ aRetried' \in BOOLEAN
           /\ \A x \in Slots : \/ view'[x] = view[x] /\ req'[x] = req[x]
                               \/ view'[x] = NotLoaded /\ req'[x] = Idle
  BY ValueTypes DEF TypeOK, Answered

LEMMA ForgetEffect ==
    ASSUME TypeOK, Forget
    PROVE  /\ req' \in [Slots -> Requests] /\ view' \in [Slots -> [Tasks -> Statuses]]
           /\ aSlot' = NoSlot
           /\ \A x \in Slots : \/ view'[x] = view[x] /\ req'[x] = req[x]
                               \/ view'[x] = NotLoaded /\ req'[x] = Idle
  BY ValueTypes DEF TypeOK, Forget

LEMMA SessionsEndEffect ==
    ASSUME TypeOK, SessionsEnd
    PROVE  /\ req' \in [Slots -> Requests] /\ view' \in [Slots -> [Tasks -> Statuses]]
           /\ aSlot' = NoSlot
           /\ \A x \in Slots : view'[x] = NotLoaded /\ req'[x] = Idle
  BY ValueTypes DEF TypeOK, SessionsEnd

LEMMA SendEffect ==
    ASSUME TypeOK, NEW s \in Slots, NEW op \in {"pull", "script", "result"},
           NEW t \in Tasks \cup {NoTask}, op = "result" => t \in Tasks, ASend(s, op, t)
    PROVE  /\ req' \in [Slots -> Requests]
           /\ aSlot' = s /\ aTask' = t
           /\ \A x \in Slots : x # s => req'[x] = req[x]
           /\ req[s] = Idle
           /\ req'[s].op = op /\ req'[s].task = t /\ req'[s].stage = "sent"
           /\ op = "result" => req'[s].verdict = stored[t]
           /\ UNCHANGED <<tableVars, asked, view, storeVars, executions, faultVars>>
<1> DEFINE v == IF op = "result" THEN stored[t] ELSE "none"
<1>1. v \in Results
  BY DEF TypeOK, Results
<1>2. Request(op, t, v) \in Requests /\ req' = [req EXCEPT ![s] = Request(op, t, v)]
  BY <1>1, ValueTypes DEF ASend
<1> HIDE DEF v
<1>3. /\ req'[s] = Request(op, t, v) /\ req' \in [Slots -> Requests]
      /\ \A x \in Slots : x # s => req'[x] = req[x]
  BY <1>2 DEF TypeOK
<1>4. /\ req'[s].op = op /\ req'[s].task = t /\ req'[s].stage = "sent" /\ req'[s].verdict = v
  BY <1>3 DEF Request
<1>5. QED
  BY <1>3, <1>4 DEF ASend, v

\* Where the loop and its cycle stand after a failed request.
LEMMA FailureTypes ==
    ASSUME TypeOK, RequestFails \/ NewAgentProcess
    PROVE  /\ aPc' \in {"idle", "report", aPc} /\ aTask' \in {aTask, NoTask} /\ aRetried' \in BOOLEAN
           /\ outbox' \subseteq outbox /\ queue' \subseteq queue /\ prepared' \subseteq prepared
  BY DEF TypeOK, RequestFails, GiveUp, AbortCycle, NewAgentProcess

\* What a pull that commits leaves behind.
LEMMA PullEffect ==
    ASSUME TypeOK, NEW s \in Slots, PullCommit(s)
    PROVE  LET rows == [t \in Tasks |-> IF t \in Loaded(s) THEN "DISPATCHED" ELSE "ABSENT"]
           IN /\ rows \in [Tasks -> Statuses]
              /\ Reply(s, rows)
              /\ status' \in [Tasks -> Statuses]
              /\ expired' \in [Tasks -> BOOLEAN]
              /\ \A t \in Tasks : \/ status'[t] = status[t]
                                  \/ status'[t] = "DISPATCHED" /\ view[s][t] # "ABSENT"
                                                              /\ view[s][t] # "DISPATCHED"
              /\ \A t \in Tasks : view[s][t] = "ABSENT" => status'[t] = status[t]
<1> DEFINE rows == [t \in Tasks |-> IF t \in Loaded(s) THEN "DISPATCHED" ELSE "ABSENT"]
<1>1. rows \in [Tasks -> Statuses] /\ Reply(s, rows)
  BY DEF PullCommit, Statuses, Open
<1> HIDE DEF rows
<1>2. /\ status' \in [Tasks -> Statuses] /\ expired' \in [Tasks -> BOOLEAN]
      /\ \A t \in Tasks : \/ status'[t] = status[t]
                          \/ status'[t] = "DISPATCHED" /\ view[s][t] # "ABSENT"
                                                      /\ view[s][t] # "DISPATCHED"
      /\ \A t \in Tasks : view[s][t] = "ABSENT" => status'[t] = status[t]
  BY DEF PullCommit, TypeOK, Loaded, Written, Statuses, Open
<1>3. QED
  BY <1>1, <1>2 DEF rows

\* What a cancellation, a result or a script fetch leaves behind: the row changes
\* only if the handler had loaded it as open, to CANCELLED or to the result.
LEMMA CommitEffect ==
    ASSUME PipelineInv, NEW s \in Slots, TaskCommit(s)
    PROVE  LET t == req[s].task
               new == Decide(s, view[s][t])
               rows == [view[s] EXCEPT ![t] = new]
           IN /\ t \in Tasks /\ new \in Statuses /\ view[s][t] # "ABSENT"
              /\ rows \in [Tasks -> Statuses] /\ Reply(s, rows)
              /\ rows[t] = new /\ \A u \in Tasks : u # t => rows[u] = view[s][u]
              /\ status' \in [Tasks -> Statuses] /\ activities' \subseteq Tasks
              /\ \A u \in Tasks : u # t => status'[u] = status[u]
              /\ \/ new = view[s][t] /\ status'[t] = status[t]
                 \/ /\ view[s][t] \in Open /\ status'[t] = new /\ new \in Terminal
                    /\ new = "CANCELLED" \/ new = stored[t]
<1> DEFINE t == req[s].task
           new == Decide(s, view[s][t])
           rows == [view[s] EXCEPT ![t] = new]
<1>1. req[s] \in Requests /\ view[s] \in [Tasks -> Statuses]
  BY DEF PipelineInv, TypeOK
<1>2. t \in Loaded(s) /\ t \in Tasks /\ view[s][t] \in Statuses /\ view[s][t] # "ABSENT"
  BY <1>1 DEF PipelineInv, SessionsHoldWhatTheyLoad, SessionHolds, TaskCommit, Loaded
<1>3. req[s].op = "result" => req[s].verdict \in Terminal /\ req[s].verdict = stored[t]
  BY <1>1 DEF PipelineInv, ResultsAreRecorded, SessionResults, Requests, Results
<1>4. \/ new = view[s][t]
      \/ view[s][t] \in Open /\ new \in Terminal /\ (new = "CANCELLED" \/ new = stored[t])
  BY <1>3 DEF Decide, Terminal
<1>5. new \in Statuses
  BY <1>2, <1>4, ValueTypes
<1>6. Reply(s, rows) /\ status' = [status EXCEPT ![t] = Written(s, t, new)]
  BY DEF TaskCommit
<1>7. activities' \subseteq Tasks
  BY <1>2 DEF TaskCommit, PipelineInv, TypeOK
<1> HIDE DEF new, t
<1>8. Terminal \cap Open = {}
  BY DEF Terminal, Open
<1>9. \/ new = view[s][t] /\ status'[t] = status[t]
      \/ /\ view[s][t] \in Open /\ status'[t] = new /\ new \in Terminal
         /\ new = "CANCELLED" \/ new = stored[t]
  BY <1>2, <1>4, <1>6, <1>8 DEF Written, PipelineInv, TypeOK
<1>10. status' \in [Tasks -> Statuses] /\ \A u \in Tasks : u # t => status'[u] = status[u]
  BY <1>2, <1>5, <1>6 DEF Written, PipelineInv, TypeOK
<1>11. rows \in [Tasks -> Statuses] /\ rows[t] = new /\ \A u \in Tasks : u # t => rows[u] = view[s][u]
  BY <1>1, <1>2, <1>5
<1>12. QED
  BY <1>2, <1>5, <1>6, <1>7, <1>9, <1>10, <1>11 DEF new, t

\* What a handler loads are rows of the table.
LEMMA LoadEffect ==
    ASSUME TypeOK, NEW s \in Slots, HttpLoad(s)
    PROVE  /\ req' \in [Slots -> Requests] /\ view' \in [Slots -> [Tasks -> Statuses]]
           /\ \A x \in Slots : x # s => view'[x] = view[x] /\ req'[x] = req[x]
           /\ req'[s].op = req[s].op /\ req'[s].task = req[s].task
           /\ req'[s].verdict = req[s].verdict /\ req'[s].stage = "loaded"
           /\ \A t \in Tasks : view'[s][t] \in {"ABSENT", status[t]}
           /\ req[s].op # "pull" => \A t \in Tasks :
                view'[s][t] = IF t = req[s].task THEN status[t] ELSE "ABSENT"
           /\ req[s].op = "pull" => \A t \in Tasks : view'[s][t] \in {"ABSENT"} \cup Open
<1> DEFINE r == [req[s] EXCEPT !.stage = "loaded"]
           rows == IF req[s].op = "pull" THEN Batch ELSE {req[s].task}
           seen == [t \in Tasks |-> IF t \in rows THEN status[t] ELSE "ABSENT"]
<1>1. req' = [req EXCEPT ![s] = r] /\ view' = [view EXCEPT ![s] = seen]
  BY DEF HttpLoad
<1>2. r \in Requests /\ r.op = req[s].op /\ r.task = req[s].task /\ r.verdict = req[s].verdict
      /\ r.stage = "loaded"
  BY StageType DEF TypeOK
<1>3. seen \in [Tasks -> Statuses] /\ \A t \in Tasks : seen[t] \in {"ABSENT", status[t]}
  BY DEF TypeOK, Statuses
<1>4. req[s].op # "pull" => \A t \in Tasks :
        seen[t] = IF t = req[s].task THEN status[t] ELSE "ABSENT"
  OBVIOUS
<1>5. req[s].op = "pull" => \A t \in Tasks : seen[t] \in {"ABSENT"} \cup Open
  BY DEF Batch, Due, Open
<1> HIDE DEF r, seen
<1>6. req'[s] = r /\ view'[s] = seen
  BY <1>1 DEF TypeOK
<1>7. /\ req' \in [Slots -> Requests] /\ view' \in [Slots -> [Tasks -> Statuses]]
      /\ \A x \in Slots : x # s => view'[x] = view[x] /\ req'[x] = req[x]
  BY <1>1, <1>2, <1>3 DEF TypeOK
<1>8. QED
  BY <1>2, <1>3, <1>4, <1>5, <1>6, <1>7

-----------------------------------------------------------------------------
(* Type correctness. *)

LEMMA TypeInit == Init => TypeOK
<1> SUFFICES ASSUME Init PROVE TypeOK
  OBVIOUS
<1>1. /\ status \in [Tasks -> Statuses] /\ expired \in [Tasks -> BOOLEAN]
      /\ activities \subseteq Tasks /\ executions \in [Tasks -> Nat]
      /\ view \in [Slots -> [Tasks -> Statuses]] /\ req \in [Slots -> Requests]
      /\ stored \in [Tasks -> Results] /\ outcome \in [Tasks -> Results]
  BY ValueTypes DEF Init, Statuses
<1>2. QED
  BY <1>1 DEF Init, TypeOK

LEMMA TypeStep == PipelineInv /\ [Next]_vars => TypeOK'
<1> SUFFICES ASSUME PipelineInv, [Next]_vars PROVE TypeOK'
  OBVIOUS
<1>0. TypeOK
  BY DEF PipelineInv
<1>1. ASSUME NEW t \in Tasks, Create(t) PROVE TypeOK'
  BY <1>0, <1>1 DEF TypeOK, Create, Statuses, Open
<1>2. ASSUME NEW t \in Tasks, ExpireLease(t) PROVE TypeOK'
  BY <1>0, <1>2 DEF TypeOK, ExpireLease
<1>3. ASSUME NEW s \in Slots, NEW t \in Tasks, Cancel(s, t) PROVE TypeOK'
  BY <1>0, <1>3, ValueTypes DEF TypeOK, Cancel, Results
<1>4. ASSUME NEW s \in Slots, HttpLoad(s) PROVE TypeOK'
  <2>1. req' \in [Slots -> Requests] /\ view' \in [Slots -> [Tasks -> Statuses]]
    BY <1>0, <1>4, LoadEffect
  <2>2. QED
    BY <1>0, <1>4, <2>1 DEF TypeOK, HttpLoad
<1>5. ASSUME NEW s \in Slots, PullCommit(s) PROVE TypeOK'
  <2>1. /\ status' \in [Tasks -> Statuses] /\ expired' \in [Tasks -> BOOLEAN]
        /\ req' \in [Slots -> Requests] /\ view' \in [Slots -> [Tasks -> Statuses]]
    BY <1>0, <1>5, PullEffect, ReplyEffect
  <2>2. QED
    BY <1>0, <1>5, <2>1 DEF TypeOK, PullCommit
<1>6. ASSUME NEW s \in Slots, TaskCommit(s) PROVE TypeOK'
  <2>1. /\ status' \in [Tasks -> Statuses] /\ activities' \subseteq Tasks
        /\ req' \in [Slots -> Requests] /\ view' \in [Slots -> [Tasks -> Statuses]]
    BY <1>0, <1>6, CommitEffect, ReplyEffect
  <2>2. QED
    BY <1>0, <1>6, <2>1 DEF TypeOK, TaskCommit
<1>7. ASSUME NEW s \in Slots, DropRequest(s) PROVE TypeOK'
  BY <1>0, <1>7, ValueTypes DEF TypeOK, DropRequest
<1>8. ASSUME ABegin PROVE TypeOK'
  BY <1>0, <1>8 DEF TypeOK, ABegin
<1>9. ASSUME NEW s \in Slots, AFlush(s) PROVE TypeOK'
  <2>1. PICK t \in outbox : ASend(s, "result", t) /\ outbox' = outbox \ {t}
    BY <1>9 DEF AFlush
  <2>2. t \in Tasks
    BY <1>0, <2>1 DEF TypeOK
  <2>3. QED
    BY <1>0, <1>9, <2>1, <2>2, SendEffect DEF TypeOK, AFlush, Waiting, Sending
<1>10. ASSUME NEW s \in Slots, APull(s) PROVE TypeOK'
  BY <1>0, <1>10, SendEffect DEF TypeOK, APull, Waiting
<1>11. ASSUME ASent PROVE TypeOK'
  <2>1. uploaded' \subseteq uploaded \cup {aTask}
    BY <1>11 DEF ASent
  <2>2. uploaded' \subseteq Tasks
    <3>1. aTask \in Tasks
      BY <1>0, <1>11 DEF ASent, PipelineInv, NamesAreCreated, LoopNames, Created
    <3>2. QED
      BY <1>0, <2>1, <3>1 DEF TypeOK
  <2>3. aPc' \in {"idle", "flush", "prepare", "report"}
    BY <1>11 DEF ASent, AbortCycle
  <2>4. outbox' \subseteq Tasks /\ queue' \subseteq Tasks /\ prepared' \subseteq Tasks
    BY <1>0, <1>11 DEF ASent, AbortCycle, TypeOK
  <2>5. QED
    BY <1>0, <1>11, <2>2, <2>3, <2>4, AnsweredEffect DEF TypeOK, ASent
<1>12. ASSUME APulled PROVE TypeOK'
  BY <1>0, <1>12, AnsweredEffect DEF TypeOK, APulled, Loaded
<1>13. ASSUME NEW s \in Slots, AResend(s) PROVE TypeOK'
  <2>1. PICK t \in Tasks : ASend(s, "result", t) /\ queue' = queue \ {t}
    BY <1>13 DEF AResend
  <2>2. QED
    BY <1>0, <1>13, <2>1, SendEffect DEF TypeOK, AResend, Waiting, Sending
<1>14. ASSUME NEW s \in Slots, AFetch(s) PROVE TypeOK'
  <2>1. PICK t \in Scripts : ASend(s, "script", t) /\ queue' = queue \ {t}
    BY <1>14 DEF AFetch
  <2>2. t \in Tasks
    BY PipelineAssumption DEF Tasks
  <2>3. QED
    BY <1>0, <1>14, <2>1, <2>2, SendEffect DEF TypeOK, AFetch, Waiting
<1>15. ASSUME AFetched PROVE TypeOK'
  <2>1. aTask \in Tasks
    BY <1>15 DEF AFetched, PipelineInv, NamesAreCreated, LoopNames, Created
  <2>2. QED
    BY <1>0, <1>15, <2>1, AnsweredEffect DEF TypeOK, AFetched, Results, Terminal
<1>16. ASSUME APrepare PROVE TypeOK'
  BY <1>0, <1>16 DEF TypeOK, APrepare
<1>17. ASSUME ARunBatch PROVE TypeOK'
  BY <1>0, <1>17 DEF TypeOK, ARunBatch, Results
<1>18. ASSUME NEW t \in Tasks, AExecute(t) PROVE TypeOK'
  BY <1>0, <1>18, PipelineAssumption DEF TypeOK, AExecute, Results, Terminal
<1>19. ASSUME ABatchDone PROVE TypeOK'
  BY <1>0, <1>19 DEF TypeOK, ABatchDone
<1>20. ASSUME ASave PROVE TypeOK'
  BY <1>0, <1>20 DEF TypeOK, ASave
<1>21. ASSUME NEW s \in Slots, AUpload(s) PROVE TypeOK'
  <2>1. aTask \in Tasks
    BY <1>21 DEF AUpload, PipelineInv, NamesAreCreated, LoopNames, Created
  <2>2. QED
    BY <1>0, <1>21, <2>1, SendEffect DEF TypeOK, AUpload, Waiting, Sending
<1>22. ASSUME ACycleDone PROVE TypeOK'
  BY <1>0, <1>22 DEF TypeOK, ACycleDone
<1>23. ASSUME NEW s \in Slots, AResendRequest(s) PROVE TypeOK'
  <2>1. Op \in {"pull", "script", "result"}
    BY DEF Op
  <2>2. Op = "result" => aTask \in Tasks
    BY DEF Op, PipelineInv, NamesAreCreated, LoopNames, Created
  <2>3. aTask \in Tasks \cup {NoTask}
    BY <1>0 DEF TypeOK
  <2>4. QED
    BY <1>0, <1>23, <2>1, <2>2, <2>3, SendEffect DEF TypeOK, AResendRequest
<1>24. ASSUME ATimeout PROVE TypeOK'
  <2>1. /\ aPc' \in {"idle", "report", aPc} /\ aTask' \in {aTask, NoTask} /\ aRetried' \in BOOLEAN
        /\ outbox' \subseteq outbox /\ queue' \subseteq queue /\ prepared' \subseteq prepared
    BY <1>0, <1>24, FailureTypes DEF ATimeout
  <2>2. QED
    BY <1>0, <1>24, <2>1, ForgetEffect DEF TypeOK, ATimeout, Fault
<1>25. ASSUME AgentRestart PROVE TypeOK'
  <2>1. NewAgentProcess /\ outcome' \in [Tasks -> Results]
    BY <1>25, ValueTypes DEF AgentRestart, NewAgentProcess
  <2>2. aPc' = "idle" /\ aTask' = NoTask /\ aRetried' = FALSE /\ outbox' = {} /\ queue' = {} /\ prepared' = {}
    BY <2>1 DEF NewAgentProcess, AbortCycle
  <2>3. /\ req' \in [Slots -> Requests] /\ view' \in [Slots -> [Tasks -> Statuses]]
        /\ aSlot' = NoSlot
    BY <1>0, <1>25, ForgetEffect DEF AgentRestart
  <2>4. faults' \in Nat /\ restarts' \in Nat /\ UNCHANGED <<tableVars, asked, storeVars, executions, migrations>>
    BY <1>0, <1>25 DEF TypeOK, AgentRestart, Fault
  <2>5. QED
    BY <1>0, <2>1, <2>2, <2>3, <2>4 DEF TypeOK
<1>26. ASSUME ServerRestart PROVE TypeOK'
  <2>1. /\ aPc' \in {"idle", "report", aPc} /\ aTask' \in {aTask, NoTask} /\ aRetried' \in BOOLEAN
        /\ outbox' \subseteq outbox /\ queue' \subseteq queue /\ prepared' \subseteq prepared
    <3>1. CASE aSlot = NoSlot
      BY <1>0, <1>26, <3>1 DEF ServerRestart, TypeOK
    <3>2. CASE aSlot # NoSlot
      BY <1>0, <1>26, <3>2, FailureTypes DEF ServerRestart
    <3>3. QED
      BY <3>1, <3>2
  <2>2. QED
    BY <1>0, <1>26, <2>1, SessionsEndEffect DEF TypeOK, ServerRestart, Fault
<1>27. ASSUME Migrate PROVE TypeOK'
  <2>1. status' \in [Tasks -> Statuses]
    BY <1>27 DEF Migrate, Statuses
  <2>2. NewAgentProcess /\ outcome' \in [Tasks -> Results]
    BY <1>27, ValueTypes DEF Migrate, NewAgentProcess
  <2>3. aPc' = "idle" /\ aTask' = NoTask /\ aRetried' = FALSE /\ outbox' = {} /\ queue' = {} /\ prepared' = {}
    BY <2>2 DEF NewAgentProcess, AbortCycle
  <2>4. /\ req' \in [Slots -> Requests] /\ view' \in [Slots -> [Tasks -> Statuses]]
        /\ aSlot' = NoSlot
    BY <1>0, <1>27, SessionsEndEffect DEF Migrate
  <2>5. migrations' \in Nat /\ UNCHANGED <<expired, activities, asked, storeVars, executions, faults, restarts>>
    BY <1>0, <1>27 DEF TypeOK, Migrate
  <2>6. QED
    BY <1>0, <2>1, <2>2, <2>3, <2>4, <2>5 DEF TypeOK
<1>28. CASE UNCHANGED vars
  BY <1>0, <1>28 DEF TypeOK
<1>29. QED
  BY <1>1, <1>2, <1>3, <1>4, <1>5, <1>6, <1>7, <1>8, <1>9, <1>10, <1>11, <1>12, <1>13, <1>14, <1>15,
     <1>16, <1>17, <1>18, <1>19, <1>20, <1>21, <1>22, <1>23, <1>24, <1>25, <1>26, <1>27, <1>28
     DEF Next, Server, ServiceLoop, User, Environment

-----------------------------------------------------------------------------
(* Part one of the invariant: names. *)

\* A row that exists goes on existing.
LEMMA CreatedGrows ==
    ASSUME PipelineInv, [Next]_vars
    PROVE  Created \subseteq Created'
<1> SUFFICES ASSUME NEW t \in Tasks, status[t] # "ABSENT" PROVE status'[t] # "ABSENT"
  BY DEF Created
<1>0. TypeOK
  BY DEF PipelineInv
<1>1. ASSUME NEW u \in Tasks, Create(u) PROVE status'[t] # "ABSENT"
  BY <1>0, <1>1 DEF TypeOK, Create
<1>2. ASSUME NEW s \in Slots, PullCommit(s) PROVE status'[t] # "ABSENT"
  BY <1>0, <1>2, PullEffect
<1>3. ASSUME NEW s \in Slots, TaskCommit(s) PROVE status'[t] # "ABSENT"
  BY <1>0, <1>3, CommitEffect DEF Terminal
<1>4. CASE Migrate
  BY <1>0, <1>4 DEF TypeOK, Migrate
<1>5. CASE UNCHANGED status
  BY <1>5
<1>6. QED
  BY <1>1, <1>2, <1>3, <1>4, <1>5
     DEF Next, Server, ServiceLoop, User, Environment, ExpireLease, Cancel, HttpLoad, DropRequest,
         ABegin, AFlush, APull, ASent, APulled, AResend, AFetch, AFetched, APrepare, ARunBatch,
         AExecute, ABatchDone, ASave, AUpload, ACycleDone, AResendRequest, ATimeout, AgentRestart,
         ServerRestart, ASend

\* A session that ends names nothing.
LEMMA QuietSession ==
    ASSUME NEW x \in Slots, view'[x] = NotLoaded, req'[x] = Idle
    PROVE  /\ Loaded(x)' = {} /\ req'[x].op = "none" /\ req'[x].stage = "idle"
           /\ \A t \in Tasks : view'[x][t] = "ABSENT"
  BY DEF Loaded, NotLoaded, Idle

LEMMA SessionNamesStep ==
    ASSUME PipelineInv, [Next]_vars, NEW x \in Slots
    PROVE  SessionNames(x)'
<1>0. TypeOK /\ SessionNames(x) /\ LoopNames /\ Created \subseteq Created'
  BY CreatedGrows DEF PipelineInv, NamesAreCreated
<1>1. CASE view'[x] = view[x] /\ req'[x] = req[x]
  BY <1>0, <1>1 DEF SessionNames, Loaded
<1>2. CASE view'[x] = NotLoaded /\ req'[x] = Idle
  BY <1>2, QuietSession DEF SessionNames
<1>3. ASSUME NEW s \in Slots, NEW t \in Tasks, Cancel(s, t) PROVE SessionNames(x)'
  <2>1. t \in Created
    BY <1>3 DEF Cancel, Created
  <2>2. view'[x] = view[x] /\ req'[x] \in {req[x], Request("cancel", t, "none")}
    BY <1>0, <1>3 DEF Cancel, TypeOK
  <2>3. QED
    BY <1>0, <2>1, <2>2 DEF SessionNames, Loaded, Request
<1>4. ASSUME NEW s \in Slots, HttpLoad(s) PROVE SessionNames(x)'
  <2>1. CASE x = s
    BY <1>0, <1>4, <2>1, LoadEffect DEF SessionNames, Loaded, Created, HttpLoad
  <2>2. CASE x # s
    BY <1>0, <1>1, <1>4, <2>2, LoadEffect
  <2>3. QED
    BY <2>1, <2>2
<1>5. ASSUME NEW s \in Slots, PullCommit(s) PROVE SessionNames(x)'
  <2> DEFINE rows == [t \in Tasks |-> IF t \in Loaded(s) THEN "DISPATCHED" ELSE "ABSENT"]
  <2>1. rows \in [Tasks -> Statuses] /\ Reply(s, rows)
    BY <1>0, <1>5, PullEffect
  <2>2. CASE x = s
    <3>1. CASE s = aSlot
      <4>1. view'[s] = rows /\ req'[s].op = req[s].op
        BY <1>0, <2>1, <3>1, ReplyEffect
      <4>2. Loaded(s)' \subseteq Loaded(s) /\ req'[s].op = "pull"
        BY <1>5, <4>1 DEF Loaded, PullCommit
      <4>3. QED
        BY <1>0, <2>2, <4>2 DEF SessionNames
    <3>2. CASE s # aSlot
      BY <1>0, <1>2, <2>1, <2>2, <3>2, ReplyEffect
    <3>3. QED
      BY <3>1, <3>2
  <2>3. CASE x # s
    BY <1>0, <1>1, <2>1, <2>3, ReplyEffect
  <2>4. QED
    BY <2>2, <2>3
<1>6. ASSUME NEW s \in Slots, TaskCommit(s) PROVE SessionNames(x)'
  <2> DEFINE t == req[s].task
             new == Decide(s, view[s][t])
             rows == [view[s] EXCEPT ![t] = new]
  <2>1. /\ t \in Tasks /\ view[s][t] # "ABSENT" /\ rows \in [Tasks -> Statuses] /\ Reply(s, rows)
        /\ \A u \in Tasks : u # t => rows[u] = view[s][u]
    BY <1>6, CommitEffect
  <2> HIDE DEF rows
  <2>2. CASE x = s
    <3>1. CASE s = aSlot
      <4>1. view'[s] = rows /\ req'[s].op = req[s].op /\ req'[s].task = t
        BY <1>0, <2>1, <3>1, ReplyEffect
      <4>2. Loaded(s)' \subseteq Loaded(s)
        BY <2>1, <4>1 DEF Loaded
      <4>3. QED
        BY <1>0, <2>2, <4>1, <4>2 DEF SessionNames
    <3>2. CASE s # aSlot
      BY <1>0, <1>2, <2>1, <2>2, <3>2, ReplyEffect
    <3>3. QED
      BY <3>1, <3>2
  <2>3. CASE x # s
    BY <1>0, <1>1, <2>1, <2>3, ReplyEffect
  <2>4. QED
    BY <2>2, <2>3
<1>7. ASSUME NEW s \in Slots, DropRequest(s) PROVE SessionNames(x)'
  <2>1. view'[x] = view[x] /\ req'[x] \in {req[x], Idle}
    BY <1>0, <1>7 DEF DropRequest, TypeOK
  <2>2. QED
    BY <1>0, <2>1 DEF SessionNames, Loaded, Idle
<1>8. ASSUME NEW s \in Slots, NEW op \in {"pull", "script", "result"},
             NEW t \in Tasks \cup {NoTask}, op # "pull" => t \in Created, ASend(s, op, t)
      PROVE  SessionNames(x)'
  <2>1. op = "result" => t \in Tasks
    BY <1>8 DEF Created
  <2>2. view'[x] = view[x] /\ (x # s => req'[x] = req[x]) /\ req'[s].op = op /\ req'[s].task = t
    BY <1>0, <1>8, <2>1, SendEffect
  <2>3. QED
    BY <1>0, <1>1, <1>8, <2>2 DEF SessionNames, Loaded
<1>9. ASSUME NEW s \in Slots, AFlush(s) \/ APull(s) \/ AResend(s) \/ AFetch(s) \/ AUpload(s) \/ AResendRequest(s)
      PROVE  SessionNames(x)'
  <2>1. PICK op \in {"pull", "script", "result"}, t \in Tasks \cup {NoTask} :
          ASend(s, op, t) /\ (op # "pull" => t \in Created)
    <3>1. CASE AFlush(s)
      BY <1>0, <3>1 DEF AFlush, LoopNames, Created
    <3>2. CASE APull(s)
      BY <3>2 DEF APull
    <3>3. CASE AResend(s)
      BY <1>0, <3>3 DEF AResend, First, LoopNames
    <3>4. CASE AFetch(s)
      BY <1>0, <3>4 DEF AFetch, First, LoopNames, Created
    <3>5. CASE AUpload(s)
      BY <1>0, <3>5 DEF AUpload, LoopNames, Created
    <3>6. CASE AResendRequest(s)
      <4>1. Op \in {"pull", "script", "result"} /\ aTask \in Tasks \cup {NoTask}
        BY <1>0 DEF Op, TypeOK
      <4>2. Op # "pull" => aTask \in Created
        BY <1>0 DEF Op, LoopNames
      <4>3. QED
        BY <3>6, <4>1, <4>2 DEF AResendRequest
    <3>7. QED
      BY <1>9, <3>1, <3>2, <3>3, <3>4, <3>5, <3>6
  <2>2. QED
    BY <1>8, <2>1
<1>10. ASSUME Answered PROVE SessionNames(x)'
  BY <1>0, <1>1, <1>2, <1>10, AnsweredEffect
<1>11. ASSUME Forget PROVE SessionNames(x)'
  BY <1>0, <1>1, <1>2, <1>11, ForgetEffect
<1>12. ASSUME SessionsEnd PROVE SessionNames(x)'
  BY <1>0, <1>2, <1>12, SessionsEndEffect
<1>13. ASSUME UNCHANGED <<view, req>> PROVE SessionNames(x)'
  BY <1>1, <1>13
<1>14. QED
  BY <1>3, <1>4, <1>5, <1>6, <1>7, <1>9, <1>10, <1>11, <1>12, <1>13
     DEF Next, Server, ServiceLoop, User, Environment, Create, ExpireLease, ABegin, ASent, APulled,
         AFetched, APrepare, ARunBatch, AExecute, ABatchDone, ASave, ACycleDone, ATimeout,
         AgentRestart, ServerRestart, Migrate

LEMMA LoopNamesStep ==
    ASSUME PipelineInv, [Next]_vars
    PROVE  LoopNames'
<1>0. /\ TypeOK /\ LoopNames /\ Created \subseteq Created'
      /\ \A s \in Slots : Loaded(s) \subseteq Created
  BY CreatedGrows DEF PipelineInv, NamesAreCreated, SessionNames
<1>1. CASE UNCHANGED <<waitVars, outbox, queue, prepared, stored>>
  BY <1>0, <1>1 DEF LoopNames
<1>2. CASE ABegin
  BY <1>0, <1>2 DEF ABegin, LoopNames, Sending
<1>3. ASSUME NEW s \in Slots, AFlush(s) PROVE LoopNames'
  BY <1>0, <1>3 DEF AFlush, ASend, LoopNames
<1>4. ASSUME NEW s \in Slots, APull(s) PROVE LoopNames'
  BY <1>0, <1>4 DEF APull, ASend, LoopNames, Sending
<1>5. CASE ASent
  BY <1>0, <1>5 DEF ASent, AbortCycle, LoopNames, Sending
<1>6. CASE APulled
  <2>1. queue' \subseteq Created /\ aPc' = "prepare" /\ UNCHANGED <<outbox, prepared, stored>>
    BY <1>0, <1>6 DEF APulled, Answered, TypeOK
  <2>2. QED
    BY <1>0, <2>1 DEF LoopNames, Sending
<1>7. ASSUME NEW s \in Slots, AResend(s) PROVE LoopNames'
  BY <1>0, <1>7 DEF AResend, First, ASend, LoopNames
<1>8. ASSUME NEW s \in Slots, AFetch(s) PROVE LoopNames'
  BY <1>0, <1>8 DEF AFetch, First, ASend, LoopNames
<1>9. CASE AFetched
  BY <1>0, <1>9 DEF AFetched, LoopNames, Sending, TypeOK
<1>10. CASE APrepare
  BY <1>0, <1>10 DEF APrepare, First, LoopNames
<1>11. CASE ARunBatch \/ ABatchDone \/ ACycleDone
  BY <1>0, <1>11 DEF ARunBatch, ABatchDone, ACycleDone, LoopNames, Sending
<1>12. CASE ASave
  BY <1>0, <1>12 DEF ASave, First, LoopNames, Sending, TypeOK
<1>13. ASSUME NEW s \in Slots, AUpload(s) PROVE LoopNames'
  BY <1>0, <1>13 DEF AUpload, ASend, LoopNames
<1>14. ASSUME NEW s \in Slots, AResendRequest(s) PROVE LoopNames'
  BY <1>0, <1>14 DEF AResendRequest, ASend, LoopNames
<1>15. ASSUME UNCHANGED stored, RequestFails PROVE LoopNames'
  BY <1>0, <1>15 DEF RequestFails, GiveUp, AbortCycle, LoopNames, Sending
<1>16. ASSUME UNCHANGED stored, NewAgentProcess PROVE LoopNames'
  BY <1>0, <1>16 DEF NewAgentProcess, AbortCycle, LoopNames, Sending
<1>17. CASE ATimeout
  BY <1>15, <1>17 DEF ATimeout
<1>18. CASE AgentRestart \/ Migrate
  BY <1>16, <1>18 DEF AgentRestart, Migrate
<1>19. CASE ServerRestart
  BY <1>0, <1>15, <1>19 DEF ServerRestart, LoopNames
<1>20. QED
  BY <1>1, <1>2, <1>3, <1>4, <1>5, <1>6, <1>7, <1>8, <1>9, <1>10, <1>11, <1>12, <1>13, <1>14,
     <1>17, <1>18, <1>19
     DEF Next, Server, ServiceLoop, User, Environment, Create, ExpireLease, Cancel, HttpLoad,
         PullCommit, TaskCommit, DropRequest, AExecute

LEMMA NamesStep == PipelineInv /\ [Next]_vars => NamesAreCreated'
  BY LoopNamesStep, SessionNamesStep DEF NamesAreCreated

-----------------------------------------------------------------------------
(* Part two: results. *)

\* A result is recorded once: what is stored stays as it is.
LEMMA StoredOnce ==
    ASSUME PipelineInv, [Next]_vars, NEW t \in Tasks, stored[t] # "none"
    PROVE  stored'[t] = stored[t]
<1>0. TypeOK /\ WorkIsFresh
  BY DEF PipelineInv
<1>1. CASE AFetched
  BY <1>0, <1>1 DEF AFetched, WorkIsFresh, TypeOK
<1>2. CASE ASave
  BY <1>0, <1>2 DEF ASave, First, WorkIsFresh, TypeOK
<1>3. CASE UNCHANGED stored
  BY <1>3
<1>4. QED
  BY <1>1, <1>2, <1>3
     DEF Next, Server, ServiceLoop, User, Environment, Create, ExpireLease, Cancel, HttpLoad,
         PullCommit, TaskCommit, DropRequest, ABegin, AFlush, APull, ASent, APulled, AResend, AFetch,
         APrepare, ARunBatch, AExecute, ABatchDone, AUpload, ACycleDone, AResendRequest, ATimeout,
         AgentRestart, ServerRestart, Migrate, ASend

LEMMA OutcomeStep ==
    ASSUME PipelineInv, [Next]_vars
    PROVE  OutcomeIsTheRecordedResult'
<1> SUFFICES ASSUME NEW t \in Tasks, status'[t] \in Executed PROVE stored'[t] = status'[t]
  BY DEF OutcomeIsTheRecordedResult
<1>0. TypeOK /\ OutcomeIsTheRecordedResult /\ "none" \notin Executed
  BY DEF PipelineInv, ResultsAreRecorded, Executed, Terminal
<1>1. CASE status'[t] = status[t]
  BY <1>0, <1>1, StoredOnce DEF OutcomeIsTheRecordedResult
<1>2. ASSUME NEW u \in Tasks, Create(u) PROVE stored'[t] = status'[t]
  BY <1>0, <1>1, <1>2 DEF Create, TypeOK, Executed, Terminal
<1>3. ASSUME NEW s \in Slots, PullCommit(s) PROVE stored'[t] = status'[t]
  BY <1>0, <1>1, <1>3, PullEffect DEF Executed, Terminal
<1>4. ASSUME NEW s \in Slots, TaskCommit(s) PROVE stored'[t] = status'[t]
  <2>1. status'[t] = status[t] \/ status'[t] = "CANCELLED" \/ status'[t] = stored[t]
    BY <1>4, CommitEffect
  <2>2. CASE status'[t] = stored[t]
    BY <1>0, <2>2, StoredOnce
  <2>3. QED
    BY <1>1, <2>1, <2>2 DEF Executed
<1>5. CASE Migrate
  BY <1>0, <1>1, <1>5 DEF Migrate, TypeOK, Executed, Terminal
<1>6. CASE UNCHANGED status
  BY <1>1, <1>6
<1>7. QED
  BY <1>2, <1>3, <1>4, <1>5, <1>6
     DEF Next, Server, ServiceLoop, User, Environment, ExpireLease, Cancel, HttpLoad, DropRequest,
         ABegin, AFlush, APull, ASent, APulled, AResend, AFetch, AFetched, APrepare, ARunBatch,
         AExecute, ABatchDone, ASave, AUpload, ACycleDone, AResendRequest, ATimeout, AgentRestart,
         ServerRestart, ASend

LEMMA SessionResultsStep ==
    ASSUME PipelineInv, [Next]_vars, NEW x \in Slots
    PROVE  SessionResults(x)'
<1>0. /\ TypeOK /\ SessionResults(x) /\ OutcomeIsTheRecordedResult /\ LoopResults
      /\ LoopNames /\ SessionNames(x) /\ "none" \notin Executed
  BY DEF PipelineInv, ResultsAreRecorded, NamesAreCreated, Executed, Terminal
<1>0a. \A t \in Tasks : stored[t] # "none" => stored'[t] = stored[t]
  BY StoredOnce
<1>1. ASSUME \A t \in Tasks : view'[x][t] \in Executed => view'[x][t] \in {view[x][t], status[t], stored[t]}
      PROVE  \A t \in Tasks : view'[x][t] \in Executed => stored'[t] = view'[x][t]
  BY <1>0, <1>0a, <1>1 DEF SessionResults, OutcomeIsTheRecordedResult
<1>2. ASSUME req'[x].op = "result" => /\ req[x].op = "result" /\ req'[x].task = req[x].task
                                      /\ req'[x].verdict = req[x].verdict
      PROVE  req'[x].op = "result" => /\ req'[x].verdict # "none"
                                      /\ stored'[req'[x].task] = req'[x].verdict
  BY <1>0, <1>0a, <1>2 DEF SessionResults, SessionNames, Created
<1>3. CASE view'[x] = view[x] /\ req'[x] = req[x]
  BY <1>1, <1>2, <1>3 DEF SessionResults
<1>4. CASE view'[x] = NotLoaded /\ req'[x] = Idle
  <2>1. \A t \in Tasks : view'[x][t] \notin Executed
    BY <1>4, QuietSession DEF Executed, Terminal
  <2>2. QED
    BY <1>4, <2>1, QuietSession DEF SessionResults
<1>5. ASSUME NEW s \in Slots, NEW t \in Tasks, Cancel(s, t) PROVE SessionResults(x)'
  <2>1. view'[x] = view[x] /\ req'[x] \in {req[x], Request("cancel", t, "none")}
    BY <1>0, <1>5 DEF Cancel, TypeOK
  <2>2. QED
    BY <1>1, <1>2, <2>1 DEF SessionResults, Request
<1>6. ASSUME NEW s \in Slots, HttpLoad(s) PROVE SessionResults(x)'
  <2>1. CASE x = s
    <3>1. \A t \in Tasks : view'[x][t] \in {"ABSENT", status[t]}
      BY <1>0, <1>6, <2>1, LoadEffect
    <3>2. /\ req'[x].op = req[x].op /\ req'[x].task = req[x].task
          /\ req'[x].verdict = req[x].verdict
      BY <1>0, <1>6, <2>1, LoadEffect
    <3>3. "ABSENT" \notin Executed
      BY DEF Executed, Terminal
    <3>4. QED
      BY <1>1, <1>2, <3>1, <3>2, <3>3 DEF SessionResults
  <2>2. CASE x # s
    BY <1>0, <1>3, <1>6, <2>2, LoadEffect
  <2>3. QED
    BY <2>1, <2>2
<1>7. ASSUME NEW s \in Slots, PullCommit(s) PROVE SessionResults(x)'
  <2> DEFINE rows == [t \in Tasks |-> IF t \in Loaded(s) THEN "DISPATCHED" ELSE "ABSENT"]
  <2>1. rows \in [Tasks -> Statuses] /\ Reply(s, rows)
    BY <1>0, <1>7, PullEffect
  <2>2. \A t \in Tasks : rows[t] \notin Executed
    BY DEF Executed, Terminal
  <2> HIDE DEF rows
  <2>3. CASE x = s /\ s = aSlot
    <3>1. view'[x] = rows /\ req'[x].op = "pull"
      BY <1>0, <1>7, <2>1, <2>3, ReplyEffect DEF PullCommit
    <3>2. QED
      BY <2>2, <3>1 DEF SessionResults
  <2>4. CASE x = s /\ s # aSlot
    BY <1>0, <1>4, <2>1, <2>4, ReplyEffect
  <2>5. CASE x # s
    BY <1>0, <1>3, <2>1, <2>5, ReplyEffect
  <2>6. QED
    BY <2>3, <2>4, <2>5
<1>8. ASSUME NEW s \in Slots, TaskCommit(s) PROVE SessionResults(x)'
  <2> DEFINE t == req[s].task
             new == Decide(s, view[s][t])
             rows == [view[s] EXCEPT ![t] = new]
  <2>1. /\ t \in Tasks /\ rows \in [Tasks -> Statuses] /\ Reply(s, rows)
        /\ rows[t] = new /\ \A u \in Tasks : u # t => rows[u] = view[s][u]
        /\ new \in {view[s][t], "CANCELLED", stored[t]}
    BY <1>8, CommitEffect
  <2> HIDE DEF t, new, rows
  <2>2. "CANCELLED" \notin Executed
    BY DEF Executed
  <2>3. CASE x = s /\ s = aSlot
    <3>1. view'[x] = rows /\ req'[x].op = req[x].op /\ req'[x].task = req[x].task
          /\ req'[x].verdict = req[x].verdict
      BY <1>0, <2>1, <2>3, ReplyEffect
    <3>2. \A u \in Tasks : view'[x][u] \in Executed => view'[x][u] \in {view[x][u], stored[u]}
      BY <2>1, <2>2, <2>3, <3>1
    <3>3. QED
      BY <1>1, <1>2, <3>1, <3>2 DEF SessionResults
  <2>4. CASE x = s /\ s # aSlot
    BY <1>0, <1>4, <2>1, <2>4, ReplyEffect
  <2>5. CASE x # s
    BY <1>0, <1>3, <2>1, <2>5, ReplyEffect
  <2>6. QED
    BY <2>3, <2>4, <2>5
<1>9. ASSUME NEW s \in Slots, DropRequest(s) PROVE SessionResults(x)'
  <2>1. view'[x] = view[x] /\ req'[x] \in {req[x], Idle}
    BY <1>0, <1>9 DEF DropRequest, TypeOK
  <2>2. QED
    BY <1>1, <1>2, <2>1 DEF SessionResults, Idle
<1>10. ASSUME NEW s \in Slots, NEW op \in {"pull", "script", "result"}, NEW t \in Tasks \cup {NoTask},
              op = "result" => t \in Tasks /\ stored[t] # "none", ASend(s, op, t)
       PROVE  SessionResults(x)'
  <2>1. /\ view'[x] = view[x] /\ (x # s => req'[x] = req[x])
        /\ req'[s].op = op /\ req'[s].task = t /\ (op = "result" => req'[s].verdict = stored[t])
        /\ stored' = stored
    BY <1>0, <1>10, SendEffect
  <2>2. CASE x # s
    BY <1>3, <2>1, <2>2
  <2>3. CASE x = s
    BY <1>1, <1>10, <2>1, <2>3 DEF SessionResults
  <2>4. QED
    BY <2>2, <2>3
<1>11. ASSUME NEW s \in Slots, AFlush(s) \/ APull(s) \/ AResend(s) \/ AFetch(s) \/ AUpload(s) \/ AResendRequest(s)
       PROVE  SessionResults(x)'
  <2>1. PICK op \in {"pull", "script", "result"}, t \in Tasks \cup {NoTask} :
          ASend(s, op, t) /\ (op = "result" => t \in Tasks /\ stored[t] # "none")
    <3>1. CASE AFlush(s)
      BY <1>0, <3>1 DEF AFlush, LoopResults, TypeOK
    <3>2. CASE APull(s)
      BY <3>2 DEF APull
    <3>3. CASE AResend(s)
      BY <3>3 DEF AResend, Historical
    <3>4. CASE AFetch(s)
      <4>1. PICK t \in Scripts : ASend(s, "script", t)
        BY <3>4 DEF AFetch
      <4>2. t \in Tasks
        BY PipelineAssumption DEF Tasks
      <4>3. QED
        BY <4>1, <4>2
    <3>5. CASE AUpload(s)
      BY <1>0, <3>5 DEF AUpload, LoopNames, LoopResults, Created
    <3>6. CASE AResendRequest(s)
      <4>1. Op \in {"pull", "script", "result"} /\ aTask \in Tasks \cup {NoTask}
        BY <1>0 DEF Op, TypeOK
      <4>2. Op = "result" => aTask \in Tasks /\ stored[aTask] # "none"
        BY <1>0 DEF Op, LoopNames, LoopResults, Created
      <4>3. QED
        BY <3>6, <4>1, <4>2 DEF AResendRequest
    <3>7. QED
      BY <1>11, <3>1, <3>2, <3>3, <3>4, <3>5, <3>6
  <2>2. QED
    BY <1>10, <2>1
<1>12. ASSUME Answered PROVE SessionResults(x)'
  BY <1>0, <1>3, <1>4, <1>12, AnsweredEffect
<1>13. ASSUME Forget PROVE SessionResults(x)'
  BY <1>0, <1>3, <1>4, <1>13, ForgetEffect
<1>14. ASSUME SessionsEnd PROVE SessionResults(x)'
  BY <1>0, <1>4, <1>14, SessionsEndEffect
<1>15. ASSUME UNCHANGED <<view, req>> PROVE SessionResults(x)'
  BY <1>3, <1>15
<1>16. QED
  BY <1>5, <1>6, <1>7, <1>8, <1>9, <1>11, <1>12, <1>13, <1>14, <1>15
     DEF Next, Server, ServiceLoop, User, Environment, Create, ExpireLease, ABegin, ASent, APulled,
         AFetched, APrepare, ARunBatch, AExecute, ABatchDone, ASave, ACycleDone, ATimeout,
         AgentRestart, ServerRestart, Migrate

\* What the loop does when a request fails or the process ends states nothing new.
LEMMA LoopResultsStep ==
    ASSUME PipelineInv, [Next]_vars
    PROVE  LoopResults'
<1> DEFINE Waits == aPc' \in {"upload"} \cup Sending => stored'[aTask'] # "none"
           Lists == \A t \in outbox' \cup uploaded' : stored'[t] # "none"
           Values == \A t \in Tasks : /\ stored'[t] \in Verdicts \cup {"CANCELLED", "none"}
                                      /\ outcome'[t] \in Verdicts \cup {"none"}
<1>0. /\ TypeOK /\ LoopNames /\ LoopResults /\ WorkIsFresh
  BY DEF PipelineInv, ResultsAreRecorded, NamesAreCreated
<1>0a. \A t \in Tasks : stored[t] # "none" => stored'[t] = stored[t]
  BY StoredOnce
<1>0b. /\ \A t \in Tasks : t = aTask /\ aPc \in {"upload"} \cup Sending => stored[t] # "none"
       /\ aPc \in {"upload"} \cup Sending => aTask \in Tasks
       /\ outbox \subseteq Tasks /\ uploaded \subseteq Tasks
  BY <1>0 DEF LoopResults, LoopNames, Created, TypeOK
<1>1. ASSUME Waits, Lists, Values PROVE LoopResults'
  BY <1>1 DEF LoopResults, Sending
<1> HIDE DEF Waits, Lists, Values
<1>2. ASSUME outbox' \cup uploaded' \subseteq outbox \cup uploaded PROVE Lists
  BY <1>0, <1>0a, <1>0b, <1>2 DEF Lists, LoopResults
<1>3. ASSUME UNCHANGED <<stored, outcome>> PROVE Values
  BY <1>0, <1>3 DEF Values, LoopResults
<1>4. ASSUME UNCHANGED <<aPc, aTask>> PROVE Waits
  BY <1>0a, <1>0b, <1>4 DEF Waits
<1>5. ASSUME aPc' \notin {"upload"} \cup Sending PROVE Waits
  BY <1>5 DEF Waits
<1>6. CASE UNCHANGED <<waitVars, outbox, storeVars, outcome>>
  BY <1>1, <1>2, <1>3, <1>4, <1>6
<1>7. CASE ABegin
  <2>1. Lists
    BY <1>0, <1>7 DEF ABegin, Lists, LoopResults
  <2>2. Waits
    BY <1>5, <1>7 DEF ABegin, Sending
  <2>3. QED
    BY <1>1, <1>3, <1>7, <2>1, <2>2 DEF ABegin
<1>8. ASSUME NEW s \in Slots, NEW op \in {"pull", "script", "result"}, NEW t, ASend(s, op, t),
             op = "result" => stored[t] # "none", op # "result" => aPc' \notin {"upload"} \cup Sending,
             outbox' \subseteq outbox, UNCHANGED outcome
      PROVE  LoopResults'
  <2>1. Waits
    BY <1>8 DEF Waits, ASend
  <2>2. QED
    BY <1>1, <1>2, <1>3, <1>8, <2>1 DEF ASend
<1>9. ASSUME NEW s \in Slots, AFlush(s) PROVE LoopResults'
  <2>1. PICK t \in outbox : ASend(s, "result", t) /\ outbox' = outbox \ {t}
    BY <1>9 DEF AFlush
  <2>2. stored[t] # "none"
    BY <1>0, <2>1 DEF LoopResults
  <2>3. QED
    BY <1>8, <1>9, <2>1, <2>2 DEF AFlush
<1>10. ASSUME NEW s \in Slots, APull(s) PROVE LoopResults'
  BY <1>8, <1>10 DEF APull, Sending
<1>11. CASE ASent
  <2>1. aTask \in Tasks /\ stored[aTask] # "none" /\ UNCHANGED <<stored, outcome>>
    BY <1>0b, <1>11 DEF ASent
  <2>2. uploaded' \subseteq uploaded \cup {aTask} /\ outbox' \subseteq outbox
    BY <1>11 DEF ASent, AbortCycle
  <2>3. Lists
    BY <1>0, <2>1, <2>2 DEF Lists, LoopResults
  <2>4. aPc' \in {"idle", "flush", "prepare", "report"}
    BY <1>11 DEF ASent, AbortCycle
  <2>5. QED
    BY <1>1, <1>3, <1>5, <2>1, <2>3, <2>4 DEF Sending
<1>12. CASE APulled
  <2>1. aPc' \notin {"upload"} \cup Sending
    BY <1>12 DEF APulled, Sending
  <2>2. QED
    BY <1>1, <1>2, <1>3, <1>5, <1>12, <2>1 DEF APulled
<1>13. ASSUME NEW s \in Slots, AResend(s) PROVE LoopResults'
  <2>1. PICK t \in Tasks : ASend(s, "result", t) /\ Historical(t)
    BY <1>13 DEF AResend
  <2>2. QED
    BY <1>8, <1>13, <2>1 DEF AResend, Historical
<1>14. ASSUME NEW s \in Slots, AFetch(s) PROVE LoopResults'
  <2>1. PICK t \in Scripts : ASend(s, "script", t)
    BY <1>14 DEF AFetch
  <2>2. QED
    BY <1>8, <1>14, <2>1 DEF AFetch, Sending
<1>15. CASE AFetched
  <2>1. \A t \in Tasks : stored'[t] \in {stored[t], "CANCELLED"}
    BY <1>0, <1>15 DEF AFetched, TypeOK
  <2>2. Values
    BY <1>0, <1>15, <2>1 DEF AFetched, Values, LoopResults
  <2>3. aPc' \notin {"upload"} \cup Sending
    BY <1>15 DEF AFetched, Sending
  <2>4. QED
    BY <1>1, <1>2, <1>5, <1>15, <2>2, <2>3 DEF AFetched
<1>16. CASE APrepare
  BY <1>1, <1>2, <1>3, <1>4, <1>16 DEF APrepare
<1>17. CASE ARunBatch
  <2>1. Values
    BY <1>0, <1>17 DEF ARunBatch, Values, LoopResults
  <2>2. aPc' \notin {"upload"} \cup Sending
    BY <1>17 DEF ARunBatch, Sending
  <2>3. QED
    BY <1>1, <1>2, <1>5, <1>17, <2>1, <2>2 DEF ARunBatch
<1>18. ASSUME NEW t \in Tasks, AExecute(t) PROVE LoopResults'
  <2>1. Values
    BY <1>0, <1>18 DEF AExecute, Values, LoopResults, TypeOK
  <2>2. QED
    BY <1>1, <1>2, <1>4, <1>18, <2>1 DEF AExecute
<1>19. CASE ABatchDone \/ ACycleDone
  <2>1. aPc' \notin {"upload"} \cup Sending
    BY <1>19 DEF ABatchDone, ACycleDone, Sending
  <2>2. QED
    BY <1>1, <1>2, <1>3, <1>5, <1>19, <2>1 DEF ABatchDone, ACycleDone
<1>20. CASE ASave
  <2>1. PICK t \in Tasks : First(t, prepared) /\ stored' = [stored EXCEPT ![t] = outcome[t]] /\ aTask' = t
    BY <1>20 DEF ASave
  <2>2. outcome[t] # "none" /\ stored'[t] = outcome[t] /\ outcome[t] \in Verdicts
    BY <1>0, <1>20, <2>1 DEF ASave, First, WorkIsFresh, TypeOK, LoopResults
  <2>3. Waits
    BY <2>1, <2>2 DEF Waits
  <2>4. Values
    BY <1>0, <1>20, <2>1, <2>2 DEF ASave, Values, LoopResults, TypeOK
  <2>5. QED
    BY <1>1, <1>2, <1>20, <2>3, <2>4 DEF ASave
<1>21. ASSUME NEW s \in Slots, AUpload(s) PROVE LoopResults'
  <2>1. stored[aTask] # "none"
    BY <1>0b, <1>21 DEF AUpload
  <2>2. QED
    BY <1>8, <1>21, <2>1 DEF AUpload
<1>22. ASSUME NEW s \in Slots, AResendRequest(s) PROVE LoopResults'
  <2>1. Op \in {"pull", "script", "result"} /\ (Op = "result" <=> aPc \in Sending)
    <3>1. CASE aPc \in Sending
      BY <3>1 DEF Op, Sending
    <3>2. CASE aPc \notin Sending
      BY <3>2 DEF Op
    <3>3. QED
      BY <3>1, <3>2
  <2>2. Op # "result" => aPc' \notin {"upload"} \cup Sending
    BY <1>22, <2>1 DEF AResendRequest, Waiting, Sending
  <2>3. QED
    BY <1>0b, <1>8, <1>22, <2>1, <2>2 DEF AResendRequest
<1>23. ASSUME UNCHANGED <<storeVars, outcome>>, RequestFails PROVE LoopResults'
  <2>1. outbox' \subseteq outbox
    BY <1>0, <1>23, FailureTypes
  <2>2. UNCHANGED <<aPc, aTask>> \/ aPc' \in {"idle", "report"}
    BY <1>23 DEF RequestFails, GiveUp, AbortCycle
  <2>3. Waits
    BY <1>4, <1>5, <2>2 DEF Sending
  <2>4. QED
    BY <1>1, <1>2, <1>3, <1>23, <2>1, <2>3
<1>24. ASSUME UNCHANGED storeVars, NewAgentProcess PROVE LoopResults'
  <2>1. outbox' = {} /\ aPc' = "idle" /\ outcome' = [t \in Tasks |-> "none"]
    BY <1>24 DEF NewAgentProcess, AbortCycle
  <2>2. Values
    BY <1>0, <1>24, <2>1 DEF Values, LoopResults
  <2>3. aPc' \notin {"upload"} \cup Sending
    BY <2>1 DEF Sending
  <2>4. QED
    BY <1>1, <1>2, <1>5, <1>24, <2>1, <2>2, <2>3
<1>25. CASE ATimeout
  BY <1>23, <1>25 DEF ATimeout
<1>26. CASE AgentRestart \/ Migrate
  BY <1>24, <1>26 DEF AgentRestart, Migrate
<1>27. CASE ServerRestart
  <2>1. CASE aSlot = NoSlot
    BY <1>1, <1>2, <1>3, <1>4, <1>27, <2>1 DEF ServerRestart
  <2>2. CASE aSlot # NoSlot
    BY <1>23, <1>27, <2>2 DEF ServerRestart
  <2>3. QED
    BY <2>1, <2>2
<1>28. QED
  BY <1>6, <1>7, <1>9, <1>10, <1>11, <1>12, <1>13, <1>14, <1>15, <1>16, <1>17, <1>18, <1>19, <1>20,
     <1>21, <1>22, <1>25, <1>26, <1>27
     DEF Next, Server, ServiceLoop, User, Environment, Create, ExpireLease, Cancel, HttpLoad,
         PullCommit, TaskCommit, DropRequest

\* Only the commit of a result writes an Activity row, and it writes the row with
\* the status.
LEMMA ActivitiesStep ==
    ASSUME PipelineInv, [Next]_vars
    PROVE  ActivitiesAreRecorded'
<1>0. TypeOK /\ ActivitiesAreRecorded
  BY DEF PipelineInv, ResultsAreRecorded
<1>1. ASSUME UNCHANGED activities, \A t \in Tasks : status'[t] \in Executed => status'[t] = status[t]
      PROVE  ActivitiesAreRecorded'
  BY <1>0, <1>1, StoredOnce DEF ActivitiesAreRecorded, TypeOK
<1>2. ASSUME NEW u \in Tasks, Create(u) PROVE ActivitiesAreRecorded'
  BY <1>0, <1>1, <1>2 DEF Create, TypeOK, Executed, Terminal
<1>3. ASSUME NEW s \in Slots, PullCommit(s) PROVE ActivitiesAreRecorded'
  <2>1. \A t \in Tasks : status'[t] \in Executed => status'[t] = status[t]
    BY <1>0, <1>3, PullEffect DEF Executed, Terminal
  <2>2. QED
    BY <1>1, <1>3, <2>1 DEF PullCommit
<1>4. ASSUME NEW s \in Slots, TaskCommit(s) PROVE ActivitiesAreRecorded'
  <2>1. PICK t \in Tasks : t = req[s].task
    BY <1>4, CommitEffect
  <2>2. /\ \A u \in Tasks : u # t => status'[u] = status[u]
        /\ \/ status'[t] = status[t]
           \/ /\ view[s][t] \in Open /\ status'[t] = Decide(s, view[s][t])
              /\ status'[t] \in Terminal
    BY <1>4, <2>1, CommitEffect
  <2>3. activities' = IF req[s].op = "result" /\ view[s][t] \in Open THEN activities \cup {t} ELSE activities
    BY <1>4, <2>1 DEF TaskCommit
  <2>4. ASSUME status'[t] \in Executed, status'[t] # status[t] PROVE t \in activities'
    <3>1. view[s][t] \in Open /\ Decide(s, view[s][t]) \in Executed
      BY <2>2, <2>4
    <3>2. Open \cap Executed = {} /\ "CANCELLED" \notin Executed
      BY DEF Open, Executed, Terminal
    <3>3. req[s].op = "result"
      BY <3>1, <3>2 DEF Decide
    <3>4. QED
      BY <2>3, <3>1, <3>3
  <2>5. req[s].op = "result" => stored[t] # "none"
    BY <2>1 DEF PipelineInv, ResultsAreRecorded, SessionResults
  <2>6. \A u \in Tasks : status'[u] \in Executed => u \in activities'
    BY <1>0, <2>2, <2>3, <2>4 DEF ActivitiesAreRecorded
  <2>7. \A u \in activities' : u \in Tasks /\ stored[u] # "none"
    BY <1>0, <2>3, <2>5 DEF ActivitiesAreRecorded, TypeOK
  <2>8. QED
    BY <2>6, <2>7, StoredOnce DEF ActivitiesAreRecorded
<1>5. CASE Migrate
  BY <1>0, <1>1, <1>5 DEF Migrate, TypeOK, Executed, Terminal
<1>6. CASE UNCHANGED <<status, activities>>
  BY <1>1, <1>6
<1>7. QED
  BY <1>2, <1>3, <1>4, <1>5, <1>6
     DEF Next, Server, ServiceLoop, User, Environment, ExpireLease, Cancel, HttpLoad, DropRequest,
         ABegin, AFlush, APull, ASent, APulled, AResend, AFetch, AFetched, APrepare, ARunBatch,
         AExecute, ABatchDone, ASave, AUpload, ACycleDone, AResendRequest, ATimeout, AgentRestart,
         ServerRestart, ASend

LEMMA ResultsStep == PipelineInv /\ [Next]_vars => ResultsAreRecorded'
  BY OutcomeStep, ActivitiesStep, LoopResultsStep, SessionResultsStep DEF ResultsAreRecorded

-----------------------------------------------------------------------------
(* Part three: the work of a cycle. *)

LEMMA WorkIsFreshStep == PipelineInv /\ [Next]_vars => WorkIsFresh'
<1> SUFFICES ASSUME PipelineInv, [Next]_vars PROVE WorkIsFresh'
  OBVIOUS
<1>0. TypeOK /\ WorkIsFresh
  BY DEF PipelineInv
<1>1. CASE UNCHANGED <<waitVars, queue, prepared, outcome, stored>>
  BY <1>0, <1>1 DEF WorkIsFresh
<1>2. CASE ABegin
  BY <1>0, <1>2 DEF ABegin, WorkIsFresh
<1>3. ASSUME NEW s \in Slots, AFlush(s) \/ APull(s) PROVE WorkIsFresh'
  BY <1>0, <1>3 DEF AFlush, APull, ASend, WorkIsFresh
<1>4. CASE ASent
  <2>1. CASE UNCHANGED <<queue, prepared>>
    BY <1>0, <1>4, <2>1 DEF ASent, AbortCycle, WorkIsFresh, Sending
  <2>2. CASE AbortCycle
    BY <1>0, <1>4, <2>2 DEF AbortCycle, WorkIsFresh
  <2>3. QED
    BY <1>4, <2>1, <2>2 DEF ASent
<1>5. CASE APulled
  BY <1>0, <1>5 DEF APulled, WorkIsFresh
<1>6. ASSUME NEW s \in Slots, AResend(s) PROVE WorkIsFresh'
  BY <1>0, <1>6 DEF AResend, ASend, WorkIsFresh
<1>7. ASSUME NEW s \in Slots, AFetch(s) PROVE WorkIsFresh'
  BY <1>0, <1>7 DEF AFetch, First, Historical, ASend, WorkIsFresh
<1>8. CASE AFetched
  <2>1. CASE prepared' = prepared \cup {aTask} /\ UNCHANGED stored
    BY <1>0, <1>8, <2>1 DEF AFetched, WorkIsFresh
  <2>2. CASE stored' = [stored EXCEPT ![aTask] = "CANCELLED"] /\ UNCHANGED prepared
    BY <1>0, <1>8, <2>2 DEF AFetched, WorkIsFresh, TypeOK
  <2>3. QED
    BY <1>8, <2>1, <2>2 DEF AFetched
<1>9. CASE APrepare
  BY <1>0, <1>9 DEF APrepare, First, Historical, WorkIsFresh
<1>10. CASE ARunBatch \/ ABatchDone \/ ACycleDone
  BY <1>0, <1>10 DEF ARunBatch, ABatchDone, ACycleDone, WorkIsFresh
<1>11. ASSUME NEW t \in Tasks, AExecute(t) PROVE WorkIsFresh'
  BY <1>0, <1>11 DEF AExecute, WorkIsFresh
<1>12. CASE ASave
  BY <1>0, <1>12 DEF ASave, First, WorkIsFresh, TypeOK
<1>13. ASSUME NEW s \in Slots, AUpload(s) \/ AResendRequest(s) PROVE WorkIsFresh'
  BY <1>0, <1>13 DEF AUpload, AResendRequest, ASend, WorkIsFresh
<1>14. ASSUME UNCHANGED <<stored, outcome>>, RequestFails PROVE WorkIsFresh'
  BY <1>0, <1>14 DEF RequestFails, GiveUp, AbortCycle, WorkIsFresh
<1>15. ASSUME UNCHANGED stored, NewAgentProcess PROVE WorkIsFresh'
  BY <1>0, <1>15 DEF NewAgentProcess, AbortCycle, WorkIsFresh
<1>16. CASE ATimeout
  BY <1>14, <1>16 DEF ATimeout
<1>17. CASE AgentRestart \/ Migrate
  BY <1>15, <1>17 DEF AgentRestart, Migrate
<1>18. CASE ServerRestart
  <2>1. CASE aSlot = NoSlot
    BY <1>0, <1>18, <2>1 DEF ServerRestart, WorkIsFresh
  <2>2. CASE aSlot # NoSlot
    BY <1>14, <1>18, <2>2 DEF ServerRestart
  <2>3. QED
    BY <2>1, <2>2
<1>19. QED
  BY <1>1, <1>2, <1>3, <1>4, <1>5, <1>6, <1>7, <1>8, <1>9, <1>10, <1>11, <1>12, <1>13, <1>16, <1>17, <1>18
     DEF Next, Server, ServiceLoop, User, Environment, Create, ExpireLease, Cancel, HttpLoad,
         PullCommit, TaskCommit, DropRequest

-----------------------------------------------------------------------------
(* Part four: sessions and the request the loop waits for. *)

LEMMA SessionHoldsStep ==
    ASSUME PipelineInv, [Next]_vars, NEW x \in Slots
    PROVE  SessionHolds(x)'
<1>0. TypeOK /\ SessionHolds(x) /\ SessionNames(x) /\ LoopNames
  BY DEF PipelineInv, SessionsHoldWhatTheyLoad, NamesAreCreated
<1>1. CASE view'[x] = view[x] /\ req'[x] = req[x]
  BY <1>0, <1>1 DEF SessionHolds, Loaded
<1>2. CASE req'[x].stage \in {"idle", "sent"} /\ Loaded(x)' = {}
  BY <1>2 DEF SessionHolds
<1>2a. CASE req'[x] = Idle /\ view'[x] = NotLoaded
  BY <1>2, <1>2a, QuietSession
<1>2b. ASSUME req[x].stage \in {"idle", "sent"}, view'[x] = view[x],
              req'[x] = req[x] \/ req'[x].stage \in {"idle", "sent"}
       PROVE  SessionHolds(x)'
  <2>1. Loaded(x)' = {}
    BY <1>0, <1>2b DEF SessionHolds, Loaded
  <2>2. QED
    BY <1>1, <1>2, <1>2b, <2>1
<1>3. ASSUME NEW s \in Slots, NEW t \in Tasks, Cancel(s, t) PROVE SessionHolds(x)'
  <2>1. view'[x] = view[x] /\ (x # s => req'[x] = req[x])
    BY <1>0, <1>3 DEF Cancel, TypeOK
  <2>2. x = s => req[x].stage = "idle" /\ req'[x].stage = "sent"
    BY <1>0, <1>3 DEF Cancel, TypeOK, Idle, Request
  <2>3. QED
    BY <1>1, <1>2b, <2>1, <2>2
<1>4. ASSUME NEW s \in Slots, HttpLoad(s) PROVE SessionHolds(x)'
  <2>1. CASE x = s
    <3>1. /\ req'[x].op = req[x].op /\ req'[x].task = req[x].task /\ req'[x].stage = "loaded"
          /\ req[x].op # "pull" => \A t \in Tasks :
               view'[x][t] = IF t = req[x].task THEN status[t] ELSE "ABSENT"
          /\ req[x].op = "pull" => \A t \in Tasks : view'[x][t] \in {"ABSENT"} \cup Open
      BY <1>0, <1>4, <2>1, LoadEffect
    <3>2. req[x].op \in {"cancel", "script", "result"} => req[x].task \in Tasks /\ status[req[x].task] # "ABSENT"
      BY <1>0 DEF SessionNames, Created
    <3>3. QED
      BY <3>1, <3>2 DEF SessionHolds, Loaded
  <2>2. CASE x # s
    BY <1>0, <1>1, <1>4, <2>2, LoadEffect
  <2>3. QED
    BY <2>1, <2>2
<1>5. ASSUME NEW s \in Slots, PullCommit(s) PROVE SessionHolds(x)'
  <2> DEFINE rows == [t \in Tasks |-> IF t \in Loaded(s) THEN "DISPATCHED" ELSE "ABSENT"]
  <2>1. rows \in [Tasks -> Statuses] /\ Reply(s, rows)
    BY <1>0, <1>5, PullEffect
  <2>2. \A t \in Tasks : rows[t] \in {"ABSENT"} \cup Open
    BY DEF Open
  <2> HIDE DEF rows
  <2>3. CASE x = s /\ s = aSlot
    <3>1. view'[x] = rows /\ req'[x].op = "pull" /\ req'[x].stage = "done"
      BY <1>0, <1>5, <2>1, <2>3, ReplyEffect DEF PullCommit
    <3>2. QED
      BY <2>2, <3>1 DEF SessionHolds
  <2>4. CASE x = s /\ s # aSlot
    BY <1>0, <1>2a, <2>1, <2>4, ReplyEffect
  <2>5. CASE x # s
    BY <1>0, <1>1, <2>1, <2>5, ReplyEffect
  <2>6. QED
    BY <2>3, <2>4, <2>5
<1>6. ASSUME NEW s \in Slots, TaskCommit(s) PROVE SessionHolds(x)'
  <2> DEFINE rows == [view[s] EXCEPT ![req[s].task] = Decide(s, view[s][req[s].task])]
  <2>1. /\ rows \in [Tasks -> Statuses] /\ Reply(s, rows)
        /\ \A u \in Tasks : u # req[s].task => rows[u] = view[s][u]
    BY <1>6, CommitEffect
  <2> HIDE DEF rows
  <2>2. CASE x = s /\ s = aSlot
    <3>1. /\ req'[x].op = req[x].op /\ req'[x].op # "pull" /\ req'[x].stage = "done"
          /\ req'[x].task = req[x].task /\ view'[x] = rows
      BY <1>0, <1>6, <2>1, <2>2, ReplyEffect DEF TaskCommit
    <3>2. Loaded(x)' \subseteq {req[x].task}
      BY <1>0, <2>1, <2>2, <3>1 DEF SessionHolds, Loaded
    <3>3. QED
      BY <3>1, <3>2 DEF SessionHolds
  <2>3. CASE x = s /\ s # aSlot
    BY <1>0, <1>2a, <2>1, <2>3, ReplyEffect
  <2>4. CASE x # s
    BY <1>0, <1>1, <2>1, <2>4, ReplyEffect
  <2>5. QED
    BY <2>2, <2>3, <2>4
<1>7. ASSUME NEW s \in Slots, DropRequest(s) PROVE SessionHolds(x)'
  <2>1. view'[x] = view[x] /\ (x # s => req'[x] = req[x])
    BY <1>0, <1>7 DEF DropRequest, TypeOK
  <2>2. x = s => req[x].stage = "sent" /\ req'[x].stage = "idle"
    BY <1>0, <1>7 DEF DropRequest, TypeOK, Idle
  <2>3. QED
    BY <1>1, <1>2b, <2>1, <2>2
<1>8. ASSUME NEW s \in Slots, NEW op, NEW t, ASend(s, op, t) PROVE SessionHolds(x)'
  <2>1. view'[x] = view[x] /\ (x # s => req'[x] = req[x])
    BY <1>0, <1>8 DEF ASend, TypeOK
  <2>2. x = s => req[x].stage = "idle" /\ req'[x].stage = "sent"
    BY <1>0, <1>8 DEF ASend, TypeOK, Idle, Request
  <2>3. QED
    BY <1>1, <1>2b, <2>1, <2>2
<1>9. ASSUME NEW s \in Slots, AFlush(s) \/ APull(s) \/ AResend(s) \/ AFetch(s) \/ AUpload(s) \/ AResendRequest(s)
      PROVE  SessionHolds(x)'
  BY <1>8, <1>9 DEF AFlush, APull, AResend, AFetch, AUpload, AResendRequest
<1>10. ASSUME Answered PROVE SessionHolds(x)'
  BY <1>0, <1>1, <1>2a, <1>10, AnsweredEffect
<1>11. ASSUME Forget PROVE SessionHolds(x)'
  BY <1>0, <1>1, <1>2a, <1>11, ForgetEffect
<1>12. ASSUME SessionsEnd PROVE SessionHolds(x)'
  BY <1>0, <1>2a, <1>12, SessionsEndEffect
<1>13. ASSUME UNCHANGED <<view, req>> PROVE SessionHolds(x)'
  BY <1>1, <1>13
<1>14. QED
  BY <1>3, <1>4, <1>5, <1>6, <1>7, <1>9, <1>10, <1>11, <1>12, <1>13
     DEF Next, Server, ServiceLoop, User, Environment, Create, ExpireLease, ABegin, ASent, APulled,
         AFetched, APrepare, ARunBatch, AExecute, ABatchDone, ASave, ACycleDone, ATimeout,
         AgentRestart, ServerRestart, Migrate

LEMMA LoopWaitsStep == PipelineInv /\ [Next]_vars => LoopWaits'
<1> SUFFICES ASSUME PipelineInv, [Next]_vars PROVE LoopWaits'
  OBVIOUS
<1>0. TypeOK /\ LoopWaits
  BY DEF PipelineInv, SessionsHoldWhatTheyLoad
<1>1. aSlot # NoSlot => aSlot \in Slots /\ req[aSlot] # Idle
  BY <1>0 DEF TypeOK, LoopWaits, Op, Idle
<1>2. ASSUME UNCHANGED waitVars, aSlot # NoSlot => /\ req'[aSlot].op = req[aSlot].op
                                                  /\ req'[aSlot].task = req[aSlot].task
      PROVE  LoopWaits'
  BY <1>0, <1>2 DEF LoopWaits, Op
<1>3. CASE aSlot' = NoSlot
  BY <1>3 DEF LoopWaits
<1>4. CASE UNCHANGED <<waitVars, req>>
  BY <1>2, <1>4
<1>5. ASSUME NEW s \in Slots, NEW t \in Tasks, Cancel(s, t) PROVE LoopWaits'
  <2>1. aSlot # NoSlot => req'[aSlot] = req[aSlot]
    BY <1>0, <1>1, <1>5 DEF Cancel, TypeOK
  <2>2. QED
    BY <1>2, <1>5, <2>1 DEF Cancel
<1>6. ASSUME NEW s \in Slots, HttpLoad(s) PROVE LoopWaits'
  BY <1>0, <1>1, <1>2, <1>6, LoadEffect DEF HttpLoad
<1>7. ASSUME NEW s \in Slots, PullCommit(s) PROVE LoopWaits'
  BY <1>0, <1>1, <1>2, <1>7, PullEffect, ReplyEffect DEF PullCommit
<1>8. ASSUME NEW s \in Slots, TaskCommit(s) PROVE LoopWaits'
  <2>1. PICK rows \in [Tasks -> Statuses] : Reply(s, rows)
    BY <1>8, CommitEffect
  <2>2. aSlot # NoSlot => req'[aSlot].op = req[aSlot].op /\ req'[aSlot].task = req[aSlot].task
    BY <1>0, <1>1, <2>1, ReplyEffect
  <2>3. QED
    BY <1>2, <1>8, <2>2 DEF TaskCommit
<1>9. ASSUME NEW s \in Slots, DropRequest(s) PROVE LoopWaits'
  <2>1. aSlot # NoSlot => req'[aSlot] = req[aSlot]
    BY <1>0, <1>1, <1>9 DEF DropRequest, TypeOK
  <2>2. QED
    BY <1>2, <1>9, <2>1 DEF DropRequest
<1>10. ASSUME NEW s \in Slots, NEW op, NEW t, ASend(s, op, t), aPc' \in Waiting, op = Op'
       PROVE  LoopWaits'
  <2>1. req'[s].op = op /\ req'[s].task = t /\ aSlot' = s /\ aTask' = t
    BY <1>0, <1>10 DEF ASend, Request, TypeOK
  <2>2. QED
    BY <1>10, <2>1 DEF LoopWaits
<1>11. ASSUME NEW s \in Slots, AFlush(s) \/ AResend(s) \/ AUpload(s) PROVE LoopWaits'
  <2>1. aPc' \in Sending /\ Op' = "result"
    BY <1>11 DEF AFlush, AResend, AUpload, Sending, Op
  <2>2. QED
    BY <1>10, <1>11, <2>1 DEF AFlush, AResend, AUpload, Waiting
<1>12. ASSUME NEW s \in Slots, APull(s) PROVE LoopWaits'
  <2>1. aPc' = "pulling" /\ Op' = "pull" /\ aPc' \in Waiting
    BY <1>12 DEF APull, Sending, Waiting, Op
  <2>2. QED
    BY <1>10, <1>12, <2>1 DEF APull
<1>13. ASSUME NEW s \in Slots, AFetch(s) PROVE LoopWaits'
  <2>1. aPc' = "fetching" /\ Op' = "script" /\ aPc' \in Waiting
    BY <1>13 DEF AFetch, Sending, Waiting, Op
  <2>2. QED
    BY <1>10, <1>13, <2>1 DEF AFetch
<1>14. ASSUME NEW s \in Slots, AResendRequest(s) PROVE LoopWaits'
  <2>1. Op' = Op
    BY <1>14 DEF AResendRequest, Op
  <2>2. QED
    BY <1>10, <1>14, <2>1 DEF AResendRequest
<1>15. CASE ASent \/ APulled \/ AFetched
  BY <1>0, <1>3, <1>15, AnsweredEffect DEF ASent, APulled, AFetched
<1>16. CASE ABegin \/ ARunBatch \/ ABatchDone \/ ASave \/ ACycleDone
  <2>1. aSlot = NoSlot
    BY <1>0, <1>16 DEF ABegin, ARunBatch, ABatchDone, ASave, ACycleDone, LoopWaits, Waiting, Sending
  <2>2. QED
    BY <1>3, <1>16, <2>1 DEF ABegin, ARunBatch, ABatchDone, ASave, ACycleDone
<1>17. CASE ATimeout \/ AgentRestart \/ ServerRestart \/ Migrate
  BY <1>3, <1>17 DEF ATimeout, AgentRestart, ServerRestart, Migrate, Forget, SessionsEnd
<1>18. QED
  BY <1>4, <1>5, <1>6, <1>7, <1>8, <1>9, <1>11, <1>12, <1>13, <1>14, <1>15, <1>16, <1>17
     DEF Next, Server, ServiceLoop, User, Environment, Create, ExpireLease, APrepare, AExecute

\* A task that is over and that nobody holds stays as it is, unless the server
\* moves: no session can overwrite it, and the agent never gets it again.
LEMMA UnexposedStays ==
    ASSUME PipelineInv, [Next]_vars, ~Migrate,
           NEW t \in Tasks, status[t] \in Terminal \cup {"GONE"}, ~Exposed(t)
    PROVE  status'[t] = status[t] /\ ~Exposed(t)'
<1>0. /\ TypeOK /\ LoopWaits /\ LoopNames
      /\ \A s \in Slots : SessionHolds(s) /\ view[s][t] \notin Open
      /\ t \notin queue /\ t \notin prepared /\ ~(aPc = "fetching" /\ aTask = t)
  BY DEF PipelineInv, SessionsHoldWhatTheyLoad, NamesAreCreated, Exposed
<1>0a. status[t] \notin Open /\ status[t] # "ABSENT" /\ "ABSENT" \notin Open /\ "none" \notin Open
  BY DEF Terminal, Open
<1> DEFINE Free == \A s \in Slots : view'[s][t] \notin Open
           Clear == t \notin queue' /\ t \notin prepared' /\ ~(aPc' = "fetching" /\ aTask' = t)
           Kept == status'[t] = status[t] /\ Free /\ Clear
<1>1. SUFFICES Kept
  BY DEF Exposed
<1>2. ASSUME \A s \in Slots : view'[s][t] = view[s][t] \/ view'[s] = NotLoaded PROVE Free
  BY <1>0, <1>0a, <1>2 DEF NotLoaded
<1>3. ASSUME UNCHANGED <<queue, prepared, aPc, aTask>> PROVE Clear
  BY <1>0, <1>3
<1>4. ASSUME NEW s \in Slots, NEW rows \in [Tasks -> Statuses], Reply(s, rows), rows[t] \notin Open
      PROVE  Free
  <2>1. \A x \in Slots : view'[x][t] \in {view[x][t], rows[t], "ABSENT"}
    BY <1>0, <1>4, ReplyEffect DEF NotLoaded
  <2>2. QED
    BY <1>0, <1>0a, <1>4, <2>1
<1> HIDE DEF Free, Clear
<1>5. CASE UNCHANGED <<status, view, queue, prepared, aPc, aTask>>
  BY <1>2, <1>3, <1>5
<1>6. ASSUME NEW u \in Tasks, Create(u) PROVE Kept
  BY <1>0, <1>0a, <1>2, <1>3, <1>6 DEF Create, TypeOK
<1>7. ASSUME NEW s \in Slots, HttpLoad(s) PROVE Kept
  <2>1. \A x \in Slots : view'[x][t] \in {view[x][t], "ABSENT", status[t]}
    BY <1>0, <1>7, LoadEffect
  <2>2. Free
    BY <1>0, <1>0a, <2>1 DEF Free
  <2>3. QED
    BY <1>3, <1>7, <2>2 DEF HttpLoad
<1>8. ASSUME NEW s \in Slots, PullCommit(s) PROVE Kept
  <2>1. view[s][t] = "ABSENT"
    BY <1>0, <1>8 DEF PullCommit, SessionHolds
  <2> DEFINE rows == [u \in Tasks |-> IF u \in Loaded(s) THEN "DISPATCHED" ELSE "ABSENT"]
  <2>2. rows \in [Tasks -> Statuses] /\ Reply(s, rows) /\ status'[t] = status[t]
    BY <1>0, <1>8, <2>1, PullEffect
  <2>3. rows[t] \notin Open
    BY <1>0a, <2>1 DEF Loaded
  <2> HIDE DEF rows
  <2>4. QED
    BY <1>3, <1>4, <1>8, <2>2, <2>3 DEF PullCommit
<1>9. ASSUME NEW s \in Slots, TaskCommit(s) PROVE Kept
  <2> DEFINE u == req[s].task
             new == Decide(s, view[s][u])
             rows == [view[s] EXCEPT ![u] = new]
  <2>1. /\ u \in Tasks /\ rows \in [Tasks -> Statuses] /\ Reply(s, rows) /\ rows[u] = new
        /\ \A w \in Tasks : w # u => rows[w] = view[s][w] /\ status'[w] = status[w]
        /\ \/ new = view[s][u] /\ status'[u] = status[u]
           \/ view[s][u] \in Open
    BY <1>9, CommitEffect
  <2> HIDE DEF u, new, rows
  <2>2. rows[t] \notin Open /\ status'[t] = status[t]
    BY <1>0, <2>1
  <2>3. QED
    BY <1>3, <1>4, <1>9, <2>1, <2>2 DEF TaskCommit
<1>10. ASSUME NEW s \in Slots, NEW u \in Tasks, Cancel(s, u) PROVE Kept
  BY <1>2, <1>3, <1>10 DEF Cancel
<1>11. ASSUME NEW s \in Slots, DropRequest(s) PROVE Kept
  BY <1>2, <1>3, <1>11 DEF DropRequest
<1>12. ASSUME NEW s \in Slots,
              AFlush(s) \/ APull(s) \/ AResend(s) \/ AFetch(s) \/ AUpload(s) \/ AResendRequest(s)
       PROVE  Kept
  <2>1. UNCHANGED <<status, view>>
    BY <1>12 DEF AFlush, APull, AResend, AFetch, AUpload, AResendRequest, ASend
  <2>2. queue' \subseteq queue /\ prepared' = prepared
    BY <1>12 DEF AFlush, APull, AResend, AFetch, AUpload, AResendRequest
  <2>3. ~(aPc' = "fetching" /\ aTask' = t)
    BY <1>0, <1>12 DEF AFlush, APull, AResend, AFetch, AUpload, AResendRequest, ASend, First
  <2>4. QED
    BY <1>0, <1>2, <2>1, <2>2, <2>3 DEF Clear
<1>13. ASSUME Answered PROVE Free /\ aTask' = NoTask
  BY <1>0, <1>2, <1>13, AnsweredEffect
<1>14. CASE ASent
  BY <1>0, <1>13, <1>14, ValueTypes DEF ASent, AbortCycle, Clear
<1>15. CASE APulled
  <2>1. aSlot \in Slots /\ req[aSlot].op = "pull" /\ req[aSlot].stage = "done"
    BY <1>0, <1>15 DEF APulled, Answered, TypeOK, LoopWaits, Op, Sending
  <2>2. view[aSlot][t] = "ABSENT"
    BY <1>0, <2>1 DEF SessionHolds
  <2>3. t \notin queue'
    BY <1>15, <2>2 DEF APulled, Loaded
  <2>4. QED
    BY <1>0, <1>13, <1>15, <2>3 DEF APulled, Clear
<1>16. CASE AFetched
  BY <1>0, <1>13, <1>16 DEF AFetched, Clear
<1>17. CASE APrepare
  BY <1>0, <1>2, <1>17 DEF APrepare, First, Clear
<1>18. CASE ABegin \/ ARunBatch \/ ABatchDone \/ ASave \/ ACycleDone
  BY <1>0, <1>2, <1>18 DEF ABegin, ARunBatch, ABatchDone, ASave, ACycleDone, Clear
<1>19. ASSUME RequestFails PROVE Clear
  BY <1>0, <1>19, ValueTypes DEF RequestFails, GiveUp, AbortCycle, Clear
<1>20. CASE ATimeout
  <2>1. Free
    BY <1>0, <1>2, <1>20, ForgetEffect DEF ATimeout
  <2>2. QED
    BY <1>19, <1>20, <2>1 DEF ATimeout
<1>21. CASE AgentRestart
  <2>1. Free
    BY <1>0, <1>2, <1>21, ForgetEffect DEF AgentRestart
  <2>2. QED
    BY <1>21, <2>1 DEF AgentRestart, NewAgentProcess, AbortCycle, Clear
<1>22. CASE ServerRestart
  <2>1. Free
    BY <1>0, <1>2, <1>22, SessionsEndEffect DEF ServerRestart
  <2>2. QED
    BY <1>3, <1>19, <1>22, <2>1 DEF ServerRestart
<1>23. QED
  BY <1>5, <1>6, <1>7, <1>8, <1>9, <1>10, <1>11, <1>12, <1>14, <1>15, <1>16, <1>17, <1>18, <1>20, <1>21, <1>22
     DEF Next, Server, ServiceLoop, User, Environment, ExpireLease, AExecute

\* After a move nobody holds any task.
LEMMA MigrateHolds ==
    ASSUME TypeOK, Migrate, NEW t \in Tasks
    PROVE  /\ ~Exposed(t)'
           /\ status'[t] = IF status[t] = "ABSENT" THEN "ABSENT" ELSE "GONE"
<1>1. \A s \in Slots : view'[s][t] \notin Open
  BY SessionsEndEffect DEF Migrate, NotLoaded, Open
<1>2. QED
  BY <1>1 DEF Migrate, NewAgentProcess, AbortCycle, Exposed

\* Only a move loses rows.
LEMMA OnlyMigrateLoses ==
    ASSUME PipelineInv, [Next]_vars, ~Migrate, NEW t \in Tasks, status[t] # "GONE"
    PROVE  status'[t] # "GONE"
<1> SUFFICES ASSUME status'[t] = "GONE" PROVE FALSE
  OBVIOUS
<1>0. TypeOK
  BY DEF PipelineInv
<1>1. ASSUME NEW u \in Tasks, Create(u) PROVE FALSE
  BY <1>0, <1>1 DEF Create, TypeOK
<1>2. ASSUME NEW s \in Slots, PullCommit(s) PROVE FALSE
  BY <1>0, <1>2, PullEffect
<1>3. ASSUME NEW s \in Slots, TaskCommit(s) PROVE FALSE
  BY <1>0, <1>3, CommitEffect DEF Terminal
<1>4. CASE UNCHANGED status
  BY <1>4
<1>5. QED
  BY <1>1, <1>2, <1>3, <1>4
     DEF Next, Server, ServiceLoop, User, Environment, ExpireLease, Cancel, HttpLoad, DropRequest,
       ABegin, AFlush, APull, ASent, APulled, AResend, AFetch, AFetched, APrepare, ARunBatch,
       AExecute, ABatchDone, ASave, AUpload, ACycleDone, AResendRequest, ATimeout, AgentRestart,
       ServerRestart, ASend

LEMMA LostIsLostStep == PipelineInv /\ [Next]_vars => LostIsLost'
<1> SUFFICES ASSUME PipelineInv, [Next]_vars, NEW t \in Tasks, status'[t] = "GONE"
             PROVE  ~Exposed(t)'
  BY DEF LostIsLost
<1>0. TypeOK /\ LostIsLost
  BY DEF PipelineInv, SessionsHoldWhatTheyLoad
<1>1. CASE Migrate
  BY <1>0, <1>1, MigrateHolds
<1>2. CASE ~Migrate /\ status[t] = "GONE"
  BY <1>0, <1>2, UnexposedStays DEF LostIsLost
<1>3. CASE ~Migrate /\ status[t] # "GONE"
  BY <1>3, OnlyMigrateLoses
<1>4. QED
  BY <1>1, <1>2, <1>3

LEMMA SessionsStep == PipelineInv /\ [Next]_vars => SessionsHoldWhatTheyLoad'
  BY SessionHoldsStep, LoopWaitsStep, LostIsLostStep DEF SessionsHoldWhatTheyLoad

-----------------------------------------------------------------------------
(* Part five: executions. *)

\* A task that is spent stays so while its outcome is kept.
LEMMA SpentStays ==
    ASSUME PipelineInv, [Next]_vars, NEW t \in Tasks, Spent(t), outcome'[t] = outcome[t]
    PROVE  Spent(t)'
<1>1. CASE status[t] = "GONE" /\ Migrate
  BY <1>1, MigrateHolds DEF Spent, PipelineInv
<1>2. CASE status[t] = "GONE" /\ ~Migrate
  BY <1>2, UnexposedStays DEF Spent, PipelineInv, SessionsHoldWhatTheyLoad, LostIsLost
<1>3. CASE status[t] # "GONE"
  BY <1>3, StoredOnce DEF Spent
<1>4. QED
  BY <1>1, <1>2, <1>3

\* What a new batch or a new process forgets was saved, or the process has ended.
LEMMA ForgottenIsSaved ==
    ASSUME PipelineInv, ARunBatch, NEW t \in Tasks, Spent(t)
    PROVE  Spent(t)'
<1>1. stored[t] # "none" \/ status[t] = "GONE"
  BY DEF ARunBatch, Spent, PipelineInv, ExecutionsAreCounted
<1>2. QED
  BY <1>1 DEF ARunBatch, Spent

\* The first half: an execution is paid for by a restart or its result is kept.
LEMMA CountsStep ==
    ASSUME PipelineInv, [Next]_vars, NEW t \in Tasks
    PROVE  executions'[t] <= restarts' + (IF Spent(t)' THEN 1 ELSE 0)
<1>0. /\ executions[t] \in Nat /\ restarts \in Nat
      /\ executions[t] <= restarts + (IF Spent(t) THEN 1 ELSE 0)
  BY DEF PipelineInv, TypeOK, ExecutionsAreCounted
<1>1. ASSUME executions'[t] = executions[t], restarts' = restarts, Spent(t) => Spent(t)'
      PROVE  executions'[t] <= restarts' + (IF Spent(t)' THEN 1 ELSE 0)
  BY <1>0, <1>1
<1>2. ASSUME NEW u \in Tasks, AExecute(u) PROVE executions'[t] <= restarts' + (IF Spent(t)' THEN 1 ELSE 0)
  <2>1. CASE t = u
    <3>1. outcome[t] = "none" /\ stored[t] = "none" /\ t \in prepared
      BY <1>2, <2>1 DEF AExecute, PipelineInv, WorkIsFresh
    <3>2. ~Spent(t)
      BY <3>1 DEF Spent, Exposed, PipelineInv, SessionsHoldWhatTheyLoad, LostIsLost
    <3>3. executions'[t] = executions[t] + 1 /\ restarts' = restarts
      BY <1>2, <2>1 DEF AExecute, PipelineInv, TypeOK
    <3>4. outcome'[t] \in Verdicts /\ "none" \notin Verdicts
      BY <1>2, <2>1, PipelineAssumption DEF AExecute, PipelineInv, TypeOK
    <3>5. Spent(t)'
      BY <3>4 DEF Spent
    <3>6. QED
      BY <1>0, <3>2, <3>3, <3>5
  <2>2. CASE t # u
    <3>1. executions'[t] = executions[t] /\ outcome'[t] = outcome[t] /\ restarts' = restarts
      BY <1>2, <2>2 DEF AExecute, PipelineInv, TypeOK
    <3>2. QED
      BY <1>1, <3>1, SpentStays
  <2>3. QED
    BY <2>1, <2>2
<1>3. CASE AgentRestart
  <2>1. executions'[t] = executions[t] /\ restarts' = restarts + 1
    BY <1>3 DEF AgentRestart
  <2>2. QED
    BY <1>0, <2>1
<1>4. CASE Migrate
  <2>1. executions'[t] = executions[t] /\ restarts' = restarts
    BY <1>4 DEF Migrate
  <2>2. CASE status[t] # "ABSENT"
    <3>1. Spent(t)'
      BY <1>4, <2>2, MigrateHolds DEF Spent, PipelineInv
    <3>2. QED
      BY <1>1, <2>1, <3>1
  <2>3. CASE status[t] = "ABSENT"
    <3>1. ~Spent(t)
      BY <2>3 DEF Spent, PipelineInv, ExecutionsAreCounted, NamesAreCreated, LoopNames, Created
    <3>2. QED
      BY <1>1, <2>1, <3>1
  <2>4. QED
    BY <2>2, <2>3
<1>5. CASE ARunBatch
  BY <1>1, <1>5, ForgottenIsSaved DEF ARunBatch
<1>6. CASE UNCHANGED <<executions, outcome, restarts>>
  BY <1>1, <1>6, SpentStays
<1>7. QED
  BY <1>2, <1>3, <1>4, <1>5, <1>6
     DEF Next, Server, ServiceLoop, User, Environment, Create, ExpireLease, Cancel, HttpLoad, PullCommit,
         TaskCommit, DropRequest, ABegin, AFlush, APull, ASent, APulled, AResend, AFetch, AFetched,
         APrepare, ABatchDone, ASave, AUpload, ACycleDone, AResendRequest, ATimeout, ServerRestart, ASend

\* The second half: an outcome that is not saved is that of a task of this batch.
KeepsOutcomes == \A t \in Tasks : outcome[t] # "none" /\ stored[t] = "none"
                    => t \in prepared /\ aPc \in {"run", "report", "upload", "uploading"}

LEMMA OutcomesStep ==
    ASSUME PipelineInv, [Next]_vars
    PROVE  KeepsOutcomes'
<1>0. TypeOK /\ WorkIsFresh /\ LoopWaits /\ KeepsOutcomes
  BY DEF PipelineInv, SessionsHoldWhatTheyLoad, ExecutionsAreCounted, KeepsOutcomes
<1> DEFINE Busy == {"run", "report", "upload", "uploading"}
<1>1. ASSUME UNCHANGED <<outcome, prepared>>, aPc \in Busy => aPc' \in Busy PROVE KeepsOutcomes'
  BY <1>0, <1>1, StoredOnce DEF KeepsOutcomes
<1>2. ASSUME UNCHANGED outcome, aPc \notin Busy PROVE KeepsOutcomes'
  BY <1>0, <1>2, StoredOnce DEF KeepsOutcomes
<1>3. ASSUME \A t \in Tasks : outcome'[t] = "none" PROVE KeepsOutcomes'
  BY <1>3 DEF KeepsOutcomes
<1>4. ASSUME NEW u \in Tasks, AExecute(u) PROVE KeepsOutcomes'
  BY <1>0, <1>4 DEF AExecute, TypeOK, KeepsOutcomes
<1>5. CASE ASave
  <2>1. PICK u \in Tasks : /\ u \in prepared /\ stored' = [stored EXCEPT ![u] = outcome[u]]
                           /\ prepared' = prepared \ {u}
    BY <1>5 DEF ASave, First
  <2>2. stored'[u] # "none" /\ \A t \in Tasks \ {u} : stored'[t] = stored[t]
    BY <1>0, <1>5, <2>1 DEF ASave, WorkIsFresh, TypeOK
  <2>3. QED
    BY <1>0, <1>5, <2>1, <2>2 DEF ASave, KeepsOutcomes
<1>6. CASE ACycleDone
  BY <1>0, <1>6 DEF ACycleDone, KeepsOutcomes
<1>7. CASE ABatchDone
  BY <1>1, <1>7 DEF ABatchDone
<1>8. ASSUME NEW s \in Slots, AUpload(s) PROVE KeepsOutcomes'
  BY <1>1, <1>8 DEF AUpload
<1>9. CASE ASent
  <2>1. CASE aPc = "uploading"
    BY <1>1, <1>9, <2>1 DEF ASent
  <2>2. CASE aPc # "uploading"
    BY <1>2, <1>9, <2>2 DEF ASent, Sending
  <2>3. QED
    BY <2>1, <2>2
<1>10. ASSUME UNCHANGED outcome, RequestFails, aSlot # NoSlot PROVE KeepsOutcomes'
  <2>1. aPc \in Waiting
    BY <1>0, <1>10 DEF LoopWaits
  <2>2. CASE aPc = "uploading"
    BY <1>1, <1>10, <2>2 DEF RequestFails, GiveUp
  <2>3. CASE aPc # "uploading"
    BY <1>2, <1>10, <2>1, <2>3 DEF Waiting, Sending
  <2>4. QED
    BY <2>2, <2>3
<1>11. CASE ATimeout
  BY <1>10, <1>11 DEF ATimeout
<1>12. CASE ServerRestart
  BY <1>1, <1>10, <1>12 DEF ServerRestart
<1>13. CASE AgentRestart \/ Migrate \/ ARunBatch
  BY <1>3, <1>13 DEF AgentRestart, Migrate, ARunBatch, NewAgentProcess
<1>14. CASE APulled \/ AFetched \/ APrepare \/ ABegin \/ \E s \in Slots : AFlush(s) \/ APull(s) \/ AResend(s) \/ AFetch(s)
  BY <1>2, <1>14 DEF APulled, AFetched, APrepare, ABegin, AFlush, APull, AResend, AFetch
<1>15. CASE UNCHANGED <<outcome, prepared, aPc>>
  BY <1>1, <1>15
<1>16. QED
  BY <1>4, <1>5, <1>6, <1>7, <1>8, <1>9, <1>11, <1>12, <1>13, <1>14, <1>15
     DEF Next, Server, ServiceLoop, User, Environment, Create, ExpireLease, Cancel, HttpLoad, PullCommit,
         TaskCommit, DropRequest, AResendRequest

LEMMA ExecutionsStep == PipelineInv /\ [Next]_vars => ExecutionsAreCounted'
  BY CountsStep, OutcomesStep DEF ExecutionsAreCounted, KeepsOutcomes

-----------------------------------------------------------------------------
(* The invariant. *)

LEMMA PipelineInvInit == Init => PipelineInv
<1> SUFFICES ASSUME Init PROVE PipelineInv
  OBVIOUS
<1>1. TypeOK
  BY TypeInit
<1>2. \A s \in Slots : Loaded(s) = {} /\ req[s] = Idle /\ \A t \in Tasks : view[s][t] = "ABSENT"
  BY DEF Init, Loaded, NotLoaded
<1>3. NamesAreCreated
  BY <1>2 DEF Init, NamesAreCreated, SessionNames, LoopNames, Idle, Sending
<1>4. ResultsAreRecorded
  BY <1>2 DEF Init, ResultsAreRecorded, OutcomeIsTheRecordedResult, SessionResults, LoopResults,
              ActivitiesAreRecorded, Idle, Sending, Executed, Terminal
<1>5. WorkIsFresh
  BY DEF Init, WorkIsFresh
<1>6. SessionsHoldWhatTheyLoad
  BY <1>2 DEF Init, SessionsHoldWhatTheyLoad, SessionHolds, LoopWaits, LostIsLost, Idle
<1>7. ExecutionsAreCounted
  BY DEF Init, ExecutionsAreCounted
<1>8. QED
  BY <1>1, <1>3, <1>4, <1>5, <1>6, <1>7 DEF PipelineInv

\* The inductive invariant of the task pipeline: whatever is named was created,
\* whoever states a result states the recorded one, the work of a cycle has no
\* result yet, and sessions hold what their handlers have loaded.
THEOREM PipelineInvariantHolds == Spec => []PipelineInv
<1>1. PipelineInv /\ [Next]_vars => PipelineInv'
  BY TypeStep, NamesStep, ResultsStep, WorkIsFreshStep, SessionsStep, ExecutionsStep DEF PipelineInv
<1>2. QED
  BY <1>1, PipelineInvInit, PTL DEF Spec

\* Every variable of the task pipeline keeps its type.
THEOREM PipelineTypeCorrect == Spec => []TypeOK
<1>1. PipelineInv => TypeOK
  BY DEF PipelineInv
<1>2. QED
  BY <1>1, PipelineInvariantHolds, PTL

\* A task is shown as succeeded, failed or timed out only with the result its
\* agent has recorded for good, whatever is lost, sent twice or restarted.
THEOREM OutcomeIsRecorded == Spec => []OutcomeIsTheRecordedResult
<1>1. PipelineInv => OutcomeIsTheRecordedResult
  BY DEF PipelineInv, ResultsAreRecorded
<1>2. QED
  BY <1>1, PipelineInvariantHolds, PTL

\* A process of the agent executes a task once; a second execution takes a restart
\* between an execution and the save of its result.
THEOREM OneExecutionEachProcess == Spec => []OneExecutionPerProcess
<1>1. PipelineInv => OneExecutionPerProcess
  <2> SUFFICES ASSUME PipelineInv, NEW t \in Tasks PROVE executions[t] <= 1 + restarts
    BY DEF OneExecutionPerProcess
  <2>1. executions[t] \in Nat /\ restarts \in Nat /\ executions[t] <= restarts + (IF Spent(t) THEN 1 ELSE 0)
    BY DEF PipelineInv, TypeOK, ExecutionsAreCounted
  <2>2. QED
    BY <2>1
<1>2. QED
  BY <1>1, PipelineInvariantHolds, PTL

-----------------------------------------------------------------------------
(* The pipeline implements the lifecycle. *)

\* Only Create inserts a row.
LEMMA OnlyCreateInserts ==
    ASSUME PipelineInv, [Next]_vars, \A u \in Tasks : ~Create(u), NEW t \in Tasks, status[t] = "ABSENT"
    PROVE  status'[t] = "ABSENT"
<1>0. TypeOK /\ \A s \in Slots : view[s][t] = "ABSENT"
  BY DEF PipelineInv, NamesAreCreated, SessionNames, Loaded, Created
<1>1. ASSUME NEW s \in Slots, PullCommit(s) PROVE status'[t] = "ABSENT"
  BY <1>0, <1>1, PullEffect
<1>2. ASSUME NEW s \in Slots, TaskCommit(s) PROVE status'[t] = "ABSENT"
  BY <1>0, <1>2, CommitEffect
<1>3. CASE Migrate
  BY <1>0, <1>3, MigrateHolds
<1>4. CASE UNCHANGED status
  BY <1>4
<1>5. QED
  BY <1>1, <1>2, <1>3, <1>4
     DEF Next, Server, ServiceLoop, User, Environment, ExpireLease, Cancel, HttpLoad, DropRequest,
         ABegin, AFlush, APull, ASent, APulled, AResend, AFetch, AFetched, APrepare, ARunBatch,
         AExecute, ABatchDone, ASave, AUpload, ACycleDone, AResendRequest, ATimeout, AgentRestart,
         ServerRestart, ASend

LEMMA PhaseValues ==
    ASSUME NEW t \in Tasks
    PROVE  /\ Phase[t] = "absent" <=> status[t] = "ABSENT"
           /\ Phase[t] = "open" <=> status[t] # "ABSENT" /\ ~Settled(t)
           /\ Settled(t) => Phase[t] = status[t] /\ status[t] # "ABSENT"
  BY DEF Phase, Settled, Terminal

\* A step that neither creates, executes, records nor moves settles the tasks
\* nobody holds any more, if any.
LEMMA QuietStepSettles ==
    ASSUME PipelineInv, PipelineInv', [Next]_vars, \A t \in Tasks : ~Create(t), ~Migrate,
           UNCHANGED <<executions, stored>>
    PROVE  \E settling \in SUBSET Tasks : Lifecycle!Settle(settling)
<1> DEFINE settling == {t \in Tasks : Phase[t] = "open" /\ Settled(t)'}
           result == [t \in settling |-> status'[t]]
<1>1. ASSUME NEW t \in settling
      PROVE  status'[t] \in Verdicts \cup {"CANCELLED"} /\ status'[t] \in Lifecycle!Outcomes(t)
  <2>1. t \in Tasks /\ ~Settled(t) /\ Settled(t)'
    BY PhaseValues
  <2>2. status'[t] # "GONE"
    <3>1. CASE status[t] = "GONE"
      BY <2>1, <3>1 DEF Settled, PipelineInv, SessionsHoldWhatTheyLoad, LostIsLost
    <3>2. CASE status[t] # "GONE"
      BY <2>1, <3>2, OnlyMigrateLoses
    <3>3. QED
      BY <3>1, <3>2
  <2>3. status'[t] \in Terminal
    BY <2>1, <2>2 DEF Settled
  <2>4. \/ status'[t] = "CANCELLED"
        \/ status'[t] = stored'[t] /\ stored'[t] \in Verdicts
    BY <2>1, <2>3 DEF PipelineInv, ResultsAreRecorded, OutcomeIsTheRecordedResult, LoopResults, Executed, Terminal
  <2>5. QED
    BY <2>4 DEF Lifecycle!Outcomes
<1>2. result \in [settling -> Verdicts \cup {"CANCELLED"}]
  BY <1>1
<1>3. ASSUME NEW t \in Tasks
      PROVE  Phase'[t] = IF t \in settling THEN result[t] ELSE Phase[t]
  <2>1. CASE Settled(t)
    <3>1. Settled(t)' /\ status'[t] = status[t]
      BY <2>1, UnexposedStays DEF Settled
    <3>2. QED
      BY <2>1, <3>1, PhaseValues DEF Phase, Settled, Terminal
  <2>2. CASE ~Settled(t) /\ Settled(t)'
    <3>1. status'[t] # "ABSENT" /\ Phase'[t] = status'[t]
      BY <2>2 DEF Phase, Settled, Terminal
    <3>2. status[t] # "ABSENT"
      BY <3>1, OnlyCreateInserts
    <3>3. Phase[t] = "open"
      BY <2>2, <3>2, PhaseValues
    <3>4. QED
      BY <2>2, <3>1, <3>3
  <2>3. CASE ~Settled(t) /\ ~Settled(t)'
    <3>1. status'[t] = "ABSENT" <=> status[t] = "ABSENT"
      BY OnlyCreateInserts, CreatedGrows DEF Created
    <3>2. QED
      BY <2>3, <3>1 DEF Phase
  <2>4. QED
    BY <2>1, <2>2, <2>3
<1>4. \A t \in settling : Phase[t] = "open" /\ result[t] \in Lifecycle!Outcomes(t)
  BY <1>1
<1>5. settling \in SUBSET Tasks
  OBVIOUS
<1> HIDE DEF settling, result
<1>6. Phase' = [t \in Tasks |-> IF t \in settling THEN result[t] ELSE Phase[t]]
  <2>1. Phase' = [t \in Tasks |-> Phase'[t]]
    BY DEF Phase
  <2>2. QED
    BY <1>3, <2>1
<1>7. Lifecycle!Settle(settling)
  BY <1>2, <1>4, <1>6 DEF Lifecycle!Settle
<1>8. QED
  BY <1>5, <1>7

LEMMA CreateCreates ==
    ASSUME PipelineInv, NEW t \in Tasks, Create(t)
    PROVE  Lifecycle!Create(t)
<1>1. Phase[t] = "absent"
  BY DEF Create, Phase
<1>2. \A u \in Tasks : Exposed(u)' <=> Exposed(u)
  BY DEF Create, Exposed
<1>3. status'[t] = "PENDING" /\ \A u \in Tasks \ {t} : status'[u] = status[u]
  BY DEF Create, PipelineInv, TypeOK
<1>4. ASSUME NEW u \in Tasks PROVE Phase'[u] = IF u = t THEN "open" ELSE Phase[u]
  BY <1>2, <1>3 DEF Phase, Settled, Terminal
<1>5. Phase' = [Phase EXCEPT ![t] = "open"]
  BY <1>4 DEF Phase
<1>6. QED
  BY <1>1, <1>5 DEF Lifecycle!Create, Create

LEMMA ExecuteExecutes ==
    ASSUME PipelineInv, NEW t \in Tasks, AExecute(t)
    PROVE  Lifecycle!Execute(t)
<1>1. status[t] # "ABSENT" /\ Exposed(t) /\ stored[t] = "none"
  BY DEF AExecute, PipelineInv, NamesAreCreated, LoopNames, Created, WorkIsFresh, Exposed
<1>2. Phase[t] = "open"
  BY <1>1 DEF Phase, Settled
<1>3. UNCHANGED status /\ \A u \in Tasks : Exposed(u)' <=> Exposed(u)
  BY DEF AExecute, Exposed
<1>4. UNCHANGED Phase
  BY <1>3 DEF Phase, Settled
<1>5. QED
  BY <1>1, <1>2, <1>4 DEF AExecute, Lifecycle!Execute

\* A recording step concerns one task the agent holds: the others stay as they
\* are, and this one is open or, if it was cancelled meanwhile, settled.
LEMMA RecordRecords ==
    ASSUME PipelineInv, NEW t \in Tasks, NEW v \in Verdicts \cup {"CANCELLED"},
           Exposed(t), status[t] # "ABSENT", stored[t] = "none",
           stored' = [stored EXCEPT ![t] = v], UNCHANGED <<status, executions>>,
           \A u \in Tasks \ {t} : Exposed(u)' <=> Exposed(u)
    PROVE  Lifecycle!Record(t)
<1>1. Phase[t] = "open"
  BY DEF Phase, Settled
<1>2. status[t] # "GONE" /\ (status[t] \in Terminal => status[t] = "CANCELLED")
  BY DEF PipelineInv, SessionsHoldWhatTheyLoad, LostIsLost, ResultsAreRecorded,
         OutcomeIsTheRecordedResult, Executed, Terminal
<1>3. Phase'[t] \in {"open", "CANCELLED"}
  BY <1>2 DEF Phase, Settled
<1>4. \A u \in Tasks \ {t} : Phase'[u] = Phase[u]
  BY DEF Phase, Settled
<1>5. Phase' = [Phase EXCEPT ![t] = Phase'[t]]
  BY <1>4 DEF Phase
<1>6. QED
  BY <1>1, <1>3, <1>5 DEF Lifecycle!Record

LEMMA SaveRecords ==
    ASSUME PipelineInv, ASave
    PROVE  \E t \in Tasks : Lifecycle!Record(t)
<1>1. PICK t \in Tasks : /\ First(t, prepared) /\ stored' = [stored EXCEPT ![t] = outcome[t]]
                         /\ prepared' = prepared \ {t} /\ aTask' = t
  BY DEF ASave
<1>2. t \in prepared /\ Exposed(t) /\ status[t] # "ABSENT" /\ stored[t] = "none"
  BY <1>1 DEF First, Exposed, PipelineInv, NamesAreCreated, LoopNames, Created, WorkIsFresh
<1>3. outcome[t] \in Verdicts
  BY <1>2 DEF ASave, PipelineInv, ResultsAreRecorded, LoopResults, WorkIsFresh
<1>4. \A u \in Tasks \ {t} : Exposed(u)' <=> Exposed(u)
  BY <1>1 DEF ASave, Exposed
<1>5. Lifecycle!Record(t)
  BY <1>1, <1>2, <1>3, <1>4, RecordRecords DEF ASave
<1>6. QED
  BY <1>5

LEMMA RefusalRecords ==
    ASSUME PipelineInv, AFetched, view[aSlot][aTask] = "CANCELLED"
    PROVE  \E t \in Tasks : Lifecycle!Record(t)
<1>1. aTask \in Tasks /\ Exposed(aTask) /\ status[aTask] # "ABSENT" /\ stored[aTask] = "none"
  BY DEF AFetched, Exposed, PipelineInv, NamesAreCreated, LoopNames, Created, WorkIsFresh
<1>2. stored' = [stored EXCEPT ![aTask] = "CANCELLED"] /\ UNCHANGED prepared
  BY DEF AFetched
<1>3. aSlot \in Slots /\ req[aSlot].op # "pull" /\ req[aSlot].task = aTask
  BY DEF AFetched, Answered, PipelineInv, TypeOK, SessionsHoldWhatTheyLoad, LoopWaits, Op, Sending
<1>4. \A u \in Tasks : view[aSlot][u] \notin Open
  BY <1>3 DEF PipelineInv, SessionsHoldWhatTheyLoad, SessionHolds, Loaded, Open
<1>5. \A s \in Slots, u \in Tasks : view'[s][u] \in Open <=> view[s][u] \in Open
  <2>1. view' = [view EXCEPT ![aSlot] = NotLoaded]
    BY DEF AFetched, Answered
  <2>2. \A u \in Tasks : NotLoaded[u] \notin Open
    BY DEF NotLoaded, Open
  <2>3. QED
    BY <1>3, <1>4, <2>1, <2>2 DEF PipelineInv, TypeOK
<1>6. \A u \in Tasks \ {aTask} : Exposed(u)' <=> Exposed(u)
  BY <1>2, <1>5 DEF AFetched, Exposed
<1>7. Lifecycle!Record(aTask)
  BY <1>1, <1>2, <1>6, RecordRecords DEF AFetched
<1>8. QED
  BY <1>1, <1>7

LEMMA MigrateLoses ==
    ASSUME PipelineInv, Migrate
    PROVE  Lifecycle!Lose
<1>1. TypeOK /\ UNCHANGED <<executions, stored>>
  BY DEF PipelineInv, Migrate
<1>2. ASSUME NEW t \in Tasks
      PROVE  Phase'[t] = IF Phase[t] = "absent" THEN "absent" ELSE "GONE"
  BY <1>1, MigrateHolds, PhaseValues DEF Phase, Settled
<1>3. Phase' = [t \in Tasks |-> IF Phase[t] = "absent" THEN "absent" ELSE "GONE"]
  <2>1. Phase' = [t \in Tasks |-> Phase'[t]]
    BY DEF Phase
  <2>2. QED
    BY <1>2, <2>1
<1>4. QED
  BY <1>1, <1>3 DEF Lifecycle!Lose

\* The abstract specification of the task pipeline is implemented: a task is
\* executed only until its result is recorded, records one result, and settles
\* for good with that result or as cancelled.
THEOREM PipelineImplementsLifecycle == Spec => ImplementsTaskLifecycle
<1>1. Init => Lifecycle!Init
  BY DEF Init, Lifecycle!Init, Phase
<1>2. PipelineInv /\ PipelineInv' /\ [Next]_vars => [Lifecycle!Next]_(Lifecycle!lifecycleVars)
  <2> SUFFICES ASSUME PipelineInv, PipelineInv', [Next]_vars PROVE Lifecycle!Next
    OBVIOUS
  <2>1. ASSUME NEW t \in Tasks, Create(t) PROVE Lifecycle!Next
    BY <2>1, CreateCreates DEF Lifecycle!Next
  <2>2. ASSUME NEW t \in Tasks, AExecute(t) PROVE Lifecycle!Next
    BY <2>2, ExecuteExecutes DEF Lifecycle!Next
  <2>3. CASE ASave
    BY <2>3, SaveRecords DEF Lifecycle!Next
  <2>4. CASE AFetched /\ view[aSlot][aTask] = "CANCELLED"
    BY <2>4, RefusalRecords DEF Lifecycle!Next
  <2>5. CASE Migrate
    BY <2>5, MigrateLoses DEF Lifecycle!Next
  <2>6. ASSUME \A t \in Tasks : ~Create(t) /\ ~AExecute(t), ~ASave, ~Migrate,
               ~(AFetched /\ view[aSlot][aTask] = "CANCELLED")
        PROVE  Lifecycle!Next
    <3>1. UNCHANGED <<executions, stored>>
      BY <2>6
         DEF Next, Server, ServiceLoop, User, Environment, ExpireLease, Cancel, HttpLoad, PullCommit,
             TaskCommit, DropRequest, ABegin, AFlush, APull, ASent, APulled, AResend, AFetch, AFetched,
             APrepare, ARunBatch, ABatchDone, AUpload, ACycleDone, AResendRequest, ATimeout,
             AgentRestart, ServerRestart, ASend
    <3>2. QED
      BY <2>6, <3>1, QuietStepSettles DEF Lifecycle!Next
  <2>7. QED
    BY <2>1, <2>2, <2>3, <2>4, <2>5, <2>6
<1>3. QED
  BY <1>1, <1>2, PipelineInvariantHolds, PTL DEF Spec, ImplementsTaskLifecycle, Lifecycle!Spec
=============================================================================
