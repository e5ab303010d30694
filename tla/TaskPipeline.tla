---------------------------- MODULE TaskPipeline ----------------------------
(***************************************************************************)
(* The task pipeline of one agent: the server's task table and the         *)
(* handlers that read and write it (server/main.py, server/script_api.py), *)
(* the agent's service loop that pulls tasks, runs them and reports the    *)
(* results, and the SQLite outbox that survives the agent process          *)
(* (agent/agent_service.py).                                               *)
(*                                                                         *)
(* As in CommandChannel, view[s] is the ORM session of server thread s:    *)
(* handlers load rows, decide on what they loaded and commit later, and no *)
(* row is locked in between.                                               *)
(***************************************************************************)
EXTENDS Integers, FiniteSets

CONSTANTS N,              \* tasks 1..N, numbered in creation order
          Scripts,        \* the tasks of type script.execute
          Slots,          \* worker threads of the server, one request each
          NoSlot,         \* "no request outstanding"
          Verdicts,       \* what an execution can end with
          BatchLimit,     \* rows one pull returns (TaskPull.limit)
          MaxFaults,      \* bound: timeouts and restarts
          MaxMigrations   \* bound: moves to a server without the old database

ASSUME PipelineAssumption ==
    /\ N \in Nat
    /\ Scripts \subseteq 1..N
    /\ NoSlot \notin Slots
    /\ Verdicts \subseteq {"SUCCESS", "FAILED", "TIMEOUT", "CANCELLED"}
    /\ BatchLimit \in Nat \ {0}
    /\ MaxFaults \in Nat /\ MaxMigrations \in Nat

VARIABLES
    status,      \* tasks.status; "ABSENT" before the row exists, "GONE" after it
    expired,     \* pulled_at is older than the 60 s lease
    activities,  \* tasks that have Activity rows
    asked,       \* tasks whose cancellation the user has requested
    view,        \* rows the session of each server thread has loaded
    req,         \* the request each server thread works on
    stored,      \* processed_tasks.payload: the recorded result, or "none"
    uploaded,    \* processed_tasks.uploaded
    executions,  \* executions of each task (ghost)
    aPc, aSlot, aTask, aRetried, \* where the service loop stands, and for what it waits
    outbox,      \* results the flush has still to send
    queue,       \* pulled tasks it has not looked at
    prepared,    \* tasks it will run in this cycle
    outcome,     \* how they ended, "none" until they did
    faults, migrations,
    restarts     \* how often the agent process was restarted (ghost)

tableVars  == <<status, expired, activities>>
storeVars  == <<stored, uploaded>>
cycleVars  == <<outbox, queue, prepared, outcome>>
waitVars   == <<aPc, aSlot, aTask, aRetried>>
faultVars  == <<faults, migrations, restarts>>
vars == <<tableVars, asked, view, req, storeVars, executions, waitVars, cycleVars, faultVars>>

Tasks     == 1..N
NoTask    == 0
Terminal  == {"SUCCESS", "FAILED", "TIMEOUT", "CANCELLED"}
Open      == {"PENDING", "DISPATCHED"}
Statuses  == {"ABSENT", "GONE"} \cup Open \cup Terminal
Results   == Terminal \cup {"none"}
NotLoaded == [t \in Tasks |-> "ABSENT"]

Idle == [op |-> "none", stage |-> "idle", task |-> NoTask, verdict |-> "none"]
Request(op, t, v) == [op |-> op, stage |-> "sent", task |-> t, verdict |-> v]
Requests == [op : {"none", "cancel", "pull", "script", "result"},
             stage : {"idle", "sent", "loaded", "done"},
             task : Tasks \cup {NoTask}, verdict : Results]

\* The service loop waits for the reply to a pull, a script fetch or a result.
Sending == {"flushing", "resending", "uploading"}
Waiting == {"pulling", "fetching"} \cup Sending

TypeOK ==
    /\ status \in [Tasks -> Statuses]
    /\ expired \in [Tasks -> BOOLEAN]
    /\ activities \subseteq Tasks
    /\ asked \subseteq Tasks
    /\ view \in [Slots -> [Tasks -> Statuses]]
    /\ req \in [Slots -> Requests]
    /\ stored \in [Tasks -> Results]
    /\ uploaded \subseteq Tasks
    /\ executions \in [Tasks -> Nat]
    /\ aPc \in {"idle", "flush", "prepare", "run", "report", "upload"} \cup Waiting
    /\ aSlot \in Slots \cup {NoSlot}
    /\ aTask \in Tasks \cup {NoTask}
    /\ aRetried \in BOOLEAN
    /\ outbox \subseteq Tasks /\ queue \subseteq Tasks /\ prepared \subseteq Tasks
    /\ outcome \in [Tasks -> Results]
    /\ faults \in Nat /\ migrations \in Nat /\ restarts \in Nat

Init ==
    /\ status = [t \in Tasks |-> "ABSENT"]
    /\ expired = [t \in Tasks |-> FALSE]
    /\ activities = {}
    /\ asked = {}
    /\ view = [s \in Slots |-> NotLoaded]
    /\ req = [s \in Slots |-> Idle]
    /\ stored = [t \in Tasks |-> "none"]
    /\ uploaded = {}
    /\ executions = [t \in Tasks |-> 0]
    /\ aPc = "idle" /\ aSlot = NoSlot /\ aTask = NoTask /\ aRetried = FALSE
    /\ outbox = {} /\ queue = {} /\ prepared = {}
    /\ outcome = [t \in Tasks |-> "none"]
    /\ faults = 0 /\ migrations = 0 /\ restarts = 0

First(t, S) == t \in S /\ \A u \in S : t <= u

-----------------------------------------------------------------------------
(* The server. *)

Loaded(s) == {t \in Tasks : view[s][t] # "ABSENT"}

Create(t) ==
    /\ status[t] = "ABSENT"
    /\ \A u \in Tasks : u < t => status[u] # "ABSENT"
    /\ status' = [status EXCEPT ![t] = "PENDING"]
    /\ UNCHANGED <<expired, activities, asked, view, req, storeVars, executions, waitVars, cycleVars, faultVars>>

\* Sixty seconds pass without a result.
ExpireLease(t) ==
    /\ status[t] = "DISPATCHED" /\ ~expired[t]
    /\ expired' = [expired EXCEPT ![t] = TRUE]
    /\ UNCHANGED <<status, activities, asked, view, req, storeVars, executions, waitVars, cycleVars, faultVars>>

\* A user cancels a task, once.
Cancel(s, t) ==
    /\ status[t] \notin {"ABSENT", "GONE"} /\ t \notin asked
    /\ req[s] = Idle
    /\ asked' = asked \cup {t}
    /\ req' = [req EXCEPT ![s] = Request("cancel", t, "none")]
    /\ UNCHANGED <<tableVars, view, storeVars, executions, waitVars, cycleVars, faultVars>>

\* Mutant of Due: a lease never runs out.
DueOnce == {t \in Tasks : status[t] = "PENDING"}

\* Rows a pull returns: pending, or dispatched with an expired lease.
Due == {t \in Tasks : \/ status[t] = "PENDING"
                      \/ status[t] = "DISPATCHED" /\ expired[t]}
Batch == {t \in Due : Cardinality({u \in Due : u < t}) < BatchLimit}

HttpLoad(s) ==
    /\ req[s].stage = "sent"
    /\ LET rows == IF req[s].op = "pull" THEN Batch ELSE {req[s].task}
       IN view' = [view EXCEPT ![s] =
                     [t \in Tasks |-> IF t \in rows THEN status[t] ELSE "ABSENT"]]
    /\ req' = [req EXCEPT ![s].stage = "loaded"]
    /\ UNCHANGED <<tableVars, asked, storeVars, executions, waitVars, cycleVars, faultVars>>

\* The session ends with the reply, or lasts until the waiting agent has read it.
Reply(s, rows) ==
    IF s = aSlot
    THEN /\ req' = [req EXCEPT ![s].stage = "done"]
         /\ view' = [view EXCEPT ![s] = rows]
    ELSE /\ req' = [req EXCEPT ![s] = Idle]
         /\ view' = [view EXCEPT ![s] = NotLoaded]

\* The ORM writes an attribute only when it differs from what was loaded.
Written(s, t, new) == IF view[s][t] = new THEN status[t] ELSE new

PullCommit(s) ==
    /\ req[s].op = "pull" /\ req[s].stage = "loaded"
    /\ status' = [t \in Tasks |-> IF t \in Loaded(s) THEN Written(s, t, "DISPATCHED") ELSE status[t]]
    /\ expired' = [t \in Tasks |-> t \notin Loaded(s) /\ expired[t]]
    /\ Reply(s, [t \in Tasks |-> IF t \in Loaded(s) THEN "DISPATCHED" ELSE "ABSENT"])
    /\ UNCHANGED <<activities, asked, storeVars, executions, waitVars, cycleVars, faultVars>>

\* Mutant of Decide: a result is accepted whatever the status.
DecideAnyResult(s, seen) ==
    CASE req[s].op = "cancel" /\ seen \in Open -> "CANCELLED"
      [] req[s].op = "result" /\ seen # "GONE" -> req[s].verdict
      [] OTHER -> seen

\* The status after a cancellation, a result or a script fetch that found the
\* task with status "seen".
Decide(s, seen) ==
    CASE req[s].op = "cancel" /\ seen \in Open -> "CANCELLED"
      [] req[s].op = "result" /\ seen \in Open -> req[s].verdict
      [] OTHER -> seen

\* A result that is accepted adds an Activity row in the same commit.
TaskCommit(s) ==
    /\ req[s].op \in {"cancel", "result", "script"} /\ req[s].stage = "loaded"
    /\ LET t == req[s].task
           new == Decide(s, view[s][t])
       IN /\ status' = [status EXCEPT ![t] = Written(s, t, new)]
          /\ activities' = IF req[s].op = "result" /\ view[s][t] \in Open
                           THEN activities \cup {t} ELSE activities
          /\ Reply(s, [view[s] EXCEPT ![t] = new])
    /\ UNCHANGED <<expired, asked, storeVars, executions, waitVars, cycleVars, faultVars>>

\* A request whose sender has given up never arrives.
DropRequest(s) ==
    /\ req[s].op \in {"pull", "script", "result"} /\ req[s].stage = "sent"
    /\ s # aSlot
    /\ req' = [req EXCEPT ![s] = Idle]
    /\ UNCHANGED <<tableVars, asked, view, storeVars, executions, waitVars, cycleVars, faultVars>>

-----------------------------------------------------------------------------
(* The service loop of the agent. *)

ASend(s, op, t) ==
    /\ req[s] = Idle
    /\ req' = [req EXCEPT ![s] = Request(op, t, IF op = "result" THEN stored[t] ELSE "none")]
    /\ aSlot' = s /\ aTask' = t
    /\ UNCHANGED <<tableVars, asked, view, storeVars, executions, faultVars>>

\* A cycle begins with the results that have not been uploaded.
ABegin ==
    /\ aPc = "idle"
    /\ aPc' = "flush"
    /\ outbox' = {t \in Tasks : stored[t] # "none" /\ t \notin uploaded}
    /\ UNCHANGED <<tableVars, asked, view, req, storeVars, executions, aSlot, aTask, aRetried,
                   queue, prepared, outcome, faultVars>>

AFlush(s) ==
    /\ aPc = "flush"
    /\ \E t \in outbox : ASend(s, "result", t) /\ outbox' = outbox \ {t}
    /\ aPc' = "flushing"
    /\ UNCHANGED <<aRetried, queue, prepared, outcome>>

APull(s) ==
    /\ aPc = "flush" /\ outbox = {}
    /\ ASend(s, "pull", NoTask)
    /\ aPc' = "pulling"
    /\ UNCHANGED <<aRetried, cycleVars>>

\* The reply arrives and the server thread is free again.
Answered ==
    /\ aSlot # NoSlot /\ req[aSlot].stage = "done"
    /\ req' = [req EXCEPT ![aSlot] = Idle]
    /\ view' = [view EXCEPT ![aSlot] = NotLoaded]
    /\ aSlot' = NoSlot /\ aTask' = NoTask /\ aRetried' = FALSE

\* Mutant of AbortCycle: the tasks prepared so far stay for the next cycle.
AbortCycleKeepsBatch == aPc' = "idle" /\ outbox' = {} /\ queue' = {} /\ UNCHANGED prepared

\* An exception ends the cycle: what it has pulled and prepared is dropped.
AbortCycle == aPc' = "idle" /\ outbox' = {} /\ queue' = {} /\ prepared' = {}

\* The server has the result, or answers 404 because it does not know the task.
ASent ==
    /\ aPc \in Sending /\ Answered
    /\ IF view[aSlot][aTask] = "GONE"
       THEN /\ UNCHANGED uploaded
            /\ IF aPc = "uploading" THEN aPc' = "report" /\ UNCHANGED <<outbox, queue, prepared>>
                                    ELSE AbortCycle
       ELSE /\ uploaded' = uploaded \cup {aTask}
            /\ aPc' = CASE aPc = "flushing" -> "flush" [] aPc = "resending" -> "prepare" [] OTHER -> "report"
            /\ UNCHANGED <<outbox, queue, prepared>>
    /\ UNCHANGED <<tableVars, asked, stored, executions, outcome, faultVars>>

APulled ==
    /\ aPc = "pulling" /\ Answered
    /\ queue' = Loaded(aSlot)
    /\ aPc' = "prepare"
    /\ UNCHANGED <<tableVars, asked, storeVars, executions, outbox, prepared, outcome, faultVars>>

\* Mutant of Historical: the agent does not remember what it has done.
Forgets(t) == FALSE

\* A task with a recorded result is answered from the record.
Historical(t) == stored[t] # "none"

AResend(s) ==
    /\ aPc = "prepare"
    /\ \E t \in Tasks : /\ First(t, queue) /\ Historical(t)
                        /\ ASend(s, "result", t)
                        /\ queue' = queue \ {t}
    /\ aPc' = "resending"
    /\ UNCHANGED <<aRetried, outbox, prepared, outcome>>

AFetch(s) ==
    /\ aPc = "prepare"
    /\ \E t \in Scripts : /\ First(t, queue) /\ ~Historical(t)
                          /\ ASend(s, "script", t)
                          /\ queue' = queue \ {t}
    /\ aPc' = "fetching"
    /\ UNCHANGED <<aRetried, outbox, prepared, outcome>>

\* The script of a cancelled task is refused (409): a CANCELLED result is
\* recorded and left to the next flush.
AFetched ==
    /\ aPc = "fetching" /\ Answered
    /\ IF view[aSlot][aTask] = "CANCELLED"
       THEN stored' = [stored EXCEPT ![aTask] = "CANCELLED"] /\ UNCHANGED prepared
       ELSE prepared' = prepared \cup {aTask} /\ UNCHANGED stored
    /\ aPc' = "prepare"
    /\ UNCHANGED <<tableVars, asked, uploaded, executions, outbox, queue, outcome, faultVars>>

APrepare ==
    /\ aPc = "prepare"
    /\ \E t \in Tasks \ Scripts : /\ First(t, queue) /\ ~Historical(t)
                                  /\ queue' = queue \ {t}
                                  /\ prepared' = prepared \cup {t}
    /\ UNCHANGED <<tableVars, asked, view, req, storeVars, executions, waitVars, outbox, outcome, faultVars>>

ARunBatch ==
    /\ aPc = "prepare" /\ queue = {}
    /\ aPc' = IF prepared = {} THEN "idle" ELSE "run"
    /\ outcome' = [t \in Tasks |-> "none"]
    /\ UNCHANGED <<tableVars, asked, view, req, storeVars, executions, aSlot, aTask, aRetried,
                   outbox, queue, prepared, faultVars>>

\* One task of the batch runs; the tasks of a batch run in any order.
AExecute(t) ==
    /\ aPc = "run" /\ t \in prepared /\ outcome[t] = "none"
    /\ executions' = [executions EXCEPT ![t] = @ + 1]
    /\ \E v \in Verdicts : outcome' = [outcome EXCEPT ![t] = v]
    /\ UNCHANGED <<tableVars, asked, view, req, storeVars, waitVars, outbox, queue, prepared, faultVars>>

\* The batch returns when all of its tasks have ended.
ABatchDone ==
    /\ aPc = "run" /\ \A t \in prepared : outcome[t] # "none"
    /\ aPc' = "report"
    /\ UNCHANGED <<tableVars, asked, view, req, storeVars, executions, aSlot, aTask, aRetried,
                   cycleVars, faultVars>>

ASave ==
    /\ aPc = "report"
    /\ \E t \in Tasks : /\ First(t, prepared)
                        /\ stored' = [stored EXCEPT ![t] = outcome[t]]
                        /\ prepared' = prepared \ {t}
                        /\ aTask' = t
    /\ aPc' = "upload"
    /\ UNCHANGED <<tableVars, asked, view, req, uploaded, executions, aSlot, aRetried,
                   outbox, queue, outcome, faultVars>>

AUpload(s) ==
    /\ aPc = "upload"
    /\ ASend(s, "result", aTask)
    /\ aPc' = "uploading"
    /\ UNCHANGED <<aRetried, cycleVars>>

ACycleDone ==
    /\ aPc = "report" /\ prepared = {}
    /\ aPc' = "idle"
    /\ UNCHANGED <<tableVars, asked, view, req, storeVars, executions, aSlot, aTask, aRetried,
                   cycleVars, faultVars>>

Op == CASE aPc \in Sending -> "result" [] aPc = "fetching" -> "script" [] OTHER -> "pull"

\* A request that failed on the direct route is sent again over the system proxy,
\* once; its first copy may still reach the server.
AResendRequest(s) ==
    /\ aPc \in Waiting /\ aSlot = NoSlot
    /\ ASend(s, Op, aTask)
    /\ UNCHANGED <<aPc, aRetried, cycleVars>>

-----------------------------------------------------------------------------
(* Faults. *)

Fault == faults < MaxFaults /\ faults' = faults + 1

\* Nobody waits for the reply any more; a handler that has not finished runs on.
Forget ==
    LET done == {s \in Slots : s = aSlot /\ req[s].stage = "done"}
    IN /\ req' = [s \in Slots |-> IF s \in done THEN Idle ELSE req[s]]
       /\ view' = [s \in Slots |-> IF s \in done THEN NotLoaded ELSE view[s]]
       /\ aSlot' = NoSlot

\* Both routes failed.  A result that has just been saved waits for the next
\* flush; any other failure ends the cycle.
GiveUp ==
    /\ aTask' = NoTask /\ aRetried' = FALSE
    /\ IF aPc = "uploading" THEN aPc' = "report" /\ UNCHANGED <<outbox, queue, prepared>>
                            ELSE AbortCycle

RequestFails ==
    \/ /\ ~aRetried /\ aRetried' = TRUE
       /\ UNCHANGED <<aPc, aTask, outbox, queue, prepared>>
    \/ GiveUp

ATimeout ==
    /\ aSlot # NoSlot /\ Fault
    /\ Forget
    /\ RequestFails
    /\ UNCHANGED <<tableVars, asked, storeVars, executions, outcome, migrations, restarts>>

\* The agent process ends and a new one starts: only the outbox is left.
NewAgentProcess ==
    /\ AbortCycle
    /\ aTask' = NoTask /\ aRetried' = FALSE
    /\ outcome' = [t \in Tasks |-> "none"]

\* Mutant of AgentRestart: processed_tasks does not survive the process.
AgentRestartLosesRecords ==
    /\ Fault /\ restarts' = restarts + 1
    /\ Forget /\ NewAgentProcess
    /\ stored' = [t \in Tasks |-> "none"] /\ uploaded' = {}
    /\ UNCHANGED <<tableVars, asked, executions, migrations>>

AgentRestart ==
    /\ Fault /\ restarts' = restarts + 1
    /\ Forget /\ NewAgentProcess
    /\ UNCHANGED <<tableVars, asked, storeVars, executions, migrations>>

\* Handlers and sessions are gone, committed rows stay; the agent's request fails.
SessionsEnd ==
    /\ req' = [s \in Slots |-> Idle]
    /\ view' = [s \in Slots |-> NotLoaded]
    /\ aSlot' = NoSlot

ServerRestart ==
    /\ Fault /\ SessionsEnd
    /\ IF aSlot = NoSlot THEN UNCHANGED <<aPc, aTask, aRetried, outbox, queue, prepared>>
                         ELSE RequestFails
    /\ UNCHANGED <<tableVars, asked, storeVars, executions, outcome, migrations, restarts>>

\* The server moves to a host without the old database (or an administrator purges
\* the agent, delete_agent) and the agent registers anew: the old tasks are
\* unknown, the outbox of the agent is still the old one.
Migrate ==
    /\ migrations < MaxMigrations /\ migrations' = migrations + 1
    /\ SessionsEnd /\ NewAgentProcess
    /\ status' = [t \in Tasks |-> IF status[t] = "ABSENT" THEN "ABSENT" ELSE "GONE"]
    /\ UNCHANGED <<expired, activities, asked, storeVars, executions, faults, restarts>>

-----------------------------------------------------------------------------
Server == \E s \in Slots : HttpLoad(s) \/ PullCommit(s) \/ TaskCommit(s) \/ DropRequest(s)

ServiceLoop ==
    \/ \E s \in Slots : AFlush(s) \/ APull(s) \/ AResend(s) \/ AFetch(s) \/ AUpload(s) \/ AResendRequest(s)
    \/ ABegin \/ ASent \/ APulled \/ AFetched \/ APrepare \/ ARunBatch \/ ABatchDone \/ ASave \/ ACycleDone
    \/ \E t \in Tasks : AExecute(t)

User == \E t \in Tasks : Create(t) \/ \E s \in Slots : Cancel(s, t)

Environment == \/ \E t \in Tasks : ExpireLease(t)
               \/ ATimeout \/ AgentRestart \/ ServerRestart \/ Migrate

Next == Server \/ ServiceLoop \/ User \/ Environment

Spec == Init /\ [][Next]_vars

\* The server answers what it has received, the service loop keeps cycling (what
\* comes first in a cycle does not fail for ever), its tasks have a timeout, and
\* the clock runs.  Users and faults owe nothing.
Fairness ==
    /\ \A s \in Slots : WF_vars(HttpLoad(s)) /\ WF_vars(PullCommit(s)) /\ WF_vars(TaskCommit(s))
    /\ WF_vars(ServiceLoop)
    /\ \A t \in Tasks : WF_vars(ExpireLease(t))

FairSpec == Spec /\ Fairness

-----------------------------------------------------------------------------
(* Properties. *)

\* Somebody may still overwrite, execute or record t: a session has loaded it as
\* open, or the agent has pulled it and not finished with it.
Exposed(t) ==
    \/ \E s \in Slots : view[s][t] \in Open
    \/ t \in queue \cup prepared
    \/ aPc = "fetching" /\ aTask = t

Settled(t) == status[t] \in Terminal \cup {"GONE"} /\ ~Exposed(t)

Phase == [t \in Tasks |-> IF status[t] = "ABSENT" THEN "absent"
                          ELSE IF Settled(t) THEN status[t] ELSE "open"]

Lifecycle == INSTANCE TaskLifecycle
                 WITH phase <- Phase, executed <- executions, recorded <- stored

\* A task is executed only until its result is recorded, records one result, and
\* settles for good with that result or as cancelled, through every retry, lost
\* reply, stale session and restart (the historical branch of
\* pull_and_execute_once and the terminal checks of the handlers).
ImplementsTaskLifecycle == Lifecycle!Spec

Created == {t \in Tasks : status[t] # "ABSENT"}
Executed == Terminal \ {"CANCELLED"}

\* What the session of a server thread names was created.
SessionNames(s) ==
    /\ Loaded(s) \subseteq Created
    /\ req[s].op \in {"cancel", "script", "result"} => req[s].task \in Created

\* What the service loop and its store hold was created.
LoopNames ==
    /\ queue \cup prepared \cup outbox \subseteq Created
    /\ aPc \in {"fetching", "upload"} \cup Sending => aTask \in Created
    /\ \A t \in Tasks : stored[t] # "none" => t \in Created

\* The inductive invariant, part one: whatever names a task names one that was
\* created.
NamesAreCreated == LoopNames /\ \A s \in Slots : SessionNames(s)

\* The server shows a task as succeeded, failed or timed out only with the result
\* the agent has recorded for good: an execution whose result is lost with the
\* agent process is never visible, and a second execution never contradicts a
\* first one (the save before the upload in pull_and_execute_once).
OutcomeIsTheRecordedResult == \A t \in Tasks : status[t] \in Executed => stored[t] = status[t]

\* The sessions and the service loop, too, state recorded results only.
SessionResults(s) ==
    /\ \A t \in Tasks : view[s][t] \in Executed => stored[t] = view[s][t]
    /\ req[s].op = "result" => req[s].verdict # "none" /\ stored[req[s].task] = req[s].verdict

LoopResults ==
    /\ aPc \in {"upload"} \cup Sending => stored[aTask] # "none"
    /\ \A t \in outbox \cup uploaded : stored[t] # "none"
    /\ \A t \in Tasks : /\ stored[t] \in Verdicts \cup {"CANCELLED", "none"}
                        /\ outcome[t] \in Verdicts \cup {"none"}

\* A task is shown as executed with an Activity row, and a row is about a recorded
\* result.
ActivitiesAreRecorded ==
    /\ \A t \in Tasks : status[t] \in Executed => t \in activities
    /\ \A t \in activities : stored[t] # "none"

\* Part two: whoever states a result, in a row, a session or a request, states
\* the one the agent has recorded.
ResultsAreRecorded ==
    /\ OutcomeIsTheRecordedResult /\ ActivitiesAreRecorded
    /\ LoopResults /\ \A s \in Slots : SessionResults(s)

\* Part three: what the service loop is about to execute has no result yet, and
\* it looks at each pulled task once.
WorkIsFresh ==
    /\ \A t \in prepared : stored[t] = "none"
    /\ queue \cap prepared = {}
    /\ aPc = "fetching" => stored[aTask] = "none" /\ aTask \notin queue \cup prepared
    /\ aPc \in {"idle", "flush", "flushing", "pulling"} => prepared = {}
    /\ aPc \notin {"prepare", "fetching", "resending"} => queue = {}
    /\ aPc \in {"report", "upload", "uploading"} => \A t \in prepared : outcome[t] # "none"

\* A session holds what its handler has loaded.
SessionHolds(s) ==
    /\ req[s].op = "pull" /\ req[s].stage \in {"loaded", "done"}
         => \A t \in Tasks : view[s][t] \in {"ABSENT"} \cup Open
    /\ req[s].op \in {"cancel", "script", "result"} /\ req[s].stage = "loaded"
         => req[s].task \in Loaded(s)
    /\ req[s].stage \in {"idle", "sent"} => Loaded(s) = {}
    /\ req[s].op # "pull" => Loaded(s) \subseteq {req[s].task}

\* The request the service loop waits for is the one its own step has sent.
LoopWaits ==
    aSlot # NoSlot => /\ aPc \in Waiting /\ req[aSlot].op = Op
                      /\ aPc # "pulling" => req[aSlot].task = aTask

\* Nobody holds a task the server has lost.
LostIsLost == \A t \in Tasks : status[t] = "GONE" => ~Exposed(t)

\* Part four: who holds what.
SessionsHoldWhatTheyLoad == LoopWaits /\ LostIsLost /\ \A s \in Slots : SessionHolds(s)

\* A task is executed once by a process of the agent, and again only if the process
\* ended before it had saved the result: retries, lost replies, an expired lease
\* and a second pull never repeat it (save before upload, the historical branch).
OneExecutionPerProcess == \A t \in Tasks : executions[t] <= 1 + restarts

\* This process has executed t, or there will be no other execution.
Spent(t) == outcome[t] # "none" \/ stored[t] # "none" \/ status[t] = "GONE"

\* Part five: an execution is paid for by a restart, or its result is kept until
\* it is saved.
ExecutionsAreCounted ==
    /\ \A t \in Tasks : executions[t] <= restarts + (IF Spent(t) THEN 1 ELSE 0)
    /\ \A t \in Tasks : outcome[t] # "none" /\ stored[t] = "none"
                           => t \in prepared /\ aPc \in {"run", "report", "upload", "uploading"}

\* TypeOK and the five parts together are inductive: at most one result is ever
\* recorded for a task, and the server never states another one.
PipelineInv == /\ TypeOK /\ NamesAreCreated /\ ResultsAreRecorded /\ WorkIsFresh
               /\ SessionsHoldWhatTheyLoad /\ ExecutionsAreCounted

\* Every task that is created settles, whatever requests fail and whichever process
\* restarts on the way (a migration is another matter, see MigratedAgentIsServed).
TasksSettle == \A t \in Tasks : status[t] # "ABSENT" ~> Settled(t)

\* Claimed by deploy/ubuntu/SERVER_MIGRATION_ZH_CN.md: after a migration without
\* the old database an agent has to register again (and then works): the tasks
\* created on the new server are fetched.
MigratedAgentIsServed ==
    \A t \in Tasks : migrations > 0 /\ status[t] = "PENDING" ~> status[t] # "PENDING"
=============================================================================
