---------------------------- MODULE TaskManager ----------------------------
(***************************************************************************)
(* How the agent process runs tasks and serves profile commands: the task  *)
(* manager with its thread pools, futures and profile locks                *)
(* (agent/task_manager.py), and the profile workers that start, stop and   *)
(* ask for a browser (agent/profile_worker.py).                            *)
(*                                                                         *)
(* Two threads of the agent call them: the service loop runs the batches   *)
(* of pulled tasks and, while the WebSocket is down, the commands; the     *)
(* command channel runs the commands it is sent.  Every call of            *)
(* run_concurrent has a pool of its own.                                   *)
(***************************************************************************)
EXTENDS Integers, FiniteSets

CONSTANTS N,            \* tasks 1..N, numbered in the order they are submitted
          Profiles,     \* browser profiles
          ProfileOf,    \* the profile of each task
          Driven,       \* profiles that commands start, stop and refresh
          NoProfile,    \* "no profile"
          MaxWorkers,   \* threads of one pool (settings.max_concurrency)
          Verdicts      \* what an execution can end with

Tasks   == 1..N
NoTask  == 0
Final   == {"SUCCESS", "FAILED", "TIMEOUT", "CANCELLED"}
Callers == {"loop", "channel"}

ASSUME ManagerAssumption ==
    /\ N \in Nat
    /\ ProfileOf \in [Tasks -> Profiles]
    /\ NoProfile \notin Driven
    /\ MaxWorkers \in Nat \ {0}
    /\ Verdicts \subseteq Final

VARIABLES
    item,        \* where the work item of a task stands
    status,      \* Task.status
    registered,  \* tasks whose future is in _futures
    locked,      \* profiles whose lock is held
    executions,  \* executions of each task (ghost)
    logged,      \* status in the record appended to the task store, or "none"
    pc, at,      \* where a calling thread stands, and with which task
    batch, left, \* tasks of its run_concurrent, and those not yet submitted
    collected,   \* tasks whose future as_completed has yielded
    reported,    \* status the caller reads after run_concurrent, or "none"
    confirmed,   \* tasks of which cancel_task has answered True
    worker,      \* ProfileWorker.state
    on,          \* profile whose worker lock a thread holds
    open,        \* the browser of the profile is open
    touched      \* others have opened or closed it since its worker knew (ghost)

poolVars   == <<item, locked, executions, logged>>
callVars   == <<batch, left, collected, reported>>
workerVars == <<worker, on, open, touched>>
vars == <<poolVars, status, registered, pc, at, callVars, confirmed, workerVars>>

\* A work item waits in the queue of its pool, is run by a thread of the pool
\* (waiting for the profile lock, executing, storing the result), and its future
\* ends with a result, an exception or a cancellation the pool has seen.
Running == {"waiting", "executing", "storing"}
Ended   == {"finished", "raised", "notified"}
Items   == {"none", "queued", "cancelled"} \cup Running \cup Ended

Asking  == {"starting", "stopping", "refreshing"}
Answers == {"up", "down", "odd", "silent", "unreachable"}
States  == {"STOPPED", "STARTING", "IDLE", "STOPPING", "ERROR", "OFFLINE"}

TypeOK ==
    /\ item \in [Tasks -> Items]
    /\ status \in [Tasks -> {"PENDING", "RUNNING"} \cup Final]
    /\ registered \subseteq Tasks /\ collected \subseteq Tasks /\ confirmed \subseteq Tasks
    /\ locked \subseteq Profiles
    /\ executions \in [Tasks -> Nat]
    /\ logged \in [Tasks -> Final \cup {"none"}]
    /\ pc \in [Callers -> {"idle", "submit", "register", "collect", "cancel"} \cup Asking \cup Answers]
    /\ at \in [Callers -> Tasks \cup {NoTask}]
    /\ batch \in [Callers -> SUBSET Tasks] /\ left \in [Callers -> SUBSET Tasks]
    /\ reported \in [Tasks -> {"none", "PENDING", "RUNNING"} \cup Final]
    /\ worker \in [Driven -> States]
    /\ on \in [Callers -> Driven \cup {NoProfile}]
    /\ open \in [Driven -> BOOLEAN] /\ touched \in [Driven -> BOOLEAN]

\* A new worker says STOPPED without having asked.
Init ==
    /\ item = [t \in Tasks |-> "none"]
    /\ status = [t \in Tasks |-> "PENDING"]
    /\ registered = {} /\ locked = {} /\ collected = {} /\ confirmed = {}
    /\ executions = [t \in Tasks |-> 0]
    /\ logged = [t \in Tasks |-> "none"]
    /\ pc = [c \in Callers |-> "idle"] /\ at = [c \in Callers |-> NoTask]
    /\ batch = [c \in Callers |-> {}] /\ left = [c \in Callers |-> {}]
    /\ reported = [t \in Tasks |-> "none"]
    /\ worker = [p \in Driven |-> "STOPPED"]
    /\ on = [c \in Callers |-> NoProfile]
    /\ open \in [Driven -> BOOLEAN]
    /\ touched = open

First(t, S) == t \in S /\ \A u \in S : t <= u

-----------------------------------------------------------------------------
(* run_concurrent. *)

\* Tasks nobody has submitted: pulled ones, or one made by a START_TASK.
Fresh == {t \in Tasks : item[t] = "none" /\ \A c \in Callers : t \notin batch[c]}

\* Only the service loop submits more than one task at once.
Begin(c, S) ==
    /\ pc[c] = "idle"
    /\ S # {} /\ S \subseteq Fresh
    /\ c = "channel" => Cardinality(S) = 1
    /\ batch' = [batch EXCEPT ![c] = S]
    /\ left' = [left EXCEPT ![c] = S]
    /\ pc' = [pc EXCEPT ![c] = "submit"]
    /\ UNCHANGED <<poolVars, status, registered, at, collected, reported, confirmed, workerVars>>

Submit(c) ==
    /\ pc[c] = "submit"
    /\ \E t \in Tasks : /\ First(t, left[c])
                        /\ item' = [item EXCEPT ![t] = "queued"]
                        /\ left' = [left EXCEPT ![c] = @ \ {t}]
                        /\ at' = [at EXCEPT ![c] = t]
    /\ pc' = [pc EXCEPT ![c] = "register"]
    /\ UNCHANGED <<status, registered, locked, executions, logged, batch, collected, reported,
                   confirmed, workerVars>>

\* cancel_task holds _lock from the cancellation of the future to its end.
LockFree == \A c \in Callers : pc[c] # "cancel"

Register(c) ==
    /\ pc[c] = "register" /\ LockFree
    /\ registered' = registered \cup {at[c]}
    /\ at' = [at EXCEPT ![c] = NoTask]
    /\ pc' = [pc EXCEPT ![c] = IF left[c] = {} THEN "collect" ELSE "submit"]
    /\ UNCHANGED <<poolVars, status, callVars, confirmed, workerVars>>

\* Mutant of Failure: a cancelled future leaves the status alone.
FailureIfRaised(t) == item[t] = "raised"

\* future.result() raises: CancelledError is an Exception like any other.
Failure(t) == item[t] \in {"raised", "notified"}

\* as_completed yields a future that has ended.
Collect(c, t) ==
    /\ pc[c] = "collect" /\ t \in batch[c] \ collected /\ item[t] \in Ended
    /\ collected' = collected \cup {t}
    /\ status' = IF Failure(t) THEN [status EXCEPT ![t] = "FAILED"] ELSE status
    /\ UNCHANGED <<poolVars, registered, pc, at, batch, left, reported, confirmed, workerVars>>

\* Mutant of Return: run_concurrent does not wait for its futures.
ReturnAtOnce(c) ==
    /\ pc[c] = "collect"
    /\ reported' = [t \in Tasks |-> IF t \in batch[c] THEN status[t] ELSE reported[t]]
    /\ batch' = [batch EXCEPT ![c] = {}]
    /\ pc' = [pc EXCEPT ![c] = "idle"]
    /\ UNCHANGED <<poolVars, status, registered, at, left, collected, confirmed, workerVars>>

Return(c) ==
    /\ pc[c] = "collect" /\ batch[c] \subseteq collected
    /\ reported' = [t \in Tasks |-> IF t \in batch[c] THEN status[t] ELSE reported[t]]
    /\ batch' = [batch EXCEPT ![c] = {}]
    /\ pc' = [pc EXCEPT ![c] = "idle"]
    /\ UNCHANGED <<poolVars, status, registered, at, left, collected, confirmed, workerVars>>

-----------------------------------------------------------------------------
(* The threads of a pool. *)

Queue(c) == {t \in batch[c] : item[t] \in {"queued", "cancelled"}}
Busy(c)  == {t \in batch[c] : item[t] \in Running}

\* A thread takes the first item of the queue: it runs it, unless it finds it
\* cancelled.
PickUp(t) ==
    /\ \E c \in Callers : First(t, Queue(c)) /\ Cardinality(Busy(c)) < MaxWorkers
    /\ \/ /\ item[t] = "queued"
          /\ item' = [item EXCEPT ![t] = "waiting"]
          /\ status' = [status EXCEPT ![t] = "RUNNING"]
       \/ /\ item[t] = "cancelled"
          /\ item' = [item EXCEPT ![t] = "notified"]
          /\ UNCHANGED status
    /\ UNCHANGED <<registered, locked, executions, logged, pc, at, callVars, confirmed, workerVars>>

\* Mutant of Available: the profile lock is not waited for.
AvailableAlways(p) == TRUE

Available(p) == p \notin locked

Acquire(t) ==
    /\ item[t] = "waiting" /\ Available(ProfileOf[t])
    /\ locked' = locked \cup {ProfileOf[t]}
    /\ item' = [item EXCEPT ![t] = "executing"]
    /\ executions' = [executions EXCEPT ![t] = @ + 1]
    /\ UNCHANGED <<status, registered, logged, pc, at, callVars, confirmed, workerVars>>

\* Mutant of Finish: the lock is released only after a success.
FinishHolding(t) ==
    /\ item[t] = "executing"
    /\ \E v \in Verdicts : /\ status' = [status EXCEPT ![t] = v]
                           /\ locked' = IF v = "SUCCESS" THEN locked \ {ProfileOf[t]} ELSE locked
    /\ item' = [item EXCEPT ![t] = "storing"]
    /\ UNCHANGED <<registered, executions, logged, pc, at, callVars, confirmed, workerVars>>

\* The executor returns or raises, the status says which, and the lock is released.
Finish(t) ==
    /\ item[t] = "executing"
    /\ \E v \in Verdicts : status' = [status EXCEPT ![t] = v]
    /\ locked' = locked \ {ProfileOf[t]}
    /\ item' = [item EXCEPT ![t] = "storing"]
    /\ UNCHANGED <<registered, executions, logged, pc, at, callVars, confirmed, workerVars>>

\* The stores append a record; an exception of theirs escapes from the worker,
\* before the task store has the record or after it.
Store(t) ==
    /\ item[t] = "storing"
    /\ \E result \in {"finished", "raised"} : item' = [item EXCEPT ![t] = result]
    /\ \/ logged' = [logged EXCEPT ![t] = status[t]]
       \/ item'[t] = "raised" /\ UNCHANGED logged
    /\ UNCHANGED <<status, registered, locked, executions, pc, at, callVars, confirmed, workerVars>>

-----------------------------------------------------------------------------
(* cancel_task. *)

\* Mutant of Cancellable: the answer of future.cancel() is not looked at.
CancellableAnyway(t) == TRUE

\* future.cancel() succeeds on an item nobody has taken, and on a cancelled one.
Cancellable(t) == item[t] \in {"queued", "cancelled", "notified"}

Cancel(c, t) ==
    /\ pc[c] = "idle" /\ LockFree
    /\ t \in registered /\ Cancellable(t)
    /\ item' = [item EXCEPT ![t] = IF @ = "queued" THEN "cancelled" ELSE @]
    /\ pc' = [pc EXCEPT ![c] = "cancel"]
    /\ at' = [at EXCEPT ![c] = t]
    /\ UNCHANGED <<status, registered, locked, executions, logged, callVars, confirmed, workerVars>>

Confirm(c) ==
    /\ pc[c] = "cancel"
    /\ status' = [status EXCEPT ![at[c]] = "CANCELLED"]
    /\ confirmed' = confirmed \cup {at[c]}
    /\ pc' = [pc EXCEPT ![c] = "idle"]
    /\ at' = [at EXCEPT ![c] = NoTask]
    /\ UNCHANGED <<poolVars, registered, callVars, workerVars>>

-----------------------------------------------------------------------------
(* The profile workers. *)

\* Mutant of WorkerFree: the RLock of the worker is not taken.
WorkerFreeAlways(p) == TRUE

WorkerFree(p) == \A c \in Callers : on[c] # p

Ask(c, p, step, state) ==
    /\ pc[c] = "idle" /\ WorkerFree(p)
    /\ on' = [on EXCEPT ![c] = p]
    /\ pc' = [pc EXCEPT ![c] = step]
    /\ worker' = [worker EXCEPT ![p] = state]
    /\ UNCHANGED <<poolVars, status, registered, at, callVars, confirmed, open, touched>>

\* A worker that thinks it is there already answers at once.
StartProfile(c, p)   == worker[p] # "IDLE" /\ Ask(c, p, "starting", "STARTING")
StopProfile(c, p)    == worker[p] # "STOPPED" /\ Ask(c, p, "stopping", "STOPPING")
RefreshProfile(c, p) == Ask(c, p, "refreshing", worker[p])

Answer(c, answer) ==
    /\ pc' = [pc EXCEPT ![c] = answer]
    /\ UNCHANGED <<poolVars, status, registered, at, callVars, confirmed, worker, on>>

\* A call that fails may have had its effect.
BrowserStarts(c) ==
    /\ pc[c] = "starting"
    /\ \/ /\ Answer(c, "up")
          /\ open' = [open EXCEPT ![on[c]] = TRUE]
          /\ touched' = [touched EXCEPT ![on[c]] = FALSE]
       \/ /\ Answer(c, "odd")
          /\ \E b \in BOOLEAN : open' = [open EXCEPT ![on[c]] = @ \/ b]
          /\ UNCHANGED touched

BrowserStops(c) ==
    /\ pc[c] = "stopping"
    /\ \/ /\ Answer(c, "down")
          /\ open' = [open EXCEPT ![on[c]] = FALSE]
          /\ touched' = [touched EXCEPT ![on[c]] = FALSE]
       \/ /\ Answer(c, "odd")
          /\ \E b \in BOOLEAN : open' = [open EXCEPT ![on[c]] = @ /\ b]
          /\ UNCHANGED touched

\* The browser tells its status, an unknown one, none, or cannot be asked.
BrowserTells(c) ==
    /\ pc[c] = "refreshing"
    /\ \/ /\ Answer(c, IF open[on[c]] THEN "up" ELSE "down")
          /\ touched' = [touched EXCEPT ![on[c]] = FALSE]
       \/ \E answer \in {"odd", "silent", "unreachable"} : Answer(c, answer) /\ UNCHANGED touched
    /\ UNCHANGED open

\* Mutant of NewState: a call that failed counts as done.
NewStateHopeful(answer, old) ==
    CASE answer \in {"up", "odd"} -> "IDLE"
      [] answer = "down" -> "STOPPED"
      [] answer = "unreachable" -> "OFFLINE"
      [] OTHER -> old

\* What the worker makes of the answer: the browser is up, it is down, the call
\* failed or the status is unknown, there is no status, or it cannot be asked.
NewState(answer, old) ==
    CASE answer = "up" -> "IDLE"
      [] answer = "down" -> "STOPPED"
      [] answer = "odd" -> "ERROR"
      [] answer = "unreachable" -> "OFFLINE"
      [] OTHER -> old

WorkerDone(c) ==
    /\ pc[c] \in Answers
    /\ worker' = [worker EXCEPT ![on[c]] = NewState(pc[c], @)]
    /\ on' = [on EXCEPT ![c] = NoProfile]
    /\ pc' = [pc EXCEPT ![c] = "idle"]
    /\ UNCHANGED <<poolVars, status, registered, at, callVars, confirmed, open, touched>>

\* The desktop, a task or the user opens or closes the browser past its worker.
OthersTouch(p) ==
    /\ open' = [open EXCEPT ![p] = ~@]
    /\ touched' = [touched EXCEPT ![p] = TRUE]
    /\ UNCHANGED <<poolVars, status, registered, pc, at, callVars, confirmed, worker, on>>

-----------------------------------------------------------------------------
PoolThread(t) == PickUp(t) \/ Acquire(t) \/ Finish(t) \/ Store(t)

\* A thread goes on with the call it is in.
GoOn(c) == \/ Submit(c) \/ Register(c) \/ Return(c) \/ Confirm(c)
           \/ \E t \in Tasks : Collect(c, t)
           \/ BrowserStarts(c) \/ BrowserStops(c) \/ BrowserTells(c) \/ WorkerDone(c)

NewCall(c) == \/ \E S \in SUBSET Tasks : Begin(c, S)
              \/ \E t \in Tasks : Cancel(c, t)
              \/ \E p \in Driven : StartProfile(c, p) \/ StopProfile(c, p) \/ RefreshProfile(c, p)

Next == \/ \E t \in Tasks : PoolThread(t)
        \/ \E c \in Callers : GoOn(c) \/ NewCall(c)
        \/ \E p \in Driven : OthersTouch(p)

Spec == Init /\ [][Next]_vars

\* Threads run, executions have a timeout, browser calls too, and a thread that
\* waits for _lock gets it at last.  Nobody has to call.
Fairness == /\ \A t \in Tasks : WF_vars(PoolThread(t))
            /\ \A c \in Callers : WF_vars(GoOn(c)) /\ SF_vars(Register(c))

FairSpec == Spec /\ Fairness
-----------------------------------------------------------------------------
(* Properties. *)

Executing == {t \in Tasks : item[t] = "executing"}

Runner == INSTANCE ProfileRunner
              WITH running <- Executing, runs <- executions, refused <- confirmed, report <- reported

\* Across the pools of both threads a profile runs one task at a time, each task
\* at most once and never after STOP_TASK was answered with success, and a task is
\* reported when it has ended (the profile lock in _run_task, future.cancel()).
ImplementsProfileRunner == Runner!Spec

\* A task whose cancellation was confirmed was not and will not be executed, and
\* its caller is told CANCELLED or FAILED: FAILED when run_concurrent meets the
\* CancelledError after cancel_task has written the status.
CancelledIsNeverRun ==
    \A t \in confirmed : executions[t] = 0 /\ reported[t] \in {"none", "CANCELLED", "FAILED"}

\* What a caller is told of a task is final and is what the task store was given,
\* unless the task failed outside of its execution or was cancelled before it:
\* a RUNNING or a success without a record never reaches the outbox.
ReportIsTrue ==
    \A t \in Tasks : reported[t] # "none" =>
        /\ reported[t] \in Final
        /\ \/ reported[t] = logged[t]
           \/ reported[t] = "FAILED"
           \/ reported[t] = "CANCELLED" /\ executions[t] = 0

\* The inductive invariant, part one: who has submitted what.
CallHolds(c) ==
    /\ left[c] \subseteq batch[c]
    /\ pc[c] = "submit" => left[c] # {}
    /\ pc[c] = "collect" => left[c] = {}
    /\ pc[c] \notin {"submit", "register", "collect"} => batch[c] = {}
    /\ pc[c] = "register" => at[c] \in batch[c] \ left[c]
    /\ pc[c] = "cancel" => at[c] \in Tasks /\ item[at[c]] \in {"cancelled", "notified"}
    /\ \A t \in batch[c] : reported[t] = "none"
    /\ \A t \in batch[c] : t \in left[c] <=> item[t] = "none"

BatchesAreApart ==
    /\ \A c \in Callers : CallHolds(c)
    /\ \A c, d \in Callers : c # d => batch[c] \cap batch[d] = {}
    /\ \A t \in registered : item[t] # "none"
    /\ \A t \in collected : item[t] \in Ended
    /\ \A t \in Tasks : reported[t] # "none" => t \in collected
    /\ \A t \in Tasks : item[t] \in {"queued", "cancelled"} \cup Running
                            => \E c \in Callers : t \in batch[c]

\* Part two: the locks that are held are those of the executing tasks, one each.
LocksAreHeld ==
    /\ locked = {ProfileOf[t] : t \in Executing}
    /\ \A t, u \in Executing : ProfileOf[t] = ProfileOf[u] => t = u

\* Part three: the status of a task fits the place of its work item.
StatusFits(t) ==
    /\ item[t] \in {"none", "queued"} => status[t] = "PENDING"
    /\ item[t] = "cancelled" => status[t] \in {"PENDING", "CANCELLED"}
    /\ item[t] \in {"waiting", "executing"} => status[t] = "RUNNING"
    /\ item[t] \in {"storing", "finished", "raised"} => status[t] \in Final
    /\ item[t] = "raised" /\ t \in collected => status[t] = "FAILED"
    /\ item[t] = "notified" => status[t] \in {"PENDING", "CANCELLED", "FAILED"}
    /\ item[t] = "notified" /\ t \in collected => status[t] \in {"CANCELLED", "FAILED"}
    /\ executions[t] = IF item[t] \in {"executing", "storing", "finished", "raised"} THEN 1 ELSE 0
    /\ item[t] = "finished" => logged[t] = status[t]
    /\ item[t] \notin {"finished", "raised"} => logged[t] = "none"

StatusesFit == \A t \in Tasks : StatusFits(t)

\* Part four: a confirmed cancellation has reached the pool, or will.
ConfirmedAreOut == \A t \in confirmed : item[t] \in {"cancelled", "notified"}

\* Together with the types and the reports the parts are inductive: no lock is
\* leaked, no task is in two batches, and what is reported is over.
ManagerInv == /\ TypeOK /\ BatchesAreApart /\ LocksAreHeld /\ StatusesFit /\ ConfirmedAreOut
              /\ CancelledIsNeverRun /\ ReportIsTrue

StateIsTrue(p) == ~touched[p] => /\ worker[p] = "IDLE" => open[p]
                                 /\ worker[p] = "STOPPED" => ~open[p]

\* A profile worker says IDLE or STOPPED truly, unless others have opened or
\* closed the browser since it was told: two threads that start, stop and refresh
\* one profile never leave it with the state of the call that lost.
WorkerTellsTheTruth == \A p \in Driven : WorkerFree(p) => StateIsTrue(p)

\* What the thread that holds a worker was told is still so, unless others have
\* touched the browser meanwhile.
AnswerIsTrue(c) ==
    LET p == on[c] IN
    ~touched[p] => /\ pc[c] = "up" => open[p]
                   /\ pc[c] = "down" => ~open[p]
                   /\ pc[c] \in {"refreshing", "silent"} => StateIsTrue(p)

\* The inductive invariant of the profile workers, given the types.
WorkersInv ==
    /\ \A c \in Callers : on[c] \in Driven <=> pc[c] \in Asking \cup Answers
    /\ \A c, d \in Callers : on[c] \in Driven /\ on[c] = on[d] => c = d
    /\ \A c \in Callers : on[c] \in Driven => AnswerIsTrue(c)
    /\ WorkerTellsTheTruth

\* Every call a thread is in comes to an end, however the pools of both threads
\* wait for the same profiles, and whatever is cancelled.
EveryCallReturns == \A c \in Callers : pc[c] # "idle" ~> pc[c] = "idle"
=============================================================================
