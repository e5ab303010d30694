--------------------------- MODULE AutomationRuns ---------------------------
(***************************************************************************)
(* The automation of one browser profile in the desktop controller           *)
(* (desktop/controller.py): the run state that reserves the profile, the     *)
(* start of a run, its engine thread and completion callback, the persistent *)
(* schedule with its timer and watchdog, pause, resume and cancel, and the   *)
(* risk the safety store keeps of the account (agent/automation_safety.py).  *)
(*                                                                         *)
(* Every call runs on a thread of its own and takes a lock only for single   *)
(* steps; each step here is one critical section, one write of a store or    *)
(* one external call.  Other profiles only share the browser start lock and  *)
(* the executor, so one profile is modelled.                                 *)
(***************************************************************************)
EXTENDS Naturals, FiniteSets

CONSTANTS Users,      \* threads of the GUI and of remote commands
          Workers,    \* threads of timers, of the watchdog and of what it submits
          Runs,       \* run ids; one nobody refers to any more is used again
          NoRun,
          Types,      \* schedule types in use, of "once" and "daily"
          MaxTries,   \* start attempts of one execution (max_start_retries)
          MaxRounds   \* postponed rounds after failed starts

Threads == Users \cup Workers

ASSUME AutomationAssumption ==
    /\ Users \cap Workers = {}
    /\ NoRun \notin Runs
    /\ Types \subseteq {"once", "daily"} /\ Types # {}
    /\ MaxTries \in Nat \ {0} /\ MaxRounds \in Nat

VARIABLES
    slot,       \* the run in _RUN_STATES, or NoRun
    fut,        \* where the engine of each run stands
    guards,     \* runs whose RunState has its AutomationRunGuard
    cancelled, paused,        \* runs whose guard events are set
    risk,       \* status in automation_safety_risks
    challenge,  \* a challenge was reported, and nobody has dealt with it (ghost)
    mode, type, status,       \* schedule_mode, schedule_type, schedule_status
    due,        \* schedule_next_run has passed
    rounds,     \* _schedule_fail_count
    timer,      \* the entry in _scheduled_timers and _scheduled_tokens
    fresh,      \* threads of fired timers whose token is still the current one
    pc, own, cap, tries  \* the threads: step, run, config, attempt of an execution

runVars      == <<slot, fut, guards, cancelled, paused>>
riskVars     == <<risk, challenge>>
configVars   == <<mode, type, status, due, rounds>>
scheduleVars == <<configVars, timer, fresh>>
threadVars   == <<pc, own, cap, tries>>
vars == <<runVars, riskVars, scheduleVars, threadVars>>

Waiting  == {"WAITING", "DELAYED"}
Statuses == {"", "TRIGGERING", "TRIGGERED", "FAILED", "MISSED", "CANCELLED", "REPLACED"} \cup Waiting
Steps    == {"idle", "replace", "arm", "cancel", "pause", "resume",
             "due", "seen", "execute", "reserve", "begin", "guard", "browser", "started", "failed"}
Captured == [type : {"once", "daily"}, rounds : Nat]
NoConfig == [type |-> "once", rounds |-> 0]

RunTypes ==
    /\ slot \in Runs \cup {NoRun}
    /\ fut \in [Runs -> {"none", "queued", "running", "done", "proxy", "recorded"}]
    /\ guards \in SUBSET Runs /\ cancelled \in SUBSET Runs /\ paused \in SUBSET Runs
    /\ risk \in {"READY", "PAUSED", "CANCELLED", "CHALLENGE"}
    /\ challenge \in BOOLEAN

ScheduleTypes ==
    /\ mode \in {"immediate", "scheduled"} /\ type \in {"once", "daily"} /\ status \in Statuses
    /\ due \in BOOLEAN /\ rounds \in Nat
    /\ timer \in {"none", "armed", "fired"} /\ fresh \in SUBSET Workers

ThreadTypes ==
    /\ pc \in [Threads -> Steps]
    /\ own \in [Threads -> Runs \cup {NoRun}]
    /\ cap \in [Threads -> Captured]
    /\ tries \in [Threads -> Nat]

TypeOK == RunTypes /\ ScheduleTypes /\ ThreadTypes

Init ==
    /\ slot = NoRun
    /\ fut = [r \in Runs |-> "none"]
    /\ guards = {} /\ cancelled = {} /\ paused = {}
    /\ risk = "READY" /\ challenge = FALSE
    /\ mode = "immediate" /\ type = "once" /\ status = ""
    /\ due = FALSE /\ rounds = 0
    /\ timer = "none" /\ fresh = {}
    /\ pc = [t \in Threads |-> "idle"]
    /\ own = [t \in Threads |-> NoRun]
    /\ cap = [t \in Threads |-> NoConfig]
    /\ tries = [t \in Threads |-> 0]

Goto(t, step) == pc' = [pc EXCEPT ![t] = step]

\* The thread executes the schedule; otherwise it serves a user's call.
Scheduled(t) == tries[t] > 0

\* A thread that ends forgets its run, its config and its attempts.
Return(t) == /\ Goto(t, "idle")
             /\ own' = [own EXCEPT ![t] = NoRun]
             /\ cap' = [cap EXCEPT ![t] = NoConfig]
             /\ tries' = [tries EXCEPT ![t] = 0]

-----------------------------------------------------------------------------
(* The schedule. *)

\* _arm_scheduled_timer writes the whole config it was given, the mode included.
Arm(config, s) ==
    /\ timer' = "armed" /\ fresh' = {}
    /\ mode' = "scheduled" /\ type' = config.type /\ rounds' = config.rounds
    /\ status' = s /\ due' = FALSE

Disarm == timer' = "none" /\ fresh' = {} /\ due' = FALSE

\* Mutant of CancelSchedule: the pending timer is dropped, the status is not.
DropTimerOnly(s) == Disarm /\ UNCHANGED <<mode, type, status, rounds>>

\* _cancel_scheduled_task
CancelSchedule(s) ==
    /\ Disarm
    /\ status' = IF timer # "none" \/ status \in Waiting \cup {"TRIGGERING"} THEN s ELSE status
    /\ UNCHANGED <<mode, type, rounds>>

ClockReaches ==
    /\ timer # "none" /\ ~due
    /\ due' = TRUE
    /\ UNCHANGED <<runVars, riskVars, mode, type, status, rounds, timer, fresh, threadVars>>

TimerFires(t) ==
    /\ pc[t] = "idle" /\ timer = "armed" /\ due
    /\ timer' = "fired" /\ fresh' = {t}
    /\ Goto(t, "due")
    /\ UNCHANGED <<runVars, riskVars, configVars, own, cap, tries>>

\* check_scheduled_tasks_tick: what it sees here it acts on later.
WatchdogSees(t) ==
    /\ pc[t] = "idle"
    /\ mode = "scheduled" /\ status \in Waiting /\ due /\ slot = NoRun
    /\ Goto(t, "seen")
    /\ UNCHANGED <<runVars, riskVars, scheduleVars, own, cap, tries>>

\* The token of a timer must be the current one; the watchdog has none.
MayClaim(t) == /\ pc[t] = "due" => t \in fresh
               /\ mode = "scheduled" /\ status # "TRIGGERING"

ClaimExecution(t) ==
    /\ pc[t] \in {"due", "seen"}
    /\ IF MayClaim(t)
       THEN /\ Disarm
            /\ status' = "TRIGGERING"
            /\ Goto(t, "execute")
            /\ cap' = [cap EXCEPT ![t] = [type |-> type, rounds |-> rounds]]
            /\ tries' = [tries EXCEPT ![t] = 1]
            /\ UNCHANGED own
       ELSE /\ Return(t)
            /\ fresh' = fresh \ {t}
            /\ UNCHANGED <<status, timer, due>>
    /\ UNCHANGED <<runVars, riskVars, mode, type, rounds>>

Postpone(t, config) == Arm(config, "DELAYED") /\ Return(t)

\* Mutant of Execute: a busy profile ends the execution without a new timer.
ExecuteGivesUp(t) ==
    /\ pc[t] = "execute"
    /\ IF slot # NoRun THEN Return(t) ELSE Goto(t, "reserve") /\ UNCHANGED <<own, cap, tries>>
    /\ UNCHANGED <<runVars, riskVars, scheduleVars>>

\* A busy profile delays the execution; without the capability it fails.
Execute(t) ==
    /\ pc[t] = "execute"
    /\ \/ slot # NoRun /\ Postpone(t, cap[t])
       \/ /\ slot = NoRun
          /\ Goto(t, "reserve")
          /\ UNCHANGED <<scheduleVars, own, cap, tries>>
       \/ /\ slot = NoRun
          /\ status' = "FAILED" /\ Return(t)
          /\ UNCHANGED <<mode, type, due, rounds, timer, fresh>>
    /\ UNCHANGED <<runVars, riskVars>>

\* After a start, or one the safety store refused: the next day, or never again.
ExecutionStarted(t) ==
    /\ pc[t] = "started"
    /\ IF cap[t].type = "daily"
       THEN Arm(cap[t], "WAITING")
       ELSE status' = "TRIGGERED" /\ UNCHANGED <<mode, type, due, rounds, timer, fresh>>
    /\ Return(t)
    /\ UNCHANGED <<runVars, riskVars>>

\* No attempt succeeded: another round in a minute, a limited number of times.
ExecutionFailed(t) ==
    /\ pc[t] = "failed"
    /\ LET next == [type |-> cap[t].type, rounds |-> cap[t].rounds + 1]
       IN IF next.rounds <= MaxRounds THEN Arm(next, "DELAYED")
          ELSE IF next.type = "daily"
               THEN Arm([type |-> "daily", rounds |-> MaxRounds + 1], "WAITING")
               ELSE status' = "FAILED" /\ UNCHANGED <<mode, type, due, rounds, timer, fresh>>
    /\ Return(t)
    /\ UNCHANGED <<runVars, riskVars>>

UserCancelsSchedule ==
    /\ CancelSchedule("CANCELLED")
    /\ UNCHANGED <<runVars, riskVars, threadVars>>

\* start_automation_task saves the new config first, then arms or starts.
UserSchedules(t) ==
    /\ pc[t] = "idle"
    /\ \E ty \in Types : /\ type' = ty
                         /\ cap' = [cap EXCEPT ![t] = [type |-> ty, rounds |-> 0]]
    /\ mode' = "scheduled"
    /\ Goto(t, "arm")
    /\ UNCHANGED <<runVars, riskVars, status, due, rounds, timer, fresh, own, tries>>

UserArms(t) ==
    /\ pc[t] = "arm"
    /\ Arm([type |-> cap[t].type, rounds |-> rounds], "WAITING")
    /\ Return(t)
    /\ UNCHANGED <<runVars, riskVars>>

UserStarts(t) ==
    /\ pc[t] = "idle"
    /\ mode' = "immediate"
    /\ Goto(t, "replace")
    /\ UNCHANGED <<runVars, riskVars, type, status, due, rounds, timer, fresh, own, cap, tries>>

ReplaceSchedule(t) ==
    /\ pc[t] = "replace"
    /\ CancelSchedule("REPLACED")
    /\ Goto(t, "reserve")
    /\ UNCHANGED <<runVars, riskVars, own, cap, tries>>

-----------------------------------------------------------------------------
(* The start of a run. *)

Unused(r) == fut[r] = "none" /\ r # slot /\ \A t \in Threads : own[t] # r

\* Mutant of Reserve: nobody looks whether the profile is busy.
ReserveUnchecked(t) ==
    /\ pc[t] = "reserve"
    /\ \E r \in Runs : /\ Unused(r)
                       /\ slot' = r
                       /\ own' = [own EXCEPT ![t] = r]
    /\ Goto(t, "begin")
    /\ UNCHANGED <<fut, guards, cancelled, paused, scheduleVars, cap, tries, riskVars>>

\* The first critical section of _start_automation_now.
Reserve(t) ==
    /\ pc[t] = "reserve"
    /\ IF slot # NoRun
       THEN /\ IF Scheduled(t) THEN Postpone(t, cap[t])
                                      ELSE Return(t) /\ UNCHANGED scheduleVars
            /\ UNCHANGED runVars
       ELSE /\ \E r \in Runs : /\ Unused(r)
                               /\ slot' = r
                               /\ own' = [own EXCEPT ![t] = r]
            /\ Goto(t, "begin")
            /\ UNCHANGED <<fut, guards, cancelled, paused, scheduleVars, cap, tries>>
    /\ UNCHANGED riskVars

\* A RunState, and its guard, lives as long as the slot or a thread refers to it.
ForgetGuards == guards' = {r \in guards : slot' = r \/ \E t \in Threads : own'[t] = r}

\* _clear_automation_state, by the thread that reserved the profile.
Release(r) == slot' = IF slot = r THEN NoRun ELSE slot

\* What the caller of _start_automation_now does next.
Continue(t, step) ==
    IF Scheduled(t)
    THEN /\ Goto(t, step)
         /\ own' = [own EXCEPT ![t] = NoRun]
         /\ UNCHANGED <<cap, tries>>
    ELSE Return(t)

\* Mutant of BeginRun: a challenge does not stop the account.
BeginRunIfNotPaused(t) ==
    /\ pc[t] = "begin"
    /\ IF risk = "PAUSED"
       THEN Release(own[t]) /\ Continue(t, "started") /\ ForgetGuards
       ELSE Goto(t, "guard") /\ UNCHANGED <<slot, guards, own, cap, tries>>
    /\ UNCHANGED <<fut, cancelled, paused, riskVars, scheduleVars>>

\* AutomationSafetyStore.begin_run
BeginRun(t) ==
    /\ pc[t] = "begin"
    /\ IF risk \in {"PAUSED", "CHALLENGE"}
       THEN Release(own[t]) /\ Continue(t, "started") /\ ForgetGuards
       ELSE Goto(t, "guard") /\ UNCHANGED <<slot, guards, own, cap, tries>>
    /\ UNCHANGED <<fut, cancelled, paused, riskVars, scheduleVars>>

SetGuard(t) ==
    /\ pc[t] = "guard"
    /\ guards' = guards \cup {own[t]}
    /\ Goto(t, "browser")
    /\ UNCHANGED <<slot, fut, cancelled, paused, riskVars, scheduleVars, own, cap, tries>>

\* The browser is up: the engine goes to the executor, cancelled meanwhile or not.
Submit(t) ==
    /\ pc[t] = "browser"
    /\ fut' = [fut EXCEPT ![own[t]] = "queued"]
    /\ Continue(t, "started")
    /\ UNCHANGED <<slot, guards, cancelled, paused, riskVars, scheduleVars>>

\* Mutant of StartFails: the reservation outlives the failed start.
StartFailsHolding(t) ==
    /\ pc[t] \in {"begin", "browser"}
    /\ Continue(t, "failed")
    /\ UNCHANGED <<runVars, riskVars, scheduleVars>>

\* The store, the engine's download, the browser or its CDP endpoint fails.
StartFails(t) ==
    /\ pc[t] \in {"begin", "browser"}
    /\ Release(own[t])
    /\ IF Scheduled(t) /\ tries[t] < MaxTries
       THEN /\ Goto(t, "reserve")
            /\ own' = [own EXCEPT ![t] = NoRun]
            /\ tries' = [tries EXCEPT ![t] = @ + 1]
            /\ UNCHANGED cap
       ELSE Continue(t, "failed")
    /\ ForgetGuards
    /\ cancelled' = cancelled \ {own[t]} /\ paused' = paused \ {own[t]}
    /\ UNCHANGED <<fut, riskVars, scheduleVars>>

-----------------------------------------------------------------------------
(* The engine's thread and the completion callback, which runs on it. *)

EngineBegins(r) ==
    /\ fut[r] = "queued"
    /\ fut' = [fut EXCEPT ![r] = "running"]
    /\ UNCHANGED <<slot, guards, cancelled, paused, riskVars, scheduleVars, threadVars>>

EngineEnds(r) ==
    /\ fut[r] = "running"
    /\ fut' = [fut EXCEPT ![r] = "done"]
    /\ UNCHANGED <<slot, guards, cancelled, paused, riskVars, scheduleVars, threadVars>>

\* record_result: a challenge, a lost proxy, or any other result.  An error of the
\* store is logged, and a challenge is then not kept.
RecordResult(r) ==
    /\ fut[r] = "done"
    /\ \/ fut' = [fut EXCEPT ![r] = "recorded"] /\ UNCHANGED riskVars
       \/ fut' = [fut EXCEPT ![r] = "proxy"] /\ UNCHANGED riskVars
       \/ /\ fut' = [fut EXCEPT ![r] = "recorded"]
          /\ risk' = "CHALLENGE" /\ challenge' = TRUE
    /\ UNCHANGED <<slot, guards, cancelled, paused, scheduleVars, threadVars>>

\* A lost proxy: the callback calls stop_profile, which cancels run and schedule.
ProxyStops(r) ==
    /\ fut[r] = "proxy"
    /\ fut' = [fut EXCEPT ![r] = "recorded"]
    /\ cancelled' = cancelled \cup {r}
    /\ risk' = "CANCELLED" /\ challenge' = FALSE
    /\ CancelSchedule("CANCELLED")
    /\ UNCHANGED <<slot, guards, paused, threadVars>>

\* Metrics, profile refresh and messages are done: the profile is free.
RunEnds(r) ==
    /\ fut[r] = "recorded"
    /\ fut' = [fut EXCEPT ![r] = "none"]
    /\ cancelled' = cancelled \ {r} /\ paused' = paused \ {r}
    /\ Release(r)
    /\ UNCHANGED <<riskVars, scheduleVars, threadVars>>
    /\ ForgetGuards

-----------------------------------------------------------------------------
(* Cancel, pause and resume: first the guard, later the store. *)

Guarded == slot \in guards

\* Mutant of UserCancels: the profile is free before its engine has ended.
UserCancelsFreeing(t) ==
    /\ pc[t] = "idle" /\ slot # NoRun
    /\ slot' = NoRun
    /\ Goto(t, "cancel")
    /\ own' = [own EXCEPT ![t] = slot]
    /\ UNCHANGED <<fut, guards, cancelled, paused, riskVars, scheduleVars, cap, tries>>

\* A queued engine is cancelled with its callback; one that has begun sees its guard.
UserCancels(t) ==
    /\ pc[t] = "idle" /\ slot # NoRun
    /\ IF fut[slot] = "queued"
       THEN /\ fut' = [fut EXCEPT ![slot] = "none"]
            /\ slot' = NoRun
            /\ cancelled' = cancelled \ {slot} /\ paused' = paused \ {slot}
       ELSE /\ cancelled' = IF Guarded THEN cancelled \cup {slot} ELSE cancelled
            /\ UNCHANGED <<slot, fut, paused>>
    /\ Goto(t, "cancel")
    /\ own' = [own EXCEPT ![t] = slot]
    /\ UNCHANGED <<guards, riskVars, scheduleVars, cap, tries>>

\* The guard is looked at again, outside the lock.
CancelIsStored(t) ==
    /\ pc[t] = "cancel"
    /\ IF own[t] \in guards THEN risk' = "CANCELLED" /\ challenge' = FALSE
                            ELSE UNCHANGED riskVars
    /\ Return(t)
    /\ UNCHANGED <<slot, fut, cancelled, paused, scheduleVars>>
    /\ ForgetGuards

UserPauses(t) ==
    /\ pc[t] = "idle"
    /\ paused' = IF Guarded THEN paused \cup {slot} ELSE paused
    /\ Goto(t, "pause")
    /\ UNCHANGED <<slot, fut, guards, cancelled, riskVars, scheduleVars, own, cap, tries>>

PauseIsStored(t) ==
    /\ pc[t] = "pause"
    /\ risk' = "PAUSED"
    /\ Return(t)
    /\ UNCHANGED <<runVars, challenge, scheduleVars>>

UserResumes(t) ==
    /\ pc[t] = "idle"
    /\ paused' = paused \ {slot}
    /\ Goto(t, "resume")
    /\ UNCHANGED <<slot, fut, guards, cancelled, riskVars, scheduleVars, own, cap, tries>>

ResumeIsStored(t) ==
    /\ pc[t] = "resume"
    /\ risk' = "READY" /\ challenge' = FALSE
    /\ Return(t)
    /\ UNCHANGED <<runVars, scheduleVars>>

-----------------------------------------------------------------------------
\* The application ends and starts again: threads and memory are gone, the config
\* file and the safety store stay, and _restore_scheduled_tasks reads the schedule:
\* a "once" schedule whose time has passed meanwhile is missed.
Restorable == /\ mode = "scheduled" /\ status \notin {"CANCELLED", "REPLACED"}
              /\ type = "once" => status \notin {"TRIGGERED", "FAILED", "MISSED"}

Restart ==
    /\ slot' = NoRun
    /\ fut' = [r \in Runs |-> "none"]
    /\ guards' = {} /\ cancelled' = {} /\ paused' = {}
    /\ pc' = [t \in Threads |-> "idle"]
    /\ own' = [t \in Threads |-> NoRun] /\ cap' = [t \in Threads |-> NoConfig]
    /\ tries' = [t \in Threads |-> 0]
    /\ \/ Restorable /\ Arm([type |-> type, rounds |-> rounds], "WAITING")
       \/ /\ Disarm
          /\ \/ ~Restorable /\ UNCHANGED status
             \/ Restorable /\ type = "once" /\ status' = "MISSED"
          /\ UNCHANGED <<mode, type, rounds>>
    /\ UNCHANGED riskVars

-----------------------------------------------------------------------------
Scheduler(t) == ClaimExecution(t) \/ Execute(t) \/ ExecutionStarted(t) \/ ExecutionFailed(t)

Start(t) == \/ ReplaceSchedule(t) \/ UserArms(t)
            \/ Reserve(t) \/ BeginRun(t) \/ SetGuard(t) \/ Submit(t) \/ StartFails(t)

Store(t) == CancelIsStored(t) \/ PauseIsStored(t) \/ ResumeIsStored(t)

Engine(r) == EngineBegins(r) \/ EngineEnds(r) \/ RecordResult(r) \/ ProxyStops(r) \/ RunEnds(r)

User(t) == UserSchedules(t) \/ UserStarts(t) \/ UserCancels(t) \/ UserPauses(t) \/ UserResumes(t)

Next == \/ \E t \in Threads : Scheduler(t) \/ Start(t) \/ Store(t)
        \/ \E t \in Users : User(t)
        \/ \E t \in Workers : TimerFires(t) \/ WatchdogSees(t)
        \/ \E r \in Runs : Engine(r)
        \/ UserCancelsSchedule \/ ClockReaches \/ Restart

Spec == Init /\ [][Next]_vars

\* A paused engine waits in _check_run_control until it is resumed or cancelled.
Unheld(r) == r \in paused => r \in cancelled

\* Threads go on, engines end unless they are paused, time passes, and the timer
\* and the GUI's tick always find a thread.  Users and restarts owe nothing.
Fairness ==
    /\ \A t \in Threads : WF_vars(Scheduler(t) \/ Start(t) \/ Store(t))
    /\ \A r \in Runs : WF_vars(Engine(r) /\ (fut[r] = "running" => Unheld(r)))
    /\ SF_vars(\E t \in Workers : TimerFires(t))
    /\ SF_vars(\E t \in Workers : WatchdogSees(t))
    /\ WF_vars(ClockReaches)

FairSpec == Spec /\ Fairness

-----------------------------------------------------------------------------
(* Properties. *)

\* A thread that has reserved the profile and not yet submitted its engine.
Starting == {"begin", "guard", "browser"}

Engines == {r \in Runs : fut[r] \in {"queued", "running"}}

Slot == INSTANCE ProfileSlot WITH holder <- slot, engines <- Engines

\* Whichever of the GUI, a remote command, the timer and the watchdog start it, and
\* wherever a start fails or the application restarts, one run at a time holds the
\* profile and no engine outlives its hold.
ImplementsProfileSlot == Slot!Spec

\* The inductive invariant: what a run is doing is known from who holds the slot,
\* and a guard belongs to a run that somebody still refers to.
EnginesHold == \A r \in Runs : fut[r] # "none" => slot = r /\ r \in guards
StartersHold ==
    \A t \in Threads : pc[t] \in Starting =>
        /\ own[t] = slot /\ slot # NoRun /\ fut[slot] = "none"
        /\ slot \in guards <=> pc[t] = "browser"
OneStarter == \A t, u \in Threads : pc[t] \in Starting /\ pc[u] \in Starting => t = u
OwnersAct == \A t \in Threads : own[t] # NoRun => pc[t] \in Starting \cup {"cancel"}
GuardsAreReferred == \A r \in guards : slot = r \/ \E t \in Threads : own[t] = r
EventsAreGuarded == cancelled \cup paused \subseteq {slot} \cap guards

RunsInv == /\ EnginesHold /\ StartersHold /\ OneStarter
           /\ OwnersAct /\ GuardsAreReferred /\ EventsAreGuarded

AutomationInv == TypeOK /\ RunsInv

\* While a challenge is not dealt with (by a resume or a cancellation) no engine
\* works on the account and no start has got past the check of the safety store:
\* not the schedule's, nor one that was reserved before the challenge was stored.
ChallengeStopsEngines ==
    challenge => /\ risk \in {"CHALLENGE", "PAUSED"}
                 /\ Engines = {}
                 /\ \A t \in Threads : pc[t] \notin {"guard", "browser"}

\* A schedule that is shown as waiting has a timer, after every interleaving of
\* claims, cancellations, replacements and restarts, or is about to get one.
WaitingIsArmed ==
    mode = "scheduled" /\ status \in Waiting =>
        timer # "none" \/ \E t \in Users : pc[t] = "arm"

\* The profile is always given back, unless the run is paused.
RunsAreReleased == slot # NoRun ~> (slot = NoRun \/ paused # {})

\* A schedule that is due is decided: a thread takes it, and whatever the start runs
\* into, the schedule is started, put off, failed, cancelled or replaced; the status
\* never stays behind as due or as TRIGGERING.
Undecided == mode = "scheduled" /\ (status = "TRIGGERING" \/ (status \in Waiting /\ due))
DueIsDecided == Undecided ~> ~Undecided
=============================================================================
