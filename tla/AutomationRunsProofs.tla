------------------------ MODULE AutomationRunsProofs ------------------------
(***************************************************************************)
(* Proofs about AutomationRuns, for any threads, runs, retries and rounds.    *)
(***************************************************************************)
EXTENDS AutomationRuns, TLAPS

USE AutomationAssumption DEF vars, runVars, riskVars, configVars, scheduleVars, threadVars

-----------------------------------------------------------------------------
(* Types. *)

LEMMA GotoType ==
    ASSUME ThreadTypes, NEW t \in Threads, NEW step \in Steps, Goto(t, step),
           UNCHANGED <<own, cap, tries>>
    PROVE  ThreadTypes'
  BY DEF ThreadTypes, Goto

LEMMA ReturnType ==
    ASSUME ThreadTypes, NEW t \in Threads, Return(t)
    PROVE  ThreadTypes'
<1>1. NoConfig \in Captured
  BY DEF NoConfig, Captured
<1>2. "idle" \in Steps
  BY DEF Steps
<1>3. QED
  BY <1>1, <1>2 DEF ThreadTypes, Return, Goto

LEMMA ContinueType ==
    ASSUME ThreadTypes, NEW t \in Threads, NEW step \in Steps, Continue(t, step)
    PROVE  ThreadTypes'
<1>1. CASE Scheduled(t)
  BY <1>1 DEF ThreadTypes, Continue, Goto
<1>2. CASE ~Scheduled(t)
  BY <1>2, ReturnType DEF Continue
<1>3. QED
  BY <1>1, <1>2

LEMMA ArmType ==
    ASSUME ScheduleTypes, NEW config \in Captured, NEW s \in Statuses, Arm(config, s)
    PROVE  ScheduleTypes'
  BY DEF ScheduleTypes, Arm, Captured

LEMMA CancelType ==
    ASSUME ScheduleTypes, NEW s \in Statuses, CancelSchedule(s)
    PROVE  ScheduleTypes'
  BY DEF ScheduleTypes, CancelSchedule, Disarm

LEMMA Constants ==
    /\ Waiting \subseteq Statuses
    /\ \A s \in {"TRIGGERING", "TRIGGERED", "FAILED", "MISSED", "CANCELLED", "REPLACED", "WAITING", "DELAYED"} :
           s \in Statuses
    /\ Starting \subseteq Steps
    /\ \A s \in {"idle", "replace", "arm", "cancel", "pause", "resume", "due", "seen",
                  "execute", "reserve", "begin", "guard", "browser", "started", "failed"} : s \in Steps
    /\ \A ty \in {"once", "daily"}, n \in Nat : [type |-> ty, rounds |-> n] \in Captured
  BY DEF Waiting, Statuses, Starting, Steps, Captured

LEMMA CapturedType ==
    ASSUME ThreadTypes, NEW t \in Threads
    PROVE  /\ cap[t] \in Captured
           /\ cap[t].type \in {"once", "daily"} /\ cap[t].rounds \in Nat
           /\ own[t] \in Runs \cup {NoRun} /\ tries[t] \in Nat /\ pc[t] \in Steps
  BY DEF ThreadTypes, Captured

LEMMA RunOwned ==
    ASSUME TypeOK, RunsInv, NEW t \in Threads, pc[t] \in Starting
    PROVE  own[t] \in Runs /\ own[t] = slot /\ fut[slot] = "none"
  BY DEF TypeOK, RunTypes, RunsInv, StartersHold

LEMMA TypeStep ==
    ASSUME TypeOK, RunsInv, [Next]_vars
    PROVE  TypeOK'
<1>t. TypeOK /\ RunsInv /\ RunTypes /\ ScheduleTypes /\ ThreadTypes
  BY DEF TypeOK
<1>1. ASSUME NEW w \in Workers, TimerFires(w) PROVE TypeOK'
  <2>0. TimerFires(w) /\ w \in Threads
    BY <1>1 DEF Threads
  <2>1. RunTypes'
    BY <2>0, <1>t DEF TimerFires, RunTypes
  <2>2. ScheduleTypes'
    BY <2>0, <1>t DEF TimerFires, ScheduleTypes
  <2>3. ThreadTypes'
    BY <2>0, <1>t, Constants, GotoType DEF TimerFires
  <2>4. QED
    BY <2>1, <2>2, <2>3 DEF TypeOK
<1>2. ASSUME NEW w \in Workers, WatchdogSees(w) PROVE TypeOK'
  <2>0. WatchdogSees(w) /\ w \in Threads
    BY <1>2 DEF Threads
  <2>1. RunTypes'
    BY <2>0, <1>t DEF WatchdogSees, RunTypes
  <2>2. ScheduleTypes'
    BY <2>0, <1>t DEF WatchdogSees, ScheduleTypes
  <2>3. ThreadTypes'
    BY <2>0, <1>t, Constants, GotoType DEF WatchdogSees
  <2>4. QED
    BY <2>1, <2>2, <2>3 DEF TypeOK
<1>3. ASSUME NEW t \in Threads, ClaimExecution(t) PROVE TypeOK'
  <2>0. ClaimExecution(t)
    BY <1>3
  <2>1. RunTypes'
    BY <2>0, <1>t DEF ClaimExecution, RunTypes
  <2>2. ScheduleTypes'
    <3>1. CASE MayClaim(t)
      BY <2>0, <3>1, <1>t, Constants DEF ClaimExecution, Disarm, ScheduleTypes
    <3>2. CASE ~MayClaim(t)
      BY <2>0, <3>2, <1>t DEF ClaimExecution, ScheduleTypes
    <3>3. QED
      BY <3>1, <3>2
  <2>3. ThreadTypes'
    <3>1. CASE MayClaim(t)
      <4>1. [type |-> type, rounds |-> rounds] \in Captured
        BY <1>t, Constants DEF ScheduleTypes
      <4>2. QED
        BY <2>0, <3>1, <4>1, <1>t, Constants DEF ClaimExecution, Goto, ThreadTypes
    <3>2. CASE ~MayClaim(t)
      BY <2>0, <3>2, <1>t, ReturnType DEF ClaimExecution
    <3>3. QED
      BY <3>1, <3>2
  <2>4. QED
    BY <2>1, <2>2, <2>3 DEF TypeOK
<1>4. ASSUME NEW t \in Threads, Execute(t) PROVE TypeOK'
  <2>0. Execute(t)
    BY <1>4
  <2>1. RunTypes'
    BY <2>0, <1>t DEF Execute, RunTypes
  <2>2. ScheduleTypes'
    <3>1. CASE slot # NoRun /\ Postpone(t, cap[t])
      BY <3>1, <1>t, Constants, CapturedType, ArmType DEF Postpone
    <3>2. CASE UNCHANGED scheduleVars
      BY <3>2, <1>t DEF ScheduleTypes
    <3>3. CASE status' = "FAILED" /\ UNCHANGED <<mode, type, due, rounds, timer, fresh>>
      BY <3>3, <1>t, Constants DEF ScheduleTypes
    <3>4. QED
      BY <2>0, <3>1, <3>2, <3>3 DEF Execute
  <2>3. ThreadTypes'
    <3>1. CASE Return(t)
      BY <3>1, <1>t, ReturnType
    <3>2. CASE Goto(t, "reserve") /\ UNCHANGED <<own, cap, tries>>
      BY <3>2, <1>t, Constants, GotoType
    <3>3. QED
      BY <2>0, <3>1, <3>2 DEF Execute, Postpone
  <2>4. QED
    BY <2>1, <2>2, <2>3 DEF TypeOK
<1>5. ASSUME NEW t \in Threads, ExecutionStarted(t) PROVE TypeOK'
  <2>0. ExecutionStarted(t)
    BY <1>5
  <2>1. RunTypes'
    BY <2>0, <1>t DEF ExecutionStarted, RunTypes
  <2>2. ScheduleTypes'
    <3>1. CASE cap[t].type = "daily"
      BY <2>0, <3>1, <1>t, Constants, CapturedType, ArmType DEF ExecutionStarted
    <3>2. CASE cap[t].type # "daily"
      BY <2>0, <3>2, <1>t, Constants DEF ExecutionStarted, ScheduleTypes
    <3>3. QED
      BY <3>1, <3>2
  <2>3. ThreadTypes'
    BY <2>0, <1>t, ReturnType DEF ExecutionStarted
  <2>4. QED
    BY <2>1, <2>2, <2>3 DEF TypeOK
<1>6. ASSUME NEW t \in Threads, ExecutionFailed(t) PROVE TypeOK'
  <2>0. ExecutionFailed(t)
    BY <1>6
  <2>1. RunTypes'
    BY <2>0, <1>t DEF ExecutionFailed, RunTypes
  <2>2. ScheduleTypes'
    <3>. DEFINE next == [type |-> cap[t].type, rounds |-> cap[t].rounds + 1]
    <3>1. next \in Captured /\ [type |-> "daily", rounds |-> MaxRounds + 1] \in Captured
      BY <1>t, Constants, CapturedType
    <3>2. CASE Arm(next, "DELAYED")
      BY <3>1, <3>2, <1>t, Constants, ArmType
    <3>3. CASE Arm([type |-> "daily", rounds |-> MaxRounds + 1], "WAITING")
      BY <3>1, <3>3, <1>t, Constants, ArmType
    <3>4. CASE status' = "FAILED" /\ UNCHANGED <<mode, type, due, rounds, timer, fresh>>
      BY <3>4, <1>t, Constants DEF ScheduleTypes
    <3>5. QED
      BY <2>0, <3>2, <3>3, <3>4 DEF ExecutionFailed
  <2>3. ThreadTypes'
    BY <2>0, <1>t, ReturnType DEF ExecutionFailed
  <2>4. QED
    BY <2>1, <2>2, <2>3 DEF TypeOK
<1>7. ASSUME UserCancelsSchedule PROVE TypeOK'
  <2>0. UserCancelsSchedule
    BY <1>7
  <2>1. RunTypes'
    BY <2>0, <1>t DEF UserCancelsSchedule, RunTypes
  <2>2. ScheduleTypes'
    BY <2>0, <1>t, Constants, CancelType DEF UserCancelsSchedule
  <2>3. ThreadTypes'
    BY <2>0, <1>t DEF UserCancelsSchedule, ThreadTypes
  <2>4. QED
    BY <2>1, <2>2, <2>3 DEF TypeOK
<1>8. ASSUME NEW u \in Users, UserSchedules(u) PROVE TypeOK'
  <2>0. UserSchedules(u) /\ u \in Threads
    BY <1>8 DEF Threads
  <2>1. RunTypes'
    BY <2>0, <1>t DEF UserSchedules, RunTypes
  <2>2. ScheduleTypes'
    BY <2>0, <1>t DEF UserSchedules, ScheduleTypes
  <2>3. ThreadTypes'
    <3>1. PICK ty \in Types : cap' = [cap EXCEPT ![u] = [type |-> ty, rounds |-> 0]]
      BY <2>0 DEF UserSchedules
    <3>2. [type |-> ty, rounds |-> 0] \in Captured
      BY Constants
    <3>3. QED
      BY <2>0, <3>1, <3>2, <1>t, Constants DEF UserSchedules, Goto, ThreadTypes
  <2>4. QED
    BY <2>1, <2>2, <2>3 DEF TypeOK
<1>9. ASSUME NEW t \in Threads, UserArms(t) PROVE TypeOK'
  <2>0. UserArms(t)
    BY <1>9
  <2>1. RunTypes'
    BY <2>0, <1>t DEF UserArms, RunTypes
  <2>2. ScheduleTypes'
    <3>1. [type |-> cap[t].type, rounds |-> rounds] \in Captured
      BY <1>t, Constants, CapturedType DEF ScheduleTypes
    <3>2. QED
      BY <2>0, <3>1, <1>t, Constants, ArmType DEF UserArms
  <2>3. ThreadTypes'
    BY <2>0, <1>t, ReturnType DEF UserArms
  <2>4. QED
    BY <2>1, <2>2, <2>3 DEF TypeOK
<1>10. ASSUME NEW u \in Users, UserStarts(u) PROVE TypeOK'
  <2>0. UserStarts(u) /\ u \in Threads
    BY <1>10 DEF Threads
  <2>1. RunTypes'
    BY <2>0, <1>t DEF UserStarts, RunTypes
  <2>2. ScheduleTypes'
    BY <2>0, <1>t DEF UserStarts, ScheduleTypes
  <2>3. ThreadTypes'
    BY <2>0, <1>t, Constants, GotoType DEF UserStarts
  <2>4. QED
    BY <2>1, <2>2, <2>3 DEF TypeOK
<1>11. ASSUME NEW t \in Threads, ReplaceSchedule(t) PROVE TypeOK'
  <2>0. ReplaceSchedule(t)
    BY <1>11
  <2>1. RunTypes'
    BY <2>0, <1>t DEF ReplaceSchedule, RunTypes
  <2>2. ScheduleTypes'
    BY <2>0, <1>t, Constants, CancelType DEF ReplaceSchedule
  <2>3. ThreadTypes'
    BY <2>0, <1>t, Constants, GotoType DEF ReplaceSchedule
  <2>4. QED
    BY <2>1, <2>2, <2>3 DEF TypeOK
<1>12. ASSUME NEW t \in Threads, Reserve(t) PROVE TypeOK'
  <2>0. Reserve(t)
    BY <1>12
  <2>1. RunTypes'
    BY <2>0, <1>t DEF Reserve, RunTypes
  <2>2. ScheduleTypes'
    <3>1. CASE slot # NoRun /\ Postpone(t, cap[t])
      BY <3>1, <1>t, Constants, CapturedType, ArmType DEF Postpone
    <3>2. CASE UNCHANGED scheduleVars
      BY <3>2, <1>t DEF ScheduleTypes
    <3>3. QED
      BY <2>0, <3>1, <3>2 DEF Reserve
  <2>3. ThreadTypes'
    <3>1. CASE Return(t)
      BY <3>1, <1>t, ReturnType
    <3>2. CASE Goto(t, "begin") /\ (\E r \in Runs : own' = [own EXCEPT ![t] = r]) /\ UNCHANGED <<cap, tries>>
      BY <3>2, <1>t, Constants DEF Goto, ThreadTypes
    <3>3. QED
      BY <2>0, <3>1, <3>2 DEF Reserve, Postpone
  <2>4. QED
    BY <2>1, <2>2, <2>3 DEF TypeOK
<1>13. ASSUME NEW t \in Threads, BeginRun(t) PROVE TypeOK'
  <2>0. BeginRun(t)
    BY <1>13
  <2>1. RunTypes'
    BY <2>0, <1>t DEF BeginRun, Release, ForgetGuards, RunTypes
  <2>2. ScheduleTypes'
    BY <2>0, <1>t DEF BeginRun, ScheduleTypes
  <2>3. ThreadTypes'
    <3>1. CASE Continue(t, "started")
      BY <3>1, <1>t, Constants, ContinueType
    <3>2. CASE Goto(t, "guard") /\ UNCHANGED <<own, cap, tries>>
      BY <3>2, <1>t, Constants, GotoType
    <3>3. QED
      BY <2>0, <3>1, <3>2 DEF BeginRun
  <2>4. QED
    BY <2>1, <2>2, <2>3 DEF TypeOK
<1>14. ASSUME NEW t \in Threads, SetGuard(t) PROVE TypeOK'
  <2>0. SetGuard(t)
    BY <1>14
  <2>1. RunTypes'
    BY <2>0, <1>t, RunOwned DEF SetGuard, Starting, RunTypes
  <2>2. ScheduleTypes'
    BY <2>0, <1>t DEF SetGuard, ScheduleTypes
  <2>3. ThreadTypes'
    BY <2>0, <1>t, Constants, GotoType DEF SetGuard
  <2>4. QED
    BY <2>1, <2>2, <2>3 DEF TypeOK
<1>15. ASSUME NEW t \in Threads, Submit(t) PROVE TypeOK'
  <2>0. Submit(t)
    BY <1>15
  <2>1. RunTypes'
    BY <2>0, <1>t DEF Submit, RunTypes
  <2>2. ScheduleTypes'
    BY <2>0, <1>t DEF Submit, ScheduleTypes
  <2>3. ThreadTypes'
    BY <2>0, <1>t, Constants, ContinueType DEF Submit
  <2>4. QED
    BY <2>1, <2>2, <2>3 DEF TypeOK
<1>16. ASSUME NEW t \in Threads, StartFails(t) PROVE TypeOK'
  <2>0. StartFails(t)
    BY <1>16
  <2>1. RunTypes'
    BY <2>0, <1>t DEF StartFails, Release, ForgetGuards, RunTypes
  <2>2. ScheduleTypes'
    BY <2>0, <1>t DEF StartFails, ScheduleTypes
  <2>3. ThreadTypes'
    <3>1. CASE Continue(t, "failed")
      BY <3>1, <1>t, Constants, ContinueType
    <3>2. CASE /\ Goto(t, "reserve")
               /\ own' = [own EXCEPT ![t] = NoRun]
               /\ tries' = [tries EXCEPT ![t] = @ + 1]
               /\ UNCHANGED cap
      BY <3>2, <1>t, Constants DEF Goto, ThreadTypes
    <3>3. QED
      BY <2>0, <3>1, <3>2 DEF StartFails
  <2>4. QED
    BY <2>1, <2>2, <2>3 DEF TypeOK
<1>17. ASSUME NEW r \in Runs, EngineBegins(r) PROVE TypeOK'
  <2>0. EngineBegins(r)
    BY <1>17
  <2>1. RunTypes'
    BY <2>0, <1>t DEF EngineBegins, RunTypes
  <2>2. ScheduleTypes'
    BY <2>0, <1>t DEF EngineBegins, ScheduleTypes
  <2>3. ThreadTypes'
    BY <2>0, <1>t DEF EngineBegins, ThreadTypes
  <2>4. QED
    BY <2>1, <2>2, <2>3 DEF TypeOK
<1>18. ASSUME NEW r \in Runs, EngineEnds(r) PROVE TypeOK'
  <2>0. EngineEnds(r)
    BY <1>18
  <2>1. RunTypes'
    BY <2>0, <1>t DEF EngineEnds, RunTypes
  <2>2. ScheduleTypes'
    BY <2>0, <1>t DEF EngineEnds, ScheduleTypes
  <2>3. ThreadTypes'
    BY <2>0, <1>t DEF EngineEnds, ThreadTypes
  <2>4. QED
    BY <2>1, <2>2, <2>3 DEF TypeOK
<1>19. ASSUME NEW r \in Runs, RecordResult(r) PROVE TypeOK'
  <2>0. RecordResult(r)
    BY <1>19
  <2>1. RunTypes'
    BY <2>0, <1>t DEF RecordResult, RunTypes
  <2>2. ScheduleTypes'
    BY <2>0, <1>t DEF RecordResult, ScheduleTypes
  <2>3. ThreadTypes'
    BY <2>0, <1>t DEF RecordResult, ThreadTypes
  <2>4. QED
    BY <2>1, <2>2, <2>3 DEF TypeOK
<1>20. ASSUME NEW r \in Runs, ProxyStops(r) PROVE TypeOK'
  <2>0. ProxyStops(r)
    BY <1>20
  <2>1. RunTypes'
    BY <2>0, <1>t DEF ProxyStops, RunTypes
  <2>2. ScheduleTypes'
    BY <2>0, <1>t, Constants, CancelType DEF ProxyStops
  <2>3. ThreadTypes'
    BY <2>0, <1>t DEF ProxyStops, ThreadTypes
  <2>4. QED
    BY <2>1, <2>2, <2>3 DEF TypeOK
<1>21. ASSUME NEW r \in Runs, RunEnds(r) PROVE TypeOK'
  <2>0. RunEnds(r)
    BY <1>21
  <2>1. RunTypes'
    BY <2>0, <1>t DEF RunEnds, Release, ForgetGuards, RunTypes
  <2>2. ScheduleTypes'
    BY <2>0, <1>t DEF RunEnds, ScheduleTypes
  <2>3. ThreadTypes'
    BY <2>0, <1>t DEF RunEnds, ThreadTypes
  <2>4. QED
    BY <2>1, <2>2, <2>3 DEF TypeOK
<1>22. ASSUME NEW u \in Users, UserCancels(u) PROVE TypeOK'
  <2>0. UserCancels(u) /\ u \in Threads
    BY <1>22 DEF Threads
  <2>1. RunTypes'
    <3>1. CASE fut[slot] = "queued"
      BY <2>0, <3>1, <1>t DEF UserCancels, RunTypes
    <3>2. CASE fut[slot] # "queued"
      BY <2>0, <3>2, <1>t DEF UserCancels, Guarded, RunTypes
    <3>3. QED
      BY <3>1, <3>2
  <2>2. ScheduleTypes'
    BY <2>0, <1>t DEF UserCancels, ScheduleTypes
  <2>3. ThreadTypes'
    BY <2>0, <1>t, Constants DEF UserCancels, Goto, RunTypes, ThreadTypes
  <2>4. QED
    BY <2>1, <2>2, <2>3 DEF TypeOK
<1>23. ASSUME NEW t \in Threads, CancelIsStored(t) PROVE TypeOK'
  <2>0. CancelIsStored(t)
    BY <1>23
  <2>1. RunTypes'
    BY <2>0, <1>t DEF CancelIsStored, ForgetGuards, RunTypes
  <2>2. ScheduleTypes'
    BY <2>0, <1>t DEF CancelIsStored, ScheduleTypes
  <2>3. ThreadTypes'
    BY <2>0, <1>t, ReturnType DEF CancelIsStored
  <2>4. QED
    BY <2>1, <2>2, <2>3 DEF TypeOK
<1>24. ASSUME NEW u \in Users, UserPauses(u) PROVE TypeOK'
  <2>0. UserPauses(u) /\ u \in Threads
    BY <1>24 DEF Threads
  <2>1. RunTypes'
    BY <2>0, <1>t DEF UserPauses, Guarded, RunTypes
  <2>2. ScheduleTypes'
    BY <2>0, <1>t DEF UserPauses, ScheduleTypes
  <2>3. ThreadTypes'
    BY <2>0, <1>t, Constants, GotoType DEF UserPauses
  <2>4. QED
    BY <2>1, <2>2, <2>3 DEF TypeOK
<1>25. ASSUME NEW t \in Threads, PauseIsStored(t) PROVE TypeOK'
  <2>0. PauseIsStored(t)
    BY <1>25
  <2>1. RunTypes'
    BY <2>0, <1>t DEF PauseIsStored, RunTypes
  <2>2. ScheduleTypes'
    BY <2>0, <1>t DEF PauseIsStored, ScheduleTypes
  <2>3. ThreadTypes'
    BY <2>0, <1>t, ReturnType DEF PauseIsStored
  <2>4. QED
    BY <2>1, <2>2, <2>3 DEF TypeOK
<1>26. ASSUME NEW u \in Users, UserResumes(u) PROVE TypeOK'
  <2>0. UserResumes(u) /\ u \in Threads
    BY <1>26 DEF Threads
  <2>1. RunTypes'
    BY <2>0, <1>t DEF UserResumes, RunTypes
  <2>2. ScheduleTypes'
    BY <2>0, <1>t DEF UserResumes, ScheduleTypes
  <2>3. ThreadTypes'
    BY <2>0, <1>t, Constants, GotoType DEF UserResumes
  <2>4. QED
    BY <2>1, <2>2, <2>3 DEF TypeOK
<1>27. ASSUME NEW t \in Threads, ResumeIsStored(t) PROVE TypeOK'
  <2>0. ResumeIsStored(t)
    BY <1>27
  <2>1. RunTypes'
    BY <2>0, <1>t DEF ResumeIsStored, RunTypes
  <2>2. ScheduleTypes'
    BY <2>0, <1>t DEF ResumeIsStored, ScheduleTypes
  <2>3. ThreadTypes'
    BY <2>0, <1>t, ReturnType DEF ResumeIsStored
  <2>4. QED
    BY <2>1, <2>2, <2>3 DEF TypeOK
<1>28. ASSUME ClockReaches PROVE TypeOK'
  <2>0. ClockReaches
    BY <1>28
  <2>1. RunTypes'
    BY <2>0, <1>t DEF ClockReaches, RunTypes
  <2>2. ScheduleTypes'
    BY <2>0, <1>t DEF ClockReaches, ScheduleTypes
  <2>3. ThreadTypes'
    BY <2>0, <1>t DEF ClockReaches, ThreadTypes
  <2>4. QED
    BY <2>1, <2>2, <2>3 DEF TypeOK
<1>29. ASSUME Restart PROVE TypeOK'
  <2>0. Restart
    BY <1>29
  <2>1. RunTypes'
    BY <2>0, <1>t DEF Restart, RunTypes
  <2>2. ScheduleTypes'
    <3>1. CASE Arm([type |-> type, rounds |-> rounds], "WAITING")
      <4>1. [type |-> type, rounds |-> rounds] \in Captured
        BY <1>t, Constants DEF ScheduleTypes
      <4>2. QED
        BY <3>1, <4>1, <1>t, Constants, ArmType
    <3>2. CASE Disarm /\ (status' = status \/ status' = "MISSED") /\ UNCHANGED <<mode, type, rounds>>
      BY <3>2, <1>t, Constants DEF Disarm, ScheduleTypes
    <3>3. QED
      BY <2>0, <3>1, <3>2 DEF Restart
  <2>3. ThreadTypes'
    <3>1. NoConfig \in Captured
      BY DEF NoConfig, Captured
    <3>2. QED
      BY <2>0, <3>1, Constants DEF Restart, ThreadTypes
  <2>4. QED
    BY <2>1, <2>2, <2>3 DEF TypeOK
<1>30. CASE UNCHANGED vars
  BY <1>t, <1>30 DEF TypeOK, RunTypes, ScheduleTypes, ThreadTypes
<1>31. QED
  BY <1>30, <1>1, <1>2, <1>3, <1>4, <1>5, <1>6, <1>7, <1>8, <1>9, <1>10, <1>11, <1>12, <1>13, <1>14, <1>15, <1>16, <1>17, <1>18, <1>19, <1>20, <1>21, <1>22, <1>23, <1>24, <1>25, <1>26, <1>27, <1>28, <1>29 DEF Next, Scheduler, Start, Store, Engine, User

LEMMA Undisturbed ==
    ASSUME TypeOK, RunsInv, UNCHANGED runVars,
           \A u \in Threads : /\ own'[u] = own[u]
                              /\ pc'[u] # pc[u] => pc'[u] \notin Starting /\ own[u] = NoRun
    PROVE  RunsInv'
<1>1. EnginesHold'
  BY DEF RunsInv, EnginesHold
<1>2. StartersHold'
  BY DEF RunsInv, StartersHold
<1>3. OneStarter'
  BY DEF RunsInv, OneStarter
<1>4. OwnersAct'
  BY DEF RunsInv, OwnersAct
<1>5. GuardsAreReferred'
  BY DEF RunsInv, GuardsAreReferred
<1>6. EventsAreGuarded'
  BY DEF RunsInv, EventsAreGuarded
<1>7. QED
  BY <1>1, <1>2, <1>3, <1>4, <1>5, <1>6 DEF RunsInv

LEMMA IdleOwnsNothing ==
    ASSUME RunsInv, NEW t \in Threads, pc[t] \notin Starting \cup {"cancel"}
    PROVE  own[t] = NoRun
  BY DEF RunsInv, OwnersAct

LEMMA GotoUndisturbed ==
    ASSUME TypeOK, RunsInv, UNCHANGED <<runVars, own>>, NEW t \in Threads, NEW step, Goto(t, step),
           step \notin Starting, pc[t] \notin Starting \cup {"cancel"}
    PROVE  RunsInv'
<1>1. own[t] = NoRun
  BY IdleOwnsNothing
<1>2. \A u \in Threads : pc'[u] # pc[u] => pc'[u] \notin Starting /\ own[u] = NoRun
  BY <1>1 DEF Goto, TypeOK, ThreadTypes
<1>3. QED
  BY <1>2, Undisturbed

LEMMA ReturnUndisturbed ==
    ASSUME TypeOK, RunsInv, UNCHANGED runVars, NEW t \in Threads, Return(t),
           pc[t] \notin Starting \cup {"cancel"}
    PROVE  RunsInv'
<1>1. own[t] = NoRun
  BY IdleOwnsNothing
<1>2. \A u \in Threads : own'[u] = own[u] /\ (pc'[u] # pc[u] => pc'[u] \notin Starting /\ own[u] = NoRun)
  BY <1>1 DEF Return, Goto, Starting, TypeOK, ThreadTypes
<1>3. QED
  BY <1>2, Undisturbed

LEMMA ThreadsKept ==
    ASSUME TypeOK, RunsInv, UNCHANGED <<runVars, pc, own>>
    PROVE  RunsInv'
<1>1. \A u \in Threads : own'[u] = own[u] /\ pc'[u] = pc[u]
  OBVIOUS
<1>2. QED
  BY <1>1, Undisturbed

LEMMA RunsStep ==
    ASSUME TypeOK, RunsInv, [Next]_vars
    PROVE  RunsInv'
<1>t. TypeOK /\ RunsInv /\ RunTypes /\ ScheduleTypes /\ ThreadTypes
  BY DEF TypeOK
<1>1. ASSUME NEW w \in Workers, TimerFires(w) PROVE RunsInv'
  <2>0. TimerFires(w) /\ w \in Threads
    BY <1>1 DEF Threads
  <2>1. QED
    BY <2>0, <1>t, GotoUndisturbed DEF TimerFires, Starting
<1>2. ASSUME NEW w \in Workers, WatchdogSees(w) PROVE RunsInv'
  <2>0. WatchdogSees(w) /\ w \in Threads
    BY <1>2 DEF Threads
  <2>1. QED
    BY <2>0, <1>t, GotoUndisturbed DEF WatchdogSees, Starting
<1>3. ASSUME NEW t \in Threads, ClaimExecution(t) PROVE RunsInv'
  <2>0. ClaimExecution(t)
    BY <1>3
  <2>1. pc[t] \notin Starting \cup {"cancel"}
    BY <2>0 DEF ClaimExecution, Starting
  <2>2. CASE Return(t)
    BY <2>0, <2>1, <2>2, <1>t, ReturnUndisturbed DEF ClaimExecution
  <2>3. CASE Goto(t, "execute") /\ UNCHANGED own
    BY <2>0, <2>1, <2>3, <1>t, GotoUndisturbed DEF ClaimExecution, Starting
  <2>4. QED
    BY <2>0, <2>2, <2>3 DEF ClaimExecution, Postpone
<1>4. ASSUME NEW t \in Threads, Execute(t) PROVE RunsInv'
  <2>0. Execute(t)
    BY <1>4
  <2>1. pc[t] \notin Starting \cup {"cancel"}
    BY <2>0 DEF Execute, Starting
  <2>2. CASE Return(t)
    BY <2>0, <2>1, <2>2, <1>t, ReturnUndisturbed DEF Execute
  <2>3. CASE Goto(t, "reserve") /\ UNCHANGED own
    BY <2>0, <2>1, <2>3, <1>t, GotoUndisturbed DEF Execute, Starting
  <2>4. QED
    BY <2>0, <2>2, <2>3 DEF Execute, Postpone
<1>5. ASSUME NEW t \in Threads, ExecutionStarted(t) PROVE RunsInv'
  <2>0. ExecutionStarted(t)
    BY <1>5
  <2>1. QED
    BY <2>0, <1>t, ReturnUndisturbed DEF ExecutionStarted, Starting
<1>6. ASSUME NEW t \in Threads, ExecutionFailed(t) PROVE RunsInv'
  <2>0. ExecutionFailed(t)
    BY <1>6
  <2>1. QED
    BY <2>0, <1>t, ReturnUndisturbed DEF ExecutionFailed, Starting
<1>7. ASSUME UserCancelsSchedule PROVE RunsInv'
  <2>0. UserCancelsSchedule
    BY <1>7
  <2>1. QED
    BY <2>0, <1>t, ThreadsKept DEF UserCancelsSchedule
<1>8. ASSUME NEW u \in Users, UserSchedules(u) PROVE RunsInv'
  <2>0. UserSchedules(u) /\ u \in Threads
    BY <1>8 DEF Threads
  <2>1. QED
    BY <2>0, <1>t, GotoUndisturbed DEF UserSchedules, Starting
<1>9. ASSUME NEW t \in Threads, UserArms(t) PROVE RunsInv'
  <2>0. UserArms(t)
    BY <1>9
  <2>1. QED
    BY <2>0, <1>t, ReturnUndisturbed DEF UserArms, Starting
<1>10. ASSUME NEW u \in Users, UserStarts(u) PROVE RunsInv'
  <2>0. UserStarts(u) /\ u \in Threads
    BY <1>10 DEF Threads
  <2>1. QED
    BY <2>0, <1>t, GotoUndisturbed DEF UserStarts, Starting
<1>11. ASSUME NEW t \in Threads, ReplaceSchedule(t) PROVE RunsInv'
  <2>0. ReplaceSchedule(t)
    BY <1>11
  <2>1. QED
    BY <2>0, <1>t, GotoUndisturbed DEF ReplaceSchedule, Starting
<1>12. ASSUME NEW t \in Threads, Reserve(t) PROVE RunsInv'
  <2>0. Reserve(t)
    BY <1>12
  <2>1. pc[t] \notin Starting \cup {"cancel"}
    BY <2>0 DEF Reserve, Starting
  <2>2. CASE slot # NoRun
    BY <2>0, <2>1, <2>2, <1>t, ReturnUndisturbed DEF Reserve, Postpone
  <2>3. CASE slot = NoRun
    <3>1. PICK r \in Runs : /\ Unused(r) /\ slot' = r
                           /\ own' = [own EXCEPT ![t] = r] /\ Goto(t, "begin")
                           /\ UNCHANGED <<fut, guards, cancelled, paused>>
      BY <2>0, <2>3 DEF Reserve
    <3>2. /\ own'[t] = r /\ pc'[t] = "begin"
          /\ \A u \in Threads \ {t} : own'[u] = own[u] /\ pc'[u] = pc[u]
      BY <3>1, <1>t DEF Goto, ThreadTypes
    <3>3. /\ \A q \in Runs : fut[q] = "none"
          /\ \A u \in Threads : pc[u] \notin Starting
          /\ r \notin guards /\ NoRun \notin guards
          /\ cancelled = {} /\ paused = {}
      BY <3>1, <2>3, <1>t DEF Unused, RunTypes, RunsInv, EnginesHold, StartersHold, GuardsAreReferred, EventsAreGuarded
    <3>4. EnginesHold' /\ EventsAreGuarded'
      BY <3>1, <3>3 DEF EnginesHold, EventsAreGuarded
    <3>5. StartersHold' /\ OneStarter'
      BY <3>1, <3>2, <3>3, <1>t DEF StartersHold, OneStarter, RunTypes
    <3>6. OwnersAct'
      BY <3>2, <1>t DEF OwnersAct, RunsInv, Starting
    <3>7. GuardsAreReferred'
      <4>1. own[t] = NoRun
        BY <2>1, <1>t, IdleOwnsNothing
      <4>2. QED
        BY <4>1, <3>1, <3>2, <3>3, <2>3, <1>t DEF GuardsAreReferred, RunsInv
    <3>8. QED
      BY <3>4, <3>5, <3>6, <3>7 DEF RunsInv
  <2>4. QED
    BY <2>2, <2>3
<1>13. ASSUME NEW t \in Threads, BeginRun(t) PROVE RunsInv'
  <2>0. BeginRun(t)
    BY <1>13
  <2>t. EnginesHold /\ StartersHold /\ OneStarter /\ OwnersAct /\ GuardsAreReferred /\ EventsAreGuarded
    BY <1>t DEF RunsInv
  <2>1. EnginesHold'
    BY <2>0, <2>t, <1>t DEF BeginRun, Release, Continue, Return, Goto, Starting, ForgetGuards, RunTypes, ThreadTypes, EnginesHold, StartersHold, OneStarter, OwnersAct, GuardsAreReferred, EventsAreGuarded
  <2>2. StartersHold'
    BY <2>0, <2>t, <1>t DEF BeginRun, Release, Continue, Return, Goto, Starting, ForgetGuards, RunTypes, ThreadTypes, EnginesHold, StartersHold, OneStarter, OwnersAct, GuardsAreReferred, EventsAreGuarded
  <2>3. OneStarter'
    BY <2>0, <2>t, <1>t DEF BeginRun, Release, Continue, Return, Goto, Starting, ForgetGuards, RunTypes, ThreadTypes, EnginesHold, StartersHold, OneStarter, OwnersAct, GuardsAreReferred, EventsAreGuarded
  <2>4. OwnersAct'
    BY <2>0, <2>t, <1>t DEF BeginRun, Release, Continue, Return, Goto, Starting, ForgetGuards, RunTypes, ThreadTypes, EnginesHold, StartersHold, OneStarter, OwnersAct, GuardsAreReferred, EventsAreGuarded
  <2>5. GuardsAreReferred'
    BY <2>0, <2>t, <1>t DEF BeginRun, Release, Continue, Return, Goto, Starting, ForgetGuards, RunTypes, ThreadTypes, EnginesHold, StartersHold, OneStarter, OwnersAct, GuardsAreReferred, EventsAreGuarded
  <2>6. EventsAreGuarded'
    BY <2>0, <2>t, <1>t DEF BeginRun, Release, Continue, Return, Goto, Starting, ForgetGuards, RunTypes, ThreadTypes, EnginesHold, StartersHold, OneStarter, OwnersAct, GuardsAreReferred, EventsAreGuarded
  <2>7. QED
    BY <2>1, <2>2, <2>3, <2>4, <2>5, <2>6 DEF RunsInv
<1>14. ASSUME NEW t \in Threads, SetGuard(t) PROVE RunsInv'
  <2>0. SetGuard(t)
    BY <1>14
  <2>t. EnginesHold /\ StartersHold /\ OneStarter /\ OwnersAct /\ GuardsAreReferred /\ EventsAreGuarded
    BY <1>t DEF RunsInv
  <2>1. EnginesHold'
    BY <2>0, <2>t, <1>t DEF SetGuard, Goto, Starting, RunTypes, ThreadTypes, EnginesHold, StartersHold, OneStarter, OwnersAct, GuardsAreReferred, EventsAreGuarded
  <2>2. StartersHold'
    BY <2>0, <2>t, <1>t DEF SetGuard, Goto, Starting, RunTypes, ThreadTypes, EnginesHold, StartersHold, OneStarter, OwnersAct, GuardsAreReferred, EventsAreGuarded
  <2>3. OneStarter'
    BY <2>0, <2>t, <1>t DEF SetGuard, Goto, Starting, RunTypes, ThreadTypes, EnginesHold, StartersHold, OneStarter, OwnersAct, GuardsAreReferred, EventsAreGuarded
  <2>4. OwnersAct'
    BY <2>0, <2>t, <1>t DEF SetGuard, Goto, Starting, RunTypes, ThreadTypes, EnginesHold, StartersHold, OneStarter, OwnersAct, GuardsAreReferred, EventsAreGuarded
  <2>5. GuardsAreReferred'
    BY <2>0, <2>t, <1>t DEF SetGuard, Goto, Starting, RunTypes, ThreadTypes, EnginesHold, StartersHold, OneStarter, OwnersAct, GuardsAreReferred, EventsAreGuarded
  <2>6. EventsAreGuarded'
    BY <2>0, <2>t, <1>t DEF SetGuard, Goto, Starting, RunTypes, ThreadTypes, EnginesHold, StartersHold, OneStarter, OwnersAct, GuardsAreReferred, EventsAreGuarded
  <2>7. QED
    BY <2>1, <2>2, <2>3, <2>4, <2>5, <2>6 DEF RunsInv
<1>15. ASSUME NEW t \in Threads, Submit(t) PROVE RunsInv'
  <2>0. Submit(t)
    BY <1>15
  <2>t. EnginesHold /\ StartersHold /\ OneStarter /\ OwnersAct /\ GuardsAreReferred /\ EventsAreGuarded
    BY <1>t DEF RunsInv
  <2>1. EnginesHold'
    BY <2>0, <2>t, <1>t DEF Submit, Continue, Return, Goto, Starting, RunTypes, ThreadTypes, EnginesHold, StartersHold, OneStarter, OwnersAct, GuardsAreReferred, EventsAreGuarded
  <2>2. StartersHold'
    BY <2>0, <2>t, <1>t DEF Submit, Continue, Return, Goto, Starting, RunTypes, ThreadTypes, EnginesHold, StartersHold, OneStarter, OwnersAct, GuardsAreReferred, EventsAreGuarded
  <2>3. OneStarter'
    BY <2>0, <2>t, <1>t DEF Submit, Continue, Return, Goto, Starting, RunTypes, ThreadTypes, EnginesHold, StartersHold, OneStarter, OwnersAct, GuardsAreReferred, EventsAreGuarded
  <2>4. OwnersAct'
    BY <2>0, <2>t, <1>t DEF Submit, Continue, Return, Goto, Starting, RunTypes, ThreadTypes, EnginesHold, StartersHold, OneStarter, OwnersAct, GuardsAreReferred, EventsAreGuarded
  <2>5. GuardsAreReferred'
    BY <2>0, <2>t, <1>t DEF Submit, Continue, Return, Goto, Starting, RunTypes, ThreadTypes, EnginesHold, StartersHold, OneStarter, OwnersAct, GuardsAreReferred, EventsAreGuarded
  <2>6. EventsAreGuarded'
    BY <2>0, <2>t, <1>t DEF Submit, Continue, Return, Goto, Starting, RunTypes, ThreadTypes, EnginesHold, StartersHold, OneStarter, OwnersAct, GuardsAreReferred, EventsAreGuarded
  <2>7. QED
    BY <2>1, <2>2, <2>3, <2>4, <2>5, <2>6 DEF RunsInv
<1>16. ASSUME NEW t \in Threads, StartFails(t) PROVE RunsInv'
  <2>0. StartFails(t)
    BY <1>16
  <2>t. EnginesHold /\ StartersHold /\ OneStarter /\ OwnersAct /\ GuardsAreReferred /\ EventsAreGuarded
    BY <1>t DEF RunsInv
  <2>1. EnginesHold'
    BY <2>0, <2>t, <1>t DEF StartFails, Release, Continue, Return, Goto, Starting, ForgetGuards, RunTypes, ThreadTypes, EnginesHold, StartersHold, OneStarter, OwnersAct, GuardsAreReferred, EventsAreGuarded
  <2>2. StartersHold'
    BY <2>0, <2>t, <1>t DEF StartFails, Release, Continue, Return, Goto, Starting, ForgetGuards, RunTypes, ThreadTypes, EnginesHold, StartersHold, OneStarter, OwnersAct, GuardsAreReferred, EventsAreGuarded
  <2>3. OneStarter'
    BY <2>0, <2>t, <1>t DEF StartFails, Release, Continue, Return, Goto, Starting, ForgetGuards, RunTypes, ThreadTypes, EnginesHold, StartersHold, OneStarter, OwnersAct, GuardsAreReferred, EventsAreGuarded
  <2>4. OwnersAct'
    BY <2>0, <2>t, <1>t DEF StartFails, Release, Continue, Return, Goto, Starting, ForgetGuards, RunTypes, ThreadTypes, EnginesHold, StartersHold, OneStarter, OwnersAct, GuardsAreReferred, EventsAreGuarded
  <2>5. GuardsAreReferred'
    BY <2>0, <2>t, <1>t DEF StartFails, Release, Continue, Return, Goto, Starting, ForgetGuards, RunTypes, ThreadTypes, EnginesHold, StartersHold, OneStarter, OwnersAct, GuardsAreReferred, EventsAreGuarded
  <2>6. EventsAreGuarded'
    BY <2>0, <2>t, <1>t DEF StartFails, Release, Continue, Return, Goto, Starting, ForgetGuards, RunTypes, ThreadTypes, EnginesHold, StartersHold, OneStarter, OwnersAct, GuardsAreReferred, EventsAreGuarded
  <2>7. QED
    BY <2>1, <2>2, <2>3, <2>4, <2>5, <2>6 DEF RunsInv
<1>17. ASSUME NEW r \in Runs, EngineBegins(r) PROVE RunsInv'
  <2>0. EngineBegins(r)
    BY <1>17
  <2>t. EnginesHold /\ StartersHold /\ OneStarter /\ OwnersAct /\ GuardsAreReferred /\ EventsAreGuarded
    BY <1>t DEF RunsInv
  <2>1. EnginesHold'
    BY <2>0, <2>t, <1>t DEF EngineBegins, Starting, RunTypes, ThreadTypes, EnginesHold, StartersHold, OneStarter, OwnersAct, GuardsAreReferred, EventsAreGuarded
  <2>2. StartersHold'
    BY <2>0, <2>t, <1>t DEF EngineBegins, Starting, RunTypes, ThreadTypes, EnginesHold, StartersHold, OneStarter, OwnersAct, GuardsAreReferred, EventsAreGuarded
  <2>3. OneStarter'
    BY <2>0, <2>t, <1>t DEF EngineBegins, Starting, RunTypes, ThreadTypes, EnginesHold, StartersHold, OneStarter, OwnersAct, GuardsAreReferred, EventsAreGuarded
  <2>4. OwnersAct'
    BY <2>0, <2>t, <1>t DEF EngineBegins, Starting, RunTypes, ThreadTypes, EnginesHold, StartersHold, OneStarter, OwnersAct, GuardsAreReferred, EventsAreGuarded
  <2>5. GuardsAreReferred'
    BY <2>0, <2>t, <1>t DEF EngineBegins, Starting, RunTypes, ThreadTypes, EnginesHold, StartersHold, OneStarter, OwnersAct, GuardsAreReferred, EventsAreGuarded
  <2>6. EventsAreGuarded'
    BY <2>0, <2>t, <1>t DEF EngineBegins, Starting, RunTypes, ThreadTypes, EnginesHold, StartersHold, OneStarter, OwnersAct, GuardsAreReferred, EventsAreGuarded
  <2>7. QED
    BY <2>1, <2>2, <2>3, <2>4, <2>5, <2>6 DEF RunsInv
<1>18. ASSUME NEW r \in Runs, EngineEnds(r) PROVE RunsInv'
  <2>0. EngineEnds(r)
    BY <1>18
  <2>t. EnginesHold /\ StartersHold /\ OneStarter /\ OwnersAct /\ GuardsAreReferred /\ EventsAreGuarded
    BY <1>t DEF RunsInv
  <2>1. EnginesHold'
    BY <2>0, <2>t, <1>t DEF EngineEnds, Starting, RunTypes, ThreadTypes, EnginesHold, StartersHold, OneStarter, OwnersAct, GuardsAreReferred, EventsAreGuarded
  <2>2. StartersHold'
    BY <2>0, <2>t, <1>t DEF EngineEnds, Starting, RunTypes, ThreadTypes, EnginesHold, StartersHold, OneStarter, OwnersAct, GuardsAreReferred, EventsAreGuarded
  <2>3. OneStarter'
    BY <2>0, <2>t, <1>t DEF EngineEnds, Starting, RunTypes, ThreadTypes, EnginesHold, StartersHold, OneStarter, OwnersAct, GuardsAreReferred, EventsAreGuarded
  <2>4. OwnersAct'
    BY <2>0, <2>t, <1>t DEF EngineEnds, Starting, RunTypes, ThreadTypes, EnginesHold, StartersHold, OneStarter, OwnersAct, GuardsAreReferred, EventsAreGuarded
  <2>5. GuardsAreReferred'
    BY <2>0, <2>t, <1>t DEF EngineEnds, Starting, RunTypes, ThreadTypes, EnginesHold, StartersHold, OneStarter, OwnersAct, GuardsAreReferred, EventsAreGuarded
  <2>6. EventsAreGuarded'
    BY <2>0, <2>t, <1>t DEF EngineEnds, Starting, RunTypes, ThreadTypes, EnginesHold, StartersHold, OneStarter, OwnersAct, GuardsAreReferred, EventsAreGuarded
  <2>7. QED
    BY <2>1, <2>2, <2>3, <2>4, <2>5, <2>6 DEF RunsInv
<1>19. ASSUME NEW r \in Runs, RecordResult(r) PROVE RunsInv'
  <2>0. RecordResult(r)
    BY <1>19
  <2>t. EnginesHold /\ StartersHold /\ OneStarter /\ OwnersAct /\ GuardsAreReferred /\ EventsAreGuarded
    BY <1>t DEF RunsInv
  <2>1. EnginesHold'
    BY <2>0, <2>t, <1>t DEF RecordResult, Starting, RunTypes, ThreadTypes, EnginesHold, StartersHold, OneStarter, OwnersAct, GuardsAreReferred, EventsAreGuarded
  <2>2. StartersHold'
    BY <2>0, <2>t, <1>t DEF RecordResult, Starting, RunTypes, ThreadTypes, EnginesHold, StartersHold, OneStarter, OwnersAct, GuardsAreReferred, EventsAreGuarded
  <2>3. OneStarter'
    BY <2>0, <2>t, <1>t DEF RecordResult, Starting, RunTypes, ThreadTypes, EnginesHold, StartersHold, OneStarter, OwnersAct, GuardsAreReferred, EventsAreGuarded
  <2>4. OwnersAct'
    BY <2>0, <2>t, <1>t DEF RecordResult, Starting, RunTypes, ThreadTypes, EnginesHold, StartersHold, OneStarter, OwnersAct, GuardsAreReferred, EventsAreGuarded
  <2>5. GuardsAreReferred'
    BY <2>0, <2>t, <1>t DEF RecordResult, Starting, RunTypes, ThreadTypes, EnginesHold, StartersHold, OneStarter, OwnersAct, GuardsAreReferred, EventsAreGuarded
  <2>6. EventsAreGuarded'
    BY <2>0, <2>t, <1>t DEF RecordResult, Starting, RunTypes, ThreadTypes, EnginesHold, StartersHold, OneStarter, OwnersAct, GuardsAreReferred, EventsAreGuarded
  <2>7. QED
    BY <2>1, <2>2, <2>3, <2>4, <2>5, <2>6 DEF RunsInv
<1>20. ASSUME NEW r \in Runs, ProxyStops(r) PROVE RunsInv'
  <2>0. ProxyStops(r)
    BY <1>20
  <2>t. EnginesHold /\ StartersHold /\ OneStarter /\ OwnersAct /\ GuardsAreReferred /\ EventsAreGuarded
    BY <1>t DEF RunsInv
  <2>1. EnginesHold'
    BY <2>0, <2>t, <1>t DEF ProxyStops, Starting, RunTypes, ThreadTypes, EnginesHold, StartersHold, OneStarter, OwnersAct, GuardsAreReferred, EventsAreGuarded
  <2>2. StartersHold'
    BY <2>0, <2>t, <1>t DEF ProxyStops, Starting, RunTypes, ThreadTypes, EnginesHold, StartersHold, OneStarter, OwnersAct, GuardsAreReferred, EventsAreGuarded
  <2>3. OneStarter'
    BY <2>0, <2>t, <1>t DEF ProxyStops, Starting, RunTypes, ThreadTypes, EnginesHold, StartersHold, OneStarter, OwnersAct, GuardsAreReferred, EventsAreGuarded
  <2>4. OwnersAct'
    BY <2>0, <2>t, <1>t DEF ProxyStops, Starting, RunTypes, ThreadTypes, EnginesHold, StartersHold, OneStarter, OwnersAct, GuardsAreReferred, EventsAreGuarded
  <2>5. GuardsAreReferred'
    BY <2>0, <2>t, <1>t DEF ProxyStops, Starting, RunTypes, ThreadTypes, EnginesHold, StartersHold, OneStarter, OwnersAct, GuardsAreReferred, EventsAreGuarded
  <2>6. EventsAreGuarded'
    BY <2>0, <2>t, <1>t DEF ProxyStops, Starting, RunTypes, ThreadTypes, EnginesHold, StartersHold, OneStarter, OwnersAct, GuardsAreReferred, EventsAreGuarded
  <2>7. QED
    BY <2>1, <2>2, <2>3, <2>4, <2>5, <2>6 DEF RunsInv
<1>21. ASSUME NEW r \in Runs, RunEnds(r) PROVE RunsInv'
  <2>0. RunEnds(r)
    BY <1>21
  <2>t. EnginesHold /\ StartersHold /\ OneStarter /\ OwnersAct /\ GuardsAreReferred /\ EventsAreGuarded
    BY <1>t DEF RunsInv
  <2>1. EnginesHold'
    BY <2>0, <2>t, <1>t DEF RunEnds, Release, ForgetGuards, Starting, RunTypes, ThreadTypes, EnginesHold, StartersHold, OneStarter, OwnersAct, GuardsAreReferred, EventsAreGuarded
  <2>2. StartersHold'
    BY <2>0, <2>t, <1>t DEF RunEnds, Release, ForgetGuards, Starting, RunTypes, ThreadTypes, EnginesHold, StartersHold, OneStarter, OwnersAct, GuardsAreReferred, EventsAreGuarded
  <2>3. OneStarter'
    BY <2>0, <2>t, <1>t DEF RunEnds, Release, ForgetGuards, Starting, RunTypes, ThreadTypes, EnginesHold, StartersHold, OneStarter, OwnersAct, GuardsAreReferred, EventsAreGuarded
  <2>4. OwnersAct'
    BY <2>0, <2>t, <1>t DEF RunEnds, Release, ForgetGuards, Starting, RunTypes, ThreadTypes, EnginesHold, StartersHold, OneStarter, OwnersAct, GuardsAreReferred, EventsAreGuarded
  <2>5. GuardsAreReferred'
    BY <2>0, <2>t, <1>t DEF RunEnds, Release, ForgetGuards, Starting, RunTypes, ThreadTypes, EnginesHold, StartersHold, OneStarter, OwnersAct, GuardsAreReferred, EventsAreGuarded
  <2>6. EventsAreGuarded'
    BY <2>0, <2>t, <1>t DEF RunEnds, Release, ForgetGuards, Starting, RunTypes, ThreadTypes, EnginesHold, StartersHold, OneStarter, OwnersAct, GuardsAreReferred, EventsAreGuarded
  <2>7. QED
    BY <2>1, <2>2, <2>3, <2>4, <2>5, <2>6 DEF RunsInv
<1>22. ASSUME NEW u \in Users, UserCancels(u) PROVE RunsInv'
  <2>0. UserCancels(u) /\ u \in Threads
    BY <1>22 DEF Threads
  <2>t. EnginesHold /\ StartersHold /\ OneStarter /\ OwnersAct /\ GuardsAreReferred /\ EventsAreGuarded
    BY <1>t DEF RunsInv
  <2>1. EnginesHold'
    BY <2>0, <2>t, <1>t DEF UserCancels, Guarded, Goto, Starting, RunTypes, ThreadTypes, EnginesHold, StartersHold, OneStarter, OwnersAct, GuardsAreReferred, EventsAreGuarded
  <2>2. StartersHold'
    BY <2>0, <2>t, <1>t DEF UserCancels, Guarded, Goto, Starting, RunTypes, ThreadTypes, EnginesHold, StartersHold, OneStarter, OwnersAct, GuardsAreReferred, EventsAreGuarded
  <2>3. OneStarter'
    BY <2>0, <2>t, <1>t DEF UserCancels, Guarded, Goto, Starting, RunTypes, ThreadTypes, EnginesHold, StartersHold, OneStarter, OwnersAct, GuardsAreReferred, EventsAreGuarded
  <2>4. OwnersAct'
    BY <2>0, <2>t, <1>t DEF UserCancels, Guarded, Goto, Starting, RunTypes, ThreadTypes, EnginesHold, StartersHold, OneStarter, OwnersAct, GuardsAreReferred, EventsAreGuarded
  <2>5. GuardsAreReferred'
    BY <2>0, <2>t, <1>t DEF UserCancels, Guarded, Goto, Starting, RunTypes, ThreadTypes, EnginesHold, StartersHold, OneStarter, OwnersAct, GuardsAreReferred, EventsAreGuarded
  <2>6. EventsAreGuarded'
    BY <2>0, <2>t, <1>t DEF UserCancels, Guarded, Goto, Starting, RunTypes, ThreadTypes, EnginesHold, StartersHold, OneStarter, OwnersAct, GuardsAreReferred, EventsAreGuarded
  <2>7. QED
    BY <2>1, <2>2, <2>3, <2>4, <2>5, <2>6 DEF RunsInv
<1>23. ASSUME NEW t \in Threads, CancelIsStored(t) PROVE RunsInv'
  <2>0. CancelIsStored(t)
    BY <1>23
  <2>t. EnginesHold /\ StartersHold /\ OneStarter /\ OwnersAct /\ GuardsAreReferred /\ EventsAreGuarded
    BY <1>t DEF RunsInv
  <2>1. EnginesHold'
    BY <2>0, <2>t, <1>t DEF CancelIsStored, Return, Goto, ForgetGuards, Starting, RunTypes, ThreadTypes, EnginesHold, StartersHold, OneStarter, OwnersAct, GuardsAreReferred, EventsAreGuarded
  <2>2. StartersHold'
    BY <2>0, <2>t, <1>t DEF CancelIsStored, Return, Goto, ForgetGuards, Starting, RunTypes, ThreadTypes, EnginesHold, StartersHold, OneStarter, OwnersAct, GuardsAreReferred, EventsAreGuarded
  <2>3. OneStarter'
    BY <2>0, <2>t, <1>t DEF CancelIsStored, Return, Goto, ForgetGuards, Starting, RunTypes, ThreadTypes, EnginesHold, StartersHold, OneStarter, OwnersAct, GuardsAreReferred, EventsAreGuarded
  <2>4. OwnersAct'
    BY <2>0, <2>t, <1>t DEF CancelIsStored, Return, Goto, ForgetGuards, Starting, RunTypes, ThreadTypes, EnginesHold, StartersHold, OneStarter, OwnersAct, GuardsAreReferred, EventsAreGuarded
  <2>5. GuardsAreReferred'
    BY <2>0, <2>t, <1>t DEF CancelIsStored, Return, Goto, ForgetGuards, Starting, RunTypes, ThreadTypes, EnginesHold, StartersHold, OneStarter, OwnersAct, GuardsAreReferred, EventsAreGuarded
  <2>6. EventsAreGuarded'
    BY <2>0, <2>t, <1>t DEF CancelIsStored, Return, Goto, ForgetGuards, Starting, RunTypes, ThreadTypes, EnginesHold, StartersHold, OneStarter, OwnersAct, GuardsAreReferred, EventsAreGuarded
  <2>7. QED
    BY <2>1, <2>2, <2>3, <2>4, <2>5, <2>6 DEF RunsInv
<1>24. ASSUME NEW u \in Users, UserPauses(u) PROVE RunsInv'
  <2>0. UserPauses(u) /\ u \in Threads
    BY <1>24 DEF Threads
  <2>t. EnginesHold /\ StartersHold /\ OneStarter /\ OwnersAct /\ GuardsAreReferred /\ EventsAreGuarded
    BY <1>t DEF RunsInv
  <2>1. EnginesHold'
    BY <2>0, <2>t, <1>t DEF UserPauses, Guarded, Goto, Starting, RunTypes, ThreadTypes, EnginesHold, StartersHold, OneStarter, OwnersAct, GuardsAreReferred, EventsAreGuarded
  <2>2. StartersHold'
    BY <2>0, <2>t, <1>t DEF UserPauses, Guarded, Goto, Starting, RunTypes, ThreadTypes, EnginesHold, StartersHold, OneStarter, OwnersAct, GuardsAreReferred, EventsAreGuarded
  <2>3. OneStarter'
    BY <2>0, <2>t, <1>t DEF UserPauses, Guarded, Goto, Starting, RunTypes, ThreadTypes, EnginesHold, StartersHold, OneStarter, OwnersAct, GuardsAreReferred, EventsAreGuarded
  <2>4. OwnersAct'
    BY <2>0, <2>t, <1>t DEF UserPauses, Guarded, Goto, Starting, RunTypes, ThreadTypes, EnginesHold, StartersHold, OneStarter, OwnersAct, GuardsAreReferred, EventsAreGuarded
  <2>5. GuardsAreReferred'
    BY <2>0, <2>t, <1>t DEF UserPauses, Guarded, Goto, Starting, RunTypes, ThreadTypes, EnginesHold, StartersHold, OneStarter, OwnersAct, GuardsAreReferred, EventsAreGuarded
  <2>6. EventsAreGuarded'
    BY <2>0, <2>t, <1>t DEF UserPauses, Guarded, Goto, Starting, RunTypes, ThreadTypes, EnginesHold, StartersHold, OneStarter, OwnersAct, GuardsAreReferred, EventsAreGuarded
  <2>7. QED
    BY <2>1, <2>2, <2>3, <2>4, <2>5, <2>6 DEF RunsInv
<1>25. ASSUME NEW t \in Threads, PauseIsStored(t) PROVE RunsInv'
  <2>0. PauseIsStored(t)
    BY <1>25
  <2>1. QED
    BY <2>0, <1>t, ReturnUndisturbed DEF PauseIsStored, Starting
<1>26. ASSUME NEW u \in Users, UserResumes(u) PROVE RunsInv'
  <2>0. UserResumes(u) /\ u \in Threads
    BY <1>26 DEF Threads
  <2>t. EnginesHold /\ StartersHold /\ OneStarter /\ OwnersAct /\ GuardsAreReferred /\ EventsAreGuarded
    BY <1>t DEF RunsInv
  <2>1. EnginesHold'
    BY <2>0, <2>t, <1>t DEF UserResumes, Guarded, Goto, Starting, RunTypes, ThreadTypes, EnginesHold, StartersHold, OneStarter, OwnersAct, GuardsAreReferred, EventsAreGuarded
  <2>2. StartersHold'
    BY <2>0, <2>t, <1>t DEF UserResumes, Guarded, Goto, Starting, RunTypes, ThreadTypes, EnginesHold, StartersHold, OneStarter, OwnersAct, GuardsAreReferred, EventsAreGuarded
  <2>3. OneStarter'
    BY <2>0, <2>t, <1>t DEF UserResumes, Guarded, Goto, Starting, RunTypes, ThreadTypes, EnginesHold, StartersHold, OneStarter, OwnersAct, GuardsAreReferred, EventsAreGuarded
  <2>4. OwnersAct'
    BY <2>0, <2>t, <1>t DEF UserResumes, Guarded, Goto, Starting, RunTypes, ThreadTypes, EnginesHold, StartersHold, OneStarter, OwnersAct, GuardsAreReferred, EventsAreGuarded
  <2>5. GuardsAreReferred'
    BY <2>0, <2>t, <1>t DEF UserResumes, Guarded, Goto, Starting, RunTypes, ThreadTypes, EnginesHold, StartersHold, OneStarter, OwnersAct, GuardsAreReferred, EventsAreGuarded
  <2>6. EventsAreGuarded'
    BY <2>0, <2>t, <1>t DEF UserResumes, Guarded, Goto, Starting, RunTypes, ThreadTypes, EnginesHold, StartersHold, OneStarter, OwnersAct, GuardsAreReferred, EventsAreGuarded
  <2>7. QED
    BY <2>1, <2>2, <2>3, <2>4, <2>5, <2>6 DEF RunsInv
<1>27. ASSUME NEW t \in Threads, ResumeIsStored(t) PROVE RunsInv'
  <2>0. ResumeIsStored(t)
    BY <1>27
  <2>1. QED
    BY <2>0, <1>t, ReturnUndisturbed DEF ResumeIsStored, Starting
<1>28. ASSUME ClockReaches PROVE RunsInv'
  <2>0. ClockReaches
    BY <1>28
  <2>1. QED
    BY <2>0, <1>t, ThreadsKept DEF ClockReaches
<1>29. ASSUME Restart PROVE RunsInv'
  <2>0. Restart
    BY <1>29
  <2>t. EnginesHold /\ StartersHold /\ OneStarter /\ OwnersAct /\ GuardsAreReferred /\ EventsAreGuarded
    BY <1>t DEF RunsInv
  <2>1. EnginesHold'
    BY <2>0, <2>t, <1>t DEF Restart, Starting, RunTypes, ThreadTypes, EnginesHold, StartersHold, OneStarter, OwnersAct, GuardsAreReferred, EventsAreGuarded
  <2>2. StartersHold'
    BY <2>0, <2>t, <1>t DEF Restart, Starting, RunTypes, ThreadTypes, EnginesHold, StartersHold, OneStarter, OwnersAct, GuardsAreReferred, EventsAreGuarded
  <2>3. OneStarter'
    BY <2>0, <2>t, <1>t DEF Restart, Starting, RunTypes, ThreadTypes, EnginesHold, StartersHold, OneStarter, OwnersAct, GuardsAreReferred, EventsAreGuarded
  <2>4. OwnersAct'
    BY <2>0, <2>t, <1>t DEF Restart, Starting, RunTypes, ThreadTypes, EnginesHold, StartersHold, OneStarter, OwnersAct, GuardsAreReferred, EventsAreGuarded
  <2>5. GuardsAreReferred'
    BY <2>0, <2>t, <1>t DEF Restart, Starting, RunTypes, ThreadTypes, EnginesHold, StartersHold, OneStarter, OwnersAct, GuardsAreReferred, EventsAreGuarded
  <2>6. EventsAreGuarded'
    BY <2>0, <2>t, <1>t DEF Restart, Starting, RunTypes, ThreadTypes, EnginesHold, StartersHold, OneStarter, OwnersAct, GuardsAreReferred, EventsAreGuarded
  <2>7. QED
    BY <2>1, <2>2, <2>3, <2>4, <2>5, <2>6 DEF RunsInv
<1>30. CASE UNCHANGED vars
  BY <1>t, <1>30, ThreadsKept
<1>31. QED
  BY <1>30, <1>1, <1>2, <1>3, <1>4, <1>5, <1>6, <1>7, <1>8, <1>9, <1>10, <1>11, <1>12, <1>13, <1>14, <1>15, <1>16, <1>17, <1>18, <1>19, <1>20, <1>21, <1>22, <1>23, <1>24, <1>25, <1>26, <1>27, <1>28, <1>29 DEF Next, Scheduler, Start, Store, Engine, User

LEMMA InitInv == Init => AutomationInv
<1>. SUFFICES ASSUME Init PROVE AutomationInv
  OBVIOUS
<1>1. RunTypes
  BY DEF Init, RunTypes
<1>2. ScheduleTypes
  BY DEF Init, ScheduleTypes, Statuses
<1>3. ThreadTypes
  BY DEF Init, ThreadTypes, Steps, Captured, NoConfig
<1>4. RunsInv
  BY DEF Init, RunsInv, EnginesHold, StartersHold, OneStarter, OwnersAct, GuardsAreReferred,
         EventsAreGuarded, Starting
<1>5. QED
  BY <1>1, <1>2, <1>3, <1>4 DEF AutomationInv, TypeOK

\* The invariant of the run state of controller.py: whatever threads start, cancel and
\* end runs, and wherever the application restarts, an engine belongs to the run that
\* holds the profile, and one thread at a time is starting it.
THEOREM AutomationInvariant == Spec => []AutomationInv
<1>1. AutomationInv /\ [Next]_vars => AutomationInv'
  BY TypeStep, RunsStep DEF AutomationInv
<1>2. QED
  BY InitInv, <1>1, PTL DEF Spec

-----------------------------------------------------------------------------
(* Challenges. *)

LEMMA NoEngine ==
    ASSUME TypeOK, RunsInv, slot = NoRun \/ (slot \in Runs /\ fut[slot] = "none")
    PROVE  \A r \in Runs : fut[r] = "none"
  BY DEF TypeOK, RunTypes, RunsInv, EnginesHold

LEMMA ChallengeKept ==
    ASSUME TypeOK, ChallengeStopsEngines, UNCHANGED <<riskVars, fut>>,
           \A u \in Threads : pc'[u] \in {"guard", "browser"} => pc[u] \in {"guard", "browser"}
    PROVE  ChallengeStopsEngines'
  BY DEF ChallengeStopsEngines, Engines

LEMMA ChallengeStep ==
    ASSUME TypeOK, RunsInv, ChallengeStopsEngines, [Next]_vars
    PROVE  ChallengeStopsEngines'
<1>t. TypeOK /\ RunsInv /\ RunTypes /\ ThreadTypes /\ ChallengeStopsEngines
  BY DEF TypeOK
<1>1. ASSUME NEW w \in Workers, TimerFires(w) PROVE ChallengeStopsEngines'
  <2>0. TimerFires(w) /\ w \in Threads
    BY <1>1 DEF Threads
  <2>1. QED
    BY <2>0, <1>t, ChallengeKept DEF TimerFires, Goto, ThreadTypes
<1>2. ASSUME NEW w \in Workers, WatchdogSees(w) PROVE ChallengeStopsEngines'
  <2>0. WatchdogSees(w) /\ w \in Threads
    BY <1>2 DEF Threads
  <2>1. QED
    BY <2>0, <1>t, ChallengeKept DEF WatchdogSees, Goto, ThreadTypes
<1>3. ASSUME NEW t \in Threads, ClaimExecution(t) PROVE ChallengeStopsEngines'
  <2>0. ClaimExecution(t)
    BY <1>3
  <2>1. QED
    BY <2>0, <1>t, ChallengeKept DEF ClaimExecution, Return, Goto, ThreadTypes
<1>4. ASSUME NEW t \in Threads, Execute(t) PROVE ChallengeStopsEngines'
  <2>0. Execute(t)
    BY <1>4
  <2>1. QED
    BY <2>0, <1>t, ChallengeKept DEF Execute, Postpone, Return, Goto, ThreadTypes
<1>5. ASSUME NEW t \in Threads, ExecutionStarted(t) PROVE ChallengeStopsEngines'
  <2>0. ExecutionStarted(t)
    BY <1>5
  <2>1. QED
    BY <2>0, <1>t, ChallengeKept DEF ExecutionStarted, Return, Goto, ThreadTypes
<1>6. ASSUME NEW t \in Threads, ExecutionFailed(t) PROVE ChallengeStopsEngines'
  <2>0. ExecutionFailed(t)
    BY <1>6
  <2>1. QED
    BY <2>0, <1>t, ChallengeKept DEF ExecutionFailed, Return, Goto, ThreadTypes
<1>7. ASSUME UserCancelsSchedule PROVE ChallengeStopsEngines'
  <2>0. UserCancelsSchedule
    BY <1>7
  <2>1. QED
    BY <2>0, <1>t, ChallengeKept DEF UserCancelsSchedule, ThreadTypes
<1>8. ASSUME NEW u \in Users, UserSchedules(u) PROVE ChallengeStopsEngines'
  <2>0. UserSchedules(u) /\ u \in Threads
    BY <1>8 DEF Threads
  <2>1. QED
    BY <2>0, <1>t, ChallengeKept DEF UserSchedules, Goto, ThreadTypes
<1>9. ASSUME NEW t \in Threads, UserArms(t) PROVE ChallengeStopsEngines'
  <2>0. UserArms(t)
    BY <1>9
  <2>1. QED
    BY <2>0, <1>t, ChallengeKept DEF UserArms, Return, Goto, ThreadTypes
<1>10. ASSUME NEW u \in Users, UserStarts(u) PROVE ChallengeStopsEngines'
  <2>0. UserStarts(u) /\ u \in Threads
    BY <1>10 DEF Threads
  <2>1. QED
    BY <2>0, <1>t, ChallengeKept DEF UserStarts, Goto, ThreadTypes
<1>11. ASSUME NEW t \in Threads, ReplaceSchedule(t) PROVE ChallengeStopsEngines'
  <2>0. ReplaceSchedule(t)
    BY <1>11
  <2>1. QED
    BY <2>0, <1>t, ChallengeKept DEF ReplaceSchedule, Goto, ThreadTypes
<1>12. ASSUME NEW t \in Threads, Reserve(t) PROVE ChallengeStopsEngines'
  <2>0. Reserve(t)
    BY <1>12
  <2>1. QED
    BY <2>0, <1>t, ChallengeKept DEF Reserve, Postpone, Return, Goto, ThreadTypes
<1>13. ASSUME NEW t \in Threads, BeginRun(t) PROVE ChallengeStopsEngines'
  <2>0. BeginRun(t)
    BY <1>13
  <2>1. QED
    BY <2>0, <1>t DEF BeginRun, Continue, Return, Goto, ChallengeStopsEngines, Engines, RunTypes, ThreadTypes
<1>14. ASSUME NEW t \in Threads, SetGuard(t) PROVE ChallengeStopsEngines'
  <2>0. SetGuard(t)
    BY <1>14
  <2>1. QED
    BY <2>0, <1>t DEF SetGuard, Goto, ChallengeStopsEngines, Engines, RunTypes, ThreadTypes
<1>15. ASSUME NEW t \in Threads, Submit(t) PROVE ChallengeStopsEngines'
  <2>0. Submit(t)
    BY <1>15
  <2>1. QED
    BY <2>0, <1>t DEF Submit, Continue, Return, Goto, ChallengeStopsEngines, Engines, RunTypes, ThreadTypes
<1>16. ASSUME NEW t \in Threads, StartFails(t) PROVE ChallengeStopsEngines'
  <2>0. StartFails(t)
    BY <1>16
  <2>1. QED
    BY <2>0, <1>t DEF StartFails, Continue, Return, Goto, ChallengeStopsEngines, Engines, RunTypes, ThreadTypes
<1>17. ASSUME NEW r \in Runs, EngineBegins(r) PROVE ChallengeStopsEngines'
  <2>0. EngineBegins(r)
    BY <1>17
  <2>1. QED
    BY <2>0, <1>t DEF EngineBegins, ChallengeStopsEngines, Engines, RunTypes, ThreadTypes
<1>18. ASSUME NEW r \in Runs, EngineEnds(r) PROVE ChallengeStopsEngines'
  <2>0. EngineEnds(r)
    BY <1>18
  <2>1. QED
    BY <2>0, <1>t DEF EngineEnds, ChallengeStopsEngines, Engines, RunTypes, ThreadTypes
<1>19. ASSUME NEW r \in Runs, RecordResult(r) PROVE ChallengeStopsEngines'
  <2>0. RecordResult(r)
    BY <1>19
  <2>1. \A u \in Threads : pc[u] \notin Starting
    BY <2>0, <1>t DEF RecordResult, RunsInv, EnginesHold, StartersHold, RunTypes
  <2>2. Engines' = {}
    BY <2>0, <1>t DEF RecordResult, RunsInv, EnginesHold, Engines, RunTypes
  <2>3. QED
    BY <2>0, <2>1, <2>2, <1>t DEF RecordResult, ChallengeStopsEngines, Starting
<1>20. ASSUME NEW r \in Runs, ProxyStops(r) PROVE ChallengeStopsEngines'
  <2>0. ProxyStops(r)
    BY <1>20
  <2>1. QED
    BY <2>0, <1>t DEF ProxyStops, ChallengeStopsEngines, Engines, RunTypes, ThreadTypes
<1>21. ASSUME NEW r \in Runs, RunEnds(r) PROVE ChallengeStopsEngines'
  <2>0. RunEnds(r)
    BY <1>21
  <2>1. QED
    BY <2>0, <1>t DEF RunEnds, ChallengeStopsEngines, Engines, RunTypes, ThreadTypes
<1>22. ASSUME NEW u \in Users, UserCancels(u) PROVE ChallengeStopsEngines'
  <2>0. UserCancels(u) /\ u \in Threads
    BY <1>22 DEF Threads
  <2>1. QED
    BY <2>0, <1>t DEF UserCancels, Goto, ChallengeStopsEngines, Engines, RunTypes, ThreadTypes
<1>23. ASSUME NEW t \in Threads, CancelIsStored(t) PROVE ChallengeStopsEngines'
  <2>0. CancelIsStored(t)
    BY <1>23
  <2>1. QED
    BY <2>0, <1>t DEF CancelIsStored, Return, Goto, ChallengeStopsEngines, Engines, RunTypes, ThreadTypes
<1>24. ASSUME NEW u \in Users, UserPauses(u) PROVE ChallengeStopsEngines'
  <2>0. UserPauses(u) /\ u \in Threads
    BY <1>24 DEF Threads
  <2>1. QED
    BY <2>0, <1>t, ChallengeKept DEF UserPauses, Goto, ThreadTypes
<1>25. ASSUME NEW t \in Threads, PauseIsStored(t) PROVE ChallengeStopsEngines'
  <2>0. PauseIsStored(t)
    BY <1>25
  <2>1. QED
    BY <2>0, <1>t DEF PauseIsStored, Return, Goto, ChallengeStopsEngines, Engines, RunTypes, ThreadTypes
<1>26. ASSUME NEW u \in Users, UserResumes(u) PROVE ChallengeStopsEngines'
  <2>0. UserResumes(u) /\ u \in Threads
    BY <1>26 DEF Threads
  <2>1. QED
    BY <2>0, <1>t, ChallengeKept DEF UserResumes, Goto, ThreadTypes
<1>27. ASSUME NEW t \in Threads, ResumeIsStored(t) PROVE ChallengeStopsEngines'
  <2>0. ResumeIsStored(t)
    BY <1>27
  <2>1. QED
    BY <2>0, <1>t DEF ResumeIsStored, Return, Goto, ChallengeStopsEngines, Engines, RunTypes, ThreadTypes
<1>28. ASSUME ClockReaches PROVE ChallengeStopsEngines'
  <2>0. ClockReaches
    BY <1>28
  <2>1. QED
    BY <2>0, <1>t, ChallengeKept DEF ClockReaches, ThreadTypes
<1>29. ASSUME Restart PROVE ChallengeStopsEngines'
  <2>0. Restart
    BY <1>29
  <2>1. QED
    BY <2>0, <1>t DEF Restart, ChallengeStopsEngines, Engines, RunTypes, ThreadTypes
<1>30. CASE UNCHANGED vars
  BY <1>t, <1>30, ChallengeKept
<1>31. QED
  BY <1>30, <1>1, <1>2, <1>3, <1>4, <1>5, <1>6, <1>7, <1>8, <1>9, <1>10, <1>11, <1>12, <1>13, <1>14, <1>15, <1>16, <1>17, <1>18, <1>19, <1>20, <1>21, <1>22, <1>23, <1>24, <1>25, <1>26, <1>27, <1>28, <1>29 DEF Next, Scheduler, Start, Store, Engine, User

\* ChallengeStopsEngines of AutomationRuns: no start passes the safety store, and no
\* engine works, while a challenge is not dealt with.
THEOREM ChallengeIsRespected == Spec => []ChallengeStopsEngines
<1>1. Init => ChallengeStopsEngines
  BY DEF Init, ChallengeStopsEngines
<1>2. AutomationInv /\ ChallengeStopsEngines /\ [Next]_vars => ChallengeStopsEngines'
  BY ChallengeStep DEF AutomationInv
<1>3. QED
  BY <1>1, <1>2, AutomationInvariant, PTL DEF Spec

-----------------------------------------------------------------------------
(* Timers. *)

LEMMA WaitingKept ==
    ASSUME WaitingIsArmed, UNCHANGED <<mode, status, timer>>,
           \A u \in Users : pc[u] = "arm" => pc'[u] = "arm"
    PROVE  WaitingIsArmed'
  BY DEF WaitingIsArmed

LEMMA ArmArms ==
    ASSUME NEW config, NEW s, Arm(config, s)
    PROVE  WaitingIsArmed'
  BY DEF WaitingIsArmed, Arm

LEMMA CancelEndsWaiting ==
    ASSUME NEW s, s \notin Waiting, CancelSchedule(s)
    PROVE  WaitingIsArmed'
  BY DEF WaitingIsArmed, CancelSchedule

LEMMA WaitingStep ==
    ASSUME TypeOK, WaitingIsArmed, [Next]_vars
    PROVE  WaitingIsArmed'
<1>t. TypeOK /\ ThreadTypes /\ ScheduleTypes /\ WaitingIsArmed
  BY DEF TypeOK
<1>1. ASSUME NEW w \in Workers, TimerFires(w) PROVE WaitingIsArmed'
  <2>0. TimerFires(w) /\ w \in Threads
    BY <1>1 DEF Threads
  <2>1. QED
    BY <2>0, <1>t DEF TimerFires, Goto, Threads, ThreadTypes, WaitingIsArmed
<1>2. ASSUME NEW w \in Workers, WatchdogSees(w) PROVE WaitingIsArmed'
  <2>0. WatchdogSees(w) /\ w \in Threads
    BY <1>2 DEF Threads
  <2>1. QED
    BY <2>0, <1>t, WaitingKept DEF WatchdogSees, Goto, Threads, ThreadTypes
<1>3. ASSUME NEW t \in Threads, ClaimExecution(t) PROVE WaitingIsArmed'
  <2>0. ClaimExecution(t)
    BY <1>3
  <2>1. CASE status' = "TRIGGERING"
    BY <2>1 DEF WaitingIsArmed, Waiting
  <2>2. CASE Return(t) /\ UNCHANGED <<mode, status, timer>>
    BY <2>0, <2>2, <1>t, WaitingKept DEF ClaimExecution, Return, Goto, Threads, ThreadTypes
  <2>3. QED
    BY <2>0, <2>1, <2>2 DEF ClaimExecution
<1>4. ASSUME NEW t \in Threads, Execute(t) PROVE WaitingIsArmed'
  <2>0. Execute(t)
    BY <1>4
  <2>1. CASE \E config, s : Arm(config, s)
    BY <2>1, ArmArms
  <2>2. CASE status' \in {"FAILED", "TRIGGERED"}
    BY <2>2 DEF WaitingIsArmed, Waiting
  <2>3. CASE UNCHANGED scheduleVars
    BY <2>0, <2>3, <1>t, WaitingKept DEF Execute, Postpone, Return, Goto, Threads, ThreadTypes
  <2>4. QED
    BY <2>0, <2>1, <2>2, <2>3 DEF Execute, Postpone
<1>5. ASSUME NEW t \in Threads, ExecutionStarted(t) PROVE WaitingIsArmed'
  <2>0. ExecutionStarted(t)
    BY <1>5
  <2>1. CASE \E config, s : Arm(config, s)
    BY <2>1, ArmArms
  <2>2. CASE status' \in {"FAILED", "TRIGGERED"}
    BY <2>2 DEF WaitingIsArmed, Waiting
  <2>3. CASE UNCHANGED scheduleVars
    BY <2>0, <2>3, <1>t, WaitingKept DEF ExecutionStarted, Return, Goto, Threads, ThreadTypes
  <2>4. QED
    BY <2>0, <2>1, <2>2, <2>3 DEF ExecutionStarted, Postpone
<1>6. ASSUME NEW t \in Threads, ExecutionFailed(t) PROVE WaitingIsArmed'
  <2>0. ExecutionFailed(t)
    BY <1>6
  <2>1. CASE \E config, s : Arm(config, s)
    BY <2>1, ArmArms
  <2>2. CASE status' \in {"FAILED", "TRIGGERED"}
    BY <2>2 DEF WaitingIsArmed, Waiting
  <2>3. CASE UNCHANGED scheduleVars
    BY <2>0, <2>3, <1>t, WaitingKept DEF ExecutionFailed, Return, Goto, Threads, ThreadTypes
  <2>4. QED
    BY <2>0, <2>1, <2>2, <2>3 DEF ExecutionFailed, Postpone
<1>7. ASSUME UserCancelsSchedule PROVE WaitingIsArmed'
  <2>0. UserCancelsSchedule
    BY <1>7
  <2>1. QED
    BY <2>0, CancelEndsWaiting DEF UserCancelsSchedule, Waiting
<1>8. ASSUME NEW u \in Users, UserSchedules(u) PROVE WaitingIsArmed'
  <2>0. UserSchedules(u) /\ u \in Threads
    BY <1>8 DEF Threads
  <2>1. QED
    BY <2>0, <1>t DEF UserSchedules, Goto, ThreadTypes, WaitingIsArmed
<1>9. ASSUME NEW t \in Threads, UserArms(t) PROVE WaitingIsArmed'
  <2>0. UserArms(t)
    BY <1>9
  <2>1. QED
    BY <2>0, ArmArms DEF UserArms
<1>10. ASSUME NEW u \in Users, UserStarts(u) PROVE WaitingIsArmed'
  <2>0. UserStarts(u) /\ u \in Threads
    BY <1>10 DEF Threads
  <2>1. QED
    BY <2>0 DEF UserStarts, WaitingIsArmed
<1>11. ASSUME NEW t \in Threads, ReplaceSchedule(t) PROVE WaitingIsArmed'
  <2>0. ReplaceSchedule(t)
    BY <1>11
  <2>1. QED
    BY <2>0, CancelEndsWaiting DEF ReplaceSchedule, Waiting
<1>12. ASSUME NEW t \in Threads, Reserve(t) PROVE WaitingIsArmed'
  <2>0. Reserve(t)
    BY <1>12
  <2>1. CASE \E config, s : Arm(config, s)
    BY <2>1, ArmArms
  <2>2. CASE status' \in {"FAILED", "TRIGGERED"}
    BY <2>2 DEF WaitingIsArmed, Waiting
  <2>3. CASE UNCHANGED scheduleVars
    BY <2>0, <2>3, <1>t, WaitingKept DEF Reserve, Postpone, Return, Goto, Threads, ThreadTypes
  <2>4. QED
    BY <2>0, <2>1, <2>2, <2>3 DEF Reserve, Postpone
<1>13. ASSUME NEW t \in Threads, BeginRun(t) PROVE WaitingIsArmed'
  <2>0. BeginRun(t)
    BY <1>13
  <2>1. QED
    BY <2>0, <1>t, WaitingKept DEF BeginRun, Continue, Return, Goto, Threads, ThreadTypes
<1>14. ASSUME NEW t \in Threads, SetGuard(t) PROVE WaitingIsArmed'
  <2>0. SetGuard(t)
    BY <1>14
  <2>1. QED
    BY <2>0, <1>t, WaitingKept DEF SetGuard, Goto, Threads, ThreadTypes
<1>15. ASSUME NEW t \in Threads, Submit(t) PROVE WaitingIsArmed'
  <2>0. Submit(t)
    BY <1>15
  <2>1. QED
    BY <2>0, <1>t, WaitingKept DEF Submit, Continue, Return, Goto, Threads, ThreadTypes
<1>16. ASSUME NEW t \in Threads, StartFails(t) PROVE WaitingIsArmed'
  <2>0. StartFails(t)
    BY <1>16
  <2>1. QED
    BY <2>0, <1>t, WaitingKept DEF StartFails, Continue, Return, Goto, Threads, ThreadTypes
<1>17. ASSUME NEW r \in Runs, EngineBegins(r) PROVE WaitingIsArmed'
  <2>0. EngineBegins(r)
    BY <1>17
  <2>1. QED
    BY <2>0, <1>t, WaitingKept DEF EngineBegins, Threads, ThreadTypes
<1>18. ASSUME NEW r \in Runs, EngineEnds(r) PROVE WaitingIsArmed'
  <2>0. EngineEnds(r)
    BY <1>18
  <2>1. QED
    BY <2>0, <1>t, WaitingKept DEF EngineEnds, Threads, ThreadTypes
<1>19. ASSUME NEW r \in Runs, RecordResult(r) PROVE WaitingIsArmed'
  <2>0. RecordResult(r)
    BY <1>19
  <2>1. QED
    BY <2>0, <1>t, WaitingKept DEF RecordResult, Threads, ThreadTypes
<1>20. ASSUME NEW r \in Runs, ProxyStops(r) PROVE WaitingIsArmed'
  <2>0. ProxyStops(r)
    BY <1>20
  <2>1. QED
    BY <2>0, CancelEndsWaiting DEF ProxyStops, Waiting
<1>21. ASSUME NEW r \in Runs, RunEnds(r) PROVE WaitingIsArmed'
  <2>0. RunEnds(r)
    BY <1>21
  <2>1. QED
    BY <2>0, <1>t, WaitingKept DEF RunEnds, Threads, ThreadTypes
<1>22. ASSUME NEW u \in Users, UserCancels(u) PROVE WaitingIsArmed'
  <2>0. UserCancels(u) /\ u \in Threads
    BY <1>22 DEF Threads
  <2>1. QED
    BY <2>0, <1>t, WaitingKept DEF UserCancels, Goto, Threads, ThreadTypes
<1>23. ASSUME NEW t \in Threads, CancelIsStored(t) PROVE WaitingIsArmed'
  <2>0. CancelIsStored(t)
    BY <1>23
  <2>1. QED
    BY <2>0, <1>t, WaitingKept DEF CancelIsStored, Return, Goto, Threads, ThreadTypes
<1>24. ASSUME NEW u \in Users, UserPauses(u) PROVE WaitingIsArmed'
  <2>0. UserPauses(u) /\ u \in Threads
    BY <1>24 DEF Threads
  <2>1. QED
    BY <2>0, <1>t, WaitingKept DEF UserPauses, Goto, Threads, ThreadTypes
<1>25. ASSUME NEW t \in Threads, PauseIsStored(t) PROVE WaitingIsArmed'
  <2>0. PauseIsStored(t)
    BY <1>25
  <2>1. QED
    BY <2>0, <1>t, WaitingKept DEF PauseIsStored, Return, Goto, Threads, ThreadTypes
<1>26. ASSUME NEW u \in Users, UserResumes(u) PROVE WaitingIsArmed'
  <2>0. UserResumes(u) /\ u \in Threads
    BY <1>26 DEF Threads
  <2>1. QED
    BY <2>0, <1>t, WaitingKept DEF UserResumes, Goto, Threads, ThreadTypes
<1>27. ASSUME NEW t \in Threads, ResumeIsStored(t) PROVE WaitingIsArmed'
  <2>0. ResumeIsStored(t)
    BY <1>27
  <2>1. QED
    BY <2>0, <1>t, WaitingKept DEF ResumeIsStored, Return, Goto, Threads, ThreadTypes
<1>28. ASSUME ClockReaches PROVE WaitingIsArmed'
  <2>0. ClockReaches
    BY <1>28
  <2>1. QED
    BY <2>0, <1>t, WaitingKept DEF ClockReaches, Threads, ThreadTypes
<1>29. ASSUME Restart PROVE WaitingIsArmed'
  <2>0. Restart
    BY <1>29
  <2>1. CASE \E config : Arm(config, "WAITING")
    BY <2>1, ArmArms
  <2>2. CASE ~Restorable /\ status' = status /\ mode' = mode
    BY <2>2 DEF Restorable, WaitingIsArmed, Waiting
  <2>3. CASE status' = "MISSED"
    BY <2>3 DEF WaitingIsArmed, Waiting
  <2>4. QED
    BY <2>0, <2>1, <2>2, <2>3 DEF Restart
<1>30. CASE UNCHANGED vars
  BY <1>t, <1>30, WaitingKept
<1>31. QED
  BY <1>30, <1>1, <1>2, <1>3, <1>4, <1>5, <1>6, <1>7, <1>8, <1>9, <1>10, <1>11, <1>12, <1>13, <1>14, <1>15, <1>16, <1>17, <1>18, <1>19, <1>20, <1>21, <1>22, <1>23, <1>24, <1>25, <1>26, <1>27, <1>28, <1>29 DEF Next, Scheduler, Start, Store, Engine, User

\* WaitingIsArmed of AutomationRuns: a schedule shown as waiting has its timer.
THEOREM WaitingHasTimer == Spec => []WaitingIsArmed
<1>1. Init => WaitingIsArmed
  BY DEF Init, WaitingIsArmed
<1>2. AutomationInv /\ WaitingIsArmed /\ [Next]_vars => WaitingIsArmed'
  BY WaitingStep DEF AutomationInv
<1>3. QED
  BY <1>1, <1>2, AutomationInvariant, PTL DEF Spec

-----------------------------------------------------------------------------
(* Refinement. *)

LEMMA SlotStutters ==
    ASSUME UNCHANGED <<slot, fut>>
    PROVE  UNCHANGED Slot!slotVars
  BY DEF Slot!slotVars, Engines

LEMMA SlotGivenBack ==
    ASSUME slot # NoRun, slot' = NoRun, \A r \in Runs : fut'[r] \notin {"queued", "running"}
    PROVE  Slot!GiveBack
  BY DEF Slot!GiveBack, Engines

LEMMA SlotStep ==
    ASSUME TypeOK, RunsInv, [Next]_vars
    PROVE  [Slot!Next]_(Slot!slotVars)
<1>t. TypeOK /\ RunsInv /\ RunTypes /\ ThreadTypes /\ EnginesHold /\ StartersHold
  BY DEF TypeOK, RunsInv
<1>1. ASSUME NEW w \in Workers, TimerFires(w) PROVE [Slot!Next]_(Slot!slotVars)
  <2>0. TimerFires(w) /\ w \in Threads
    BY <1>1 DEF Threads
  <2>1. QED
    BY <2>0, SlotStutters DEF TimerFires
<1>2. ASSUME NEW w \in Workers, WatchdogSees(w) PROVE [Slot!Next]_(Slot!slotVars)
  <2>0. WatchdogSees(w) /\ w \in Threads
    BY <1>2 DEF Threads
  <2>1. QED
    BY <2>0, SlotStutters DEF WatchdogSees
<1>3. ASSUME NEW t \in Threads, ClaimExecution(t) PROVE [Slot!Next]_(Slot!slotVars)
  <2>0. ClaimExecution(t)
    BY <1>3
  <2>1. QED
    BY <2>0, SlotStutters DEF ClaimExecution
<1>4. ASSUME NEW t \in Threads, Execute(t) PROVE [Slot!Next]_(Slot!slotVars)
  <2>0. Execute(t)
    BY <1>4
  <2>1. QED
    BY <2>0, SlotStutters DEF Execute
<1>5. ASSUME NEW t \in Threads, ExecutionStarted(t) PROVE [Slot!Next]_(Slot!slotVars)
  <2>0. ExecutionStarted(t)
    BY <1>5
  <2>1. QED
    BY <2>0, SlotStutters DEF ExecutionStarted
<1>6. ASSUME NEW t \in Threads, ExecutionFailed(t) PROVE [Slot!Next]_(Slot!slotVars)
  <2>0. ExecutionFailed(t)
    BY <1>6
  <2>1. QED
    BY <2>0, SlotStutters DEF ExecutionFailed
<1>7. ASSUME UserCancelsSchedule PROVE [Slot!Next]_(Slot!slotVars)
  <2>0. UserCancelsSchedule
    BY <1>7
  <2>1. QED
    BY <2>0, SlotStutters DEF UserCancelsSchedule
<1>8. ASSUME NEW u \in Users, UserSchedules(u) PROVE [Slot!Next]_(Slot!slotVars)
  <2>0. UserSchedules(u) /\ u \in Threads
    BY <1>8 DEF Threads
  <2>1. QED
    BY <2>0, SlotStutters DEF UserSchedules
<1>9. ASSUME NEW t \in Threads, UserArms(t) PROVE [Slot!Next]_(Slot!slotVars)
  <2>0. UserArms(t)
    BY <1>9
  <2>1. QED
    BY <2>0, SlotStutters DEF UserArms
<1>10. ASSUME NEW u \in Users, UserStarts(u) PROVE [Slot!Next]_(Slot!slotVars)
  <2>0. UserStarts(u) /\ u \in Threads
    BY <1>10 DEF Threads
  <2>1. QED
    BY <2>0, SlotStutters DEF UserStarts
<1>11. ASSUME NEW t \in Threads, ReplaceSchedule(t) PROVE [Slot!Next]_(Slot!slotVars)
  <2>0. ReplaceSchedule(t)
    BY <1>11
  <2>1. QED
    BY <2>0, SlotStutters DEF ReplaceSchedule
<1>12. ASSUME NEW t \in Threads, Reserve(t) PROVE [Slot!Next]_(Slot!slotVars)
  <2>0. Reserve(t)
    BY <1>12
  <2>1. CASE slot # NoRun
    BY <2>0, <2>1, SlotStutters DEF Reserve
  <2>2. CASE slot = NoRun
    <3>1. PICK r \in Runs : slot' = r /\ fut' = fut
      BY <2>0, <2>2 DEF Reserve
    <3>2. Slot!Take(r)
      BY <3>1, <2>2 DEF Slot!Take, Engines
    <3>3. QED
      BY <3>2 DEF Slot!Next
  <2>3. QED
    BY <2>1, <2>2
<1>13. ASSUME NEW t \in Threads, BeginRun(t) PROVE [Slot!Next]_(Slot!slotVars)
  <2>0. BeginRun(t)
    BY <1>13
  <2>1. own[t] = slot /\ slot \in Runs /\ fut[slot] = "none" /\ fut' = fut
    BY <2>0, <1>t DEF BeginRun, StartersHold, Starting, RunTypes
  <2>2. \A r \in Runs : fut[r] = "none"
    BY <2>1, <1>t, NoEngine
  <2>3. CASE slot' = NoRun
    BY <2>1, <2>2, <2>3, SlotGivenBack DEF Slot!Next
  <2>4. CASE slot' = slot
    BY <2>1, <2>4, SlotStutters
  <2>5. QED
    BY <2>0, <2>1, <2>3, <2>4 DEF BeginRun, Release
<1>14. ASSUME NEW t \in Threads, SetGuard(t) PROVE [Slot!Next]_(Slot!slotVars)
  <2>0. SetGuard(t)
    BY <1>14
  <2>1. QED
    BY <2>0, SlotStutters DEF SetGuard
<1>15. ASSUME NEW t \in Threads, Submit(t) PROVE [Slot!Next]_(Slot!slotVars)
  <2>0. Submit(t)
    BY <1>15
  <2>1. own[t] = slot /\ slot \in Runs /\ fut[slot] = "none"
    BY <2>0, <1>t DEF Submit, StartersHold, Starting, RunTypes
  <2>2. \A r \in Runs : fut[r] = "none"
    BY <2>1, <1>t, NoEngine
  <2>3. Engines = {} /\ Engines' = {slot} /\ slot' = slot
    BY <2>0, <2>1, <2>2, <1>t DEF Submit, Engines, RunTypes
  <2>4. Slot!Launch
    BY <2>1, <2>3 DEF Slot!Launch
  <2>5. QED
    BY <2>4 DEF Slot!Next
<1>16. ASSUME NEW t \in Threads, StartFails(t) PROVE [Slot!Next]_(Slot!slotVars)
  <2>0. StartFails(t)
    BY <1>16
  <2>1. own[t] = slot /\ slot \in Runs /\ fut[slot] = "none" /\ fut' = fut
    BY <2>0, <1>t DEF StartFails, StartersHold, Starting, RunTypes
  <2>2. \A r \in Runs : fut[r] = "none"
    BY <2>1, <1>t, NoEngine
  <2>3. CASE slot' = NoRun
    BY <2>1, <2>2, <2>3, SlotGivenBack DEF Slot!Next
  <2>4. CASE slot' = slot
    BY <2>1, <2>4, SlotStutters
  <2>5. QED
    BY <2>0, <2>1, <2>3, <2>4 DEF StartFails, Release
<1>17. ASSUME NEW r \in Runs, EngineBegins(r) PROVE [Slot!Next]_(Slot!slotVars)
  <2>0. EngineBegins(r)
    BY <1>17
  <2>1. Engines' = Engines /\ slot' = slot
    BY <2>0, <1>t DEF EngineBegins, Engines, RunTypes
  <2>2. QED
    BY <2>1 DEF Slot!slotVars
<1>18. ASSUME NEW r \in Runs, EngineEnds(r) PROVE [Slot!Next]_(Slot!slotVars)
  <2>0. EngineEnds(r)
    BY <1>18
  <2>1. Engines = {r} /\ Engines' = {} /\ slot' = slot
    BY <2>0, <1>t DEF EngineEnds, EnginesHold, Engines, RunTypes
  <2>2. Slot!Stop
    BY <2>1 DEF Slot!Stop
  <2>3. QED
    BY <2>2 DEF Slot!Next
<1>19. ASSUME NEW r \in Runs, RecordResult(r) PROVE [Slot!Next]_(Slot!slotVars)
  <2>0. RecordResult(r)
    BY <1>19
  <2>1. Engines' = Engines /\ slot' = slot
    BY <2>0, <1>t DEF RecordResult, Engines, RunTypes
  <2>2. QED
    BY <2>1 DEF Slot!slotVars
<1>20. ASSUME NEW r \in Runs, ProxyStops(r) PROVE [Slot!Next]_(Slot!slotVars)
  <2>0. ProxyStops(r)
    BY <1>20
  <2>1. Engines' = Engines /\ slot' = slot
    BY <2>0, <1>t DEF ProxyStops, Engines, RunTypes
  <2>2. QED
    BY <2>1 DEF Slot!slotVars
<1>21. ASSUME NEW r \in Runs, RunEnds(r) PROVE [Slot!Next]_(Slot!slotVars)
  <2>0. RunEnds(r)
    BY <1>21
  <2>1. slot = r /\ slot' = NoRun
    BY <2>0, <1>t DEF RunEnds, Release, EnginesHold
  <2>2. \A q \in Runs : fut'[q] = "none"
    BY <2>0, <2>1, <1>t DEF RunEnds, EnginesHold, RunTypes
  <2>3. QED
    BY <2>1, <2>2, SlotGivenBack DEF Slot!Next
<1>22. ASSUME NEW u \in Users, UserCancels(u) PROVE [Slot!Next]_(Slot!slotVars)
  <2>0. UserCancels(u) /\ u \in Threads
    BY <1>22 DEF Threads
  <2>1. CASE fut[slot] = "queued"
    <3>1. \A r \in Runs : fut'[r] = "none"
      BY <2>0, <2>1, <1>t DEF UserCancels, EnginesHold, RunTypes
    <3>2. QED
      BY <2>0, <2>1, <3>1, SlotGivenBack DEF UserCancels, Slot!Next
  <2>2. CASE fut[slot] # "queued"
    BY <2>0, <2>2, SlotStutters DEF UserCancels
  <2>3. QED
    BY <2>1, <2>2
<1>23. ASSUME NEW t \in Threads, CancelIsStored(t) PROVE [Slot!Next]_(Slot!slotVars)
  <2>0. CancelIsStored(t)
    BY <1>23
  <2>1. QED
    BY <2>0, SlotStutters DEF CancelIsStored
<1>24. ASSUME NEW u \in Users, UserPauses(u) PROVE [Slot!Next]_(Slot!slotVars)
  <2>0. UserPauses(u) /\ u \in Threads
    BY <1>24 DEF Threads
  <2>1. QED
    BY <2>0, SlotStutters DEF UserPauses
<1>25. ASSUME NEW t \in Threads, PauseIsStored(t) PROVE [Slot!Next]_(Slot!slotVars)
  <2>0. PauseIsStored(t)
    BY <1>25
  <2>1. QED
    BY <2>0, SlotStutters DEF PauseIsStored
<1>26. ASSUME NEW u \in Users, UserResumes(u) PROVE [Slot!Next]_(Slot!slotVars)
  <2>0. UserResumes(u) /\ u \in Threads
    BY <1>26 DEF Threads
  <2>1. QED
    BY <2>0, SlotStutters DEF UserResumes
<1>27. ASSUME NEW t \in Threads, ResumeIsStored(t) PROVE [Slot!Next]_(Slot!slotVars)
  <2>0. ResumeIsStored(t)
    BY <1>27
  <2>1. QED
    BY <2>0, SlotStutters DEF ResumeIsStored
<1>28. ASSUME ClockReaches PROVE [Slot!Next]_(Slot!slotVars)
  <2>0. ClockReaches
    BY <1>28
  <2>1. QED
    BY <2>0, SlotStutters DEF ClockReaches
<1>29. ASSUME Restart PROVE [Slot!Next]_(Slot!slotVars)
  <2>0. Restart
    BY <1>29
  <2>1. slot' = NoRun /\ \A r \in Runs : fut'[r] = "none"
    BY <2>0 DEF Restart
  <2>2. CASE slot # NoRun
    BY <2>1, <2>2, SlotGivenBack DEF Slot!Next
  <2>3. CASE slot = NoRun
    <3>1. Engines = {} /\ Engines' = {}
      BY <2>1, <2>3, <1>t, NoEngine DEF Engines
    <3>2. QED
      BY <2>1, <2>3, <3>1 DEF Slot!slotVars
  <2>4. QED
    BY <2>2, <2>3
<1>30. CASE UNCHANGED vars
  BY <1>30, SlotStutters
<1>31. QED
  BY <1>30, <1>1, <1>2, <1>3, <1>4, <1>5, <1>6, <1>7, <1>8, <1>9, <1>10, <1>11, <1>12, <1>13, <1>14, <1>15, <1>16, <1>17, <1>18, <1>19, <1>20, <1>21, <1>22, <1>23, <1>24, <1>25, <1>26, <1>27, <1>28, <1>29 DEF Next, Scheduler, Start, Store, Engine, User

\* ImplementsProfileSlot of AutomationRuns: the profile is held by one run at a time,
\* changes hands only when it is free, and no engine survives its hold.
THEOREM AutomationImplementsSlot == Spec => ImplementsProfileSlot
<1>1. Init => Slot!Init
  BY DEF Init, Slot!Init, Engines
<1>2. AutomationInv /\ [Next]_vars => [Slot!Next]_(Slot!slotVars)
  BY SlotStep DEF AutomationInv
<1>3. QED
  BY <1>1, <1>2, AutomationInvariant, PTL DEF Spec, ImplementsProfileSlot, Slot!Spec
=============================================================================
