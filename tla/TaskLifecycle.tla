--------------------------- MODULE TaskLifecycle ---------------------------
(***************************************************************************)
(* What the task pipeline promises, without saying how: a task is executed *)
(* only until the agent has recorded a result for it, it records at most   *)
(* one, and the outcome the task settles with is that result, unless the   *)
(* task was cancelled.  A settled task keeps its outcome until the server  *)
(* loses it.  TaskPipeline implements this specification.                   *)
(***************************************************************************)
EXTENDS Naturals

CONSTANTS Tasks,        \* task ids
          Verdicts      \* what an execution can end with

VARIABLES phase,        \* "absent", "open" or the outcome the task settled with
          executed,     \* how often the agent has executed the task
          recorded      \* the result the agent has recorded, or "none"

lifecycleVars == <<phase, executed, recorded>>

Init == /\ phase = [t \in Tasks |-> "absent"]
        /\ executed = [t \in Tasks |-> 0]
        /\ recorded = [t \in Tasks |-> "none"]

Create(t) == /\ phase[t] = "absent"
             /\ phase' = [phase EXCEPT ![t] = "open"]
             /\ UNCHANGED <<executed, recorded>>

\* A task with a recorded result is never executed again.
Execute(t) == /\ phase[t] = "open" /\ recorded[t] = "none"
              /\ executed' = [executed EXCEPT ![t] = @ + 1]
              /\ UNCHANGED <<phase, recorded>>

\* The result of an execution is recorded.  If the task was cancelled meanwhile
\* nobody works on it any more and it settles in the same step.
Record(t) == /\ phase[t] = "open" /\ recorded[t] = "none"
             /\ \E v \in Verdicts \cup {"CANCELLED"} : recorded' = [recorded EXCEPT ![t] = v]
             /\ \E p \in {"open", "CANCELLED"} : phase' = [phase EXCEPT ![t] = p]
             /\ UNCHANGED executed

\* What a task may settle with.
Outcomes(t) == ({recorded[t]} \cap Verdicts) \cup {"CANCELLED"}

Settle(settling) ==
    /\ \A t \in settling : phase[t] = "open"
    /\ \E outcome \in [settling -> Verdicts \cup {"CANCELLED"}] :
         /\ \A t \in settling : outcome[t] \in Outcomes(t)
         /\ phase' = [t \in Tasks |-> IF t \in settling THEN outcome[t] ELSE phase[t]]
    /\ UNCHANGED <<executed, recorded>>

\* The server loses its database: every task it had is gone.
Lose == /\ phase' = [t \in Tasks |-> IF phase[t] = "absent" THEN "absent" ELSE "GONE"]
        /\ UNCHANGED <<executed, recorded>>

Next == \/ \E t \in Tasks : Create(t) \/ Execute(t) \/ Record(t)
        \/ \E settling \in SUBSET Tasks : Settle(settling)
        \/ Lose

Spec == Init /\ [][Next]_lifecycleVars
=============================================================================
