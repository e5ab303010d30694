--------------------------- MODULE ProfileRunner ---------------------------
(***************************************************************************)
(* What the task manager promises, without pools, futures or locks: a      *)
(* profile runs one task at a time, a task is run at most once and never   *)
(* after its cancellation was confirmed, and it is reported when nobody    *)
(* runs it any more, as cancelled or failed if nobody ever did.            *)
(* TaskManager implements this specification.                              *)
(***************************************************************************)
EXTENDS Naturals

CONSTANTS Tasks, ProfileOf, Final

VARIABLES running,   \* tasks that are being run
          runs,      \* how often each task was run
          refused,   \* tasks whose cancellation was confirmed
          report     \* what the caller was told of each task, or "none"

runnerVars == <<running, runs, refused, report>>

Init == /\ running = {} /\ refused = {}
        /\ runs = [t \in Tasks |-> 0]
        /\ report = [t \in Tasks |-> "none"]

Run(t) ==
    /\ runs[t] = 0 /\ t \notin refused /\ report[t] = "none"
    /\ \A u \in running : ProfileOf[u] # ProfileOf[t]
    /\ running' = running \cup {t}
    /\ runs' = [runs EXCEPT ![t] = 1]
    /\ UNCHANGED <<refused, report>>

End(t) ==
    /\ t \in running
    /\ running' = running \ {t}
    /\ UNCHANGED <<runs, refused, report>>

Refuse(t) ==
    /\ runs[t] = 0
    /\ refused' = refused \cup {t}
    /\ UNCHANGED <<running, runs, report>>

\* A batch of tasks is reported at once.
Report(S) ==
    /\ S \cap running = {} /\ \A t \in S : report[t] = "none"
    /\ \E told \in [S -> Final] :
         /\ \A t \in S : runs[t] = 0 => told[t] \in {"CANCELLED", "FAILED"}
         /\ report' = [t \in Tasks |-> IF t \in S THEN told[t] ELSE report[t]]
    /\ UNCHANGED <<running, runs, refused>>

Next == \/ \E t \in Tasks : Run(t) \/ End(t) \/ Refuse(t)
        \/ \E S \in SUBSET Tasks : Report(S)

Spec == Init /\ [][Next]_runnerVars
=============================================================================
