-------------------------- MODULE CommandLifecycle --------------------------
(***************************************************************************)
(* What the command channel promises its users, without saying how: a      *)
(* command is created once, stays open while anybody may still work on it, *)
(* and settles at most once.  A settled command keeps its outcome and the  *)
(* agent never dispatches it again.  CommandChannel implements this        *)
(* specification under the refinement mapping stated there.                *)
(***************************************************************************)
EXTENDS Naturals

CONSTANTS Commands,     \* command ids
          Outcomes      \* the terminal statuses

VARIABLES phase,        \* "absent", "open" or the outcome it settled with
          dispatched    \* how often the agent has dispatched the command

lifecycleVars == <<phase, dispatched>>

Init == /\ phase = [c \in Commands |-> "absent"]
        /\ dispatched = [c \in Commands |-> 0]

Create(c) == /\ phase[c] = "absent"
             /\ phase' = [phase EXCEPT ![c] = "open"]
             /\ UNCHANGED dispatched

\* Only an open command is dispatched.
Dispatch(c) == /\ phase[c] = "open"
               /\ dispatched' = [dispatched EXCEPT ![c] = @ + 1]
               /\ UNCHANGED phase

\* One step may settle several commands (a restart forgets all of them), and
\* nothing takes a settled command out of its outcome.
Settle(settling) ==
    /\ \A c \in settling : phase[c] = "open"
    /\ \E outcome \in [settling -> Outcomes] :
         phase' = [c \in Commands |-> IF c \in settling THEN outcome[c] ELSE phase[c]]
    /\ UNCHANGED dispatched

Next == \/ \E c \in Commands : Create(c) \/ Dispatch(c)
        \/ \E settling \in SUBSET Commands : Settle(settling)

Spec == Init /\ [][Next]_lifecycleVars
=============================================================================
