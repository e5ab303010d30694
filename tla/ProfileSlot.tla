---------------------------- MODULE ProfileSlot ----------------------------
(***************************************************************************)
(* What the desktop controller promises about one browser profile: one run  *)
(* at a time holds it, an engine works only for the run that holds it, and   *)
(* the profile is given away only when that engine has ended.  AutomationRuns *)
(* implements this specification under the mapping stated there.             *)
(***************************************************************************)

CONSTANTS Runs, NoRun

VARIABLES holder,   \* the run that holds the profile, or NoRun
          engines   \* runs whose engine may touch the browser

slotVars == <<holder, engines>>

Init == holder = NoRun /\ engines = {}

Take(r) == /\ holder = NoRun
           /\ holder' = r
           /\ UNCHANGED engines

Launch == /\ holder # NoRun /\ engines = {}
          /\ engines' = {holder}
          /\ UNCHANGED holder

Stop == /\ engines # {}
        /\ engines' = {}
        /\ UNCHANGED holder

\* Only here does the profile change hands, and no engine survives it.
GiveBack == /\ holder # NoRun
            /\ holder' = NoRun
            /\ engines' = {}

Next == Launch \/ Stop \/ GiveBack \/ \E r \in Runs : Take(r)

Spec == Init /\ [][Next]_slotVars
=============================================================================
