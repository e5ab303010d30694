-------------------------- MODULE MCAutomationRuns --------------------------
(***************************************************************************)
(* Instances of AutomationRuns: threads and run ids as model values.         *)
(***************************************************************************)
EXTENDS AutomationRuns

CONSTANTS u1, t1, t2, r1, r2
=============================================================================
