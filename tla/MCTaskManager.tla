--------------------------- MODULE MCTaskManager ---------------------------
(***************************************************************************)
(* A small instance of TaskManager for TLC: all tasks share one profile,   *)
(* which commands start and stop, too.                                     *)
(***************************************************************************)
EXTENDS TaskManager

CONSTANT p1

OneProfile == [t \in Tasks |-> p1]
=============================================================================
