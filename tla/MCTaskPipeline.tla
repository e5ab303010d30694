--------------------------- MODULE MCTaskPipeline ---------------------------
(***************************************************************************)
(* Small instances of TaskPipeline for TLC.                                *)
(***************************************************************************)
EXTENDS TaskPipeline, TLC

CONSTANTS s1, s2

\* Server threads are interchangeable.
SlotSymmetry == Permutations({s1, s2})
=============================================================================
