-------------------------- MODULE MCCommandChannel --------------------------
(***************************************************************************)
(* Small instances of CommandChannel for TLC.                              *)
(***************************************************************************)
EXTENDS CommandChannel, TLC

CONSTANTS s1, s2, w1

\* Server threads are interchangeable.
SlotSymmetry == Permutations({s1, s2})
=============================================================================
