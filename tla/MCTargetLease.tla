---------------------------- MODULE MCTargetLease ----------------------------
(***************************************************************************)
(* Small instances of TargetLease for TLC.                                   *)
(***************************************************************************)
EXTENDS TargetLease, TLC

CONSTANTS w1, w2
=============================================================================
