---------------------------- MODULE MCMetricSync ----------------------------
(***************************************************************************)
(* Instances of MetricSync: runs and threads as model values.                *)
(***************************************************************************)
EXTENDS MetricSync

CONSTANTS r1, r2, loop, callback
=============================================================================
