-------------------------- MODULE MCBatchPipeline --------------------------
(***************************************************************************)
(* BatchPipeline for TLC.  A unit of time is five seconds: windows of 30,  *)
(* 20 for solutions and as long a wait, 10 for the decision.               *)
(***************************************************************************)
EXTENDS BatchPipeline
=============================================================================
