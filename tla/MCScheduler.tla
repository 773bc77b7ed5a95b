----------------------------- MODULE MCScheduler -----------------------------
(***************************************************************************)
(* Scheduler for TLC.  No symmetry: the run checks liveness.                *)
(***************************************************************************)
EXTENDS Scheduler
=============================================================================
