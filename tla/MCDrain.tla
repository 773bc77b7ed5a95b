------------------------------- MODULE MCDrain -------------------------------
(***************************************************************************)
(* Drain for TLC.  No symmetry: the run checks liveness.                    *)
(***************************************************************************)
EXTENDS Drain
=============================================================================
