--------------------------- MODULE MCTraceForwards ----------------------------
(* TraceForwards for TLC. *)
EXTENDS TraceForwards

MCCallers == Jobs \cup Leaders
=============================================================================
