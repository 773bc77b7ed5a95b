------------------------------ MODULE MCKVEvents ------------------------------
(* KVEvents for TLC: it needs values for the constants only. *)
EXTENDS KVEvents
=============================================================================
