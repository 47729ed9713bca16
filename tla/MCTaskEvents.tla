---------------------------- MODULE MCTaskEvents ----------------------------
(* TaskEvents for TLC. *)
EXTENDS TaskEvents
==============================================================================
