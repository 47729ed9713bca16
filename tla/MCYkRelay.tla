------------------------------ MODULE MCYkRelay ------------------------------
(* YkRelay for TLC. *)
EXTENDS YkRelay
==============================================================================
