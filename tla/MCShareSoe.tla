------------------------------ MODULE MCShareSoe ------------------------------
(* ShareSoe for TLC. *)
EXTENDS ShareSoe
==============================================================================
