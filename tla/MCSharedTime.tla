----------------------------- MODULE MCSharedTime -----------------------------
(* SharedTime for TLC. *)
EXTENDS SharedTime
==============================================================================
