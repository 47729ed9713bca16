---------------------------- MODULE MCGb104Link ----------------------------
(* Gb104Link for TLC. *)
EXTENDS Gb104Link
==============================================================================
