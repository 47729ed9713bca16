---------------------------- MODULE MCRingRestart ----------------------------
(* The packet ring with few slots and restarts of Linux, for TLC.          *)
EXTENDS RingRestart
==============================================================================
