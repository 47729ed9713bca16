----------------------------- MODULE MCInnerCall -----------------------------
(* Calls to core 1 by a few tasks, for TLC.                                *)
EXTENDS InnerCall

CONSTANTS t1, t2
==============================================================================
