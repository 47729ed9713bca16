----------------------------- MODULE MCInnerRing -----------------------------
(* The packet ring with few slots, for TLC.                                *)
EXTENDS InnerRing
==============================================================================
