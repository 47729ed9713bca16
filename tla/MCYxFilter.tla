----------------------------- MODULE MCYxFilter -----------------------------
(* The input filter of one double point, for TLC.                          *)
EXTENDS YxFilter

\* Channel 2 is filtered one scan longer than channel 1.
Dtime12 == [c \in Chan |-> c]
==============================================================================
