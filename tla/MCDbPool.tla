------------------------------ MODULE MCDbPool ------------------------------
(* DbPool for TLC. *)
EXTENDS DbPool

\* One single and three double changes.
OneAndThree == [k \in Kind |-> IF k = "scos" THEN 1 ELSE 3]
==============================================================================
