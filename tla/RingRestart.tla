----------------------------- MODULE RingRestart -----------------------------
(***************************************************************************)
(* The Linux-to-core-1 packet ring when the Linux program is restarted.    *)
(* The ring lives in memory that survives the program.  The new program    *)
(* first resets the indices of the ring (main), sets its tasks going and   *)
(* only later loads and resets core 1 (BMinit, bmrun), so the old core-1   *)
(* program still runs across the reset of the indices.                     *)
(***************************************************************************)
EXTENDS InnerRing

CONSTANT MaxRestart     \* bound: restarts of the Linux program

ASSUME RestartAssumption == MaxRestart \in Nat

VARIABLES
  restarts,   \* how often Linux was restarted
  resetDue,   \* Linux was restarted and has not yet reset core 1
  floor,      \* value of sent when the indices were last reset
  rFloor,     \* value of floor when the receive call in progress began
  caught      \* a receive call was in progress while the indices were reset

boot  == <<restarts, resetDue, floor, rFloor, caught>>
rvars == <<vars, boot>>

RInit ==
  /\ Init
  /\ restarts = 0 /\ resetDue = FALSE
  /\ floor = 0 /\ rFloor = 0 /\ caught = FALSE

\* The new process zeroes nEnd and then nBegin (nBegin = nEnd = 0); the slots
\* keep what they hold.
RestartEnd ==
  /\ restarts < MaxRestart
  /\ restarts' = restarts + 1
  /\ nEnd' = 0
  /\ spc' = "reset"
  /\ resetDue' = FALSE
  /\ UNCHANGED <<nBegin, data, len, sEnd, receiver, history, floor, rFloor,
                 caught>>

\* Mutant of RestartBegin: only nEnd is reset.
RestartBeginKeeps ==
  /\ spc = "reset"
  /\ spc' = "idle"
  /\ taken' = sent /\ floor' = sent /\ wrapped' = FALSE
  /\ resetDue' = TRUE
  /\ caught' = (caught \/ rpc # "idle")
  /\ UNCHANGED <<nBegin, nEnd, data, len, sEnd, receiver, sent, received,
                 restarts, rFloor>>

\* The ring is empty now; that a send wrapped does not matter any more.
RestartBegin ==
  /\ spc = "reset"
  /\ nBegin' = 0
  /\ spc' = "idle"
  /\ taken' = sent /\ floor' = sent /\ wrapped' = FALSE
  /\ resetDue' = TRUE
  /\ caught' = (caught \/ rpc # "idle")
  /\ UNCHANGED <<nEnd, data, len, sEnd, receiver, sent, received, restarts,
                 rFloor>>

\* Core 1 is reset wherever it is; its program starts again and leaves the
\* ring as it finds it.
BMReset ==
  /\ resetDue
  /\ resetDue' = FALSE
  /\ rpc' = "idle" /\ rLen' = 0 /\ rData' = 0
  /\ UNCHANGED <<shared, sender, rBegin, history, restarts, floor, rFloor,
                 caught>>

\* The steps of the ring itself, with the history of resets kept.
SendStep == Send /\ UNCHANGED boot

ReceiveStep ==
  /\ Receive
  /\ rFloor' = IF rpc = "idle" THEN floor ELSE rFloor
  /\ caught' = (caught \/ spc = "reset")
  /\ UNCHANGED <<restarts, resetDue, floor>>

RNext == SendStep \/ ReceiveStep \/ RestartEnd \/ RestartBegin \/ BMReset

RSpec == RInit /\ [][RNext]_rvars

------------------------------------------------------------------------------
RTypeOK ==
  /\ nBegin \in Slot /\ nEnd \in Slot /\ sEnd \in Slot /\ rBegin \in Slot
  /\ restarts \in 0 .. MaxRestart
  /\ resetDue \in BOOLEAN /\ caught \in BOOLEAN
  /\ floor \in 0 .. sent /\ rFloor \in 0 .. floor

\* What a restart clears stays cleared: a receive call that begins after the
\* indices were reset never hands on a packet sent before the reset.
ClearedNotDelivered == rpc = "advance" /\ rLen # 0 => rData > rFloor

\* The only way a restart can harm the ring is a receive call in progress
\* while the indices are reset.  As long as core 1 was never caught like
\* that, and no send wrapped since the last reset, the ring loses nothing sent
\* since the reset and replays nothing.
HarmOnlyWhenCaught ==
  \/ caught \/ wrapped
  \/ ClearedNotDelivered /\ (spc = "reset" \/ NothingLost)

==============================================================================
