----------------------------- MODULE PacketQueue -----------------------------
(***************************************************************************)
(* What one direction of the inter-core channel promises its two users:    *)
(* a first-in first-out queue of packets.  A packet is named by the number *)
(* of the send call that accepted it.  The receiver hands every packet to  *)
(* its caller or drops it because the caller's buffer is too small for it  *)
(* (mc_inner_rcv_from_linux returns 0 in that case), and never changes the *)
(* order, repeats a packet or mixes two of them.                           *)
(*                                                                         *)
(* It promises nothing after a packet was accepted into a full queue.      *)
(***************************************************************************)
EXTENDS Naturals, Sequences

CONSTANT Capacity   \* the packets the queue holds

VARIABLES
  queue,       \* the packets accepted and not yet taken, oldest first
  accepted,    \* how many packets send has accepted
  delivered,   \* the packets handed to the receiver's caller, in order
  overrun      \* a packet was accepted into the full queue

vars == <<queue, accepted, delivered, overrun>>

Init ==
  /\ queue = << >>
  /\ accepted = 0
  /\ delivered = << >>
  /\ overrun = FALSE

\* A send call that returns PLT_TRUE.
Accept ==
  /\ ~overrun
  /\ Len(queue) < Capacity
  /\ accepted' = accepted + 1
  /\ queue' = Append(queue, accepted + 1)
  /\ UNCHANGED <<delivered, overrun>>

\* A receive call on a queue that is not empty.
Take ==
  /\ ~overrun
  /\ queue # << >>
  /\ queue' = Tail(queue)
  /\ \/ delivered' = Append(delivered, Head(queue))
     \/ UNCHANGED delivered
  /\ UNCHANGED <<accepted, overrun>>

\* A send call that returns PLT_TRUE although the queue is full.
Overrun ==
  /\ ~overrun
  /\ Len(queue) = Capacity
  /\ overrun'

\* Anything may happen to the queue afterwards.
Overrunning == overrun /\ overrun'

Next == Accept \/ Take \/ Overrun \/ Overrunning

SafeSpec == Init /\ [][Next]_vars

\* The receiver polls its end of the channel for ever.
Spec == SafeSpec /\ WF_vars(Take)
==============================================================================
