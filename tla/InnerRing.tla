------------------------------ MODULE InnerRing ------------------------------
(***************************************************************************)
(* The packet ring in shared memory through which core 0 (Linux, program   *)
(* ipacs5612) and core 1 (bare metal, program zynqBM) talk to each other.  *)
(* There is one ring per direction; both cores run the same code, so this  *)
(* module is one ring, its sending core and its receiving core.  The two   *)
(* cores run in parallel and share no lock: one action is the code between *)
(* two accesses to shared memory.                                          *)
(*                                                                         *)
(* A packet is abstracted to the number of the send call that accepted it. *)
(* Its bytes (data) and its length (len) are written and read by separate  *)
(* steps, so a packet that mixes two sends is visible.                     *)
(*                                                                         *)
(* Nothing keeps the users from sending faster than the other core reads.  *)
(* The full test is the code's, and it misses one case: the last slot is   *)
(* free and the first one is the oldest.  wrapped records that a send went *)
(* through there; it is the only excuse the properties know.               *)
(***************************************************************************)
EXTENDS Naturals, Sequences

CONSTANTS
  Num,        \* MC_INNER_COMM_PKG_BUF_NUM, 64 in the code
  MaxSend     \* bound: send calls that are accepted

ASSUME RingAssumption ==
  /\ Num \in Nat /\ Num > 1
  /\ MaxSend \in Nat

VARIABLES
  nBegin, nEnd,        \* the indices in shared memory
  data, len,           \* the slots in shared memory
  spc, sEnd,           \* sender: where it is, its local copy of nEnd
  rpc, rBegin,         \* receiver: where it is, its local copy of nBegin
  rLen, rData,         \* receiver: what it has copied (0: nothing)
  sent, taken,         \* packets published, packets read past
  received,            \* what the receiver handed to its caller, in order
  wrapped              \* the last slot was filled while the first was unread

shared   == <<nBegin, nEnd, data, len>>
sender   == <<spc, sEnd>>
receiver == <<rpc, rBegin, rLen, rData>>
history  == <<sent, taken, received, wrapped>>
vars     == <<shared, sender, receiver, history>>

Slot     == 0 .. Num - 1
PacketId == 0 .. MaxSend      \* 0: the zeroes of the initial memset

Init ==
  /\ nBegin = 0 /\ nEnd = 0
  /\ data = [i \in Slot |-> 0]
  /\ len  = [i \in Slot |-> 0]
  /\ spc = "idle" /\ sEnd = 0
  /\ rpc = "idle" /\ rBegin = 0 /\ rLen = 0 /\ rData = 0
  /\ sent = 0 /\ taken = 0 /\ received = << >> /\ wrapped = FALSE

Succ(i) == IF i + 1 >= Num THEN 0 ELSE i + 1

------------------------------------------------------------------------------
(* The sending core.                                                       *)

\* Mutant of IsFull: the case the code misses is the only one it tests.
IsFullAtWrap == nBegin = 0 /\ nEnd = Num - 1

\* As the code has it; nEnd is never Num, so the second case never holds.
IsFull == \/ nBegin = 1 + nEnd
          \/ nBegin = 0 /\ nEnd = Num

\* Mutant of SendCheck: the packet is announced before it is written.
SendCheckAnnounces ==
  /\ spc = "idle"
  /\ sent < MaxSend /\ ~IsFull
  /\ sEnd' = nEnd /\ nEnd' = Succ(nEnd)
  /\ spc' = "data"
  /\ UNCHANGED <<nBegin, data, len, receiver, history>>

\* A call that finds the ring full, or a packet that is too long, returns
\* PLT_FALSE and changes nothing.  The branch that clears a ring whose nEnd
\* is out of range is dead: TypeOK says nEnd \in Slot.
SendCheck ==
  /\ spc = "idle"
  /\ sent < MaxSend
  /\ ~IsFull
  /\ sEnd' = nEnd
  /\ spc' = "data"
  /\ UNCHANGED <<shared, receiver, history>>

SendData ==
  /\ spc = "data"
  /\ data' = [data EXCEPT ![sEnd] = sent + 1]
  /\ spc' = "len"
  /\ UNCHANGED <<nBegin, nEnd, len, sEnd, receiver, history>>

SendLen ==
  /\ spc = "len"
  /\ len' = [len EXCEPT ![sEnd] = sent + 1]
  /\ spc' = "publish"
  /\ UNCHANGED <<nBegin, nEnd, data, sEnd, receiver, history>>

SendPublish ==
  /\ spc = "publish"
  /\ nEnd' = Succ(sEnd)
  /\ sent' = sent + 1
  /\ wrapped' = (wrapped \/ (nBegin = 0 /\ sEnd = Num - 1))
  /\ spc' = "idle"
  /\ UNCHANGED <<nBegin, data, len, sEnd, receiver, taken, received>>

------------------------------------------------------------------------------
(* The receiving core.                                                     *)

IsEmpty == nBegin = nEnd

\* Mutant of RcvCheck: the ring is read without asking whether it is empty.
RcvCheckBlind ==
  /\ rpc = "idle"
  /\ rBegin' = nBegin
  /\ rpc' = "len"
  /\ UNCHANGED <<shared, sender, rLen, rData, history>>

RcvCheck ==
  /\ rpc = "idle"
  /\ ~IsEmpty
  /\ rBegin' = nBegin
  /\ rpc' = "len"
  /\ UNCHANGED <<shared, sender, rLen, rData, history>>

\* Mutant of RcvLen: a packet that is too long is left in the ring.
RcvLenLeaves ==
  /\ rpc = "len"
  /\ \/ rLen' = len[rBegin] /\ rpc' = "data"
     \/ rLen' = 0 /\ rpc' = "idle"
  /\ UNCHANGED <<shared, sender, rBegin, rData, history>>

\* The length is read first: a packet longer than the room the caller has
\* left is not copied, and is read past all the same.
RcvLen ==
  /\ rpc = "len"
  /\ \/ rLen' = len[rBegin] /\ rpc' = "data"
     \/ rLen' = 0 /\ rpc' = "advance"
  /\ UNCHANGED <<shared, sender, rBegin, rData, history>>

\* Mutant of RcvData: the index is advanced before the copy.
RcvDataNext ==
  /\ rpc = "data"
  /\ rData' = data[Succ(rBegin)]
  /\ rpc' = "advance"
  /\ UNCHANGED <<shared, sender, rBegin, rLen, history>>

RcvData ==
  /\ rpc = "data"
  /\ rData' = data[rBegin]
  /\ rpc' = "advance"
  /\ UNCHANGED <<shared, sender, rBegin, rLen, history>>

RcvAdvance ==
  /\ rpc = "advance"
  /\ nBegin' = Succ(rBegin)
  /\ taken' = taken + 1
  /\ received' = IF rLen = 0 THEN received
                 ELSE Append(received, [len |-> rLen, data |-> rData])
  /\ rLen' = 0 /\ rData' = 0
  /\ rpc' = "idle"
  /\ UNCHANGED <<nEnd, data, len, sender, rBegin, sent, wrapped>>

------------------------------------------------------------------------------
Send    == SendCheck \/ SendData \/ SendLen \/ SendPublish
Receive == RcvCheck \/ RcvLen \/ RcvData \/ RcvAdvance
Next    == Send \/ Receive

Spec == Init /\ [][Next]_vars

\* Core 1 polls its ring every 10 ms (scan_maint).  Linux polls its ring only
\* while a caller waits, every 5 ms: in that direction the fairness says that
\* calls keep coming.  Nobody owes the ring another packet.
FairSpec == Spec /\ WF_vars(Receive)

------------------------------------------------------------------------------
(* Properties.                                                             *)

TypeOK ==
  /\ nBegin \in Slot /\ nEnd \in Slot
  /\ data \in [Slot -> PacketId]
  /\ len \in [Slot -> PacketId]
  /\ spc \in {"idle", "data", "len", "publish"} /\ sEnd \in Slot
  /\ rpc \in {"idle", "len", "data", "advance"} /\ rBegin \in Slot
  /\ rLen \in PacketId /\ rData \in PacketId
  /\ sent \in 0 .. MaxSend /\ taken \in Nat /\ wrapped \in BOOLEAN
  /\ received \in Seq([len : PacketId, data : PacketId])

\* The slot i steps after nBegin.
At(i) == IF nBegin + i < Num THEN nBegin + i ELSE nBegin + i - Num

\* The cores never touch one slot at the same time: while one copies a
\* packet out, the other is not writing that slot.  (Unless a send wrapped, as
\* in the next properties.)
SlotExclusive ==
  wrapped \/ (spc \in {"data", "len"} /\ rpc \in {"len", "data"} => sEnd # rBegin)

\* What the receiver hands on is a packet as it was sent, never the length
\* of one and the bytes of another.
DeliveredIntact ==
  wrapped \/ \A i \in 1 .. Len(received) : received[i].len = received[i].data

\* Packets are handed on in the order they were sent, each at most once.
DeliveredInOrder ==
  \A i, j \in 1 .. Len(received) :
    i < j => received[i].data < received[j].data

\* Every packet whose send returned PLT_TRUE and that was not read past is
\* still in the ring, in its place, and the receiver can see that the ring
\* is not empty, however fast the users send: the only send that can lose
\* packets is one that fills the last slot while the first is unread.
NothingLost ==
  wrapped \/
    /\ nEnd = At(sent - taken)
    /\ sent > taken => ~IsEmpty
    /\ \A i \in 0 .. Num - 1 : i < sent - taken => data[At(i)] = taken + 1 + i

\* Every packet that was accepted is read by the other core.
EverySentIsTaken == \A n \in 1 .. MaxSend : sent >= n ~> taken >= n \/ wrapped

------------------------------------------------------------------------------
(* The ring implements the queue its users rely on; a send that wraps is   *)
(* the queue's Overrun.                                                    *)

Queue == INSTANCE PacketQueue WITH
  Capacity  <- Num - 1,
  queue     <- [i \in 1 .. (sent - taken) |-> taken + i],
  accepted  <- sent,
  delivered <- [i \in 1 .. Len(received) |-> received[i].data],
  overrun   <- wrapped

ImplementsQueue == Queue!Spec
ImplementsSafeQueue == Queue!SafeSpec
==============================================================================
