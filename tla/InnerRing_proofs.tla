--------------------------- MODULE InnerRing_proofs ---------------------------
(***************************************************************************)
(* Proofs about the packet ring, and about the ring when Linux is          *)
(* restarted, for every number of slots and every bound on the sends.      *)
(***************************************************************************)
EXTENDS RingRestart, SequenceTheorems, TLAPS

\* What holds of the variables whatever was sent, and during a reset too.
Typed ==
  /\ nBegin \in Slot /\ nEnd \in Slot
  /\ data \in [Slot -> PacketId]
  /\ len \in [Slot -> PacketId]
  /\ sEnd \in Slot
  /\ rpc \in {"idle", "len", "data", "advance"} /\ rBegin \in Slot
  /\ rLen \in PacketId /\ rData \in PacketId
  /\ sent \in 0 .. MaxSend /\ taken \in Nat /\ wrapped \in BOOLEAN
  /\ received \in Seq([len : PacketId, data : PacketId])
  /\ spc \in {"data", "len", "publish"} => sent < MaxSend
  /\ rpc \in {"idle", "len"} => rLen = 0 /\ rData = 0

\* What is in the slots: the packets sent and not yet read past, in order.
RingHolds ==
  /\ taken =< sent /\ sent - taken < Num
  /\ nEnd = At(sent - taken)
  /\ \A i \in Slot : i < sent - taken =>
       data[At(i)] = taken + 1 + i /\ len[At(i)] = taken + 1 + i

\* What the sender has done to the slot it owns.  Its test left two slots free,
\* or it missed that only the last one was.
SenderHolds ==
  /\ spc \in {"data", "len", "publish"} =>
       /\ sEnd = nEnd
       /\ sent - taken < Num - 1 \/ (nBegin = 0 /\ sEnd = Num - 1)
  /\ spc \in {"len", "publish"} => data[sEnd] = sent + 1
  /\ spc = "publish" => len[sEnd] = sent + 1

\* What the receiver has copied from the oldest slot.
ReceiverHolds ==
  /\ taken =< sent
  /\ rpc # "idle" => rBegin = nBegin /\ taken < sent
  /\ rpc = "data" => rLen = taken + 1
  /\ rpc = "advance" => rLen = 0 \/ (rLen = taken + 1 /\ rData = taken + 1)

\* What has been handed on.
HistoryHolds ==
  /\ \A i \in 1 .. Len(received) :
       received[i].len = received[i].data /\ received[i].data =< taken
  /\ DeliveredInOrder

Sound == RingHolds /\ SenderHolds /\ ReceiverHolds

IInv ==
  /\ Typed /\ spc \in {"idle", "data", "len", "publish"}
  /\ wrapped \/ (Sound /\ HistoryHolds)

-------------------------------------------------------------------------------
\* A slot index stays in the ring and At walks round it.
LEMMA AtFacts ==
  ASSUME nBegin \in Slot
  PROVE  /\ \A i \in Slot : At(i) \in Slot
         /\ \A i, j \in Slot : At(i) = At(j) => i = j
         /\ At(0) = nBegin
  BY RingAssumption DEF At, Slot

\* One more packet: the next slot after the last unread one.
LEMMA AtSucc ==
  ASSUME nBegin \in Slot, NEW i \in Slot, i + 1 < Num
  PROVE  Succ(At(i)) = At(i + 1)
  BY RingAssumption DEF At, Slot, Succ

\* What has been handed on consists of packets.
LEMMA ReceivedType ==
  ASSUME Typed
  PROVE  \A i \in 1 .. Len(received) : received[i].data \in Nat
<1> SUFFICES ASSUME NEW i \in 1 .. Len(received)
             PROVE  received[i].data \in Nat
  OBVIOUS
<1>1. received[i] \in [len : PacketId, data : PacketId]
  BY ElementOfSeq DEF Typed
<1> QED BY <1>1 DEF PacketId

\* The initial state satisfies the invariant.
LEMMA InitIInv == Init => IInv
<1> SUFFICES ASSUME Init PROVE IInv
  OBVIOUS
<1>1. Typed
  BY RingAssumption DEF Init, Typed, Slot, PacketId
<1>2. RingHolds
  BY RingAssumption DEF Init, RingHolds, At, Slot
<1>3. SenderHolds /\ ReceiverHolds
  BY RingAssumption DEF Init, SenderHolds, ReceiverHolds
<1>4. HistoryHolds
  BY DEF Init, HistoryHolds, DeliveredInOrder
<1> QED BY <1>1, <1>2, <1>3, <1>4 DEF Init, IInv, Sound

-------------------------------------------------------------------------------
\* Every step of the ring keeps the types, and none is about a reset.
LEMMA SendTyped ==
  ASSUME Typed, Send
  PROVE  Typed' /\ spc \in {"idle", "data", "len", "publish"}
         /\ spc' \in {"idle", "data", "len", "publish"}
<1> USE RingAssumption DEF Typed, PacketId
<1>1. CASE SendCheck
  BY <1>1 DEF SendCheck, shared, receiver, history
<1>2. CASE SendData
  BY <1>2 DEF SendData, receiver, history
<1>3. CASE SendLen
  BY <1>3 DEF SendLen, receiver, history
<1>4. CASE SendPublish
  BY <1>4 DEF SendPublish, receiver, Succ, Slot
<1> QED BY <1>1, <1>2, <1>3, <1>4 DEF Send

LEMMA ReceiveTyped ==
  ASSUME Typed, Receive
  PROVE  Typed' /\ spc' = spc
<1> USE RingAssumption DEF Typed, PacketId
<1>1. CASE RcvCheck
  BY <1>1 DEF RcvCheck, shared, sender, history
<1>2. CASE RcvLen
  BY <1>2 DEF RcvLen, shared, sender, history
<1>3. CASE RcvData
  BY <1>3 DEF RcvData, shared, sender, history
<1>4. CASE RcvAdvance
  <2>1. received' \in Seq([len : PacketId, data : PacketId])
    <3>1. [len |-> rLen, data |-> rData] \in [len : PacketId, data : PacketId]
      OBVIOUS
    <3>2. received \in Seq([len : PacketId, data : PacketId])
      OBVIOUS
    <3> QED BY <1>4, <3>1, <3>2, AppendProperties DEF RcvAdvance
  <2>2. nBegin' \in Slot
    BY <1>4 DEF RcvAdvance, Slot, Succ
  <2> QED BY <1>4, <2>1, <2>2 DEF RcvAdvance, sender
<1> QED BY <1>1, <1>2, <1>3, <1>4 DEF Receive

\* No step of the sender breaks the ring, but for a send that wraps.
LEMMA SendSound ==
  ASSUME Typed, Sound, Send, ~wrapped'
  PROVE  Sound'
<1> USE RingAssumption DEF Sound
<1>1. CASE SendCheck
  <2> USE <1>1 DEF SendCheck, shared, receiver, history
  <2>1. RingHolds' BY DEF RingHolds, At, Slot
  <2>2. SenderHolds'
    <3>1. nEnd = At(sent - taken) /\ sent - taken \in 0 .. Num - 1
      BY DEF RingHolds, Typed
    <3>2. sent - taken = Num - 1 => nBegin = 0 /\ nEnd = Num - 1
      BY <3>1 DEF Typed, At, Slot, IsFull
    <3> QED BY <3>1, <3>2 DEF SenderHolds
  <2>3. ReceiverHolds' BY DEF ReceiverHolds
  <2> QED BY <2>1, <2>2, <2>3
<1>2. CASE SendData
  <2> USE <1>2 DEF SendData, receiver, history
  <2>1. \A i \in Slot : i < sent - taken => At(i) # sEnd
    BY AtFacts DEF RingHolds, SenderHolds, Typed, Slot
  <2>2. RingHolds'
    BY <2>1, AtFacts DEF RingHolds, At, Typed
  <2>3. SenderHolds' BY DEF SenderHolds, Typed
  <2>4. ReceiverHolds' BY DEF ReceiverHolds
  <2> QED BY <2>2, <2>3, <2>4
<1>3. CASE SendLen
  <2> USE <1>3 DEF SendLen, receiver, history
  <2>1. \A i \in Slot : i < sent - taken => At(i) # sEnd
    BY AtFacts DEF RingHolds, SenderHolds, Typed, Slot
  <2>2. RingHolds'
    BY <2>1, AtFacts DEF RingHolds, At, Typed
  <2>3. SenderHolds' BY DEF SenderHolds, Typed
  <2>4. ReceiverHolds' BY DEF ReceiverHolds
  <2> QED BY <2>2, <2>3, <2>4
<1>4. CASE SendPublish
  <2> USE <1>4 DEF SendPublish, receiver
  <2>0. ~(nBegin = 0 /\ sEnd = Num - 1)
    BY Zenon
  <2>1. sent - taken \in Slot /\ sent - taken + 1 \in Slot
    BY <2>0 DEF RingHolds, SenderHolds, Typed, Slot
  <2>2. nEnd' = At(sent - taken)'
    <3>1. nEnd' = Succ(At(sent - taken))
      BY DEF SenderHolds, RingHolds
    <3>2. Succ(At(sent - taken)) = At(sent - taken + 1)
      BY <2>1, AtSucc DEF Typed, Slot
    <3> QED BY <3>1, <3>2 DEF Typed, At
  <2>3. ASSUME NEW i \in Slot, i < sent' - taken'
        PROVE  /\ data[At(i)] = taken + 1 + i
               /\ len[At(i)] = taken + 1 + i
    <3>1. CASE i < sent - taken
      BY <3>1 DEF RingHolds
    <3>2. CASE i = sent - taken
      BY <3>2 DEF RingHolds, SenderHolds, Typed
    <3> QED BY <2>3, <3>1, <3>2 DEF Typed, Slot
  <2>4. RingHolds'
    <3>1. \A i \in Slot : At(i)' = At(i)
      BY DEF At
    <3>2. taken' =< sent' /\ sent' - taken' < Num
      BY <2>1 DEF Typed, RingHolds, Slot
    <3> QED BY <2>2, <2>3, <3>1, <3>2 DEF RingHolds
  <2>5. SenderHolds' BY DEF SenderHolds
  <2>6. ReceiverHolds' BY DEF ReceiverHolds, Typed
  <2> QED BY <2>4, <2>5, <2>6
<1> QED BY <1>1, <1>2, <1>3, <1>4 DEF Send

\* No step of the receiver breaks the ring.
LEMMA ReceiveSound ==
  ASSUME Typed, Sound, Receive
  PROVE  Sound'
<1> USE RingAssumption DEF Sound
<1>1. CASE RcvCheck
  <2> USE <1>1 DEF RcvCheck, shared, sender, history
  <2>1. RingHolds' BY DEF RingHolds, At, Slot
  <2>2. SenderHolds' BY DEF SenderHolds
  <2>3. taken < sent
    BY AtFacts DEF IsEmpty, RingHolds, Typed
  <2>4. ReceiverHolds'
    BY <2>3 DEF ReceiverHolds
  <2> QED BY <2>1, <2>2, <2>4
<1>2. CASE RcvLen
  <2> USE <1>2 DEF RcvLen, shared, sender, history
  <2>1. RingHolds' BY DEF RingHolds, At, Slot
  <2>2. SenderHolds' BY DEF SenderHolds
  <2>3. len[rBegin] = taken + 1
    BY AtFacts DEF RingHolds, ReceiverHolds, Typed, Slot
  <2>4. ReceiverHolds'
    BY <2>3 DEF ReceiverHolds
  <2> QED BY <2>1, <2>2, <2>4
<1>3. CASE RcvData
  <2> USE <1>3 DEF RcvData, shared, sender, history
  <2>1. RingHolds' BY DEF RingHolds, At, Slot
  <2>2. SenderHolds' BY DEF SenderHolds
  <2>3. data[rBegin] = taken + 1
    BY AtFacts DEF RingHolds, ReceiverHolds, Typed, Slot
  <2>4. ReceiverHolds'
    BY <2>3 DEF ReceiverHolds
  <2> QED BY <2>1, <2>2, <2>4
<1>4. CASE RcvAdvance
  <2> USE <1>4 DEF RcvAdvance, sender
  <2>0. taken < sent /\ rBegin = nBegin /\ nBegin' = Succ(nBegin)
    BY DEF ReceiverHolds
  <2>2. \A i \in Slot : i + 1 < Num => At(i)' = At(i + 1)
    BY <2>0 DEF Typed, At, Slot, Succ
  <2>3. sent - taken - 1 \in Slot /\ sent - taken \in Slot
    BY <2>0 DEF RingHolds, Typed, Slot
  <2>4. nEnd' = At(sent - taken)'
    BY <2>0, <2>2, <2>3 DEF RingHolds, Typed, Slot, At, Succ
  <2>5. ASSUME NEW i \in Slot, i < sent - taken - 1
        PROVE  /\ data[At(i)'] = taken + 1 + 1 + i
               /\ len[At(i)'] = taken + 1 + 1 + i
    <3>1. i + 1 \in Slot /\ i + 1 < sent - taken
      BY <2>3, <2>5 DEF Slot, Typed
    <3>2. At(i)' = At(i + 1)
      BY <2>2, <3>1 DEF Slot
    <3>3. /\ data[At(i + 1)] = taken + 1 + (i + 1)
          /\ len[At(i + 1)] = taken + 1 + (i + 1)
      BY <3>1 DEF RingHolds
    <3> QED BY <3>2, <3>3 DEF Typed, Slot
  <2>6. RingHolds'
    BY <2>0, <2>3, <2>4, <2>5 DEF RingHolds, Typed, Slot
  <2>7. SenderHolds' BY <2>0, <2>3 DEF SenderHolds, Typed, Slot
  <2>8. ReceiverHolds' BY <2>0 DEF ReceiverHolds, Typed
  <2> QED BY <2>6, <2>7, <2>8
<1> QED BY <1>1, <1>2, <1>3, <1>4 DEF Receive

\* What is handed on is the oldest packet, after all that were handed on.
LEMMA NextHistory ==
  ASSUME Typed, ReceiverHolds, HistoryHolds, Next
  PROVE  HistoryHolds'
<1>1. CASE UNCHANGED <<received, taken>>
  BY <1>1 DEF HistoryHolds, DeliveredInOrder
<1>2. CASE RcvAdvance
  <2> USE <1>2 DEF RcvAdvance
  <2>0. taken \in Nat /\ \A i \in 1 .. Len(received) : received[i].data \in Nat
    BY ReceivedType DEF Typed
  <2>1. CASE rLen = 0
    <3>1. received' = received /\ taken' = taken + 1
      BY <2>1
    <3>3. \A i \in 1 .. Len(received) :
            received[i].len = received[i].data /\ received[i].data =< taken
      BY DEF HistoryHolds
    <3>4. \A i \in 1 .. Len(received) :
            received[i].len = received[i].data /\ received[i].data =< taken + 1
      BY ONLY <2>0, <3>3
    <3>5. DeliveredInOrder'
      BY <3>1 DEF HistoryHolds, DeliveredInOrder
    <3> QED BY <3>1, <3>4, <3>5 DEF HistoryHolds
  <2>2. CASE rLen # 0
    <3>1. rLen = taken + 1 /\ rData = taken + 1
      BY <2>2 DEF ReceiverHolds
    <3> DEFINE n == Len(received)
    <3>2. /\ n \in Nat
          /\ Len(received') = n + 1
          /\ \A i \in 1 .. n : received'[i] = received[i]
          /\ received'[n + 1] = [len |-> taken + 1, data |-> taken + 1]
      BY <2>2, <3>1, AppendProperties DEF Typed
    <3>3. \A i \in 1 .. n : received[i].data \in Nat
      BY <2>0
    <3> HIDE DEF n
    <3>4. \A i \in 1 .. n + 1 :
            /\ received'[i].len = received'[i].data
            /\ received'[i].data =< taken + 1
      <4> TAKE i \in 1 .. n + 1
      <4>1. CASE i = n + 1
        BY <4>1, <3>2 DEF Typed
      <4>2. CASE i \in 1 .. n
        BY <4>2, <3>2, <3>3 DEF HistoryHolds, Typed, n
      <4> QED BY <4>1, <4>2, <3>2
    <3>5. DeliveredInOrder'
      <4> SUFFICES ASSUME NEW i \in 1 .. n + 1, NEW j \in 1 .. n + 1, i < j
                   PROVE  received'[i].data < received'[j].data
        BY <3>2 DEF DeliveredInOrder
      <4>1. i \in 1 .. n
        BY <3>2
      <4>2. CASE j = n + 1
        <5>1. received'[j].data = taken + 1
          BY <4>2, <3>2
        <5>2. received'[i].data = received[i].data
          BY <4>1, <3>2
        <5>3. received[i].data =< taken
          BY <4>1 DEF HistoryHolds, n
        <5>4. received[i].data \in Nat /\ taken \in Nat
          BY <4>1, <3>3 DEF Typed
        <5>5. received[i].data < taken + 1
          BY <5>3, <5>4
        <5> QED BY ONLY <5>1, <5>2, <5>5
      <4>3. CASE j \in 1 .. n
        BY <4>1, <4>3, <3>2 DEF HistoryHolds, DeliveredInOrder, n
      <4> QED BY <4>2, <4>3, <3>2
    <3> QED BY <3>2, <3>4, <3>5 DEF HistoryHolds
  <2> QED BY <2>1, <2>2
<1> QED BY <1>1, <1>2 DEF Next, Send, Receive, SendCheck, SendData, SendLen,
          SendPublish, RcvCheck, RcvLen, RcvData, receiver, history

-------------------------------------------------------------------------------
\* The invariant is inductive and implies what the runs check.
LEMMA StepIInv == IInv /\ [Next]_vars => IInv'
<1> SUFFICES ASSUME IInv, [Next]_vars PROVE IInv'
  OBVIOUS
<1>1. CASE UNCHANGED vars
  BY <1>1 DEF vars, shared, sender, receiver, history, IInv, Typed, Sound,
     RingHolds, At, SenderHolds, ReceiverHolds, HistoryHolds, DeliveredInOrder
<1>2. CASE Next
  <2>1. Typed' /\ spc' \in {"idle", "data", "len", "publish"}
    BY <1>2, SendTyped, ReceiveTyped DEF IInv, Next
  <2>2. ASSUME ~wrapped' PROVE Sound' /\ HistoryHolds'
    <3>1. ~wrapped
      BY <1>2, <2>2 DEF Next, Send, Receive, SendCheck, SendData, SendLen,
         SendPublish, RcvCheck, RcvLen, RcvData, RcvAdvance, history
    <3>2. Typed /\ Sound /\ HistoryHolds
      BY <3>1 DEF IInv
    <3>3. Sound'
      BY <1>2, <2>2, <3>2, SendSound, ReceiveSound DEF Next
    <3>4. HistoryHolds'
      BY <1>2, <3>2, NextHistory DEF Sound
    <3> QED BY <3>3, <3>4
  <2> QED BY <2>1, <2>2 DEF IInv
<1> QED BY <1>1, <1>2

LEMMA AlwaysIInv == Spec => []IInv
  BY InitIInv, StepIInv, PTL DEF Spec

\* The indices never leave the ring (so the branch of the send call that
\* clears a ring with a bad nEnd is dead), and all copies are of packets,
\* even after a send that wrapped.
THEOREM TypeCorrect == Spec => []TypeOK
<1>1. IInv => TypeOK
  BY DEF IInv, Typed, TypeOK
<1> QED BY <1>1, AlwaysIInv, PTL

\* The ring that is sound has every packet in its place.
LEMMA SoundLosesNothing ==
  ASSUME Typed, Sound
  PROVE  NothingLost
<1>1. nEnd = At(sent - taken)
  BY DEF Sound, RingHolds
<1>2. sent > taken => ~IsEmpty
  <2>1. /\ nBegin \in 0 .. Num - 1 /\ sent - taken < Num
        /\ Num \in Nat /\ sent \in Nat /\ taken \in Nat
    BY RingAssumption DEF Typed, Sound, RingHolds, Slot
  <2>2. sent > taken => nEnd # nBegin
    BY <1>1, <2>1 DEF At
  <2> QED BY <2>2 DEF IsEmpty
<1>3. \A i \in 0 .. Num - 1 : i < sent - taken => data[At(i)] = taken + 1 + i
  BY DEF Sound, RingHolds, Slot
<1> QED BY <1>1, <1>2, <1>3 DEF NothingLost

\* However fast the users send, what was accepted and not yet read past is in
\* its place, and the receiver sees that the ring is not empty, unless a send
\* filled the last slot while the first was unread.
THEOREM LosesNothing == Spec => [](NothingLost)
<1>1. IInv => NothingLost
  BY SoundLosesNothing DEF IInv, NothingLost
<1> QED BY <1>1, AlwaysIInv, PTL

\* The two cores never work on one slot at the same time.
THEOREM ExclusiveSlots == Spec => []SlotExclusive
<1>1. IInv => SlotExclusive
  <2> SUFFICES ASSUME IInv, ~wrapped,
                      spc \in {"data", "len"}, rpc \in {"len", "data"}
               PROVE  sEnd # rBegin
    BY DEF SlotExclusive
  <2>0. Typed /\ Sound
    BY DEF IInv
  <2>1. sEnd = At(sent - taken) /\ rBegin = nBegin
    BY <2>0 DEF Sound, RingHolds, SenderHolds, ReceiverHolds
  <2>2. sent - taken \in 1 .. Num - 1
    BY <2>0, RingAssumption DEF Sound, RingHolds, ReceiverHolds, Typed
  <2> QED BY <2>0, <2>1, <2>2, RingAssumption DEF Typed, At, Slot
<1> QED BY <1>1, AlwaysIInv, PTL

\* What is handed on was sent as it is, in the order it was sent, once.
THEOREM Delivery ==
  Spec => [](DeliveredIntact /\ (wrapped \/ DeliveredInOrder))
<1>1. IInv => DeliveredIntact /\ (wrapped \/ DeliveredInOrder)
  BY DEF IInv, HistoryHolds, DeliveredIntact
<1> QED BY <1>1, AlwaysIInv, PTL
-------------------------------------------------------------------------------
\* The queue of PacketQueue, as the refinement mapping of InnerRing reads it
\* out of the ring: the packets numbered t + 1 to t + n.
Pending(t, n) == [i \in 1 .. n |-> t + i]

\* The packets handed on, as the same mapping reads them.
Handed(r) == [i \in 1 .. Len(r) |-> r[i].data]

\* One packet more at the end.
LEMMA PendingGrows ==
  ASSUME NEW t \in Nat, NEW n \in Nat
  PROVE  /\ Len(Pending(t, n)) = n
         /\ Pending(t, n + 1) = Append(Pending(t, n), t + n + 1)
<1>1. Pending(t, n) \in Seq(Nat) /\ Pending(t, n + 1) \in Seq(Nat)
  BY DEF Pending
<1>2. Len(Pending(t, n)) = n /\ Len(Pending(t, n + 1)) = n + 1
  BY DEF Pending
<1>3. /\ Append(Pending(t, n), t + n + 1) \in Seq(Nat)
      /\ Len(Append(Pending(t, n), t + n + 1)) = n + 1
      /\ \A i \in 1 .. n : Append(Pending(t, n), t + n + 1)[i] = t + i
      /\ Append(Pending(t, n), t + n + 1)[n + 1] = t + n + 1
  BY <1>1, <1>2, AppendProperties DEF Pending
<1>4. \A i \in 1 .. n + 1 :
        Pending(t, n + 1)[i] = Append(Pending(t, n), t + n + 1)[i]
  BY <1>3 DEF Pending
<1> QED BY <1>1, <1>2, <1>3, <1>4, SeqEqual

\* The oldest packet less.
LEMMA PendingShrinks ==
  ASSUME NEW t \in Nat, NEW n \in Nat
  PROVE  /\ Pending(t, n + 1) # << >>
         /\ Head(Pending(t, n + 1)) = t + 1
         /\ Tail(Pending(t, n + 1)) = Pending(t + 1, n)
<1>1. /\ Pending(t, n + 1) \in Seq(Nat) /\ Len(Pending(t, n + 1)) = n + 1
      /\ Pending(t + 1, n) \in Seq(Nat) /\ Len(Pending(t + 1, n)) = n
  BY DEF Pending
<1>2. Pending(t, n + 1) # << >> /\ Head(Pending(t, n + 1)) = t + 1
  BY <1>1 DEF Pending
<1>3. /\ Tail(Pending(t, n + 1)) \in Seq(Nat)
      /\ Len(Tail(Pending(t, n + 1))) = n
      /\ \A i \in 1 .. n :
           Tail(Pending(t, n + 1))[i] = Pending(t, n + 1)[i + 1]
  BY <1>1, <1>2, HeadTailProperties
<1>4. \A i \in 1 .. n : Tail(Pending(t, n + 1))[i] = Pending(t + 1, n)[i]
  BY <1>3 DEF Pending
<1> QED BY <1>1, <1>2, <1>3, <1>4, SeqEqual

\* One packet more has been handed on.
LEMMA HandedGrows ==
  ASSUME NEW r \in Seq([len : PacketId, data : PacketId]),
         NEW p \in [len : PacketId, data : PacketId]
  PROVE  Handed(Append(r, p)) = Append(Handed(r), p.data)
<1> DEFINE q == Append(r, p)
<1>1. /\ q \in Seq([len : PacketId, data : PacketId]) /\ Len(q) = Len(r) + 1
      /\ \A i \in 1 .. Len(r) : q[i] = r[i]
      /\ q[Len(r) + 1] = p
  BY AppendProperties
<1>2. Len(r) \in Nat /\ Len(q) \in Nat
  BY <1>1, LenProperties
<1>3. ASSUME NEW i \in 1 .. Len(r)
      PROVE  r[i].data \in PacketId
  <2>1. r[i] \in [len : PacketId, data : PacketId]
    BY ElementOfSeq
  <2> QED BY <2>1
<1> HIDE DEF q
<1>4. ASSUME NEW i \in 1 .. Len(q)
      PROVE  q[i].data \in PacketId
  <2>1. q[i] \in [len : PacketId, data : PacketId]
    BY <1>1, ElementOfSeq
  <2> QED BY <2>1
<1>5. Handed(r) \in Seq(PacketId) /\ Len(Handed(r)) = Len(r)
  BY <1>2, <1>3 DEF Handed
<1>6. Handed(q) \in Seq(PacketId) /\ Len(Handed(q)) = Len(r) + 1
  BY <1>1, <1>2, <1>4 DEF Handed
<1>7. p.data \in PacketId
  OBVIOUS
<1>8. /\ Append(Handed(r), p.data) \in Seq(PacketId)
      /\ Len(Append(Handed(r), p.data)) = Len(r) + 1
      /\ \A i \in 1 .. Len(r) : Append(Handed(r), p.data)[i] = Handed(r)[i]
      /\ Append(Handed(r), p.data)[Len(r) + 1] = p.data
  BY <1>5, <1>7, AppendProperties
<1>9. \A i \in 1 .. Len(r) + 1 : Handed(q)[i] = Append(Handed(r), p.data)[i]
  BY <1>1, <1>2, <1>8 DEF Handed
<1>10. Handed(q) = Append(Handed(r), p.data)
  BY <1>6, <1>8, <1>9, SeqEqual
<1> QED BY <1>10 DEF q

-------------------------------------------------------------------------------
\* The step that stores nEnd is the queue's Accept, or its Overrun.
LEMMA PublishAccepts ==
  ASSUME Typed, Sound, ~wrapped, SendPublish
  PROVE  Queue!Accept \/ Queue!Overrun
<1>1. sent \in Nat /\ taken \in Nat /\ sent - taken \in Nat
      /\ taken + (sent - taken) + 1 = sent + 1
      /\ sent' - taken' = sent - taken + 1 /\ taken' = taken
  BY DEF Typed, Sound, RingHolds, SendPublish
<1>2. /\ Len(Pending(taken, sent - taken)) = sent - taken
      /\ Pending(taken', sent' - taken')
           = Append(Pending(taken, sent - taken), sent + 1)
  BY <1>1, PendingGrows
<1>3. UNCHANGED received /\ sent' = sent + 1
  BY DEF SendPublish
<1>4. CASE wrapped'
  <2>1. nBegin = 0 /\ At(sent - taken) = Num - 1
    BY <1>4 DEF SendPublish, Sound, SenderHolds, RingHolds
  <2>2. sent - taken = Num - 1
    BY <1>1, <2>1, RingAssumption DEF Sound, RingHolds, At
  <2> QED BY <1>2, <1>4, <2>2 DEF Queue!Overrun, Pending
<1>5. CASE ~wrapped'
  <2>1. sent - taken < Num - 1 /\ wrapped' = wrapped
    BY <1>5 DEF SendPublish, Sound, SenderHolds, Typed
  <2> QED BY <1>2, <1>3, <2>1 DEF Queue!Accept, Pending
<1> QED BY <1>4, <1>5

\* The step that stores nBegin is the queue's Take.
LEMMA AdvanceTakes ==
  ASSUME Typed, ReceiverHolds, ~wrapped, RcvAdvance
  PROVE  Queue!Take
<1> DEFINE n == sent - taken - 1
<1>1. taken < sent /\ (rLen = 0 \/ rData = taken + 1)
  BY DEF ReceiverHolds, RcvAdvance
<1>2. taken \in Nat /\ n \in Nat /\ n + 1 = sent - taken
      /\ taken' = taken + 1 /\ sent' = sent /\ sent' - taken' = n
  BY <1>1 DEF Typed, RcvAdvance
<1> HIDE DEF n
<1>3. /\ Pending(taken, sent - taken) # << >>
      /\ Head(Pending(taken, sent - taken)) = taken + 1
      /\ Tail(Pending(taken, sent - taken)) = Pending(taken', sent' - taken')
  <2>1. /\ Pending(taken, n + 1) # << >>
        /\ Head(Pending(taken, n + 1)) = taken + 1
        /\ Tail(Pending(taken, n + 1)) = Pending(taken + 1, n)
    BY <1>2, PendingShrinks
  <2> QED BY <2>1, <1>2
<1>4. \/ Handed(received') = Append(Handed(received), taken + 1)
      \/ Handed(received') = Handed(received)
  <2>1. CASE rLen = 0
    BY <2>1 DEF RcvAdvance
  <2>2. CASE rLen # 0
    <3> DEFINE p == [len |-> rLen, data |-> rData]
    <3>1. p \in [len : PacketId, data : PacketId] /\ p.data = taken + 1
      BY <2>2, <1>1 DEF Typed
    <3>2. received \in Seq([len : PacketId, data : PacketId])
      BY DEF Typed
    <3>3. received' = Append(received, p)
      BY <2>2 DEF RcvAdvance
    <3> HIDE DEF p
    <3>4. Handed(Append(received, p)) = Append(Handed(received), p.data)
      BY ONLY <3>1, <3>2, HandedGrows
    <3> QED BY <3>1, <3>3, <3>4
  <2> QED BY <2>1, <2>2
<1>5. ~wrapped /\ UNCHANGED wrapped
  BY DEF RcvAdvance
<1> QED BY <1>2, <1>3, <1>4, <1>5 DEF Queue!Take, Pending, Handed

\* Every other step is invisible to the users of the queue.
LEMMA StepRefines ==
  ASSUME IInv, [Next]_vars
  PROVE  [Queue!Next]_(Queue!vars)
<1>1. CASE wrapped
  <2>1. wrapped' = TRUE \/ UNCHANGED history
    BY <1>1 DEF Next, Send, Receive, SendCheck, SendData, SendLen, SendPublish,
       RcvCheck, RcvLen, RcvData, RcvAdvance, vars, history
  <2> QED BY <1>1, <2>1 DEF history, Queue!vars, Queue!Next, Queue!Overrunning
<1>2. CASE ~wrapped
  <2>1. Typed /\ Sound
    BY <1>2 DEF IInv
  <2>2. CASE SendPublish
    BY <1>2, <2>1, <2>2, PublishAccepts DEF Queue!Next
  <2>3. CASE RcvAdvance
    BY <1>2, <2>1, <2>3, AdvanceTakes DEF Queue!Next, Sound
  <2>4. CASE UNCHANGED history
    BY <2>4 DEF history, Queue!vars
  <2>5. UNCHANGED history \/ SendPublish \/ RcvAdvance
    BY DEF Next, Send, Receive, SendCheck, SendData, SendLen, RcvCheck, RcvLen,
       RcvData, vars
  <2> QED BY <2>2, <2>3, <2>4, <2>5
<1> QED BY <1>1, <1>2

\* The ring is the first-in first-out queue its users rely on: what it does
\* to the packets is a behaviour of PacketQueue, whose Overrun is a send that
\* wraps.
THEOREM RefinesQueue == Spec => ImplementsSafeQueue
<1>1. Init => Queue!Init
  BY DEF Init, Queue!Init
<1>2. IInv /\ [Next]_vars => [Queue!Next]_(Queue!vars)
  BY StepRefines
<1> QED BY <1>1, <1>2, AlwaysIInv, PTL DEF Spec, ImplementsSafeQueue,
          Queue!SafeSpec

-------------------------------------------------------------------------------
(* Restarts of Linux (RingRestart).                                        *)

\* Unless a send has wrapped, the receiver's part of the ring holds between
\* the two stores of a reset as well, and the rest outside of them.
RingRests ==
  /\ spc = "reset" => nEnd = 0
  /\ wrapped \/ (floor =< taken /\ ReceiverHolds /\ (spc # "reset" => Sound))

\* A receive call that is in progress began after the last reset.
FloorHolds ==
  /\ floor \in Nat
  /\ rpc # "idle" => rFloor = floor

RInv == caught \/ (Typed /\ FloorHolds /\ RingRests)

LEMMA RInitHolds == RInit => RInv
<1> SUFFICES ASSUME RInit PROVE RInv
  OBVIOUS
<1>1. IInv /\ spc = "idle" /\ ~wrapped
  BY InitIInv DEF RInit, Init
<1>2. FloorHolds /\ floor =< taken
  BY DEF RInit, Init, FloorHolds
<1> QED BY <1>1, <1>2 DEF RInv, IInv, RingRests, Sound

\* The steps of the ring: a receive call that moves during a reset is caught.
LEMMA RingStepHolds ==
  ASSUME RInv, SendStep \/ ReceiveStep
  PROVE  RInv'
<1>1. CASE caught
  BY <1>1 DEF RInv, SendStep, ReceiveStep, boot
<1>2. CASE ~caught /\ SendStep
  <2>1. Typed /\ FloorHolds /\ RingRests /\ Send
    BY <1>2 DEF RInv, SendStep
  <2>2. Typed' /\ spc # "reset" /\ spc' # "reset"
    BY <2>1, SendTyped
  <2>3. UNCHANGED <<floor, rFloor, taken, rpc>>
    BY <1>2 DEF SendStep, boot, Send, SendCheck, SendData, SendLen,
       SendPublish, receiver, history
  <2>4. FloorHolds'
    BY <2>1, <2>3 DEF FloorHolds
  <2>5. RingRests'
    <3>1. CASE wrapped'
      BY <2>2, <3>1 DEF RingRests
    <3>2. CASE ~wrapped'
      <4>1. ~wrapped
        BY <2>1, <3>2 DEF Send, SendCheck, SendData, SendLen, SendPublish,
           history
      <4>2. Sound'
        BY <2>1, <2>2, <3>2, <4>1, SendSound DEF RingRests
      <4> QED BY <2>1, <2>2, <2>3, <4>1, <4>2 DEF RingRests, Sound
    <3> QED BY <3>1, <3>2
  <2> QED BY <2>2, <2>4, <2>5 DEF RInv
<1>3. CASE ~caught /\ ReceiveStep /\ spc # "reset"
  <2>1. Typed /\ FloorHolds /\ RingRests /\ Receive
    BY <1>3 DEF RInv, ReceiveStep
  <2>2. Typed' /\ spc' # "reset"
    BY <1>3, <2>1, ReceiveTyped
  <2>3. FloorHolds'
    BY <1>3, <2>1 DEF ReceiveStep, FloorHolds
  <2>4. /\ floor' = floor /\ wrapped' = wrapped
        /\ taken \in Nat /\ (taken' = taken \/ taken' = taken + 1)
    BY <1>3, <2>1 DEF ReceiveStep, Receive, RcvCheck, RcvLen, RcvData,
       RcvAdvance, history, Typed
  <2>5. RingRests'
    <3>1. CASE wrapped
      BY <2>2, <2>4, <3>1 DEF RingRests
    <3>2. CASE ~wrapped
      <4>1. Sound'
        BY <1>3, <2>1, <3>2, ReceiveSound DEF RingRests
      <4>2. floor' =< taken'
        BY <2>1, <2>4, <3>2 DEF RingRests, FloorHolds
      <4> QED BY <2>2, <4>1, <4>2 DEF RingRests, Sound
    <3> QED BY <3>1, <3>2
  <2> QED BY <2>2, <2>3, <2>5 DEF RInv
<1>4. CASE ReceiveStep /\ spc = "reset"
  BY <1>4 DEF RInv, ReceiveStep
<1> QED BY <1>1, <1>2, <1>3, <1>4

\* Linux restarts: the first store.
LEMMA RestartEndHolds ==
  ASSUME RInv, RestartEnd
  PROVE  RInv'
<1> USE RingAssumption DEF RestartEnd, receiver, history
<1>1. CASE caught
  BY <1>1 DEF RInv
<1>2. CASE ~caught
  <2>1. Typed /\ FloorHolds /\ RingRests
    BY <1>2 DEF RInv
  <2>2. Typed'
    BY <2>1 DEF Typed, Slot
  <2>3. FloorHolds'
    BY <2>1 DEF FloorHolds
  <2>4. RingRests'
    BY <2>1 DEF RingRests, ReceiverHolds
  <2> QED BY <2>2, <2>3, <2>4 DEF RInv
<1> QED BY <1>1, <1>2

\* Linux restarts: the second store.  A receive call that saw the old indices
\* is caught; otherwise the ring is whole, whatever it was before.
LEMMA RestartBeginHolds ==
  ASSUME RInv, RestartBegin
  PROVE  RInv'
<1> USE RingAssumption DEF RestartBegin, receiver
<1>1. CASE caught \/ rpc # "idle"
  BY <1>1 DEF RInv
<1>2. CASE ~caught /\ rpc = "idle"
  <2>1. Typed /\ nEnd = 0
    BY <1>2 DEF RInv, RingRests
  <2>2. Typed'
    <3>1. nBegin' \in Slot /\ taken' \in Nat
      BY <2>1 DEF Typed, Slot
    <3>2. wrapped' \in BOOLEAN
      BY Zenon
    <3> QED BY <2>1, <3>1, <3>2 DEF Typed
  <2>3. RingHolds' /\ SenderHolds'
    BY <2>1 DEF Typed, RingHolds, SenderHolds, At, Slot
  <2>4. ReceiverHolds'
    BY <1>2, <2>1 DEF Typed, ReceiverHolds
  <2>5. FloorHolds' /\ floor' =< taken'
    BY <1>2, <2>1 DEF Typed, FloorHolds
  <2> QED BY <2>2, <2>3, <2>4, <2>5 DEF RInv, RingRests, Sound
<1> QED BY <1>1, <1>2

\* Core 1 starts again.
LEMMA BMResetHolds ==
  ASSUME RInv, BMReset
  PROVE  RInv'
<1> USE RingAssumption DEF BMReset, shared, sender, history
<1>1. CASE caught
  BY <1>1 DEF RInv
<1>2. CASE ~caught
  <2>1. Typed /\ FloorHolds /\ RingRests
    BY <1>2 DEF RInv
  <2>2. Typed'
    BY <2>1 DEF Typed, PacketId
  <2>3. FloorHolds'
    BY <2>1 DEF FloorHolds
  <2>4. RingRests'
    BY <2>1 DEF RingRests, Sound, RingHolds, At, SenderHolds, ReceiverHolds
  <2> QED BY <2>2, <2>3, <2>4 DEF RInv
<1> QED BY <1>1, <1>2

LEMMA RInvHarmless == RInv => HarmOnlyWhenCaught
<1> SUFFICES ASSUME RInv, ~caught, ~wrapped
             PROVE  ClearedNotDelivered /\ (spc = "reset" \/ NothingLost)
  BY DEF HarmOnlyWhenCaught
<1>1. Typed /\ FloorHolds /\ RingRests
  BY DEF RInv
<1>2. ReceiverHolds /\ taken \in Nat /\ floor =< taken
  BY <1>1 DEF RingRests, Typed
<1>3. ClearedNotDelivered
  BY <1>1, <1>2 DEF ClearedNotDelivered, ReceiverHolds, FloorHolds
<1>4. spc = "reset" \/ NothingLost
  BY <1>1, SoundLosesNothing DEF RingRests
<1> QED BY <1>3, <1>4

\* Restarting Linux while the old program of core 1 still reads the ring loses
\* nothing sent since and replays nothing sent before, unless a receive call
\* was in progress while the two indices were zeroed, or a send has wrapped
\* since the last reset.
THEOREM RestartHarmless == RSpec => []HarmOnlyWhenCaught
<1>1. RInv /\ [RNext]_rvars => RInv'
  <2> SUFFICES ASSUME RInv, [RNext]_rvars PROVE RInv'
    OBVIOUS
  <2>1. CASE UNCHANGED rvars
    BY <2>1 DEF rvars, vars, shared, sender, receiver, history, boot, RInv,
       FloorHolds, RingRests, Typed, Sound, RingHolds, At, SenderHolds,
       ReceiverHolds
  <2>2. CASE RNext
    BY <2>2, RingStepHolds, RestartEndHolds, RestartBeginHolds, BMResetHolds
       DEF RNext
  <2> QED BY <2>1, <2>2
<1> QED BY RInitHolds, <1>1, RInvHarmless, PTL DEF RSpec

===============================================================================
