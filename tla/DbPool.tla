------------------------------- MODULE DbPool -------------------------------
(***************************************************************************)
(* The data base of Linux between the tasks that write changes of inputs   *)
(* and the task of a protocol that sends them (dbfun.c, dbapi.c,           *)
(* pslave.cpp, os_linux.c).  Each kind of change has a pool (a ring), a    *)
(* semaphore for it and a bit in two words of flags, one for the equipment *)
(* and one for its group; a writer sets the bits and sends the task an     *)
(* event.  One equipment, and the kinds single and double change of state: *)
(* they differ in when the task sends its frame.                           *)
(*                                                                         *)
(* The pools are used under their semaphores.  The words of flags and of   *)
(* events are shared by all kinds and are changed by a load and a store    *)
(* with no lock; ClearFlag also compares the indices without one.          *)
(***************************************************************************)
EXTENDS Integers, Sequences, SequencesExt

CONSTANTS
  Size,      \* wPoolNum: the slots of a pool
  MaxWrite,  \* bound: the changes of each kind, a function
  MaxClose   \* bound: the times the window may fill

ASSUME PoolAssumption ==
  /\ Size \in Nat /\ Size > 1
  /\ MaxWrite \in [{"scos", "dcos"} -> Nat] /\ MaxClose \in Nat

Order == <<"scos", "dcos">>      \* the order of m_UFlagInfo
Kind  == {Order[i] : i \in 1 .. Len(Order)}
Level == {"group", "eqp"}
Slot  == 0 .. Size - 1

VARIABLES
  pool, wp, rp,         \* by kind: slots, wWritePtr, wReadPtr
  sem,                  \* by kind: who has the semaphore of the pool
  flag,                 \* by level: dwUFlag
  event, posted,        \* the event word of the task and its semaphore
  wpc, wword,           \* a writer per kind: where it is, the word it read
  pc, at, got, word,    \* the task: where it is, the kind it looks at
                        \*   (place in Order), events taken, the word it read
  copy, frame, nested,  \* m_dwPubBuf, m_SendBuf, calls of SendDCOS in SendDCOS
  open, closed,         \* CanSendIFrame; the times it became FALSE
  written, sent, empty, \* history: changes, changes sent, frames not sent
  lapped,               \* history: Size changes of the kind were unread
  raced,                \* history: a bit of the kind was lost in a race
                        \*   since its last change was written
  seen                  \* history: the changes announced when the task last
                        \*   found that it may clear a bit

pools  == <<pool, wp, rp, sem, written, lapped>>
events == <<event, posted>>
writer == <<wpc, wword>>
task   == <<pc, at, got, word, copy, frame, nested>>
output == <<sent, empty>>
gate   == <<open, closed>>
races  == <<raced, seen>>
vars   == <<pools, flag, events, writer, task, output, gate, races>>

Unread(k) == (wp[k] - rp[k]) % Size

Init ==
  /\ pool = [k \in Kind |-> [i \in Slot |-> 0]]
  /\ wp = [k \in Kind |-> 0] /\ rp = [k \in Kind |-> 0]
  /\ sem = [k \in Kind |-> "free"]
  /\ flag = [l \in Level |-> {}]
  /\ event = {} /\ posted = FALSE
  /\ wpc = [k \in Kind |-> "idle"] /\ wword = [k \in Kind |-> {}]
  /\ pc = "wait" /\ at = 1 /\ got = {} /\ word = {}
  /\ copy = << >> /\ frame = << >> /\ nested = 0
  /\ open = TRUE /\ closed = 0
  /\ written = [k \in Kind |-> << >>] /\ sent = [k \in Kind |-> << >>]
  /\ empty = [k \in Kind |-> 0]
  /\ lapped = [k \in Kind |-> FALSE] /\ raced = [k \in Kind |-> FALSE]
  /\ seen = 0

------------------------------------------------------------------------------
(* The writers: atomicWriteSCOS, atomicWriteDCOS; writeFlag; evSend.       *)

\* The slot and the index.  The read indices are not looked at.
WriteSlot(k) ==
  LET n == Len(written[k]) + 1 IN
  /\ wpc[k] = "idle" /\ n =< MaxWrite[k]
  /\ sem[k] = "free" /\ sem' = [sem EXCEPT ![k] = "writer"]
  /\ pool' = [pool EXCEPT ![k][wp[k]] = n]
  /\ wp' = [wp EXCEPT ![k] = (@ + 1) % Size]
  /\ written' = [written EXCEPT ![k] = Append(@, n)]
  /\ lapped' = [lapped EXCEPT ![k] = @ \/ Unread(k) = Size - 1]
  /\ wpc' = [wpc EXCEPT ![k] = "group"]
  /\ raced' = [raced EXCEPT ![k] = FALSE]
  /\ UNCHANGED <<rp, flag, events, wword, task, output, gate, seen>>

\* writeFlag sets the bit of the group, then the bit of the equipment.
After(l) == IF l = "group" THEN "eqp" ELSE "event"
Store(l) == IF l = "group" THEN "group_store" ELSE "eqp_store"

\* The bit is tested before it is set.
FlagTest(k, l) ==
  /\ wpc[k] = l
  /\ IF k \in flag[l]
     THEN wpc' = [wpc EXCEPT ![k] = After(l)] /\ UNCHANGED wword
     ELSE wpc' = [wpc EXCEPT ![k] = Store(l)]
          /\ wword' = [wword EXCEPT ![k] = flag[l]]
  /\ UNCHANGED <<pools, flag, events, task, output, gate, races>>

\* What another kind's writer or the task stored meanwhile is overwritten.
FlagSet(k, l) ==
  /\ wpc[k] = Store(l)
  /\ flag' = [flag EXCEPT ![l] = wword[k] \cup {k}]
  /\ raced' = [j \in Kind |-> raced[j] \/ j \in flag[l] \ flag'[l]]
  /\ wpc' = [wpc EXCEPT ![k] = After(l)]
  /\ wword' = [wword EXCEPT ![k] = {}]
  /\ UNCHANGED <<pools, events, task, output, gate, seen>>

\* evSend to the task, a load and a store of the word as well.  If the timer
\* sends EV_TM1 meanwhile, its store may overwrite this one.
EvSend(k) ==
  /\ wpc[k] = "event"
  /\ \/ event' = event \cup {"uflag"}
     \/ "tm1" \in event /\ UNCHANGED event
  /\ posted' = TRUE
  /\ sem' = [sem EXCEPT ![k] = "free"]
  /\ wpc' = [wpc EXCEPT ![k] = "idle"]
  /\ UNCHANGED <<pool, wp, rp, written, lapped, flag, wword, task,
                 output, gate, races>>

Write(k) ==
  \/ WriteSlot(k)
  \/ \E l \in Level : FlagTest(k, l) \/ FlagSet(k, l)
  \/ EvSend(k)

\* The timer of one second sends EV_TM1.
Tick ==
  /\ "tm1" \notin event
  /\ event' = event \cup {"tm1"} /\ posted' = TRUE
  /\ UNCHANGED <<pools, flag, writer, task, output, gate, races>>

------------------------------------------------------------------------------
(* The task of the protocol: evReceive, DoUrgency, ClearUFlag, DoTimeOut.  *)

k0 == Order[at]     \* the kind it is looking at

\* With no bit in the word evReceive leaves the caller's variable as it was:
\* the events of the last time are handled again.
Receive ==
  /\ pc = "wait" /\ posted
  /\ posted' = FALSE
  /\ IF event = {} THEN UNCHANGED got ELSE got' = event
  /\ pc' = "clear"
  /\ UNCHANGED <<event, pools, flag, writer, at, word, copy, frame,
                 nested, output, gate, races>>

\* A bit set since it read the word is cleared with the others.
Clear ==
  /\ pc = "clear"
  /\ event' = {}
  /\ at' = 1 /\ pc' = IF "uflag" \in got THEN "group" ELSE "timer"
  /\ UNCHANGED <<posted, pools, flag, writer, got, word, copy, frame,
                 nested, output, gate, races>>

\* The next kind, or the end of DoUrgency.
Onward(last) ==
  IF last < Len(Order) THEN at' = last + 1 /\ pc' = "group"
  ELSE at' = 1 /\ pc' = "timer"

TestGroup ==
  /\ pc = "group"
  /\ IF k0 \in flag["group"] THEN pc' = "eqp" /\ UNCHANGED at ELSE Onward(at)
  /\ UNCHANGED <<pools, flag, events, writer, got, word, copy, frame,
                 nested, output, gate, races>>

TestEqp ==
  /\ pc = "eqp"
  /\ pc' = IF k0 \in flag["eqp"] THEN "read" ELSE "regroup"
  /\ UNCHANGED <<pools, flag, events, writer, at, got, word, copy,
                 frame, nested, output, gate, races>>

\* Every SendDCOS that made a frame now sends the buffer, the last one first;
\* for the others there is nothing left in it.
Unwind ==
  /\ sent' = [sent EXCEPT ![k0] = @ \o frame]
  /\ empty' = [empty EXCEPT ![k0] = @ + IF nested > 1 THEN nested - 1 ELSE 0]
  /\ frame' = << >> /\ nested' = 0 /\ pc' = "regroup"

\* SendClassOneData, SendDCOS: the station may not send now.
Refused ==
  /\ pc = "read" /\ ~open
  /\ Unwind
  /\ UNCHANGED <<pools, flag, events, writer, at, got, word, copy, gate,
                 races>>

\* The changes of the kind whose writer is done.
Finished == Len(written[k0]) - (IF wpc[k0] = "idle" THEN 0 ELSE 1)

\* The task is going to clear the bit of the kind and reads the word.
Look(l) == word' = flag[l] /\ seen' = Finished

\* ReadSCOS, ReadDCOS find nothing and clear the bit, having the semaphore.
ReadNone ==
  /\ pc = "read" /\ open /\ sem[k0] = "free" /\ Unread(k0) = 0
  /\ sem' = [sem EXCEPT ![k0] = "task"]
  /\ Look("eqp") /\ pc' = "none_store"
  /\ UNCHANGED <<pool, wp, rp, written, lapped, flag, events, writer,
                 at, got, copy, frame, nested, output, gate, raced>>

\* The word that was read is stored without the bit of the kind.  The bit of
\* another kind that was set meanwhile is lost, and so is that of the kind
\* itself if a writer of it was at work since the task looked.
ClearBit(l) ==
  /\ flag' = [flag EXCEPT ![l] = word \ {k0}]
  /\ raced' = [j \in Kind |-> \/ raced[j]
                             \/ IF j = k0 THEN Len(written[j]) > seen
                                ELSE j \in flag[l] \ word]
  /\ word' = {} /\ seen' = 0

ClearNone ==
  /\ pc = "none_store"
  /\ ClearBit("eqp")
  /\ sem' = [sem EXCEPT ![k0] = "free"] /\ Unwind
  /\ UNCHANGED <<pool, wp, rp, written, lapped, events, writer, at,
                 got, copy, gate>>

\* The changes are copied and a frame is made of them.  SendClassOneData
\* sends it at once, SendDCOS only when it returns.  The frame may fill the
\* window.  A frame takes a bounded number of changes in the code, so that
\* SendDCOS calls itself again for what did not fit as it does here for what
\* came meanwhile; either way the outer frame is overwritten (FrameLost).
ReadSome ==
  /\ pc = "read" /\ open /\ sem[k0] = "free" /\ Unread(k0) > 0
  /\ copy' = [i \in 1 .. Unread(k0) |-> pool[k0][(rp[k0] + i - 1) % Size]]
  /\ IF k0 = "dcos"
     THEN frame' = copy' /\ nested' = nested + 1 /\ UNCHANGED sent
     ELSE sent' = [sent EXCEPT ![k0] = @ \o copy'] /\ UNCHANGED <<frame, nested>>
  /\ \/ UNCHANGED gate
     \/ closed < MaxClose /\ open' = FALSE /\ closed' = closed + 1
  /\ pc' = "advance"
  /\ UNCHANGED <<pools, flag, events, writer, at, got, word, empty,
                 races>>

\* Mutant of Advance: the number sent is not known yet, it is 0.
AdvanceNone ==
  /\ pc = "advance" /\ sem[k0] = "free"
  /\ copy' = << >> /\ pc' = "check"
  /\ UNCHANGED <<rp, pool, wp, sem, written, lapped, flag, events, writer,
                 at, got, word, frame, nested, output, gate, races>>

\* Mutant of Advance: what was unread when it advances, not what was copied.
AdvanceAll ==
  /\ pc = "advance" /\ sem[k0] = "free"
  /\ rp' = [rp EXCEPT ![k0] = wp[k0]]
  /\ copy' = << >> /\ pc' = "check"
  /\ UNCHANGED <<pool, wp, sem, written, lapped, flag, events, writer,
                 at, got, word, frame, nested, output, gate, races>>

Advance ==
  /\ pc = "advance" /\ sem[k0] = "free"
  /\ rp' = [rp EXCEPT ![k0] = (@ + Len(copy)) % Size]
  /\ copy' = << >> /\ pc' = "check"
  /\ UNCHANGED <<pool, wp, sem, written, lapped, flag, events, writer,
                 at, got, word, frame, nested, output, gate, races>>

\* Mutant of CheckEmpty: the bit is cleared whatever is unread.
CheckNothing ==
  /\ pc = "check"
  /\ Look("eqp") /\ pc' = "store"
  /\ UNCHANGED <<pools, flag, events, writer, at, got, copy, frame,
                 nested, output, gate, raced>>

\* ClearFlag, without the semaphore.
CheckEmpty ==
  /\ pc = "check"
  /\ IF Unread(k0) = 0 THEN Look("eqp") /\ pc' = "store"
     ELSE UNCHANGED <<word, seen>> /\ pc' = "retest"
  /\ UNCHANGED <<pools, flag, events, writer, at, got, copy, frame,
                 nested, output, gate, raced>>

\* A change written since the check has its bit cleared.
ClearEqp ==
  /\ pc = "store"
  /\ ClearBit("eqp") /\ pc' = "retest"
  /\ UNCHANGED <<pools, events, writer, at, got, copy, frame, nested,
                 output, gate>>

\* ClearUFlag: if there is more, the same function is called again.
Retest ==
  /\ pc = "retest"
  /\ IF k0 \in flag["eqp"]
     THEN pc' = "read" /\ UNCHANGED <<frame, nested, output>>
     ELSE Unwind
  /\ UNCHANGED <<pools, flag, events, writer, at, got, word, copy, gate,
                 races>>

\* DoUrgency clears the bit of the group if no equipment has it.
TestAgain ==
  /\ pc = "regroup"
  /\ IF k0 \in flag["eqp"] THEN Onward(at) /\ UNCHANGED <<word, seen>>
     ELSE Look("group") /\ pc' = "group_store" /\ UNCHANGED at
  /\ UNCHANGED <<pools, flag, events, writer, got, copy, frame, nested,
                 output, gate, raced>>

ClearGroup ==
  /\ pc = "group_store"
  /\ ClearBit("group") /\ Onward(at)
  /\ UNCHANGED <<pools, events, writer, got, copy, frame, nested,
                 output, gate>>

\* Mutant of TimeOut: the task does not remind itself.
TimeOutSilent ==
  /\ pc = "timer"
  /\ pc' = "wait"
  /\ UNCHANGED <<pools, flag, events, writer, at, got, word, copy,
                 frame, nested, output, gate, races>>

\* DoTimeOut sends the task EV_UFLAG while its group has a flag.
TimeOut ==
  /\ pc = "timer"
  /\ IF "tm1" \in got /\ flag["group"] # {}
     THEN event' = event \cup {"uflag"} /\ posted' = TRUE
     ELSE UNCHANGED events
  /\ pc' = "wait"
  /\ UNCHANGED <<pools, flag, writer, at, got, word, copy, frame,
                 nested, output, gate, races>>

Urgency == TestGroup \/ TestEqp \/ TestAgain \/ ClearGroup
Send == \/ Refused \/ ReadNone \/ ClearNone \/ ReadSome \/ Advance
        \/ CheckEmpty \/ ClearEqp \/ Retest
Task == Receive \/ Clear \/ Urgency \/ Send \/ TimeOut

\* An acknowledgement opens the window.
Open ==
  /\ pc = "wait" /\ ~open
  /\ open' = TRUE
  /\ UNCHANGED <<closed, pools, flag, events, writer, task, output,
                 races>>

Next ==
  \/ \E k \in Kind : Write(k)
  \/ Tick \/ Task \/ Open

Spec == Init /\ [][Next]_vars

\* The threads run and the timer keeps coming; the master acknowledges in the
\* end, between two rounds of the task.
FairSpec ==
  /\ Spec
  /\ \A k \in Kind : WF_vars(wpc[k] # "idle" /\ Write(k))
  /\ WF_vars(Tick) /\ WF_vars(Task) /\ SF_vars(Open)

------------------------------------------------------------------------------
(* Properties.                                                             *)

Pc == {"wait", "clear", "group", "eqp", "read", "none_store", "advance",
       "check", "store", "retest", "regroup", "group_store",
       "timer"}
WPc == {"idle", "group", "group_store", "eqp", "eqp_store", "event"}
Change == Nat \ {0}

\* Indices stay inside the pool, words hold bits, buffers hold changes.
TypeOK ==
  /\ pool \in [Kind -> [Slot -> Nat]]
  /\ wp \in [Kind -> Slot] /\ rp \in [Kind -> Slot]
  /\ sem \in [Kind -> {"free", "writer", "task"}]
  /\ flag \in [Level -> SUBSET Kind]
  /\ event \subseteq {"uflag", "tm1"} /\ posted \in BOOLEAN
  /\ wpc \in [Kind -> WPc] /\ pc \in Pc
  /\ at \in 1 .. Len(Order) /\ got \subseteq {"uflag", "tm1"}
  /\ nested \in Nat /\ open \in BOOLEAN /\ closed \in 0 .. MaxClose
  /\ \A k \in Kind : /\ written[k] \in Seq(Change) /\ sent[k] \in Seq(Change)
                     /\ empty[k] \in Nat
  /\ copy \in Seq(Change) /\ frame \in Seq(Change)
  /\ seen \in Nat
  /\ lapped \in [Kind -> BOOLEAN] /\ raced \in [Kind -> BOOLEAN]

\* The frame in the buffer is lost if a change of its kind arrives while its
\* pool is being freed: only SendDCOS, which sends last, is exposed to that.
FrameLost(k) == k = "dcos" /\ (empty[k] > 0 \/ nested > 1)

\* What is sent never repeats and never goes back, even if writers lap the
\* task, the window closes in between or a call is nested.
NeverTwice ==
  \A k \in Kind : \A i, j \in 1 .. Len(sent[k]) :
    i < j => sent[k][i] < sent[k][j]

\* Unless the pool was lapped or a frame was lost in the buffer, what was
\* freed in the pool is what was sent, and no change is left out, whatever the
\* writers do between the copy, the freeing and the clearing of the bit.
SentIsFreed ==
  \A k \in Kind : ~lapped[k] /\ ~FrameLost(k) =>
    /\ IsPrefix(sent[k], written[k])
    /\ pc = "wait" => Len(sent[k]) + Unread(k) = Len(written[k])

\* Unread changes have their bit set at both levels when their writer is done,
\* so the task will find them, unless the bit was lost in a race between a
\* store of one and a store of another.
Announced ==
  \A k \in Kind : Unread(k) > 0 /\ wpc[k] = "idle" /\ ~raced[k] =>
    \A l \in Level : k \in flag[l]

\* Changes do not stay unread for ever: events lost between evSend and
\* evReceive, a closed window and stale flags are all made good by the timer.
\* Only a bit lost in a race leaves them unread, until the next change of the
\* kind is written.
EverythingRead == \A k \in Kind : <>[](Unread(k) = 0 \/ raced[k])
==============================================================================
