------------------------------ MODULE ShareSoe ------------------------------
(***************************************************************************)
(* The digital inputs shared by core 1 with Linux (zynqBM bm_linux.c,      *)
(* ipacs5612 app_bmrun.c and yx.c).  Core 1 keeps an image of every point  *)
(* and a ring of events in shared memory.  A task of Linux drains the ring *)
(* into the data base and, every so many rounds, copies the whole image.   *)
(* There is no lock: core 1 moves wp and Linux rp, and core 1 never looks  *)
(* at rp, so a slow reader is overrun.                                     *)
(*                                                                         *)
(* An access to shared memory is a step of its own, except that Linux      *)
(* stores rp with its last load: no one else looks at rp.                  *)
(***************************************************************************)
EXTENDS Naturals, Sequences

CONSTANTS
  Num,      \* MAX_SOE_NUM, 512 in the code
  Points,   \* the number of points
  Every,    \* the rounds between two copies of the image, 64 in the code
  MaxSoe    \* bound: events written by core 1

ASSUME ShareAssumption ==
  /\ Num \in Nat /\ Num > 1 /\ Points \in Nat /\ Points > 0
  /\ Every \in Nat /\ Every > 0 /\ MaxSoe \in Nat

Point == 1 .. Points
Bit   == {0, 1}
Slot  == 0 .. Num - 1
Event == [no : Point, value : Bit, time : 0 .. MaxSoe]

Succ(i) == (i + 1) % Num

VARIABLES
  image,    \* Bm_SyxValue: the value of every point, written by core 1
  soe,      \* BmSoebuf.soe: the ring of events
  wp, rp,   \* its indices
  wpc, ev,  \* core 1: where it is in WriteSSOE, and the event it writes
  rpc,      \* Linux: where it is in yxWrite
  count,    \* Linux: the rounds since the image was copied
  next,     \* Linux: the point being copied
  reg,      \* Linux: the event, or the value, it has read
  db,       \* the data base: the value of every point
  sent,     \* history: the events core 1 has put into the ring
  filed,    \* the events Linux has filed in the data base
  overrun   \* history: wp has caught up with rp

core1 == <<wpc, ev>>
linux == <<rpc, count, next, reg>>
vars  == <<image, soe, wp, rp, core1, linux, db, sent, filed, overrun>>

Empty == [no |-> 1, value |-> 0, time |-> 0]

Init ==
  /\ image = [p \in Point |-> 0] /\ db = image
  /\ soe = [i \in Slot |-> Empty] /\ wp = 0 /\ rp = 0
  /\ wpc = "idle" /\ ev = Empty
  /\ rpc = "idle" /\ count = 0 /\ next = 1 /\ reg = Empty
  /\ sent = << >> /\ filed = << >> /\ overrun = FALSE

------------------------------------------------------------------------------
(* Core 1: WriteSSOE.                                                      *)

\* The point has changed.
WriteImage(p) ==
  /\ wpc = "idle" /\ Len(sent) < MaxSoe
  /\ image' = [image EXCEPT ![p] = 1 - @]
  /\ ev' = [no |-> p, value |-> 1 - image[p], time |-> Len(sent) + 1]
  /\ wpc' = "no"
  /\ UNCHANGED <<soe, wp, rp, linux, db, sent, filed, overrun>>

\* Mutant of WriteNo: the event is announced before it is complete.
WriteNoAnnounces ==
  /\ wpc = "no"
  /\ soe' = [soe EXCEPT ![wp].no = ev.no]
  /\ wpc' = "value" /\ wp' = Succ(wp)
  /\ UNCHANGED <<image, rp, ev, linux, db, sent, filed, overrun>>

WriteNo ==
  /\ wpc = "no"
  /\ soe' = [soe EXCEPT ![wp].no = ev.no]
  /\ wpc' = "value"
  /\ UNCHANGED <<image, wp, rp, ev, linux, db, sent, filed, overrun>>

WriteValue ==
  /\ wpc = "value"
  /\ soe' = [soe EXCEPT ![wp].value = ev.value, ![wp].time = ev.time]
  /\ wpc' = "advance"
  /\ UNCHANGED <<image, wp, rp, ev, linux, db, sent, filed, overrun>>

WriteAdvance ==
  /\ wpc = "advance"
  /\ wp' = Succ(wp)
  /\ sent' = Append(sent, ev)
  /\ overrun' = (overrun \/ Succ(wp) = rp)
  /\ wpc' = "idle"
  /\ UNCHANGED <<image, soe, rp, ev, linux, db, filed>>

------------------------------------------------------------------------------
(* Linux: yxWrite.                                                         *)

\* Mutant of Begin: the image is never copied.
BeginNoCopy ==
  /\ rpc = "idle"
  /\ rpc' = "drain"
  /\ UNCHANGED <<image, soe, wp, rp, core1, count, next, reg, db, sent, filed,
                 overrun>>

Begin ==
  /\ rpc = "idle"
  /\ count' = (count + 1) % Every
  /\ rpc' = IF count = 0 THEN "load" ELSE "drain"
  /\ next' = 1
  /\ UNCHANGED <<image, soe, wp, rp, core1, reg, db, sent, filed, overrun>>

\* ReadBMSYX, and WriteSYX of the data base.
CopyLoad ==
  /\ rpc = "load"
  /\ reg' = [reg EXCEPT !.value = image[next]]
  /\ rpc' = "store"
  /\ UNCHANGED <<image, soe, wp, rp, core1, count, next, db, sent, filed,
                 overrun>>

CopyStore ==
  /\ rpc = "store"
  /\ db' = [db EXCEPT ![next] = reg.value]
  /\ IF next < Points THEN next' = next + 1 /\ rpc' = "load"
     ELSE rpc' = "drain" /\ UNCHANGED next
  /\ UNCHANGED <<image, soe, wp, rp, core1, count, reg, sent, filed, overrun>>

\* ReadBMSOE: an empty ring ends the round.
ReadCheck ==
  /\ rpc = "drain"
  /\ rpc' = IF rp = wp THEN "idle" ELSE "no"
  /\ UNCHANGED <<image, soe, wp, rp, core1, count, next, reg, db, sent, filed,
                 overrun>>

ReadNo ==
  /\ rpc = "no"
  /\ reg' = [reg EXCEPT !.no = soe[rp].no]
  /\ rpc' = "value"
  /\ UNCHANGED <<image, soe, wp, rp, core1, count, next, db, sent, filed,
                 overrun>>

ReadValue ==
  /\ rpc = "value"
  /\ reg' = [reg EXCEPT !.value = soe[rp].value, !.time = soe[rp].time]
  /\ rp' = Succ(rp)
  /\ rpc' = "file"
  /\ UNCHANGED <<image, soe, wp, core1, count, next, db, sent, filed, overrun>>

\* Mutant of File: the point itself is left to the copy of the image.
FileOnly ==
  /\ rpc = "file"
  /\ filed' = Append(filed, reg)
  /\ rpc' = "drain"
  /\ UNCHANGED <<image, soe, wp, rp, core1, count, next, reg, db, sent, overrun>>

\* WriteSYX, WriteSCOS and WriteSSOE of the data base.
File ==
  /\ rpc = "file"
  /\ db' = [db EXCEPT ![reg.no] = reg.value]
  /\ filed' = Append(filed, reg)
  /\ rpc' = "drain"
  /\ UNCHANGED <<image, soe, wp, rp, core1, count, next, reg, sent, overrun>>

Core1 == (\E p \in Point : WriteImage(p)) \/ WriteNo \/ WriteValue \/ WriteAdvance
Linux == \/ Begin \/ CopyLoad \/ CopyStore \/ ReadCheck \/ ReadNo \/ ReadValue
         \/ File

Next == Core1 \/ Linux

Spec == Init /\ [][Next]_vars

\* Core 1 finishes what it has begun (it need not begin again), and the task
\* of Linux keeps coming round.
FairSpec == /\ Spec
            /\ WF_vars(WriteNo) /\ WF_vars(WriteValue) /\ WF_vars(WriteAdvance)
            /\ WF_vars(Linux)

------------------------------------------------------------------------------
(* Properties.                                                             *)

TypeOK ==
  /\ image \in [Point -> Bit] /\ db \in [Point -> Bit]
  /\ soe \in [Slot -> Event] /\ wp \in Slot /\ rp \in Slot
  /\ wpc \in {"idle", "no", "value", "advance"} /\ ev \in Event
  /\ rpc \in {"idle", "load", "store", "drain", "no", "value", "file"}
  /\ count \in 0 .. Every - 1 /\ next \in Point /\ reg \in Event
  /\ sent \in Seq(Event) /\ filed \in Seq(Event) /\ overrun \in BOOLEAN

\* Unless the reader was overrun, the events filed are those core 1 sent,
\* whole, once and in order, though neither core waits for the other.
FiledInOrder ==
  ~overrun => /\ Len(filed) =< Len(sent)
              /\ \A i \in 1 .. Len(filed) : filed[i] = sent[i]

\* Unless the reader was overrun, the data base agrees with the image when
\* Linux has emptied the ring and core 1 is not between image and ring, even
\* if the image was copied while older events were still in the ring.
InStepWhenDrained ==
  ~overrun /\ wpc = "idle" /\ rpc = "idle" /\ rp = wp => db = image

\* A point that keeps its value gets that value in the data base for good,
\* even if the reader was overrun and the event of the change is gone.
Converges ==
  \A p \in Point, v \in Bit : <>[](image[p] = v) => <>[](db[p] = v)
==============================================================================
