----------------------------- MODULE TaskEvents -----------------------------
(***************************************************************************)
(* The task dio of core 1 and the interrupts that set it going (os.c,      *)
(* myio.c, yx.c, record.c).  Every task has a word of event bits.          *)
(* Interrupts set bits, the task takes them, and each does so by reading   *)
(* the word and writing it back: a bit set in between is lost.             *)
(*                                                                         *)
(* Levels, from the top: timerInt (input filter, sets EV_UFLAG) and        *)
(* fpgaInt (sampling, sets EV_RCD) preempt everything and not each other,  *)
(* so each is one action; ttcInt (tRunCnt, sets EV_TM1) preempts the idle  *)
(* loop, which runs the task.                                              *)
(*                                                                         *)
(* dio moves confirmed changes of inputs from the buffer gSoebuf to the    *)
(* ring shared with Linux (yxWrite) and writes finished wave records.      *)
(***************************************************************************)
EXTENDS Integers, Sequences

CONSTANTS
  Size,        \* SOE_REC_BUF_SIZE, 256 in the code
  Unread,      \* the most reports left in gSoebuf at a time
  Limit,       \* tmlimit: the ticks between two EV_TM1
  Double,      \* double points whose halves change
  MaxReport,   \* bound: reports of changed inputs
  MaxRecord    \* bound: wave records

ASSUME EventsAssumption ==
  /\ Size \in Nat /\ Size > 2 /\ Unread \in Nat /\ Unread < Size
  /\ Limit \in Nat /\ Limit > 0 /\ Double \subseteq Nat
  /\ MaxReport \in Nat /\ MaxRecord \in Nat

Bits == {"uflag", "tm1", "rcd"}
Garbage == -1      \* the contents of an uninitialised variable

VARIABLES
  event,             \* g_Task[SELF_DIO_ID].event
  tmcnt, tpc, tword, \* tRunCnt: ticks left, where it is, the word it read
  pc, word, todo,    \* dio: where it is, the word it read, bits it took
  soe, wp, rp,       \* gSoebuf
  limit, no,         \* yxWrite: its local wp and DBSOE.wNo
  made, written,     \* reports made by yxFilter, reports written by yxWrite
  records, waiting,  \* wave records finished, those not yet written
  lost               \* history: the bits that were lost

tick == <<tmcnt, tpc, tword>>
dio  == <<pc, word, todo>>
buf  == <<soe, wp, rp, limit, no, made, written>>
rec  == <<records, waiting>>
vars == <<event, tick, dio, buf, rec, lost>>

Slot == 0 .. Size - 1

Next1(i) == (i + 1) % Size

Report(kind, n) == [kind |-> kind, no |-> n]

Init ==
  /\ event = {} /\ lost = {}
  /\ tmcnt = Limit /\ tpc = "idle" /\ tword = {}
  /\ pc = "poll" /\ word = {} /\ todo = {}
  /\ soe = [i \in Slot |-> Report("single", 0)] /\ wp = 0 /\ rp = 0
  /\ limit = 0 /\ no = Garbage
  /\ made = << >> /\ written = << >>
  /\ records = 0 /\ waiting = 0

------------------------------------------------------------------------------
(* The interrupts.                                                         *)

\* yxFilter has confirmed a change of one half of double point d: it reports
\* the single point and, if the other half is not being filtered, the double
\* point.
Change(d, half, pair) ==
  LET single  == Report("single", 2 * d + half)
      reports == IF pair THEN <<single, Report("double", d)>> ELSE <<single>>
  IN /\ Len(made) + Len(reports) =< MaxReport
     /\ Len(made) - Len(written) + Len(reports) =< Unread
     /\ soe' = [soe EXCEPT ![wp] = single,
                           ![Next1(wp)] = IF pair THEN reports[2] ELSE @]
     /\ wp' = IF pair THEN Next1(Next1(wp)) ELSE Next1(wp)
     /\ made' = made \o reports
     /\ event' = event \cup {"uflag"}
     /\ UNCHANGED <<rp, limit, no, written, tick, dio, rec, lost>>

\* WAV_Record_Interrupt has the last sample of a record.
RecordDone ==
  /\ records < MaxRecord
  /\ records' = records + 1 /\ waiting' = waiting + 1
  /\ event' = event \cup {"rcd"}
  /\ UNCHANGED <<tick, dio, buf, lost>>

\* Mutant of TickLoad: the timer is not started again.
TickOnce ==
  /\ tpc = "idle" /\ tmcnt > 0
  /\ tmcnt' = tmcnt - 1
  /\ IF tmcnt' = 0 THEN event' = event \cup {"tm1"} ELSE UNCHANGED event
  /\ UNCHANGED <<tpc, tword, dio, buf, rec, lost>>

TickLoad ==
  /\ tpc = "idle" /\ tmcnt > 0
  /\ tmcnt' = tmcnt - 1
  /\ IF tmcnt' = 0 THEN tpc' = "store" /\ tword' = event
     ELSE UNCHANGED <<tpc, tword>>
  /\ UNCHANGED <<event, dio, buf, rec, lost>>

\* A bit that a higher interrupt set since the word was read is overwritten.
TickStore ==
  /\ tpc = "store"
  /\ event' = tword \cup {"tm1"}
  /\ lost' = lost \cup (event \ tword)
  /\ tmcnt' = Limit /\ tword' = {} /\ tpc' = "idle"
  /\ UNCHANGED <<dio, buf, rec>>

------------------------------------------------------------------------------
(* The idle loop: tRun, dio.                                               *)

At(label) == pc = label /\ tpc = "idle"

\* tRun finds a bit set and calls dio, which calls evReceive.
EvLoad ==
  /\ At("poll") /\ event # {}
  /\ word' = event /\ todo' = event
  /\ pc' = "store"
  /\ UNCHANGED <<event, tick, buf, rec, lost>>

\* evReceive names the word twice; a build may read it a second time.
EvReload ==
  /\ At("store")
  /\ word' = event
  /\ UNCHANGED <<event, pc, todo, tick, buf, rec, lost>>

\* Mutant of EvStore: all bits are cleared, those not taken too.
EvStoreClears ==
  /\ At("store")
  /\ event' = {}
  /\ pc' = "dio"
  /\ UNCHANGED <<word, todo, tick, buf, rec, lost>>

EvStore ==
  /\ At("store")
  /\ event' = word \ todo
  /\ lost' = lost \cup (event \ word)
  /\ word' = {} /\ pc' = "dio"
  /\ UNCHANGED <<todo, tick, buf, rec>>

\* dio looks at EV_UFLAG, EV_TM1 and EV_RCD in turn.
CallYxWrite(bit) ==
  /\ At("dio") /\ bit \in todo
  /\ bit = "tm1" => "uflag" \notin todo
  /\ todo' = todo \ {bit}
  /\ pc' = "drain"
  /\ UNCHANGED <<event, word, tick, buf, rec, lost>>

WAVRecordScan ==
  /\ At("dio") /\ todo = {"rcd"}
  /\ todo' = {} /\ waiting' = 0
  /\ UNCHANGED <<event, pc, word, tick, buf, records, lost>>

DioReturn ==
  /\ At("dio") /\ todo = {}
  /\ pc' = "poll"
  /\ UNCHANGED <<event, word, todo, tick, buf, rec, lost>>

\* The outer loop of yxWrite.
Batch ==
  /\ At("drain")
  /\ limit' = wp
  /\ IF rp = wp THEN pc' = "dio" /\ no' = Garbage
     ELSE pc' = "write" /\ UNCHANGED no
  /\ UNCHANGED <<event, word, todo, tick, soe, wp, rp, made, written, rec, lost>>

\* Mutant of WriteOne: the read index is set to the end of the batch.
WriteOneSkips ==
  /\ At("write")
  /\ no' = IF soe[rp].kind = "single" THEN soe[rp].no ELSE no
  /\ written' = Append(written, Report(soe[rp].kind, no'))
  /\ rp' = limit
  /\ pc' = "drain"
  /\ UNCHANGED <<event, word, todo, tick, soe, wp, limit, made, rec, lost>>

\* The inner loop: one report to the ring shared with Linux.  A single point
\* leaves its number in DBSOE.wNo; a double point is written under the number
\* found there, not under its own (DBDSOE.wNo).
WriteOne ==
  /\ At("write")
  /\ no' = IF soe[rp].kind = "single" THEN soe[rp].no ELSE no
  /\ written' = Append(written, Report(soe[rp].kind, no'))
  /\ rp' = Next1(rp)
  /\ pc' = IF rp' = limit THEN "drain" ELSE "write"
  /\ UNCHANGED <<event, word, todo, tick, soe, wp, limit, made, rec, lost>>

Idle == \/ EvLoad \/ EvStore \/ CallYxWrite("uflag") \/ CallYxWrite("tm1")
        \/ WAVRecordScan \/ DioReturn \/ Batch \/ WriteOne

Next == \/ \E d \in Double, half \in {0, 1}, pair \in BOOLEAN :
             Change(d, half, pair)
        \/ RecordDone \/ TickLoad \/ TickStore \/ EvReload \/ Idle

Spec == Init /\ [][Next]_vars

\* The tick keeps coming, and interrupts leave the idle loop time to run.
FairSpec == /\ Spec
            /\ WF_vars(TickLoad) /\ WF_vars(TickStore)
            /\ SF_vars(Idle)

------------------------------------------------------------------------------
(* Properties.                                                             *)

TypeOK ==
  /\ event \subseteq Bits /\ tword \subseteq Bits /\ word \subseteq Bits
  /\ todo \subseteq Bits /\ lost \subseteq Bits
  /\ tmcnt \in 0 .. Limit /\ tpc \in {"idle", "store"}
  /\ pc \in {"poll", "store", "dio", "drain", "write"}
  /\ wp \in Slot /\ rp \in Slot /\ limit \in Slot
  /\ waiting \in 0 .. records

\* Every report of a changed input is written to the shared ring once and in
\* order, whatever bits were lost.
WrittenOnceInOrder ==
  /\ Len(written) =< Len(made)
  /\ \A i \in 1 .. Len(written) : written[i].kind = made[i].kind
  /\ \A i \in 1 .. Len(written) :
       made[i].kind = "single" => written[i] = made[i]

\* A wave record that waits to be written is announced by EV_RCD, unless that
\* bit was lost between reading and writing the word: nothing else (not even
\* EV_TM1) makes dio look for it.
RecordAnnounced ==
  waiting > 0 => "rcd" \in event \cup todo \cup lost

\* Every report is written in the end, even if EV_UFLAG was lost: EV_TM1
\* comes again and makes dio drain the buffer too.
EveryReportWritten ==
  \A n \in 1 .. MaxReport : Len(made) >= n ~> Len(written) >= n

\* A double point is written under the number of the double point.
DoubleNumbered ==
  \A i \in 1 .. Len(written) : i =< Len(made) => written[i] = made[i]
==============================================================================
