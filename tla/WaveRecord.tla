----------------------------- MODULE WaveRecord -----------------------------
(***************************************************************************)
(* The wave records of a line, from protection to the files of Linux       *)
(* (zynqBM record.c and bm_linux.c, ipacs5612 app_bmrun.c and record.c).   *)
(*                                                                         *)
(* On core 1 three levels share the segments of a line: protection         *)
(* (slowTsk) starts a record or lengthens the one being made, the sampling *)
(* interrupt adds points and finishes it, the idle loop (dio) copies       *)
(* finished records into a ring in shared memory and clears their          *)
(* segments.  Each of them preempts the next.  Linux takes records out of  *)
(* the ring; core 1 never looks at its index.                              *)
(*                                                                         *)
(* A record is copied in two halves, in shared memory and out of it.       *)
(***************************************************************************)
EXTENDS Integers, Sequences

CONSTANTS
  Segs,      \* WAV_SEG_MAX
  Buf,       \* AD_BUF_SIZE: the points the buffer of the line holds
  Per,       \* AD_PER_SIZE: the points of a record
  Fit,       \* the points that fit into a slot of the ring
  Num,       \* MAX_RECORD_NUM
  MaxStart   \* bound: the times protection asks for a record

ASSUME RecordAssumption ==
  /\ {Segs, Buf, Per, Fit, Num, MaxStart} \subseteq Nat
  /\ Segs > 1 /\ Num > 1 /\ Per > 1 /\ Per =< Fit /\ Per =< Buf

Seg  == 0 .. Segs - 1
Slot == 0 .. Num - 1
Half == {1, 2}

VARIABLES
  seg,                \* rec_seg
  state, count, need, \* rec_state, wWavRcdCount, wWavRcdNeed, by segment
  base, id,           \* wWavDataCnt; time, by which a record is known
  used, point,        \* wBufUsed; the buffer: the record a point belongs to
  spc, free,          \* StartWavRecord: where it is, buf_free
  rcd,                \* EV_RCD is pending
  missed,             \* history: the finished records whose EV_RCD was lost
                      \*   and that no later one has brought to light
  dpc, at, word,      \* the idle loop: where it is, the segment, wBufUsed
                      \*   as it was read
  ring, wp, rp,       \* the ring: by slot, the records its halves are of
  lpc, taken, file,   \* Linux: where it is, the slot it took, what it copied
  asked, made,        \* starts; records begun
  put, filed,         \* history: records put into the ring, and into files
  odd,                \* history: which of the things in Oddity have happened
  lapped              \* history: core 1 began to fill a slot not yet copied

\* A record was lengthened after it was finished, or beyond the points that
\* were free; a point was not counted in wBufUsed; a record was copied before
\* an older one; every segment was in use, and rec_seg moved on all the same.
Oddity == {"late", "tight", "slipped", "overtook", "full"}

segment == <<seg, state, count, need, base, id>>
start   == <<spc, free, asked, made>>
event   == <<rcd, missed>>
loop    == <<event, dpc, at, word>>
shared  == <<ring, wp, put, lapped>>
linux   == <<rp, lpc, taken, file, filed>>
vars == <<segment, used, point, start, loop, shared, linux, odd>>

Init ==
  /\ seg = 0 /\ state = [s \in Seg |-> "idle"]
  /\ count = [s \in Seg |-> 0] /\ need = count /\ base = count /\ id = count
  /\ used = 0 /\ point = [i \in 0 .. Buf - 1 |-> 0]
  /\ spc = "idle" /\ free = 0
  /\ rcd = FALSE /\ missed = {} /\ dpc = "idle" /\ at = 0 /\ word = 0
  /\ ring = [i \in Slot |-> <<0, 0>>] /\ wp = 0 /\ rp = 0
  /\ lpc = "idle" /\ taken = 0 /\ file = <<0, 0>>
  /\ asked = 0 /\ made = 0 /\ put = << >> /\ filed = << >>
  /\ odd = {} /\ lapped = FALSE

------------------------------------------------------------------------------
(* Protection: StartWavRecord.                                             *)

Least(a, b) == IF a < b THEN a ELSE b

\* A record is being made: it goes on to lengthen it.  (Records that may
\* outgrow their slot are left out: they overwrite what follows it.)
StartTest ==
  /\ spc = "idle" /\ asked < MaxStart /\ asked' = asked + 1
  /\ used < Buf /\ state[seg] = "doing"
  /\ free' = Buf - used /\ spc' = "lengthen"
  /\ need[seg] + Least(free', need[seg]) =< Fit
  /\ UNCHANGED <<segment, used, point, made, loop, shared, linux, odd>>

\* It may have been finished since.
StartLengthen ==
  /\ spc = "lengthen" /\ spc' = "idle"
  /\ LET more == Least(free, count[seg]) IN
     /\ need' = [need EXCEPT ![seg] = @ + more]
     /\ odd' = odd \cup
          (IF state[seg] # "doing" /\ more > 0 THEN {"late"} ELSE {}) \cup
          (IF need'[seg] - count[seg] > Buf - used THEN {"tight"} ELSE {})
  /\ UNCHANGED <<seg, state, count, base, id, used, point, free, asked, made,
                 loop, shared, linux>>

\* Mutant of StartNew: a record begins where its segment began last.
StartNewThere ==
  /\ spc = "idle" /\ asked < MaxStart /\ asked' = asked + 1
  /\ used < Buf /\ state[seg] # "doing"
  /\ LET s == IF state[seg] = "ok" THEN (seg + 1) % Segs ELSE seg IN
     /\ seg' = s
     /\ IF state[s] = "idle"
        THEN /\ made' = made + 1 /\ id' = [id EXCEPT ![s] = made']
             /\ count' = [count EXCEPT ![s] = 0]
             /\ need' = [need EXCEPT ![s] = Least(Buf - used, Per)]
             /\ state' = [state EXCEPT ![s] = "doing"]
        ELSE UNCHANGED <<made, id, count, need, state>>
     /\ odd' = IF state[s] = "idle" THEN odd ELSE odd \cup {"full"}
  /\ UNCHANGED <<spc, free, base, used, point, loop, shared, linux>>

\* A new record, in the next segment if this one waits to be copied.  Its
\* points follow those of the segment before it.
StartNew ==
  /\ spc = "idle" /\ asked < MaxStart /\ asked' = asked + 1
  /\ used < Buf /\ state[seg] # "doing"
  /\ LET s == IF state[seg] = "ok" THEN (seg + 1) % Segs ELSE seg
         p == (s + Segs - 1) % Segs IN
     /\ seg' = s
     /\ IF state[s] = "idle"
        THEN /\ made' = made + 1 /\ id' = [id EXCEPT ![s] = made']
             /\ count' = [count EXCEPT ![s] = 0]
             /\ need' = [need EXCEPT ![s] = Least(Buf - used, Per)]
             /\ base' = [base EXCEPT ![s] = (base[p] + count[p]) % Buf]
             /\ state' = [state EXCEPT ![s] = "doing"]
        ELSE UNCHANGED <<made, id, count, need, base, state>>
     /\ odd' = IF state[s] = "idle" THEN odd ELSE odd \cup {"full"}
  /\ UNCHANGED <<spc, free, used, point, loop, shared, linux>>

------------------------------------------------------------------------------
(* The sampling interrupt: WAV_Record_Interrupt.                           *)

\* evSend.  If the interrupt preempted the tick (tRunCnt) between its reading
\* the word of event bits and writing it back, the bit is overwritten.
EvSend(r) ==
  \/ rcd' = TRUE /\ UNCHANGED missed
  \/ UNCHANGED rcd /\ missed' = IF rcd THEN missed ELSE missed \cup {r}

Sample ==
  /\ state[seg] = "doing"
  /\ point' = [point EXCEPT ![(base[seg] + count[seg]) % Buf] = id[seg]]
  /\ used' = used + 1
  /\ count' = [count EXCEPT ![seg] = @ + 1]
  /\ IF count[seg] + 1 >= need[seg]
     THEN state' = [state EXCEPT ![seg] = "ok"] /\ EvSend(id[seg])
     ELSE UNCHANGED <<state, event>>
  /\ odd' = IF dpc = "free" THEN odd \cup {"slipped"} ELSE odd
  /\ UNCHANGED <<seg, need, base, id, start, dpc, at, word, shared, linux>>

------------------------------------------------------------------------------
(* The idle loop: WAV_Record_Scan, recordFileWrite, recordclear.           *)

Loop(from, to) == spc = "idle" /\ dpc = from /\ dpc' = to

\* tRun calls dio for this bit or another, and evReceive reads the word.
EvLoad ==
  /\ spc = "idle" /\ dpc = "idle"
  /\ dpc' = IF rcd THEN "take" ELSE "skip"
  /\ UNCHANGED <<segment, used, point, start, event, at, word, shared,
                 linux, odd>>

\* It writes the word back without EV_RCD; one that was set again in between
\* is cleared too, but the scan is still to come.
EvTake ==
  /\ Loop("take", "scan") /\ rcd' = FALSE /\ missed' = {} /\ at' = 0
  /\ UNCHANGED <<segment, used, point, start, word, shared, linux, odd>>

\* It writes the word back and has not seen EV_RCD.  A record finished since
\* loses its bit if evReceive read the word it writes before that.
EvSkip ==
  /\ Loop("skip", "idle")
  /\ \/ UNCHANGED event
     \/ /\ rcd /\ rcd' = FALSE
        /\ missed' = missed \cup {id[s] : s \in {t \in Seg : state[t] = "ok"}}
  /\ UNCHANGED <<segment, used, point, start, at, word, shared, linux, odd>>

EvReceive == EvLoad \/ EvTake \/ EvSkip

\* On to the next segment; the scan ends after the last.
Onward == IF at + 1 < Segs THEN at' = at + 1 /\ dpc' = "scan"
          ELSE at' = 0 /\ dpc' = "idle"

Ready(s) == state[s] = "ok" /\ count[s] >= need[s]

Scan ==
  /\ spc = "idle" /\ dpc = "scan"
  /\ IF Ready(at)
     THEN dpc' = "first" /\ UNCHANGED at
     ELSE Onward
  /\ UNCHANGED <<segment, used, point, start, event, word, shared, linux, odd>>

\* The record that a half of the points of the segment belongs to, 0 if not
\* all to the same.
PartOf(h) ==
  LET n == count[at]
      places == IF h = 1 THEN 0 .. (n \div 2) - 1 ELSE n \div 2 .. n - 1
      owners == {point[(base[at] + i) % Buf] : i \in places} IN
  IF owners \subseteq {id[at]} THEN id[at] ELSE 0

\* ReadRecordBuf: the slot is filled in place, before it is announced.
CopyFirst ==
  /\ Loop("first", "second")
  /\ ring' = [ring EXCEPT ![wp][1] = PartOf(1)]
  /\ lapped' = (lapped \/ (lpc # "idle" /\ taken = wp))
  /\ UNCHANGED <<wp, put, segment, used, point, start, event, at, word,
                 linux, odd>>

CopySecond ==
  /\ Loop("second", "announce")
  /\ ring' = [ring EXCEPT ![wp][2] = PartOf(2)]
  /\ UNCHANGED <<wp, put, lapped, segment, used, point, start, event, at, word,
                 linux, odd>>

\* WriteBmRecord.  If the ring is full it becomes empty.
Announce ==
  /\ Loop("announce", "base")
  /\ wp' = (wp + 1) % Num
  /\ put' = Append(put, [id |-> id[at], half |-> ring[wp]])
  /\ lapped' = (lapped \/ wp' = rp)
  /\ odd' = IF \E s \in Seg : Ready(s) /\ id[s] < id[at]
            THEN odd \cup {"overtook"} ELSE odd
  /\ UNCHANGED <<ring, segment, used, point, start, event, at, word, linux>>

ClearBase ==
  /\ Loop("base", "count")
  /\ base' = [base EXCEPT ![at] = 0]
  /\ UNCHANGED <<seg, state, count, need, id, used, point, start, event, at,
                 word, shared, linux, odd>>

\* wBufUsed is read here and stored by Free.
ClearCount ==
  /\ Loop("count", "free")
  /\ count' = [count EXCEPT ![at] = 0] /\ need' = [need EXCEPT ![at] = 0]
  /\ word' = used - count[at]
  /\ UNCHANGED <<seg, state, base, id, used, point, start, event, at,
                 shared, linux, odd>>

\* Mutant of Free: the scan ends with the first record it copies.
FreeBreaks ==
  /\ spc = "idle" /\ dpc = "free" /\ dpc' = "idle" /\ at' = 0
  /\ used' = IF word < 0 THEN 0 ELSE word
  /\ word' = 0
  /\ state' = [state EXCEPT ![at] = "idle"]
  /\ UNCHANGED <<seg, count, need, base, id, point, start, event, shared, linux,
                 odd>>

\* Points sampled since wBufUsed was read are not counted.
Free ==
  /\ spc = "idle" /\ dpc = "free" /\ Onward
  /\ used' = IF word < 0 THEN 0 ELSE word
  /\ word' = 0
  /\ state' = [state EXCEPT ![at] = "idle"]
  /\ UNCHANGED <<seg, count, need, base, id, point, start, event, shared, linux,
                 odd>>

------------------------------------------------------------------------------
(* Linux: WAV_Record_Scan, ReadBmRecordData, recordFileWrite.              *)

\* The slot is given back before the record is copied out of it.
Take ==
  /\ lpc = "idle" /\ wp # rp
  /\ taken' = rp /\ rp' = (rp + 1) % Num
  /\ lpc' = "first"
  /\ UNCHANGED <<file, filed, segment, used, point, start, loop, shared,
                 odd>>

FileFirst ==
  /\ lpc = "first"
  /\ file' = [file EXCEPT ![1] = ring[taken][1]] /\ lpc' = "second"
  /\ UNCHANGED <<rp, taken, filed, segment, used, point, start, loop, shared,
                 odd>>

\* Mutant of FileSecond: the slot is found by the index, already moved on.
FileSecondByIndex ==
  /\ lpc = "second"
  /\ filed' = Append(filed, <<file[1], ring[rp][2]>>)
  /\ file' = <<0, 0>> /\ lpc' = "idle"
  /\ UNCHANGED <<rp, taken, segment, used, point, start, loop, shared,
                 odd>>

FileSecond ==
  /\ lpc = "second"
  /\ filed' = Append(filed, <<file[1], ring[taken][2]>>)
  /\ file' = <<0, 0>> /\ lpc' = "idle"
  /\ UNCHANGED <<rp, taken, segment, used, point, start, loop, shared,
                 odd>>

Start  == StartTest \/ StartLengthen \/ StartNew
Idle   == EvReceive \/ Scan \/ CopyFirst \/ CopySecond \/ Announce
          \/ ClearBase \/ ClearCount \/ Free
Linux  == Take \/ FileFirst \/ FileSecond

Next == Start \/ Sample \/ Idle \/ Linux

Spec == Init /\ [][Next]_vars

\* The sampling goes on, a handler that was begun ends, the idle loop and the
\* task of Linux get to run.
FairSpec ==
  /\ Spec
  /\ WF_vars(Sample) /\ WF_vars(StartLengthen) /\ WF_vars(Idle)
  /\ WF_vars(Linux)

------------------------------------------------------------------------------
(* Properties.                                                             *)

\* Indices stay inside the segments, the buffer and the ring.
TypeOK ==
  /\ seg \in Seg /\ state \in [Seg -> {"idle", "doing", "ok"}]
  /\ count \in [Seg -> Nat] /\ need \in [Seg -> Nat]
  /\ base \in [Seg -> 0 .. Buf - 1] /\ id \in [Seg -> 0 .. MaxStart]
  /\ used \in Nat /\ wp \in Slot /\ rp \in Slot

\* A record is put into the ring once, and it holds its own points only, in
\* whatever order records are started, finished, copied and cleared, unless
\* one of the oddities has happened.
RecordIntact ==
  /\ \A i, j \in 1 .. Len(put) : i # j => put[i].id # put[j].id
  /\ odd = {} =>
       \A i \in 1 .. Len(put) : put[i].half = <<put[i].id, put[i].id>>

\* Although a slot is given back before it is copied and filled before it is
\* announced, Linux files the records of the ring whole and in order, as long
\* as core 1 does not come round the ring.
FileIntact ==
  ~lapped => \A i \in 1 .. Len(filed) : filed[i] = put[i].half

\* A finished record that was lengthened: the scan does not find it.
Stuck(s) == state[s] = "ok" /\ count[s] < need[s] /\ "late" \in odd

\* Every record is copied and its segment given back in the end, unless it
\* was lengthened after it was finished, or its EV_RCD was lost and no later
\* record came to the scan; and it is filed, unless core 1 came round the
\* ring.
EveryRecordFiled ==
  /\ <>[](\A s \in Seg : state[s] = "idle" \/ Stuck(s) \/ id[s] \in missed)
  /\ <>[](lapped \/ Len(filed) = Len(put))
==============================================================================
