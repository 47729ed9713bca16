---------------------------- MODULE Inputs_proofs -----------------------------
(* Proofs about the way of an input on core 1: the filter of a double point *)
(* (YxFilter) and the task that writes the reports (TaskEvents).            *)
(* The two share no state here.                                             *)
EXTENDS YxFilter, TaskEvents, SequenceTheorems, TLAPS

------------------------------------------------------------------------------
(* The filter, for every filter time.                                      *)

\* A channel that is being filtered has as many scans to go as are missing to
\* its filter time since its input last changed; any other has none to go.
FilterHolds ==
  \A c \in Chan : IF c \in flt THEN cnt[c] + held[c] = dtime[c] ELSE cnt[c] = 0

FilterInv == FilterTypeOK /\ FilterHolds /\ DoubleRightUnlessOwed

LEMMA ChanFacts == /\ 1 \in Chan /\ 2 \in Chan
                   /\ \A c \in Chan : Other(c) \in Chan /\ Other(c) # c
  BY DEF Chan, Other

\* The count a visit tests and leaves, and what they say of a confirmation.
LEMMA CountFacts ==
  ASSUME FilterTypeOK, FilterHolds, NEW c \in Chan
  PROVE  /\ Count(c) \in Nat /\ Count(c) =< dtime[c] + 1
         /\ Counted(c) \in Nat /\ Counted(c) =< dtime[c]
         /\ Confirmed(c) => c \in flt /\ ~Changed(c) /\ cnt[c] = 0
                            /\ Counted(c) = 0
<1>1. dtime[c] \in Nat /\ cnt[c] \in Nat /\ cnt[c] =< dtime[c]
  BY DtimeAssumption DEF FilterTypeOK
<1>2. c \notin flt => cnt[c] = 0
  BY DEF FilterHolds
<1>3. Count(c) \in Nat /\ Count(c) =< dtime[c] + 1
  BY <1>1 DEF Count
<1>4. Counted(c) \in Nat /\ Counted(c) =< dtime[c]
  BY <1>1, <1>2 DEF Counted, Count, Filtered
<1>5. Confirmed(c) => c \in flt /\ ~Changed(c) /\ cnt[c] = 0 /\ Counted(c) = 0
  BY <1>1 DEF Confirmed, Counted, Count, Filtered
<1> QED BY <1>3, <1>4, <1>5

LEMMA Initially == FilterInit => FilterInv
<1> SUFFICES ASSUME FilterInit PROVE FilterInv
  OBVIOUS
<1>1. cnt \in [Chan -> Nat] /\ held \in [Chan -> Nat]
  BY DEF FilterInit
<1>2. \A c \in Chan : cnt[c] = 0 /\ held[c] = 0 /\ dtime[c] \in Nat
  BY DtimeAssumption DEF FilterInit
<1>3. \A c \in Chan : cnt[c] =< dtime[c] /\ held[c] =< dtime[c] + 1
  BY <1>2
<1>4. cur \in [Chan -> Bit] /\ single \in [Chan -> Bit \cup {None}]
  BY DEF FilterInit, Bit
<1>5. FilterTypeOK
  BY <1>1, <1>3, <1>4 DEF FilterInit, FilterTypeOK
<1>6. FilterHolds /\ DoubleRightUnlessOwed
  BY <1>2 DEF FilterInit, FilterHolds, DoubleRightUnlessOwed
<1> QED BY <1>5, <1>6 DEF FilterInv

LEMMA ScanType ==
  ASSUME FilterInv, Scan PROVE FilterTypeOK'
<1> USE DEF FilterInv
<1>1. \A c \in Chan : Value(c) \in Bit
  BY DEF Value, FilterTypeOK
<1>2. input' \in [Chan -> Bit] /\ cur' \in [Chan -> Bit] /\ flt' \subseteq Chan
  BY DEF Scan, FilterTypeOK
<1>3. cnt' \in [Chan -> Nat] /\ \A c \in Chan : cnt'[c] =< dtime[c]
  BY CountFacts DEF Scan
<1>4. held' \in [Chan -> Nat] /\ \A c \in Chan : held'[c] =< dtime[c] + 1
  BY DtimeAssumption DEF Scan, FilterTypeOK
<1>5. value' \in [Chan -> Bit] /\ single' \in [Chan -> Bit \cup {None}]
  BY <1>1 DEF Scan, FilterTypeOK
<1>6. double' \in [Chan -> Bit]
  <2>1. \A c \in Chan : PairReport(c) \in [Chan -> Bit]
    BY <1>1, ChanFacts DEF PairReport, OtherValue, FilterTypeOK
  <2> QED BY <2>1, ChanFacts DEF Scan, FilterTypeOK
<1>7. owed' \in BOOLEAN /\ seen' \subseteq Chan
  BY DEF Scan, FilterTypeOK
<1> QED BY <1>2, <1>3, <1>4, <1>5, <1>6, <1>7 DEF FilterTypeOK

LEMMA ScanFilter ==
  ASSUME FilterInv, Scan PROVE FilterHolds'
<1> SUFFICES ASSUME NEW c \in Chan
             PROVE  IF c \in flt' THEN cnt'[c] + held'[c] = dtime[c]
                    ELSE cnt'[c] = 0
  BY DEF FilterHolds
<1> USE DEF FilterInv
<1>1. dtime[c] \in Nat /\ cnt[c] \in Nat /\ held[c] \in Nat
      /\ cnt[c] =< dtime[c] /\ held[c] =< dtime[c] + 1
  BY DtimeAssumption DEF FilterTypeOK
<1>2. IF c \in flt THEN cnt[c] + held[c] = dtime[c] ELSE cnt[c] = 0
  BY DEF FilterHolds
<1>3. /\ c \in flt' <=> Filtered(c) /\ Count(c) > 0
      /\ cnt'[c] = Counted(c)
      /\ held'[c] = IF Changed(c) THEN 0
                    ELSE IF held[c] > dtime[c] THEN held[c] ELSE held[c] + 1
  BY DEF Scan
<1>4. CASE Changed(c)
  BY <1>1, <1>3, <1>4 DEF Filtered, Count, Counted
<1>5. CASE ~Changed(c) /\ c \in flt /\ cnt[c] > 0
  BY <1>1, <1>2, <1>3, <1>5 DEF Filtered, Count, Counted
<1>6. CASE ~Changed(c) /\ ~(c \in flt /\ cnt[c] > 0)
  BY <1>1, <1>2, <1>3, <1>6 DEF Filtered, Count, Counted
<1> QED BY <1>1, <1>4, <1>5, <1>6

\* A double point that is reported is right after the scan: if only channel 1
\* reports, channel 2 is not confirmed in that scan, and if channel 2 reports,
\* it has seen the new value of channel 1.
LEMMA ScanDouble ==
  ASSUME FilterInv, Scan PROVE DoubleRightUnlessOwed'
<1> USE DEF FilterInv
<1>1. \A c \in Chan : value'[c] = Value(c)
  BY DEF Scan
<1>2. value' = [c \in Chan |-> Value(c)] /\ value \in [Chan -> Bit]
  BY DEF Scan, FilterTypeOK
<1>3. CASE Reports(2)
  <2>1. double' = PairReport(2)
    BY <1>3 DEF Scan
  <2>2. PairReport(2) = [d \in Chan |-> Value(d)]
    BY <1>3 DEF PairReport, Reports, OtherValue, Other, Value, Chan
  <2> QED BY <1>2, <2>1, <2>2 DEF DoubleRightUnlessOwed
<1>4. CASE Reports(1) /\ ~Reports(2)
  <2>1. double' = PairReport(1)
    BY <1>4 DEF Scan
  <2>2. Counted(1) = 0
    BY <1>4, ChanFacts, CountFacts DEF Reports
  <2>3. ~Confirmed(2)
    BY <1>4, <2>2 DEF Reports, OtherCnt, Other
  <2>4. PairReport(1) = [d \in Chan |-> Value(d)]
    BY <1>4, <2>3 DEF PairReport, Reports, OtherValue, Other, Value, Chan
  <2> QED BY <1>2, <2>1, <2>4 DEF DoubleRightUnlessOwed
<1>5. CASE ~Reports(1) /\ ~Reports(2)
  <2>1. \A c \in Chan : ~Reports(c)
    BY <1>5 DEF Chan
  <2>2. double' = double
    BY <1>5 DEF Scan
  <2>3. owed' = (owed \/ \E c \in Chan : Confirmed(c))
    BY <2>1 DEF Scan
  <2>4. CASE \E c \in Chan : Confirmed(c)
    BY <2>3, <2>4 DEF DoubleRightUnlessOwed
  <2>5. CASE ~\E c \in Chan : Confirmed(c)
    <3>1. value' = value
      BY <1>2, <2>5 DEF Value
    <3> QED BY <2>2, <2>3, <3>1 DEF DoubleRightUnlessOwed
  <2> QED BY <2>4, <2>5
<1> QED BY <1>3, <1>4, <1>5

LEMMA Inductive == FilterInv /\ [FilterNext]_filterVars => FilterInv'
<1> SUFFICES ASSUME FilterInv, [FilterNext]_filterVars PROVE FilterInv'
  OBVIOUS
<1>1. CASE Scan
  BY <1>1, ScanType, ScanFilter, ScanDouble DEF FilterInv
<1>2. ASSUME NEW c \in Chan, Bounce(c) PROVE FilterInv'
  <2>1. input' \in [Chan -> Bit]
    BY <1>2 DEF Bounce, FilterInv, FilterTypeOK, Bit
  <2> QED BY <1>2, <2>1
          DEF Bounce, FilterInv, FilterTypeOK, FilterHolds, DoubleRightUnlessOwed
<1>3. CASE UNCHANGED filterVars
  BY <1>3 DEF filterVars, FilterInv, FilterTypeOK, FilterHolds, DoubleRightUnlessOwed
<1> QED BY <1>1, <1>2, <1>3 DEF FilterNext

THEOREM Invariant == FilterSpec => []FilterInv
  BY Initially, Inductive, PTL DEF FilterSpec

\* The counts of the filters never leave their range, whatever the filter
\* times and however the inputs bounce.
THEOREM FilterTypeCorrect == FilterSpec => []FilterTypeOK
<1>1. FilterInv => FilterTypeOK
  BY DEF FilterInv
<1> QED BY Invariant, <1>1, PTL

\* The double point last reported is right unless a report is owed.
THEOREM DoubleRight == FilterSpec => []DoubleRightUnlessOwed
<1>1. FilterInv => DoubleRightUnlessOwed
  BY DEF FilterInv
<1> QED BY Invariant, <1>1, PTL

\* What is reported was stable for the whole filter time.
THEOREM NothingBounces == FilterSpec => Debounced
<1> DEFINE Stable(c) == single'[c] # None /\ Scan =>
                          /\ held'[c] = dtime[c] + 1
                          /\ single'[c] = input[c] /\ value[c] # input[c]
<1>1. ASSUME FilterInv, NEW c \in Chan, single'[c] # None, Scan
      PROVE  /\ held'[c] = dtime[c] + 1
             /\ single'[c] = input[c] /\ value[c] # input[c]
  <2>1. Confirmed(c) /\ single'[c] = input[c]
    BY <1>1 DEF Scan
  <2>2. c \in flt /\ ~Changed(c) /\ cnt[c] = 0
    BY <1>1, <2>1, CountFacts DEF FilterInv
  <2>3. held[c] = dtime[c] /\ dtime[c] \in Nat
    BY <1>1, <2>2, DtimeAssumption DEF FilterInv, FilterHolds, FilterTypeOK
  <2>4. held'[c] = dtime[c] + 1
    BY <1>1, <2>2, <2>3 DEF Scan
  <2> QED BY <2>1, <2>4 DEF Confirmed
<1>2. FilterInv /\ [FilterNext]_filterVars => [\A c \in Chan : Stable(c)]_filterVars
  BY <1>1
<1> QED BY Invariant, <1>2, PTL DEF FilterSpec, Debounced

------------------------------------------------------------------------------
(* The task dio, for every size of the buffer of reports, every number of  *)
(* double points, reports and records.                                     *)

Record == [kind : {"single", "double"}, no : Int]

Typed ==
  /\ soe \in [Slot -> Record] /\ made \in Seq(Record) /\ written \in Seq(Record)
  /\ no \in Int /\ records \in Nat

\* The slot of the i-th unread report, counted from 0.
At0(r, i) == IF r + i < Size THEN r + i ELSE r + i - Size

\* Between the indices r and w the buffer b holds what was made, m, behind the
\* n reports that were written.
Holds(b, w, r, m, n) ==
  /\ n =< Len(m) /\ Len(m) - n < Size
  /\ w = At0(r, Len(m) - n)
  /\ \A i \in Slot : i < Len(m) - n => b[At0(r, i)] = m[n + 1 + i]

BufferHolds ==
  /\ Len(made) - Len(written) =< Unread
  /\ Holds(soe, wp, rp, made, Len(written))

\* A batch ends at a report that has been made and not yet been written.
BatchHolds ==
  pc = "write" =>
    \E i \in Slot : /\ 0 < i /\ i =< Len(made) - Len(written)
                    /\ limit = At0(rp, i)

\* dio has handled all bits it took before it returns.
TodoHolds == pc = "poll" => todo = {}

IInv == /\ TypeOK /\ Typed /\ BufferHolds /\ BatchHolds /\ TodoHolds
        /\ WrittenOnceInOrder /\ RecordAnnounced

-------------------------------------------------------------------------------
LEMMA Next1Fact ==
  ASSUME NEW i \in Slot
  PROVE  Next1(i) = (IF i + 1 = Size THEN 0 ELSE i + 1) /\ Next1(i) \in Slot
<1> DEFINE q == (i + 1) \div Size
           m == (i + 1) % Size
<1>1. Size \in Nat /\ Size > 0 /\ i \in Nat /\ i + 1 =< Size
  BY EventsAssumption DEF Slot
<1>2. i + 1 = q * Size + m /\ q \in Nat /\ m \in 0 .. Size - 1
  BY <1>1, SMT
<1> HIDE DEF q, m
<1>3. q = 0 \/ q * Size >= Size
  BY <1>1, <1>2, SMT
<1>4. q = 0 => q * Size = 0
  BY <1>1
<1>5. i + 1 < Size => m = i + 1
  BY <1>1, <1>2, <1>3, <1>4
<1>6. q = 1 \/ q = 0 \/ q * Size >= 2 * Size
  BY <1>1, <1>2, SMT
<1>7. i + 1 = Size => m = 0
  BY <1>1, <1>2, <1>4, <1>6, SMT
<1>8. QED
  BY <1>1, <1>2, <1>5, <1>7 DEF Next1, m, Slot

LEMMA SizeFacts ==
  /\ Size \in Nat /\ Size > 2 /\ Unread \in Nat /\ Unread < Size
  /\ Slot = 0 .. Size - 1 /\ Slot \subseteq Nat
BY EventsAssumption DEF Slot

LEMMA At0Facts ==
  ASSUME NEW r \in Slot
  PROVE  /\ \A i \in Slot : At0(r, i) \in Slot
         /\ \A i, j \in Slot : At0(r, i) = At0(r, j) => i = j
         /\ At0(r, 0) = r
         /\ \A i \in Slot : i + 1 \in Slot => Next1(At0(r, i)) = At0(r, i + 1)
         /\ \A i \in Slot : i + 1 \in Slot => At0(Next1(r), i) = At0(r, i + 1)
<1>1. /\ \A i \in Slot : At0(r, i) \in Slot
      /\ \A i, j \in Slot : At0(r, i) = At0(r, j) => i = j
      /\ At0(r, 0) = r
  BY SizeFacts DEF At0, Slot
<1>2. ASSUME NEW i \in Slot, i + 1 \in Slot
      PROVE  Next1(At0(r, i)) = At0(r, i + 1)
  BY <1>1, <1>2, SizeFacts, Next1Fact DEF At0, Slot
<1>3. ASSUME NEW i \in Slot, i + 1 \in Slot
      PROVE  At0(Next1(r), i) = At0(r, i + 1)
  BY <1>3, SizeFacts, Next1Fact DEF At0, Slot
<1>4. QED
  BY <1>1, <1>2, <1>3

\* One more report is put into a buffer with room for it.
LEMMA Put ==
  ASSUME NEW b \in [Slot -> Record], NEW w \in Slot, NEW r \in Slot,
         NEW m \in Seq(Record), NEW n \in Nat, NEW e \in Record,
         Holds(b, w, r, m, n), Len(m) + 1 - n < Size
  PROVE  Holds([b EXCEPT ![w] = e], Next1(w), r, Append(m, e), n)
<1> DEFINE u == Len(m) - n
           c == [b EXCEPT ![w] = e]
           l == Append(m, e)
<1>1. Len(m) \in Nat /\ u \in Slot /\ u + 1 \in Slot /\ w = At0(r, u)
  BY SizeFacts DEF Holds
<1>2. /\ Len(l) = Len(m) + 1 /\ l[Len(m) + 1] = e
      /\ \A i \in 1 .. Len(m) : l[i] = m[i]
  BY AppendProperties
<1>3. Next1(w) = At0(r, u + 1)
  BY <1>1, At0Facts
<1>4. c[w] = e /\ \A s \in Slot : s # w => c[s] = b[s]
  OBVIOUS
<1>5. ASSUME NEW i \in Slot, i < u + 1
      PROVE  c[At0(r, i)] = l[n + 1 + i]
  <2>1. CASE i = u
    <3>1. n + 1 + i = Len(m) + 1
      BY <1>1, <2>1, SizeFacts
    <3>2. QED
      BY <1>1, <1>2, <1>4, <2>1, <3>1
  <2>2. CASE i # u
    <3>1. i < u /\ n + 1 + i \in 1 .. Len(m)
      BY <1>1, <1>5, <2>2, SizeFacts
    <3>2. At0(r, i) # w /\ At0(r, i) \in Slot
      BY <1>1, <2>2, At0Facts
    <3>3. b[At0(r, i)] = m[n + 1 + i]
      BY <3>1 DEF Holds
    <3>4. QED
      BY <1>2, <1>4, <3>1, <3>2, <3>3
  <2>3. QED
    BY <2>1, <2>2
<1>6. n =< Len(l) /\ Len(l) - n = u + 1 /\ u + 1 < Size
  BY <1>1, <1>2, SizeFacts
<1> HIDE DEF c, l, u
<1>7. Holds(c, Next1(w), r, l, n)
  BY <1>3, <1>5, <1>6 DEF Holds
<1>8. QED
  BY <1>7 DEF c, l

\* The oldest report is taken out of it.
LEMMA Get ==
  ASSUME NEW b \in [Slot -> Record], NEW w \in Slot, NEW r \in Slot,
         NEW m \in Seq(Record), NEW n \in Nat,
         Holds(b, w, r, m, n), n < Len(m)
  PROVE  b[r] = m[n + 1] /\ Holds(b, w, Next1(r), m, n + 1)
<1> DEFINE u == Len(m) - n
<1>1. Len(m) \in Nat /\ u \in Slot /\ u > 0 /\ u - 1 \in Slot /\ 0 \in Slot
  BY SizeFacts DEF Holds
<1>2. b[r] = m[n + 1]
  <2>1. b[At0(r, 0)] = m[n + 1 + 0]
    BY <1>1 DEF Holds
  <2>2. QED
    BY <2>1, At0Facts
<1>3. w = At0(Next1(r), u - 1)
  BY <1>1, At0Facts, SizeFacts DEF Holds
<1>4. ASSUME NEW i \in Slot, i < u - 1
      PROVE  b[At0(Next1(r), i)] = m[n + 2 + i]
  <2>1. i + 1 \in Slot /\ i + 1 < u /\ n + 1 + (i + 1) = n + 2 + i
    BY <1>1, <1>4, SizeFacts
  <2>2. b[At0(r, i + 1)] = m[n + 1 + (i + 1)]
    BY <2>1 DEF Holds
  <2>3. QED
    BY <2>1, <2>2, At0Facts
<1>5. /\ n + 1 =< Len(m) /\ Len(m) - (n + 1) = u - 1 /\ u - 1 < Size
      /\ \A i : i \in Slot => n + 1 + 1 + i = n + 2 + i
  BY <1>1, SizeFacts
<1> HIDE DEF u
<1>6. QED
  BY <1>2, <1>3, <1>4, <1>5 DEF Holds

-------------------------------------------------------------------------------
(* The steps.                                                              *)

LEMMA InitHolds == Init => IInv
<1> SUFFICES ASSUME Init PROVE IInv
  OBVIOUS
<1> USE DEF Init
<1>1. TypeOK
  BY SizeFacts, EventsAssumption DEF TypeOK
<1>2. Typed
  <2>1. Report("single", 0) \in Record /\ Garbage \in Int
    BY DEF Report, Record, Garbage
  <2>2. << >> \in Seq(Record)
    OBVIOUS
  <2>3. QED
    BY <2>1, <2>2 DEF Typed
<1>3. BufferHolds
  BY SizeFacts DEF BufferHolds, Holds, At0
<1>4. BatchHolds /\ TodoHolds /\ WrittenOnceInOrder /\ RecordAnnounced
  BY DEF BatchHolds, TodoHolds, WrittenOnceInOrder, RecordAnnounced
<1>5. QED
  BY <1>1, <1>2, <1>3, <1>4 DEF IInv

\* What the buffer's indices and histories are of.
LEMMA BufferFacts ==
  ASSUME IInv
  PROVE  /\ Len(made) \in Nat /\ Len(written) \in Nat
         /\ Len(written) =< Len(made) /\ Len(made) - Len(written) =< Unread
         /\ Len(made) - Len(written) \in Slot
         /\ wp \in Slot /\ rp \in Slot /\ soe \in [Slot -> Record]
         /\ made \in Seq(Record) /\ written \in Seq(Record)
         /\ Holds(soe, wp, rp, made, Len(written))
BY SizeFacts DEF IInv, Typed, TypeOK, BufferHolds, Holds

\* What a step that does not touch the buffer must keep.
LEMMA BufferKept ==
  ASSUME IInv, UNCHANGED <<soe, wp, rp, no, made, written>>, records' \in Nat,
         pc' = "write" => pc = "write" /\ limit' = limit
  PROVE  Typed' /\ BufferHolds' /\ BatchHolds' /\ WrittenOnceInOrder'
BY DEF IInv, Typed, BufferHolds, BatchHolds, WrittenOnceInOrder

LEMMA ChangeHolds ==
  ASSUME IInv, NEW d \in Double, NEW half \in {0, 1}, NEW pair \in BOOLEAN,
         Change(d, half, pair)
  PROVE  IInv'
<1> DEFINE a == Report("single", 2 * d + half)
           b == Report("double", d)
           more == IF pair THEN <<a, b>> ELSE <<a>>
<1>1. /\ Len(made) - Len(written) + Len(more) =< Unread
      /\ soe' = [soe EXCEPT ![wp] = a, ![Next1(wp)] = IF pair THEN more[2] ELSE @]
      /\ wp' = (IF pair THEN Next1(Next1(wp)) ELSE Next1(wp))
      /\ made' = made \o more
      /\ event' = event \cup {"uflag"}
      /\ UNCHANGED <<rp, limit, no, written, tmcnt, tpc, tword, pc, word, todo,
                     records, waiting, lost>>
  BY DEF Change, tick, dio, rec
<1>2. a \in Record /\ b \in Record
  BY EventsAssumption DEF Report, Record
<1>3. /\ Next1(wp) \in Slot /\ Next1(wp) # wp /\ Next1(Next1(wp)) \in Slot
      /\ wp \in Slot
  BY BufferFacts, Next1Fact, SizeFacts DEF Slot
<1> HIDE DEF a, b
<1>4. /\ made' \in Seq(Record) /\ soe' \in [Slot -> Record] /\ wp' \in Slot
      /\ Len(made') = Len(made) + Len(more)
      /\ \A i \in 1 .. Len(made) : made'[i] = made[i]
      /\ Holds(soe', wp', rp, made', Len(written))
  <2>1. made \in Seq(Record) /\ Len(made) \in Nat
    BY BufferFacts
  <2>2. /\ Append(made, a) \in Seq(Record) /\ Len(Append(made, a)) = Len(made) + 1
        /\ \A i \in 1 .. Len(made) : Append(made, a)[i] = made[i]
    BY <1>2, <2>1, AppendProperties
  <2>3. made \o <<a>> = Append(made, a)
    BY <1>2, <2>1
  <2> DEFINE c == [soe EXCEPT ![wp] = a]
  <2>4. c \in [Slot -> Record]
    BY <1>2, BufferFacts
  <2>5. Holds(c, Next1(wp), rp, Append(made, a), Len(written))
    <3>1. Len(more) >= 1
      OBVIOUS
    <3>2. Len(made) + 1 - Len(written) < Size
      BY <1>1, <3>1, BufferFacts, SizeFacts
    <3>3. QED
      BY <1>2, <3>2, Put, BufferFacts
  <2>6. CASE ~pair
    <3>1. soe' = c
      BY <1>1, <1>3, <2>6, BufferFacts
    <3>2. more = <<a>> /\ Len(more) = 1 /\ wp' = Next1(wp)
      BY <1>1, <2>6
    <3> HIDE DEF c, more
    <3>3. made' = Append(made, a)
      BY <1>1, <2>3, <3>2
    <3>4. QED
      BY <1>3, <2>2, <2>4, <2>5, <3>1, <3>2, <3>3
  <2>7. CASE pair
    <3> DEFINE e == [c EXCEPT ![Next1(wp)] = b]
               l == Append(Append(made, a), b)
    <3>1. soe' = e
      BY <1>1, <1>3, <2>7, BufferFacts
    <3>2. more = <<a, b>> /\ Len(more) = 2 /\ wp' = Next1(Next1(wp))
      BY <1>1, <2>7
    <3>3. made \o <<a, b>> = Append(made \o <<a>>, b)
      BY <1>2, <2>1
    <3>4. /\ l \in Seq(Record) /\ Len(l) = Len(made) + 2
          /\ \A i \in 1 .. Len(made) : l[i] = made[i]
      <4>1. /\ l \in Seq(Record) /\ Len(l) = Len(Append(made, a)) + 1
            /\ \A i \in 1 .. Len(Append(made, a)) : l[i] = Append(made, a)[i]
        BY <1>2, <2>2, AppendProperties
      <4>2. QED
        BY <2>1, <2>2, <4>1
    <3>5. e \in [Slot -> Record]
      BY <1>2, <2>4
    <3>6. Holds(e, Next1(Next1(wp)), rp, l, Len(written))
      <4> HIDE DEF c
      <4>1. Len(Append(made, a)) + 1 - Len(written) < Size
        BY <1>1, <2>1, <2>2, <3>2, BufferFacts, SizeFacts
      <4>2. QED
        BY <1>2, <1>3, <2>2, <2>4, <2>5, <4>1, Put, BufferFacts
    <3> HIDE DEF c, e, more
    <3>7. made' = l
      BY <1>1, <2>3, <3>2, <3>3
    <3> HIDE DEF l
    <3>8. QED
      BY <1>3, <3>1, <3>2, <3>4, <3>5, <3>6, <3>7
  <2>8. QED
    BY <2>6, <2>7
<1>5. Len(more) \in {1, 2}
  OBVIOUS
<1> HIDE DEF more
<1>6. Len(made) \in Nat /\ Len(written) \in Nat /\ Len(made') \in Nat
      /\ Len(made') >= Len(made) /\ Len(made') - Len(written) =< Unread
      /\ Len(written) =< Len(made)
  BY <1>1, <1>4, <1>5, BufferFacts, SizeFacts
<1>7. TypeOK'
  <2>1. event' \subseteq Bits
    BY <1>1 DEF IInv, TypeOK, Bits
  <2>2. QED
    BY <1>1, <1>4, <2>1 DEF IInv, TypeOK
<1>8. Typed' /\ BufferHolds'
  <2>1. Typed'
    BY <1>1, <1>4 DEF Typed, IInv
  <2>2. rp' = rp /\ Len(written') = Len(written)
    BY <1>1
  <2>3. Holds(soe', wp', rp', made', Len(written'))
    BY <1>4, <2>2
  <2>4. Len(made') - Len(written') =< Unread
    BY <1>6, <2>2
  <2>5. QED
    BY <2>1, <2>3, <2>4 DEF BufferHolds
<1>9. BatchHolds'
  BY <1>1, <1>6, SizeFacts DEF BatchHolds, IInv
<1>10. TodoHolds' /\ RecordAnnounced'
  BY <1>1 DEF TodoHolds, RecordAnnounced, IInv
<1>11. WrittenOnceInOrder'
  <2>1. \A i \in 1 .. Len(written) : i \in 1 .. Len(made) /\ made'[i] = made[i]
    BY <1>4, <1>6
  <2>2. QED
    BY <1>1, <1>6, <2>1 DEF WrittenOnceInOrder, IInv
<1>12. QED
  BY <1>7, <1>8, <1>9, <1>10, <1>11 DEF IInv

\* The words of events, and what takes bits out of them.
LEMMA WordsHold ==
  ASSUME IInv,
         RecordDone \/ TickLoad \/ TickStore \/ EvReload \/ EvLoad \/ EvStore
         \/ CallYxWrite("uflag") \/ CallYxWrite("tm1") \/ WAVRecordScan
         \/ DioReturn
  PROVE  IInv'
<1> USE DEF IInv
<1>1. UNCHANGED <<soe, wp, rp, no, limit, made, written>>
  BY DEF RecordDone, TickLoad, TickStore, EvReload, EvLoad, EvStore, CallYxWrite,
         WAVRecordScan, DioReturn, buf
<1>2. pc' = "write" => pc = "write"
  BY DEF RecordDone, TickLoad, TickStore, EvReload, EvLoad, EvStore, CallYxWrite,
         WAVRecordScan, DioReturn, dio, At
<1>3. Typed' /\ BufferHolds' /\ BatchHolds' /\ WrittenOnceInOrder'
  <2>1. records' \in Nat
    BY DEF Typed, RecordDone, TickLoad, TickStore, EvReload, EvLoad, EvStore,
           CallYxWrite, WAVRecordScan, DioReturn, rec
  <2>2. QED
    BY <1>1, <1>2, <2>1, BufferKept
<1>4. TypeOK'
  <2>1. CASE RecordDone
    BY <1>1, <2>1 DEF RecordDone, TypeOK, Typed, tick, dio, Bits
  <2>2. CASE TickLoad
    BY <1>1, <2>2, EventsAssumption DEF TickLoad, TypeOK, dio, rec
  <2>3. CASE TickStore
    BY <1>1, <2>3, EventsAssumption DEF TickStore, TypeOK, dio, rec, Bits
  <2>4. CASE EvReload
    BY <1>1, <2>4 DEF EvReload, TypeOK, tick, rec
  <2>5. CASE EvLoad
    BY <1>1, <2>5 DEF EvLoad, TypeOK, tick, rec
  <2>6. CASE EvStore
    BY <1>1, <2>6 DEF EvStore, TypeOK, tick, rec
  <2>7. CASE CallYxWrite("uflag") \/ CallYxWrite("tm1")
    BY <1>1, <2>7 DEF CallYxWrite, TypeOK, tick, rec
  <2>8. CASE WAVRecordScan
    BY <1>1, <2>8 DEF WAVRecordScan, TypeOK, Typed, tick
  <2>9. CASE DioReturn
    BY <1>1, <2>9 DEF DioReturn, TypeOK, tick, rec
  <2>10. QED
    BY <2>1, <2>2, <2>3, <2>4, <2>5, <2>6, <2>7, <2>8, <2>9
<1>5. TodoHolds'
  BY DEF TodoHolds, RecordDone, TickLoad, TickStore, EvReload, EvLoad, EvStore,
         CallYxWrite, WAVRecordScan, DioReturn, dio, At
<1>6. RecordAnnounced'
  <2>1. CASE RecordDone
    BY <2>1 DEF RecordDone, RecordAnnounced
  <2>2. CASE TickLoad
    BY <2>2 DEF TickLoad, RecordAnnounced, dio, rec
  <2>3. CASE TickStore
    BY <2>3 DEF TickStore, RecordAnnounced, dio, rec
  <2>4. CASE EvReload
    BY <2>4 DEF EvReload, RecordAnnounced, rec
  <2>5. CASE EvLoad
    BY <2>5 DEF EvLoad, RecordAnnounced, TodoHolds, At, rec
  <2>6. CASE EvStore
    BY <2>6 DEF EvStore, RecordAnnounced, rec
  <2>7. CASE CallYxWrite("uflag") \/ CallYxWrite("tm1")
    BY <2>7 DEF CallYxWrite, RecordAnnounced, rec
  <2>8. CASE WAVRecordScan
    BY <2>8 DEF WAVRecordScan, RecordAnnounced
  <2>9. CASE DioReturn
    BY <2>9 DEF DioReturn, RecordAnnounced, rec
  <2>10. QED
    BY <2>1, <2>2, <2>3, <2>4, <2>5, <2>6, <2>7, <2>8, <2>9
<1>7. QED
  BY <1>3, <1>4, <1>5, <1>6

LEMMA BatchStepHolds ==
  ASSUME IInv, Batch
  PROVE  IInv'
<1> USE DEF IInv
<1>1. /\ pc = "drain" /\ limit' = wp
      /\ IF rp = wp THEN pc' = "dio" /\ no' = Garbage
         ELSE pc' = "write" /\ no' = no
      /\ UNCHANGED <<event, word, todo, tmcnt, tpc, tword, soe, wp, rp, made,
                     written, records, waiting, lost>>
  BY DEF Batch, At, tick, rec
<1>2. TypeOK' /\ TodoHolds' /\ RecordAnnounced'
  BY <1>1 DEF TypeOK, TodoHolds, RecordAnnounced
<1>3. Typed' /\ BufferHolds' /\ WrittenOnceInOrder'
  BY <1>1 DEF Typed, BufferHolds, WrittenOnceInOrder, Garbage
<1>4. BatchHolds'
  <2> DEFINE u == Len(made) - Len(written)
  <2>1. u \in Slot /\ wp = At0(rp, u) /\ At0(rp, 0) = rp
    BY BufferFacts, At0Facts DEF Holds
  <2>2. rp # wp => 0 < u
    BY <2>1, SizeFacts
  <2>3. QED
    BY <1>1, <2>1, <2>2, SizeFacts DEF BatchHolds
<1>5. QED
  BY <1>2, <1>3, <1>4

LEMMA WriteOneHolds ==
  ASSUME IInv, WriteOne
  PROVE  IInv'
<1> USE DEF IInv
<1> DEFINE n == Len(written)
           r == Report(soe[rp].kind, no')
<1>1. /\ pc = "write"
      /\ no' = (IF soe[rp].kind = "single" THEN soe[rp].no ELSE no)
      /\ written' = Append(written, r)
      /\ rp' = Next1(rp)
      /\ pc' = (IF rp' = limit THEN "drain" ELSE "write")
      /\ UNCHANGED <<event, word, todo, tmcnt, tpc, tword, soe, wp, limit, made,
                     records, waiting, lost>>
  BY DEF WriteOne, At, tick, rec
<1>2. PICK i \in Slot : 0 < i /\ i =< Len(made) - n /\ limit = At0(rp, i)
  BY <1>1 DEF BatchHolds
<1>3. n \in Nat /\ Len(made) \in Nat /\ n < Len(made) /\ rp \in Slot
  BY <1>2, BufferFacts, SizeFacts
<1>4. soe[rp] \in Record /\ no' \in Int /\ r \in Record
  BY <1>1, <1>3 DEF Typed, Record, Report
<1>5. /\ written' \in Seq(Record) /\ Len(written') = n + 1
      /\ written'[n + 1] = r /\ \A j \in 1 .. n : written'[j] = written[j]
  BY <1>1, <1>4, BufferFacts, AppendProperties
<1>6. soe[rp] = made[n + 1] /\ Holds(soe, wp, Next1(rp), made, n + 1)
  BY <1>3, BufferFacts, Get
<1>7. Next1(rp) \in Slot
  BY <1>3, Next1Fact
<1> HIDE DEF r
<1>8. TypeOK' /\ TodoHolds' /\ RecordAnnounced'
  BY <1>1, <1>7 DEF TypeOK, TodoHolds, RecordAnnounced
<1>9. Typed'
  BY <1>1, <1>4, <1>5 DEF Typed
<1>10. BufferHolds'
  BY <1>1, <1>3, <1>5, <1>6, SizeFacts DEF BufferHolds
<1>11. BatchHolds'
  <2>1. ASSUME pc' = "write" PROVE Next1(rp) # At0(rp, i)
    BY <1>1, <1>2, <2>1
  <2>2. i - 1 \in Slot /\ 0 \in Slot /\ (0 + 1 \in Slot => Next1(rp) = At0(rp, 1))
    BY <1>2, <1>3, SizeFacts, At0Facts
  <2>3. limit = At0(Next1(rp), i - 1)
    BY <1>2, <1>3, <2>2, SizeFacts, At0Facts
  <2>4. pc' = "write" => i # 1
    BY <2>1, <2>2
  <2>5. i - 1 =< Len(made) - (n + 1)
    BY <1>2, <1>3, SizeFacts
  <2>6. pc' = "write" => 0 < i - 1
    BY <1>2, <2>4, SizeFacts
  <2>7. QED
    BY <1>1, <1>5, <2>2, <2>3, <2>5, <2>6 DEF BatchHolds
<1>12. WrittenOnceInOrder'
  <2>1. r.kind = made[n + 1].kind
    BY <1>6 DEF r, Report
  <2>2. made[n + 1].kind = "single" => r = made[n + 1]
    <3>1. ASSUME made[n + 1].kind = "single" PROVE no' = made[n + 1].no
      BY <1>1, <1>6, <3>1
    <3>2. made[n + 1] = [kind |-> made[n + 1].kind, no |-> made[n + 1].no]
      BY <1>4, <1>6 DEF Record
    <3>3. QED
      BY <1>6, <3>1, <3>2 DEF r, Report
  <2>3. \A j \in 1 .. n + 1 : j \in 1 .. n \/ j = n + 1
    BY <1>3
  <2>4. QED
    BY <1>1, <1>3, <1>5, <2>1, <2>2, <2>3 DEF WrittenOnceInOrder
<1>13. QED
  BY <1>8, <1>9, <1>10, <1>11, <1>12

LEMMA NextHolds == IInv /\ [Next]_vars => IInv'
<1> SUFFICES ASSUME IInv, [Next]_vars PROVE IInv'
  OBVIOUS
<1>1. ASSUME NEW d \in Double, NEW half \in {0, 1}, NEW pair \in BOOLEAN,
             Change(d, half, pair)
      PROVE  IInv'
  BY <1>1, ChangeHolds
<1>2. CASE Batch
  BY <1>2, BatchStepHolds
<1>3. CASE WriteOne
  BY <1>3, WriteOneHolds
<1>4. CASE RecordDone \/ TickLoad \/ TickStore \/ EvReload \/ EvLoad \/ EvStore
           \/ CallYxWrite("uflag") \/ CallYxWrite("tm1") \/ WAVRecordScan
           \/ DioReturn
  BY <1>4, WordsHold
<1>5. CASE UNCHANGED vars
  BY <1>5 DEF vars, tick, dio, buf, rec, IInv, TypeOK, Typed, BufferHolds,
              BatchHolds, TodoHolds, WrittenOnceInOrder, RecordAnnounced
<1>6. QED
  BY <1>1, <1>2, <1>3, <1>4, <1>5 DEF Next, Idle

LEMMA Invariance == Spec => []IInv
BY InitHolds, NextHolds, PTL DEF Spec

-------------------------------------------------------------------------------
\* Words hold bits, indices stay inside the buffer.
THEOREM TypeCorrect == Spec => []TypeOK
<1>1. IInv => TypeOK
  BY DEF IInv
<1>2. QED
  BY <1>1, Invariance, PTL

\* Every report of a changed input reaches the ring shared with Linux once and
\* in order, whatever bits the interrupts and the task lose of each other
\* (yxFilter, yxWrite).
THEOREM WritesInOrder == Spec => []WrittenOnceInOrder
<1>1. IInv => WrittenOnceInOrder
  BY DEF IInv
<1>2. QED
  BY <1>1, Invariance, PTL

\* A wave record that waits is announced by EV_RCD, unless that bit was lost
\* between reading and writing the word (evReceive, evSend).
THEOREM RecordsAnnounced == Spec => []RecordAnnounced
<1>1. IInv => RecordAnnounced
  BY DEF IInv
<1>2. QED
  BY <1>1, Invariance, PTL
==============================================================================
