-------------------------- MODULE WaveRecord_proofs ---------------------------
(***************************************************************************)
(* Proofs about the wave records of a line, for every number of segments,  *)
(* size of the buffer, of a record and of the ring, and number of starts.  *)
(***************************************************************************)
EXTENDS WaveRecord, SequenceTheorems, TLAPS

------------------------------------------------------------------------------
(* Remainders.                                                             *)

LEMMA ModFacts ==
  ASSUME NEW n \in Nat, n > 0, NEW x \in Nat
  PROVE  /\ x % n \in 0 .. n - 1 /\ x \div n \in Nat
         /\ x = (x \div n) * n + (x % n)
<1> DEFINE q == x \div n
           m == x % n
<1>1. n \in Nat /\ n > 0
  OBVIOUS
<1>2. x = q * n + m /\ q \in Int /\ m \in 0 .. n - 1
  BY <1>1, SMT
<1> HIDE DEF q, m
<1>3. q =< -1 => q * n =< -n
  BY <1>2, SMT
<1>4. q >= 0
  BY <1>2, <1>3, SMT
<1>5. QED
  BY <1>2, <1>4 DEF q, m

\* A number less than n is the remainder of what it leaves.
LEMMA ModUnique ==
  ASSUME NEW n \in Nat, n > 0, NEW q \in Nat, NEW m \in 0 .. n - 1
  PROVE  (q * n + m) % n = m
<1> DEFINE x == q * n + m
           p == x \div n
           r == x % n
<1>1. x \in Nat
  BY SMT
<1>2. r \in 0 .. n - 1 /\ p \in Nat /\ x = p * n + r
  BY <1>1, ModFacts
<1> HIDE DEF p, r
<1>3. (q - p) * n = r - m
  BY <1>2, SMT
<1>4. q - p >= 1 => (q - p) * n >= n
  BY <1>2, SMT
<1>5. q - p =< -1 => (q - p) * n =< -n
  BY <1>2, SMT
<1>6. q = p
  BY <1>2, <1>3, <1>4, <1>5, SMT
<1>7. r = m
  BY <1>2, <1>3, <1>6, SMT
<1>8. QED
  BY <1>7 DEF r

LEMMA ModAdd ==
  ASSUME NEW n \in Nat, n > 0, NEW a \in Nat, NEW b \in Nat
  PROVE  ((a % n) + b) % n = (a + b) % n
<1> DEFINE m == a % n
           q == a \div n
           r == (m + b) % n
           p == (m + b) \div n
<1>1. m \in 0 .. n - 1 /\ q \in Nat /\ a = q * n + m
  BY ModFacts
<1>2. m + b \in Nat
  BY <1>1
<1>3. r \in 0 .. n - 1 /\ p \in Nat /\ m + b = p * n + r
  BY <1>2, ModFacts
<1> HIDE DEF m, q, p
<1> DEFINE rr == r
<1>4. rr \in 0 .. n - 1 /\ rr = r
  BY <1>3
<1> HIDE DEF rr
<1>5. a + b = (q + p) * n + rr /\ q + p \in Nat
  BY <1>1, <1>3, <1>4, SMT
<1>6. ((q + p) * n + rr) % n = rr
  BY <1>4, <1>5, ModUnique
<1>7. QED
  BY <1>4, <1>5, <1>6 DEF m

\* Places less than a turn apart are different.
LEMMA ModApart ==
  ASSUME NEW n \in Nat, n > 0, NEW a \in Nat, NEW b \in Nat, a < b, b < a + n
  PROVE  a % n # b % n
<1> SUFFICES ASSUME a % n = b % n PROVE FALSE
  OBVIOUS
<1> DEFINE m == a % n
           q == a \div n
           p == b \div n
<1>1. m \in 0 .. n - 1 /\ q \in Nat /\ p \in Nat /\ a = q * n + m /\ b = p * n + m
  BY ModFacts
<1> HIDE DEF m, q, p
<1>2. (p - q) * n = b - a
  BY <1>1, SMT
<1>3. p - q >= 1 => (p - q) * n >= n
  BY <1>1, SMT
<1>4. p - q =< 0 => (p - q) * n =< 0
  BY <1>1, SMT
<1>5. QED
  BY <1>1, <1>2, <1>3, <1>4, SMT

------------------------------------------------------------------------------
(* Types.                                                                  *)

Halves == [Half -> Nat]
Record == [id : Nat, half : Halves]

\* Where the idle loop has no segment in hand.
Unbound == {"idle", "take", "skip", "scan"}
Dpc == Unbound \cup {"first", "second", "announce", "base", "count", "free"}

Typed ==
  /\ point \in [0 .. Buf - 1 -> Nat]
  /\ spc \in {"idle", "lengthen"} /\ free \in Nat
  /\ asked \in 0 .. MaxStart /\ made \in 0 .. asked
  /\ dpc \in Dpc /\ at \in Seg /\ word \in Int
  /\ ring \in [Slot -> Halves] /\ put \in Seq(Record) /\ lapped \in BOOLEAN
  /\ lpc \in {"idle", "first", "second"} /\ taken \in Slot
  /\ file \in Halves /\ filed \in Seq(Halves)

TInv == TypeOK /\ Typed

LEMMA Sizes ==
  /\ Segs \in Nat /\ Buf \in Nat /\ Per \in Nat /\ Num \in Nat /\ MaxStart \in Nat
  /\ Segs > 1 /\ Num > 1 /\ Per > 1 /\ Buf > 1
  BY RecordAssumption

LEMMA PairFacts ==
  ASSUME NEW a \in Nat, NEW b \in Nat
  PROVE  <<a, b>> \in Halves /\ <<a, b>>[1] = a /\ <<a, b>>[2] = b
<1>1. DOMAIN <<a, b>> = Half
  BY DEF Half
<1>2. QED
  BY <1>1 DEF Halves, Half

LEMMA PairIs ==
  ASSUME NEW h \in Halves
  PROVE  h = <<h[1], h[2]>> /\ h[1] \in Nat /\ h[2] \in Nat
<1>1. h[1] \in Nat /\ h[2] \in Nat
  BY DEF Halves, Half
<1>2. <<h[1], h[2]>> \in Halves /\ <<h[1], h[2]>>[1] = h[1] /\ <<h[1], h[2]>>[2] = h[2]
  BY <1>1, PairFacts
<1>3. QED
  BY <1>1, <1>2 DEF Halves, Half

LEMMA NextIn ==
  /\ \A i \in Slot : (i + 1) % Num \in Slot
  /\ \A s \in Seg : (s + 1) % Segs \in Seg /\ (s + Segs - 1) % Segs \in Seg
<1>1. ASSUME NEW i \in Slot PROVE (i + 1) % Num \in Slot
  BY Sizes, ModFacts DEF Slot
<1>2. ASSUME NEW s \in Seg PROVE (s + 1) % Segs \in Seg /\ (s + Segs - 1) % Segs \in Seg
  <2>1. s + 1 \in Nat /\ s + Segs - 1 \in Nat
    BY Sizes DEF Seg
  <2>2. QED
    BY <2>1, Sizes, ModFacts DEF Seg
<1>3. QED
  BY <1>1, <1>2

LEMMA InitTypes == Init => TInv
<1> SUFFICES ASSUME Init PROVE TInv
  OBVIOUS
<1>1. 0 \in Seg /\ 0 \in Slot /\ 0 \in 0 .. Buf - 1 /\ 0 \in 0 .. MaxStart
  BY Sizes DEF Seg, Slot
<1>2. <<0, 0>> \in Halves
  BY PairFacts
<1>3. TypeOK
  BY <1>1 DEF Init, TypeOK
<1>4. << >> \in Seq(Record) /\ << >> \in Seq(Halves)
  BY EmptySeq
<1>5. Typed
  BY <1>1, <1>2, <1>4 DEF Init, Typed, Dpc, Unbound
<1>6. QED
  BY <1>3, <1>5 DEF TInv

LEMMA StartTypes ==
  ASSUME TInv, Start
  PROVE  TInv'
<1> USE DEF TInv
<1>1. Buf - used \in Int /\ (used < Buf => Buf - used \in Nat)
  BY Sizes DEF TypeOK
<1>2. CASE StartTest
  <2>1. TypeOK'
    BY <1>2 DEF StartTest, TypeOK, segment, shared, linux
  <2>2. asked' \in 0 .. MaxStart /\ made' \in 0 .. asked'
    BY <1>2, Sizes DEF StartTest, Typed
  <2>3. QED
    BY <1>1, <1>2, <2>1, <2>2 DEF StartTest, Typed, loop, shared, linux
<1>3. CASE StartLengthen
  <2>1. Least(free, count[seg]) \in Nat
    BY DEF Least, TypeOK, Typed
  <2>2. need' \in [Seg -> Nat]
    BY <1>3, <2>1 DEF StartLengthen, TypeOK
  <2>3. QED
    BY <1>3, <2>2 DEF StartLengthen, TypeOK, Typed, loop, shared, linux
<1>4. CASE StartNew
  <2> DEFINE s == IF state[seg] = "ok" THEN (seg + 1) % Segs ELSE seg
             p == (s + Segs - 1) % Segs
  <2>1. s \in Seg
    BY NextIn DEF TypeOK
  <2>2. p \in Seg
    BY <2>1, NextIn
  <2> HIDE DEF s
  <2>3. Least(Buf - used, Per) \in Nat
    BY <1>1, <1>4, Sizes DEF StartNew, Least
  <2>4. (base[p] + count[p]) % Buf \in 0 .. Buf - 1
    <3>1. base[p] + count[p] \in Nat
      BY <2>2, Sizes DEF TypeOK
    <3>2. QED
      BY <3>1, Sizes, ModFacts
  <2> HIDE DEF p
  <2>5. /\ asked' = asked + 1 /\ asked < MaxStart /\ seg' = s
        /\ IF state[s] = "idle"
           THEN /\ made' = made + 1 /\ id' = [id EXCEPT ![s] = made']
                /\ count' = [count EXCEPT ![s] = 0]
                /\ need' = [need EXCEPT ![s] = Least(Buf - used, Per)]
                /\ base' = [base EXCEPT ![s] = (base[p] + count[p]) % Buf]
                /\ state' = [state EXCEPT ![s] = "doing"]
           ELSE UNCHANGED <<made, id, count, need, base, state>>
        /\ UNCHANGED <<spc, free, used, point, loop, shared, linux>>
    BY <1>4 DEF StartNew, s, p
  <2>6. asked' \in 0 .. MaxStart /\ made' \in 0 .. asked' /\ made' \in 0 .. MaxStart
    BY <2>5, Sizes DEF Typed
  <2>7. TypeOK'
    BY <2>1, <2>3, <2>4, <2>5, <2>6 DEF TypeOK, shared, linux
  <2>8. Typed'
    BY <2>5, <2>6 DEF Typed, loop, shared, linux
  <2>9. QED
    BY <2>7, <2>8
<1>5. QED
  BY <1>2, <1>3, <1>4 DEF Start

LEMMA SampleTypes ==
  ASSUME TInv, Sample
  PROVE  TInv'
<1> USE DEF TInv
<1>1. seg \in Seg /\ id[seg] \in Nat /\ count[seg] + 1 \in Nat /\ used + 1 \in Nat
  BY Sizes DEF TypeOK
<1>2. /\ count' \in [Seg -> Nat] /\ used' \in Nat
      /\ state' \in [Seg -> {"idle", "doing", "ok"}]
  BY <1>1 DEF Sample, TypeOK
<1>3. point' \in [0 .. Buf - 1 -> Nat]
  BY <1>1 DEF Sample, Typed
<1>4. QED
  BY <1>2, <1>3 DEF Sample, TypeOK, Typed, start, shared, linux

LEMMA OnwardFacts ==
  ASSUME TInv, Onward
  PROVE  at' \in Seg /\ dpc' \in {"scan", "idle"}
  BY Sizes DEF Onward, TInv, Typed, Seg

LEMMA PartFacts ==
  ASSUME TInv, NEW h \in Half
  PROVE  PartOf(h) \in Nat
  BY DEF PartOf, TInv, TypeOK, Typed

LEMMA IdleTypes ==
  ASSUME TInv, Idle
  PROVE  TInv'
<1> USE DEF TInv
<1>1. CASE EvReceive
  <2>1. at' \in Seg
    BY <1>1, Sizes DEF EvReceive, EvLoad, EvTake, EvSkip, Typed, Seg
  <2>2. dpc' \in Dpc
    BY <1>1 DEF EvReceive, EvLoad, EvTake, EvSkip, Loop, Dpc, Unbound
  <2>3. UNCHANGED <<segment, used, point, start, word, shared, linux>>
    BY <1>1 DEF EvReceive, EvLoad, EvTake, EvSkip
  <2>4. QED
    BY <2>1, <2>2, <2>3 DEF TypeOK, Typed, segment, start, shared, linux
<1>2. CASE Scan
  <2>1. at' \in Seg /\ dpc' \in Dpc
    BY <1>2, OnwardFacts DEF Scan, Typed, Dpc, Unbound
  <2>2. QED
    BY <1>2, <2>1 DEF Scan, TypeOK, Typed, segment, start, shared, linux
<1>3. CASE CopyFirst
  <2>1. PartOf(1) \in Nat /\ wp \in Slot
    BY PartFacts DEF Half, TypeOK
  <2>2. ring' \in [Slot -> Halves]
    BY <1>3, <2>1 DEF CopyFirst, Typed, Halves, Half
  <2>3. QED
    BY <1>3, <2>2 DEF CopyFirst, Loop, TypeOK, Typed, Dpc, segment, start, linux
<1>4. CASE CopySecond
  <2>1. PartOf(2) \in Nat /\ wp \in Slot
    BY PartFacts DEF Half, TypeOK
  <2>2. ring' \in [Slot -> Halves]
    BY <1>4, <2>1 DEF CopySecond, Typed, Halves, Half
  <2>3. QED
    BY <1>4, <2>2 DEF CopySecond, Loop, TypeOK, Typed, Dpc, segment, start, linux
<1>5. CASE Announce
  <2>1. [id |-> id[at], half |-> ring[wp]] \in Record
    BY DEF TypeOK, Typed, Record
  <2>2. put' \in Seq(Record)
    BY <1>5, <2>1, AppendProperties DEF Announce, Typed
  <2>3. wp' \in Slot
    BY <1>5, NextIn DEF Announce, TypeOK
  <2>4. QED
    BY <1>5, <2>2, <2>3 DEF Announce, Loop, TypeOK, Typed, Dpc, segment, start, linux
<1>6. CASE ClearBase
  <2>1. base' \in [Seg -> 0 .. Buf - 1]
    <3>1. 0 \in 0 .. Buf - 1
      BY Sizes
    <3>2. QED
      BY <1>6, <3>1 DEF ClearBase, TypeOK
  <2>2. QED
    BY <1>6, <2>1 DEF ClearBase, Loop, TypeOK, Typed, Dpc, start, shared, linux
<1>7. CASE ClearCount
  <2>1. count' \in [Seg -> Nat] /\ need' \in [Seg -> Nat] /\ word' \in Int
    BY <1>7 DEF ClearCount, TypeOK, Typed
  <2>2. QED
    BY <1>7, <2>1 DEF ClearCount, Loop, TypeOK, Typed, Dpc, start, shared, linux
<1>8. CASE Free
  <2>1. at' \in Seg /\ dpc' \in Dpc
    BY <1>8, OnwardFacts DEF Free, Dpc, Unbound
  <2>2. used' \in Nat /\ word' \in Int /\ state' \in [Seg -> {"idle", "doing", "ok"}]
    BY <1>8 DEF Free, TypeOK, Typed
  <2>3. QED
    BY <1>8, <2>1, <2>2 DEF Free, TypeOK, Typed, start, shared, linux
<1>9. QED
  BY <1>1, <1>2, <1>3, <1>4, <1>5, <1>6, <1>7, <1>8 DEF Idle

LEMMA LinuxTypes ==
  ASSUME TInv, Linux
  PROVE  TInv'
<1> USE DEF TInv
<1>1. CASE Take
  <2>1. rp' \in Slot
    BY <1>1, NextIn DEF Take, TypeOK
  <2>2. QED
    BY <1>1, <2>1 DEF Take, TypeOK, Typed, segment, start, loop, shared
<1>2. ring[taken] \in Halves /\ ring[taken][1] \in Nat /\ ring[taken][2] \in Nat
  BY DEF Typed, Halves, Half
<1>3. CASE FileFirst
  <2>1. file' \in Halves
    BY <1>2, <1>3 DEF FileFirst, Typed, Halves
  <2>2. QED
    BY <1>3, <2>1 DEF FileFirst, TypeOK, Typed, segment, start, loop, shared
<1>4. CASE FileSecond
  <2>1. file[1] \in Nat
    BY DEF Typed, Halves, Half
  <2>2. <<file[1], ring[taken][2]>> \in Halves /\ <<0, 0>> \in Halves
    BY <1>2, <2>1, PairFacts
  <2>3. filed' \in Seq(Halves)
    BY <1>4, <2>2, AppendProperties DEF FileSecond, Typed
  <2>4. QED
    BY <1>4, <2>2, <2>3 DEF FileSecond, TypeOK, Typed, segment, start, loop, shared
<1>5. QED
  BY <1>1, <1>3, <1>4 DEF Linux

LEMMA TypesKept ==
  ASSUME TInv, [Next]_vars
  PROVE  TInv'
<1>1. CASE UNCHANGED vars
  BY <1>1 DEF TInv, TypeOK, Typed, vars, segment, start, loop, shared, linux
<1>2. QED
  BY <1>1, StartTypes, SampleTypes, IdleTypes, LinuxTypes DEF Next

\* Indices stay inside the segments, the buffer and the ring.
THEOREM TypeCorrect == Spec => []TypeOK
<1>1. TInv => TypeOK
  BY DEF TInv
<1>2. Spec => []TInv
  BY InitTypes, TypesKept, PTL DEF Spec
<1>3. QED
  BY <1>1, <1>2, PTL

------------------------------------------------------------------------------
(* The ring and Linux.                                                     *)

\* The records Linux has taken out of the ring; the slot of the i-th record.
Taken    == IF lpc = "idle" THEN Len(filed) ELSE Len(filed) + 1
Place(i) == (i - 1) % Num

\* The indices count what was put and taken; unless core 1 came round, the
\* slots between them hold the records in order.
RingHolds ==
  /\ wp = Len(put) % Num /\ rp = Taken % Num
  /\ lpc # "idle" => taken = Place(Taken)
  /\ ~lapped =>
       /\ Taken =< Len(put) /\ Len(put) - Taken < Num
       /\ \A i \in Taken + 1 .. Len(put) : ring[Place(i)] = put[i].half

\* The slot Linux copies holds its record still, and core 1 is not filling it.
ReadHolds ==
  ~lapped =>
    /\ lpc # "idle" => /\ ring[taken] = put[Taken].half
                       /\ dpc \in {"second", "announce"} => taken # wp
    /\ lpc = "second" => file[1] = put[Taken].half[1]

RingInv == RingHolds /\ ReadHolds /\ FileIntact

LEMMA ModTurn ==
  ASSUME NEW n \in Nat, n > 0, NEW a \in Nat
  PROVE  (a + n) % n = a % n
<1> DEFINE m == a % n
           q == a \div n
<1>1. m \in 0 .. n - 1 /\ q \in Nat /\ a = q * n + m
  BY ModFacts
<1> DEFINE r == q + 1
<1> HIDE DEF m, q
<1>2. a + n = r * n + m /\ r \in Nat
  BY <1>1, SMT
<1> HIDE DEF r
<1>3. (r * n + m) % n = m
  BY <1>1, <1>2, ModUnique
<1>4. QED
  BY <1>2, <1>3 DEF m

LEMMA NumNext ==
  ASSUME NEW a \in Nat
  PROVE  ((a % Num) + 1) % Num = (a + 1) % Num /\ (a + Num) % Num = a % Num
<1>1. Num \in Nat /\ Num > 0 /\ 1 \in Nat
  BY Sizes
<1>2. ((a % Num) + 1) % Num = (a + 1) % Num
  BY <1>1, ModAdd, Zenon
<1>3. (a + Num) % Num = a % Num
  BY <1>1, ModTurn, Zenon
<1>4. QED
  BY <1>2, <1>3

LEMMA CountFacts ==
  ASSUME TInv
  PROVE  /\ Len(put) \in Nat /\ Len(filed) \in Nat /\ Taken \in Nat
         /\ Num \in Nat /\ Num > 1 /\ wp \in Slot /\ rp \in Slot /\ taken \in Slot
         /\ lpc # "idle" => Taken \in Nat \ {0}
  BY Sizes, LenProperties DEF TInv, TypeOK, Typed, Taken

\* The slots in use are not the one that is filled.
LEMMA SlotApart ==
  ASSUME TInv, RingHolds, ~lapped, NEW i \in Taken + 1 .. Len(put)
  PROVE  Place(i) # wp /\ Place(i) \in Slot
<1> DEFINE a == i - 1
           b == Len(put)
<1>1. a \in Nat /\ b \in Nat /\ Num \in Nat /\ Num > 1 /\ a < b /\ b < a + Num
  BY CountFacts DEF RingHolds
<1> HIDE DEF a, b
<1>2. a % Num # b % Num /\ a % Num \in 0 .. Num - 1
  <2>1. a % Num # b % Num
    BY <1>1, ModApart
  <2>2. a % Num \in 0 .. Num - 1
    BY <1>1, ModFacts
  <2>3. QED
    BY <2>1, <2>2
<1>3. QED
  BY <1>2 DEF a, b, Place, RingHolds, Slot

LEMMA RingStill ==
  ASSUME RingInv, UNCHANGED <<ring, wp, put, lapped, rp, lpc, taken, file, filed>>,
         dpc' = dpc \/ dpc' \notin {"second", "announce"}
  PROVE  RingInv'
<1>1. Taken' = Taken
  BY DEF Taken
<1>2. RingHolds'
  BY <1>1 DEF RingInv, RingHolds, Place
<1>3. ReadHolds'
  BY <1>1 DEF RingInv, ReadHolds
<1>4. FileIntact'
  BY DEF RingInv, FileIntact
<1>5. QED
  BY <1>2, <1>3, <1>4 DEF RingInv

\* A half is copied into the slot behind the last record.
LEMMA CopyRing ==
  ASSUME TInv, RingInv, NEW h \in Half, NEW v,
         ring' = [ring EXCEPT ![wp][h] = v],
         UNCHANGED <<wp, put, rp, lpc, taken, file, filed>>,
         ~lapped' => ~lapped /\ (lpc # "idle" => taken # wp)
  PROVE  RingInv'
<1>1. Taken' = Taken /\ wp \in Slot
  BY CountFacts DEF Taken
<1>2. \A p \in Slot : p # wp => ring'[p] = ring[p]
  BY DEF TInv, Typed
<1>3. RingHolds'
  <2>1. ASSUME ~lapped', NEW i \in Taken + 1 .. Len(put)
        PROVE  ring'[Place(i)] = put[i].half
    BY <1>2, <2>1, SlotApart DEF RingInv, RingHolds
  <2>2. QED
    BY <1>1, <2>1 DEF RingInv, RingHolds, Place
<1>4. ReadHolds'
  <2>1. ASSUME ~lapped', lpc # "idle"
        PROVE  ring'[taken] = ring[taken] /\ taken # wp
    BY <1>2, <2>1, CountFacts
  <2>2. QED
    BY <1>1, <2>1 DEF RingInv, ReadHolds
<1>5. FileIntact'
  BY DEF RingInv, FileIntact
<1>6. QED
  BY <1>3, <1>4, <1>5 DEF RingInv

\* The record that is announced is the one after the last.
LEMMA AnnounceRing ==
  ASSUME TInv, RingInv, Announce
  PROVE  RingInv'
<1> DEFINE n == Len(put)
           r == [id |-> id[at], half |-> ring[wp]]
<1>1. /\ put' = Append(put, r) /\ wp' = (wp + 1) % Num /\ dpc' = "base"
      /\ lapped' = (lapped \/ wp' = rp)
      /\ UNCHANGED <<ring, rp, lpc, taken, file, filed>>
  BY DEF Announce, Loop, linux
<1>2. n \in Nat /\ Num \in Nat /\ Num > 1 /\ Taken \in Nat /\ Len(filed) \in Nat
      /\ Len(filed) =< Taken /\ put \in Seq(Record)
  BY CountFacts DEF Taken, TInv, Typed
<1>3. r \in Record
  BY DEF TInv, TypeOK, Typed, Record
<1>4. /\ Len(put') = n + 1 /\ put'[n + 1] = r
      /\ \A i \in 1 .. n : put'[i] = put[i]
  BY <1>1, <1>2, <1>3, AppendProperties
<1>5. wp = n % Num
  BY DEF RingInv, RingHolds
<1>6. wp' = (n + 1) % Num
  <2>1. ((n % Num) + 1) % Num = (n + 1) % Num
    BY <1>2, NumNext
  <2>2. QED
    BY <1>1, <1>5, <2>1
<1>7. Taken' = Taken
  BY <1>1 DEF Taken
<1>8. ASSUME ~lapped' PROVE n + 1 - Taken < Num /\ Taken =< n /\ ~lapped
  <2>1. ~lapped /\ wp' # rp
    BY <1>1, <1>8
  <2>2. n - Taken < Num /\ Taken =< n /\ rp = Taken % Num
    BY <2>1 DEF RingInv, RingHolds
  <2>3. n + 1 # Taken + Num
    <3>1. (Taken + Num) % Num = Taken % Num
      BY <1>2, NumNext
    <3>2. QED
      BY <1>6, <2>1, <2>2, <3>1
  <2>4. QED
    BY <1>2, <2>1, <2>2, <2>3
<1>9. RingHolds'
  <2>1. ASSUME ~lapped', NEW i \in Taken + 1 .. n + 1
        PROVE  ring[Place(i)] = put'[i].half
    <3>1. CASE i = n + 1
      BY <1>2, <1>4, <1>5, <3>1 DEF Place
    <3>2. CASE i # n + 1
      <4>1. i \in Taken + 1 .. n /\ i \in 1 .. n
        BY <1>2, <3>2
      <4>2. QED
        BY <1>4, <1>8, <2>1, <4>1 DEF RingInv, RingHolds
    <3>3. QED
      BY <3>1, <3>2
  <2>2. lpc # "idle" => taken = Place(Taken)
    BY DEF RingInv, RingHolds
  <2>3. rp = Taken % Num
    BY DEF RingInv, RingHolds
  <2>4. ~lapped' => Taken =< n + 1
    BY <1>2, <1>8
  <2>5. /\ Len(put') = n + 1 /\ wp' = (n + 1) % Num /\ rp' = Taken % Num
        /\ lpc' # "idle" => taken' = Place(Taken)
        /\ ring' = ring
    BY <1>1, <1>4, <1>6, <2>2, <2>3
  <2>6. ~lapped' => n + 1 - Taken < Num
    BY <1>8
  <2>7. ~lapped' => /\ Taken' =< Len(put') /\ Len(put') - Taken' < Num
                    /\ \A i \in Taken' + 1 .. Len(put') :
                         ring'[(i - 1) % Num] = put'[i].half
    <3>1. ~lapped' => \A i \in Taken + 1 .. n + 1 : ring[(i - 1) % Num] = put'[i].half
      BY <2>1 DEF Place
    <3>2. Taken' = Taken /\ Len(put') = n + 1 /\ ring' = ring
      BY <1>7, <2>5
    <3>3. ASSUME ~lapped' PROVE Taken' =< Len(put') /\ Len(put') - Taken' < Num
      <4>1. Taken =< n + 1 /\ n + 1 - Taken < Num
        BY <2>4, <2>6, <3>3
      <4> HIDE DEF n
      <4>2. QED
        BY <1>2, <3>2, <4>1
    <3>4. ASSUME ~lapped', NEW i \in Taken' + 1 .. Len(put')
          PROVE  ring'[(i - 1) % Num] = put'[i].half
      <4>1. i \in Taken + 1 .. n + 1
        BY <3>2
      <4>2. ring[(i - 1) % Num] = put'[i].half
        BY <3>1, <3>4, <4>1
      <4>3. QED
        BY <3>2, <4>2
    <3>5. QED
      BY <3>3, <3>4
  <2>8. wp' = Len(put') % Num /\ rp' = Taken' % Num
        /\ (lpc' # "idle" => taken' = (Taken' - 1) % Num)
    BY <1>7, <2>5 DEF Place
  <2>9. QED
    BY <2>7, <2>8 DEF RingHolds, Place
<1>10. ReadHolds'
  <2>1. ASSUME ~lapped', lpc # "idle" PROVE put'[Taken] = put[Taken]
    BY <1>2, <1>4, <1>8, <2>1, CountFacts
  <2>2. QED
    BY <1>1, <1>7, <1>8, <2>1 DEF RingInv, ReadHolds
<1>11. FileIntact'
  <2>1. ASSUME ~lapped', NEW i \in 1 .. Len(filed) PROVE filed[i] = put'[i].half
    <3>1. i \in 1 .. n
      BY <1>2, <1>8, <2>1
    <3>2. QED
      BY <1>4, <1>8, <2>1, <3>1 DEF RingInv, FileIntact
  <2>2. QED
    BY <1>1, <2>1 DEF FileIntact
<1>12. QED
  BY <1>9, <1>10, <1>11 DEF RingInv

LEMMA TakeRing ==
  ASSUME TInv, RingInv, Take
  PROVE  RingInv'
<1>1. /\ lpc = "idle" /\ wp # rp /\ taken' = rp /\ rp' = (rp + 1) % Num
      /\ lpc' = "first"
      /\ UNCHANGED <<file, filed, ring, wp, put, lapped, dpc>>
  BY DEF Take, loop, shared
<1>2. /\ Len(put) \in Nat /\ Num \in Nat /\ Num > 1 /\ Taken \in Nat
      /\ Taken = Len(filed) /\ Taken' = Taken + 1
  BY <1>1, CountFacts DEF Taken
<1>3. /\ wp = Len(put) % Num /\ rp = Taken % Num
      /\ ~lapped => /\ Taken =< Len(put) /\ Len(put) - Taken < Num
                    /\ \A i \in Taken + 1 .. Len(put) : ring[Place(i)] = put[i].half
  BY DEF RingInv, RingHolds
<1>4. ~lapped => Taken + 1 =< Len(put)
  BY <1>1, <1>2, <1>3
<1>5. rp' = (Taken + 1) % Num
  <2>1. ((Taken % Num) + 1) % Num = (Taken + 1) % Num
    BY <1>2, NumNext
  <2>2. QED
    BY <1>1, <1>3, <2>1
<1>6. taken' = Place(Taken + 1)
  BY <1>1, <1>2, <1>3 DEF Place
<1>7. RingHolds'
  <2>1. ~lapped => \A i \in Taken + 1 + 1 .. Len(put) : ring[Place(i)] = put[i].half
    BY <1>2, <1>3
  <2>2. ~lapped => Len(put) - (Taken + 1) < Num
    BY <1>2, <1>3
  <2>3. QED
    BY <1>1, <1>2, <1>3, <1>4, <1>5, <1>6, <2>1, <2>2 DEF RingHolds, Place
<1>8. ReadHolds'
  <2>1. ~lapped => ring[Place(Taken + 1)] = put[Taken + 1].half
    <3>1. ~lapped => Taken + 1 \in Taken + 1 .. Len(put)
      BY <1>2, <1>4
    <3>2. QED
      BY <1>3, <3>1
  <2>2. QED
    BY <1>1, <1>2, <1>6, <2>1 DEF ReadHolds
<1>9. FileIntact'
  BY <1>1 DEF RingInv, FileIntact
<1>10. QED
  BY <1>7, <1>8, <1>9 DEF RingInv

LEMMA FileFirstRing ==
  ASSUME TInv, RingInv, FileFirst
  PROVE  RingInv'
<1>1. /\ lpc = "first" /\ lpc' = "second"
      /\ file' = [file EXCEPT ![1] = ring[taken][1]]
      /\ UNCHANGED <<rp, taken, filed, ring, wp, put, lapped, dpc>>
  BY DEF FileFirst, loop, shared
<1>2. Taken' = Taken
  BY <1>1 DEF Taken
<1>3. file'[1] = ring[taken][1]
  BY <1>1 DEF TInv, Typed, Halves, Half
<1>4. RingHolds'
  BY <1>1, <1>2 DEF RingInv, RingHolds, Place
<1>5. ReadHolds'
  BY <1>1, <1>2, <1>3 DEF RingInv, ReadHolds
<1>6. FileIntact'
  BY <1>1 DEF RingInv, FileIntact
<1>7. QED
  BY <1>4, <1>5, <1>6 DEF RingInv

LEMMA FileSecondRing ==
  ASSUME TInv, RingInv, FileSecond
  PROVE  RingInv'
<1> DEFINE n == Len(filed)
           r == <<file[1], ring[taken][2]>>
<1>1. /\ lpc = "second" /\ lpc' = "idle" /\ filed' = Append(filed, r)
      /\ UNCHANGED <<rp, taken, ring, wp, put, lapped, dpc>>
  BY DEF FileSecond, loop, shared
<1>2. n \in Nat /\ filed \in Seq(Halves) /\ Taken = n + 1 /\ Len(put) \in Nat
  BY <1>1, CountFacts DEF Taken, TInv, Typed
<1>3. r \in Halves
  BY PairFacts, PairIs, CountFacts DEF TInv, Typed, Halves, Half
<1>4. /\ Len(filed') = n + 1 /\ filed'[n + 1] = r
      /\ \A i \in 1 .. n : filed'[i] = filed[i]
  BY <1>1, <1>2, <1>3, AppendProperties
<1>5. Taken' = Taken
  BY <1>1, <1>2, <1>4 DEF Taken
<1>6. RingHolds'
  BY <1>1, <1>5 DEF RingInv, RingHolds, Place
<1>7. ReadHolds'
  BY <1>1 DEF ReadHolds
<1>8. ASSUME ~lapped PROVE r = put[n + 1].half
  <2>1. n + 1 \in 1 .. Len(put)
    BY <1>2, <1>8 DEF RingInv, RingHolds
  <2>2. put[n + 1].half \in Halves
    <3>1. put[n + 1] \in Record
      BY <2>1, ElementOfSeq DEF TInv, Typed
    <3>2. QED
      BY <3>1 DEF Record
  <2>3. file[1] = put[n + 1].half[1] /\ ring[taken] = put[n + 1].half
    BY <1>1, <1>2, <1>8 DEF RingInv, ReadHolds
  <2>4. QED
    BY <2>2, <2>3, PairIs
<1>9. FileIntact'
  <2>1. ASSUME ~lapped, NEW i \in 1 .. n + 1 PROVE filed'[i] = put[i].half
    <3>1. CASE i = n + 1
      BY <1>4, <1>8, <2>1, <3>1
    <3>2. CASE i # n + 1
      <4>1. i \in 1 .. n
        BY <1>2, <3>2
      <4>2. QED
        BY <1>4, <2>1, <4>1 DEF RingInv, FileIntact
    <3>3. QED
      BY <3>1, <3>2
  <2>2. QED
    BY <1>1, <1>4, <2>1 DEF FileIntact
<1>10. QED
  BY <1>6, <1>7, <1>9 DEF RingInv

LEMMA RingKept ==
  ASSUME TInv, RingInv, [Next]_vars
  PROVE  RingInv'
<1>1. CASE Start \/ Sample \/ UNCHANGED vars
  BY <1>1, RingStill DEF Start, StartTest, StartLengthen, StartNew, Sample, vars,
    segment, start, loop, shared, linux
<1>2. CASE EvReceive \/ Scan \/ ClearBase \/ ClearCount \/ Free
  <2>1. UNCHANGED <<ring, wp, put, lapped, rp, lpc, taken, file, filed>>
    BY <1>2 DEF EvReceive, EvLoad, EvTake, EvSkip,
       Scan, ClearBase, ClearCount, Free, shared, linux
  <2>2. dpc' \notin {"second", "announce"}
    BY <1>2 DEF EvReceive, EvLoad, EvTake, EvSkip,
       Scan, ClearBase, ClearCount, Free, Loop, Onward
  <2>3. QED
    BY <2>1, <2>2, RingStill
<1>3. CASE CopyFirst
  BY <1>3, CopyRing DEF CopyFirst, linux, Half
<1>4. CASE CopySecond
  <2>1. ~lapped' => ~lapped /\ (lpc # "idle" => taken # wp)
    BY <1>4 DEF CopySecond, Loop, RingInv, ReadHolds
  <2>2. QED
    BY <1>4, <2>1, CopyRing DEF CopySecond, linux, Half
<1>5. QED
  BY <1>1, <1>2, <1>3, <1>4, AnnounceRing, TakeRing, FileFirstRing, FileSecondRing
    DEF Next, Idle, Linux

LEMMA InitRing == Init => RingInv
<1> SUFFICES ASSUME Init PROVE RingInv
  OBVIOUS
<1>1. Len(put) = 0 /\ Len(filed) = 0 /\ Taken = 0
  BY DEF Init, Taken
<1>2. 0 % Num = 0
  BY Sizes, ModFacts
<1>3. RingHolds
  BY <1>1, <1>2, Sizes DEF Init, RingHolds
<1>4. ReadHolds /\ FileIntact
  BY <1>1 DEF Init, ReadHolds, FileIntact
<1>5. QED
  BY <1>3, <1>4 DEF RingInv

\* Although a slot is given back before it is copied and filled before it is
\* announced, Linux files the records of the ring whole and in order, as long
\* as core 1 does not come round the ring.
THEOREM FilesWhole == Spec => []FileIntact
<1>1. RingInv => FileIntact
  BY DEF RingInv
<1>2. Spec => [](TInv /\ RingInv)
  BY InitTypes, InitRing, TypesKept, RingKept, PTL DEF Spec
<1>3. QED
  BY <1>1, <1>2, PTL

------------------------------------------------------------------------------
(* The segments: which record is where.                                    *)

Copied == {"base", "count", "free"}

\* The record of the segment is being made or is still to be put into the ring.
Live(s) == state[s] # "idle" /\ ~(dpc \in Copied /\ at = s)

StateHolds ==
  /\ dpc \notin Unbound => state[at] = "ok"
  /\ \A s \in Seg : state[s] = "doing" => s = seg /\ count[s] < need[s]

\* No two segments in use are of one record, and none that is live is of one
\* in the ring.
IdHolds ==
  /\ \A s \in Seg : id[s] =< made
  /\ \A s, t \in Seg :
       state[s] # "idle" /\ state[t] # "idle" /\ s # t => id[s] # id[t]
  /\ \A i \in 1 .. Len(put) : /\ put[i].id =< made
                              /\ \A s \in Seg : Live(s) => put[i].id # id[s]
  /\ \A i, j \in 1 .. Len(put) : i # j => put[i].id # put[j].id

LEMMA StateStart ==
  ASSUME TInv, StateHolds, Start
  PROVE  StateHolds'
<1>1. CASE StartTest
  BY <1>1 DEF StartTest, StateHolds, segment, loop
<1>2. CASE StartLengthen
  <2>1. Least(free, count[seg]) \in Nat
    BY DEF Least, TInv, TypeOK, Typed
  <2>2. \A s \in Seg : need'[s] >= need[s]
    BY <1>2, <2>1 DEF StartLengthen, TInv, TypeOK
  <2>3. UNCHANGED <<seg, state, count, dpc, at>>
    BY <1>2 DEF StartLengthen, loop
  <2>4. \A s \in Seg : count[s] \in Nat /\ need[s] \in Nat /\ need'[s] \in Nat
    BY TypesKept, <1>2 DEF TInv, TypeOK, Next, Start
  <2>5. ASSUME NEW s \in Seg, state[s] = "doing" PROVE s = seg /\ count[s] < need'[s]
    BY <2>2, <2>4, <2>5 DEF StateHolds
  <2>6. QED
    BY <2>3, <2>5 DEF StateHolds
<1>3. CASE StartNew
  <2> DEFINE s == IF state[seg] = "ok" THEN (seg + 1) % Segs ELSE seg
  <2>1. /\ state[seg] # "doing" /\ used < Buf /\ seg' = s /\ UNCHANGED <<dpc, at>>
        /\ IF state[s] = "idle"
           THEN /\ count' = [count EXCEPT ![s] = 0]
                /\ need' = [need EXCEPT ![s] = Least(Buf - used, Per)]
                /\ state' = [state EXCEPT ![s] = "doing"]
           ELSE UNCHANGED <<count, need, state>>
    BY <1>3 DEF StartNew, loop
  <2>2. s \in Seg
    BY NextIn DEF TInv, TypeOK
  <2> HIDE DEF s
  <2>3. 0 < Least(Buf - used, Per)
    BY <2>1, Sizes DEF Least, TInv, TypeOK
  <2>4. \A t \in Seg : state[t] # "doing"
    BY <2>1 DEF StateHolds
  <2>5. at \in Seg
    BY DEF TInv, Typed
  <2>6. CASE state[s] = "idle"
    <3>1. \A t \in Seg : t # s => state'[t] = state[t]
      BY <2>1, <2>6 DEF TInv, TypeOK
    <3>2. count'[s] = 0 /\ need'[s] = Least(Buf - used, Per)
      BY <2>1, <2>2, <2>6 DEF TInv, TypeOK
    <3>3. QED
      BY <2>1, <2>3, <2>4, <2>5, <2>6, <3>1, <3>2 DEF StateHolds
  <2>7. CASE state[s] # "idle"
    BY <2>1, <2>4, <2>7 DEF StateHolds
  <2>8. QED
    BY <2>6, <2>7
<1>4. QED
  BY <1>1, <1>2, <1>3 DEF Start

LEMMA StateSample ==
  ASSUME TInv, StateHolds, Sample
  PROVE  StateHolds'
<1>1. /\ state[seg] = "doing" /\ seg \in Seg /\ at \in Seg
      /\ count' = [count EXCEPT ![seg] = @ + 1]
      /\ IF count[seg] + 1 >= need[seg] THEN state' = [state EXCEPT ![seg] = "ok"]
         ELSE UNCHANGED state
      /\ UNCHANGED <<seg, need, dpc, at>>
  BY DEF Sample, TInv, TypeOK, Typed
<1>2. \A t \in Seg : t # seg => state'[t] = state[t] /\ count'[t] = count[t]
  BY <1>1 DEF TInv, TypeOK
<1>3. dpc' \notin Unbound => state'[at'] = "ok"
  BY <1>1, <1>2 DEF StateHolds
<1>4. ASSUME NEW t \in Seg, state'[t] = "doing" PROVE t = seg /\ count'[t] < need[t]
  <2>1. t = seg
    BY <1>2, <1>4 DEF StateHolds
  <2>2. count[seg] + 1 < need[seg]
    <3>1. ~(count[seg] + 1 >= need[seg])
      BY <1>1, <1>4, <2>1 DEF TInv, TypeOK
    <3>2. QED
      BY <1>1, <3>1 DEF TInv, TypeOK
  <2>3. QED
    BY <1>1, <2>1, <2>2 DEF TInv, TypeOK
<1>5. QED
  BY <1>1, <1>3, <1>4 DEF StateHolds

LEMMA StateIdle ==
  ASSUME TInv, StateHolds, Idle
  PROVE  StateHolds'
<1>0. at \in Seg
  BY DEF TInv, Typed
<1>1. CASE EvReceive
  BY <1>1 DEF EvReceive, EvLoad, EvTake, EvSkip, Loop, StateHolds, Unbound, segment
<1>2. CASE Scan
  BY <1>2 DEF Scan, Ready, Onward, StateHolds, Unbound, segment
<1>3. CASE CopyFirst \/ CopySecond \/ Announce
  BY <1>3 DEF CopyFirst, CopySecond, Announce, Loop, StateHolds, Unbound, segment
<1>4. CASE ClearBase
  BY <1>4 DEF ClearBase, Loop, StateHolds, Unbound
<1>5. CASE ClearCount
  <2>1. /\ state[at] = "ok" /\ UNCHANGED <<seg, state, at>>
        /\ count' = [count EXCEPT ![at] = 0] /\ need' = [need EXCEPT ![at] = 0]
    BY <1>5 DEF ClearCount, Loop, StateHolds, Unbound
  <2>2. \A t \in Seg : t # at => count'[t] = count[t] /\ need'[t] = need[t]
    BY <2>1 DEF TInv, TypeOK
  <2>3. QED
    BY <2>1, <2>2 DEF StateHolds
<1>6. CASE Free
  <2>1. /\ state' = [state EXCEPT ![at] = "idle"] /\ dpc' \in {"idle", "scan"}
        /\ UNCHANGED <<seg, count, need>>
    BY <1>6 DEF Free, Onward
  <2>2. \A t \in Seg : t # at => state'[t] = state[t]
    BY <2>1 DEF TInv, TypeOK
  <2>3. state'[at] = "idle"
    BY <1>0, <2>1 DEF TInv, TypeOK
  <2>4. QED
    BY <2>1, <2>2, <2>3 DEF StateHolds, Unbound
<1>7. QED
  BY <1>1, <1>2, <1>3, <1>4, <1>5, <1>6 DEF Idle

LEMMA StateKept ==
  ASSUME TInv, StateHolds, [Next]_vars
  PROVE  StateHolds'
<1>1. CASE Linux \/ UNCHANGED vars
  BY <1>1 DEF Linux, Take, FileFirst, FileSecond, vars, segment, loop, StateHolds
<1>2. QED
  BY <1>1, StateStart, StateSample, StateIdle DEF Next

\* No record is begun or put into the ring.
LEMMA IdStill ==
  ASSUME IdHolds, UNCHANGED <<id, made, put>>,
         \A s \in Seg : /\ state'[s] # "idle" => state[s] # "idle"
                        /\ Live(s)' => Live(s)
  PROVE  IdHolds'
  BY DEF IdHolds

LEMMA IdNew ==
  ASSUME TInv, IdHolds, StateHolds, StartNew
  PROVE  IdHolds'
<1> DEFINE s == IF state[seg] = "ok" THEN (seg + 1) % Segs ELSE seg
<1>1. /\ UNCHANGED <<dpc, at, put>>
      /\ IF state[s] = "idle"
         THEN /\ made' = made + 1 /\ id' = [id EXCEPT ![s] = made']
              /\ state' = [state EXCEPT ![s] = "doing"]
         ELSE UNCHANGED <<made, id, state>>
  BY DEF StartNew, loop, shared
<1>2. s \in Seg
  BY NextIn DEF TInv, TypeOK
<1> HIDE DEF s
<1>3. CASE state[s] # "idle"
  BY <1>1, <1>3, IdStill DEF Live
<1>4. CASE state[s] = "idle"
  <2>1. \A t \in Seg : t # s => id'[t] = id[t] /\ state'[t] = state[t] /\ (Live(t)' => Live(t))
    BY <1>1, <1>4 DEF TInv, TypeOK, Live
  <2>2. id'[s] = made + 1 /\ made' = made + 1
    BY <1>1, <1>2, <1>4 DEF TInv, TypeOK
  <2>3. \A t \in Seg : id[t] \in Nat /\ id[t] =< made /\ id[t] < made + 1
    <3>1. made \in Nat
      BY DEF TInv, Typed
    <3>2. \A t \in Seg : id[t] \in Nat
      BY DEF TInv, TypeOK
    <3>3. QED
      BY <3>1, <3>2 DEF IdHolds
  <2>4. \A i \in 1 .. Len(put) : put[i].id =< made /\ put[i].id < made + 1 /\ put[i].id =< made + 1
    <3>1. made \in Nat
      BY DEF TInv, Typed
    <3>2. \A i \in 1 .. Len(put) : put[i].id \in Nat
      <4>1. \A i \in 1 .. Len(put) : put[i] \in Record
        BY ElementOfSeq DEF TInv, Typed
      <4>2. QED
        BY <4>1 DEF Record
    <3>3. QED
      BY <3>1, <3>2 DEF IdHolds
  <2>5. made \in Nat
    BY DEF TInv, Typed
  <2>6. \A t \in Seg : id'[t] =< made'
    BY <1>2, <2>1, <2>2, <2>3, <2>5
  <2>7. \A t, u \in Seg : state'[t] # "idle" /\ state'[u] # "idle" /\ t # u => id'[t] # id'[u]
    BY <2>1, <2>2, <2>3, <2>5 DEF IdHolds
  <2>8. ASSUME NEW i \in 1 .. Len(put)
        PROVE  put[i].id =< made' /\ \A t \in Seg : Live(t)' => put[i].id # id'[t]
    <3>1. put[i].id =< made' /\ put[i].id # made + 1
      BY <2>2, <2>4, <2>5 DEF TInv, Typed, Record
    <3>2. \A t \in Seg : Live(t)' => put[i].id # id'[t]
      BY <2>1, <2>2, <3>1 DEF IdHolds
    <3>3. QED
      BY <3>1, <3>2
  <2>9. QED
    BY <1>1, <2>6, <2>7, <2>8 DEF IdHolds
<1>5. QED
  BY <1>3, <1>4

LEMMA IdAnnounce ==
  ASSUME TInv, IdHolds, StateHolds, Announce
  PROVE  IdHolds'
<1> DEFINE n == Len(put)
           r == [id |-> id[at], half |-> ring[wp]]
<1>1. /\ put' = Append(put, r) /\ dpc = "announce" /\ dpc' = "base"
      /\ UNCHANGED <<state, id, made, at>>
  BY DEF Announce, Loop, segment, start
<1>2. n \in Nat /\ put \in Seq(Record) /\ at \in Seg
  BY CountFacts DEF TInv, Typed
<1>3. r \in Record
  BY DEF TInv, TypeOK, Typed, Record
<1>4. /\ Len(put') = n + 1 /\ put'[n + 1] = r
      /\ \A i \in 1 .. n : put'[i] = put[i]
  BY <1>1, <1>2, <1>3, AppendProperties
<1>5. r.id = id[at] /\ state[at] = "ok" /\ Live(at)
  BY <1>1 DEF StateHolds, Unbound, Live, Copied
<1>6. \A s \in Seg : Live(s)' => Live(s) /\ s # at /\ state[s] # "idle"
  BY <1>1 DEF Live, Copied
<1>7. \A i \in 1 .. n : put[i].id # r.id
  BY <1>2, <1>5 DEF IdHolds
<1>8. \A i \in 1 .. n + 1 : i = n + 1 \/ i \in 1 .. n
  BY <1>2
<1>9. \A i, j \in 1 .. n + 1 : i # j => put'[i].id # put'[j].id
  <2> SUFFICES ASSUME NEW i \in 1 .. n + 1, NEW j \in 1 .. n + 1, i # j
               PROVE  put'[i].id # put'[j].id
    OBVIOUS
  <2>1. CASE i = n + 1
    <3>1. j \in 1 .. n
      BY <1>8, <2>1
    <3>2. QED
      BY <1>4, <1>7, <2>1, <3>1
  <2>2. CASE j = n + 1
    <3>1. i \in 1 .. n
      BY <1>8, <2>2
    <3>2. QED
      BY <1>4, <1>7, <2>2, <3>1
  <2>3. CASE i # n + 1 /\ j # n + 1
    <3>1. i \in 1 .. n /\ j \in 1 .. n
      BY <1>8, <2>3
    <3>2. QED
      BY <1>4, <3>1 DEF IdHolds
  <2>4. QED
    BY <2>1, <2>2, <2>3
<1>10. ASSUME NEW i \in 1 .. n + 1
       PROVE  put'[i].id =< made /\ \A s \in Seg : Live(s)' => put'[i].id # id[s]
  <2>1. CASE i = n + 1
    BY <1>2, <1>4, <1>5, <1>6, <2>1 DEF IdHolds
  <2>2. CASE i \in 1 .. n
    BY <1>4, <1>6, <2>2 DEF IdHolds
  <2>3. QED
    BY <1>8, <2>1, <2>2
<1>11. QED
  BY <1>1, <1>4, <1>9, <1>10 DEF IdHolds

LEMMA IdKept ==
  ASSUME TInv, StateHolds, IdHolds, [Next]_vars
  PROVE  IdHolds'
<1>1. CASE StartTest \/ StartLengthen \/ Linux \/ UNCHANGED vars
  BY <1>1, IdStill DEF StartTest, StartLengthen, Linux, Take, FileFirst, FileSecond,
    vars, segment, start, loop, shared, Live
<1>2. CASE Sample
  <2>1. \A s \in Seg : state'[s] # "idle" => state[s] # "idle"
    BY <1>2 DEF Sample, TInv, TypeOK
  <2>2. QED
    BY <1>2, <2>1, IdStill DEF Sample, start, shared, Live
<1>3. CASE EvReceive \/ Scan \/ CopyFirst \/ CopySecond \/ ClearBase \/ ClearCount
  <2>1. UNCHANGED <<id, made, put, state>>
    BY <1>3 DEF EvReceive, EvLoad, EvTake, EvSkip,
       Scan, CopyFirst, CopySecond, ClearBase, ClearCount, segment, start, shared
  <2>2. dpc \notin Copied \/ (at' = at /\ dpc' \in Copied)
    BY <1>3 DEF EvReceive, EvLoad, EvTake, EvSkip,
       Scan, CopyFirst, CopySecond, ClearBase, ClearCount, Loop, Copied
  <2>3. QED
    BY <2>1, <2>2, IdStill DEF Live
<1>4. CASE Free
  <2>1. /\ UNCHANGED <<id, made, put>> /\ dpc = "free" /\ at \in Seg
        /\ state' = [state EXCEPT ![at] = "idle"]
    BY <1>4 DEF Free, start, shared, TInv, Typed
  <2>2. \A s \in Seg : state'[s] = IF s = at THEN "idle" ELSE state[s]
    BY <2>1 DEF TInv, TypeOK
  <2>3. QED
    BY <2>1, <2>2, IdStill DEF Live, Copied
<1>5. QED
  BY <1>1, <1>2, <1>3, <1>4, IdNew, IdAnnounce DEF Next, Start, Idle

\* Every record is put into the ring once, in whatever order records are
\* started, finished, copied and cleared.
LEMMA PutOnce ==
  ASSUME IdHolds
  PROVE  \A i, j \in 1 .. Len(put) : i # j => put[i].id # put[j].id
  BY DEF IdHolds

------------------------------------------------------------------------------
(* The segments: which points belong to which record.                      *)

\* As long as none of the oddities has happened, the live segments lie one
\* behind the other in the buffer, in the order of their records, and take up
\* no more of it than wBufUsed says without the segment that is being cleared.

Claimed == IF dpc \in {"base", "count"} THEN used - count[at]
           ELSE IF dpc = "free" THEN word ELSE used

ReadyHolds  == \A s \in Seg : state[s] = "ok" => count[s] >= need[s]
NewestHolds == \A s \in Seg : Live(s) => Live(seg) /\ id[s] =< id[seg]

UsedHolds ==
  /\ used =< Buf /\ 0 =< Claimed /\ Claimed =< used
  /\ state[seg] = "doing" => need[seg] - count[seg] =< Buf - used

\* The places where segments begin, were the buffer endless.
Placed(begin) ==
  /\ \A s \in Seg : Live(s) => base[s] = begin[s] % Buf
  /\ \A s, t \in Seg : Live(s) /\ Live(t) =>
       /\ id[s] < id[t] => begin[s] + count[s] =< begin[t]
       /\ begin[t] + count[t] - begin[s] =< Claimed

PlaceHolds == \E begin \in [Seg -> Nat] : Placed(begin)

PointHolds ==
  \A s \in Seg : Live(s) =>
    \A i \in 0 .. count[s] - 1 : point[(base[s] + i) % Buf] = id[s]

Order    == ReadyHolds /\ NewestHolds /\ UsedHolds /\ PlaceHolds /\ PointHolds
OrderInv == odd = {} => Order

LEMMA OrderStill ==
  ASSUME TInv, Order, UNCHANGED <<seg, id, point>>, Claimed' = Claimed,
         \A s \in Seg : /\ Live(s)' <=> Live(s)
                        /\ Live(s) => count'[s] = count[s] /\ base'[s] = base[s],
         ReadyHolds', UsedHolds'
  PROVE  Order'
<1>0. seg \in Seg
  BY DEF TInv, TypeOK
<1>1. NewestHolds'
  BY <1>0 DEF Order, NewestHolds
<1>2. PlaceHolds'
  <2>1. PICK begin \in [Seg -> Nat] : Placed(begin)
    BY DEF Order, PlaceHolds
  <2>2. Placed(begin)'
    BY <2>1 DEF Placed
  <2>3. QED
    BY <2>2 DEF PlaceHolds
<1>3. PointHolds'
  BY DEF Order, PointHolds
<1>4. QED
  BY <1>1, <1>2, <1>3 DEF Order

\* The numbers of a live segment.
LEMMA SegFacts ==
  ASSUME TInv
  PROVE  /\ used \in Nat /\ Buf \in Nat /\ Buf > 1 /\ word \in Int /\ Claimed \in Int
         /\ seg \in Seg /\ at \in Seg /\ made \in Nat
         /\ \A s \in Seg : /\ count[s] \in Nat /\ need[s] \in Nat /\ id[s] \in Nat
                           /\ base[s] \in 0 .. Buf - 1
<1>1. /\ used \in Nat /\ word \in Int /\ seg \in Seg /\ at \in Seg /\ made \in Nat
      /\ \A s \in Seg : count[s] \in Nat /\ need[s] \in Nat /\ base[s] \in 0 .. Buf - 1
      /\ Buf \in Nat /\ Buf > 1
  BY Sizes DEF TInv, TypeOK, Typed
<1>2. \A s \in Seg : id[s] \in Nat
  BY DEF TInv, TypeOK
<1>3. Claimed \in Int
  BY <1>1 DEF Claimed
<1>4. QED
  BY <1>1, <1>2, <1>3

LEMMA BufAdd ==
  ASSUME NEW a \in Nat, NEW b \in Nat
  PROVE  ((a % Buf) + b) % Buf = (a + b) % Buf
<1>1. Buf \in Nat /\ Buf > 0
  BY Sizes
<1>2. QED
  BY <1>1, ModAdd, Zenon

LEMMA BufIn ==
  ASSUME NEW m \in 0 .. Buf - 1
  PROVE  m = m % Buf
<1>1. Buf \in Nat /\ Buf > 0 /\ 0 \in Nat
  BY Sizes
<1>2. (0 * Buf + m) % Buf = m
  BY <1>1, ModUnique, Zenon
<1>3. 0 * Buf + m = m
  BY <1>1
<1>4. QED
  BY <1>2, <1>3

\* The sampled point is not one of those of another segment, nor a second time
\* one of its own.
LEMMA SampleApart ==
  ASSUME TInv, StateHolds, IdHolds, Order, dpc # "free", state[seg] = "doing",
         NEW s \in Seg, Live(s), NEW i \in 0 .. count[s] - 1
  PROVE  (base[s] + i) % Buf # (base[seg] + count[seg]) % Buf
<1>1. PICK begin \in [Seg -> Nat] : Placed(begin)
  BY DEF Order, PlaceHolds
<1>2. Live(seg)
  BY SegFacts DEF Live, StateHolds, Unbound, Copied
<1>3. count[seg] < need[seg] /\ need[seg] - count[seg] =< Buf - used
      /\ Claimed =< used
  BY SegFacts DEF StateHolds, Order, UsedHolds
<1> DEFINE a == begin[s] + i
           b == begin[seg] + count[seg]
<1>4. /\ begin[s] \in Nat /\ begin[seg] \in Nat /\ i \in Nat /\ i < count[s]
      /\ count[s] \in Nat /\ count[seg] \in Nat /\ need[seg] \in Nat
      /\ used \in Nat /\ Buf \in Nat /\ Buf > 1 /\ Claimed \in Int
  BY SegFacts
<1>5. a < b
  <2>1. CASE s = seg
    BY <1>4, <2>1
  <2>2. CASE s # seg
    <3>1. id[s] =< id[seg]
      BY DEF Order, NewestHolds
    <3>2. id[s] # id[seg]
      BY <1>2, <2>2, SegFacts DEF IdHolds, Live
    <3>3. id[s] < id[seg]
      BY <3>1, <3>2, SegFacts
    <3>4. begin[s] + count[s] =< begin[seg]
      BY <1>1, <1>2, <3>3, SegFacts DEF Placed
    <3>5. QED
      BY <1>4, <3>4
  <2>3. QED
    BY <2>1, <2>2
<1>6. b < a + Buf
  <2>1. begin[seg] + count[seg] - begin[s] =< Claimed
    BY <1>1, <1>2, SegFacts DEF Placed
  <2>2. QED
    BY <1>3, <1>4, <2>1
<1>7. a \in Nat /\ b \in Nat
  BY <1>4
<1>8. (base[s] + i) % Buf = a % Buf
  <2>1. base[s] = begin[s] % Buf
    BY <1>1 DEF Placed
  <2>2. ((begin[s] % Buf) + i) % Buf = (begin[s] + i) % Buf
    BY <1>4, BufAdd
  <2>3. QED
    BY <2>1, <2>2
<1>9. (base[seg] + count[seg]) % Buf = b % Buf
  <2>1. base[seg] = begin[seg] % Buf
    BY <1>1, <1>2, SegFacts DEF Placed
  <2>2. ((begin[seg] % Buf) + count[seg]) % Buf = (begin[seg] + count[seg]) % Buf
    BY <1>4, BufAdd
  <2>3. QED
    BY <2>1, <2>2
<1> HIDE DEF a, b
<1>10. a % Buf # b % Buf
  BY <1>4, <1>5, <1>6, <1>7, ModApart
<1>11. QED
  BY <1>8, <1>9, <1>10


LEMMA OrderSample ==
  ASSUME TInv, StateHolds, IdHolds, Order, Sample, dpc # "free"
  PROVE  Order'
<1> DEFINE place == (base[seg] + count[seg]) % Buf
<1>1. /\ state[seg] = "doing" /\ used' = used + 1
      /\ point' = [point EXCEPT ![place] = id[seg]]
      /\ count' = [count EXCEPT ![seg] = @ + 1]
      /\ IF count[seg] + 1 >= need[seg] THEN state' = [state EXCEPT ![seg] = "ok"]
         ELSE UNCHANGED state
      /\ UNCHANGED <<seg, need, base, id, dpc, at, word>>
  BY DEF Sample
<1>2. place \in 0 .. Buf - 1
  <2>1. base[seg] + count[seg] \in Nat
    BY SegFacts
  <2>2. QED
    BY <2>1, SegFacts, ModFacts
<1>3. \A s \in Seg : s # seg => count'[s] = count[s] /\ state'[s] = state[s]
  BY <1>1 DEF TInv, TypeOK
<1>4. count'[seg] = count[seg] + 1
  BY <1>1, SegFacts DEF TInv, TypeOK
<1>5. /\ state'[seg] = "ok" => count[seg] + 1 >= need[seg]
      /\ state'[seg] \in {"ok", "doing"}
  BY <1>1, SegFacts DEF TInv, TypeOK
<1>6. \A s \in Seg : Live(s)' <=> Live(s)
  BY <1>1, <1>3, <1>5 DEF Live
<1>7. Live(seg) /\ count[seg] < need[seg] /\ (dpc \in Copied => at # seg)
  BY <1>1, SegFacts DEF Live, StateHolds, Unbound, Copied
<1>8. Claimed' = Claimed + 1
  <2>1. CASE dpc \in {"base", "count"}
    <3>1. count'[at] = count[at]
      BY <1>3, <1>7, <2>1, SegFacts DEF Copied
    <3>2. (used + 1) - count[at] = (used - count[at]) + 1
      BY SegFacts
    <3>3. QED
      BY <1>1, <2>1, <3>1, <3>2 DEF Claimed
  <2>2. CASE dpc \notin {"base", "count"}
    BY <1>1, <2>2 DEF Claimed
  <2>3. QED
    BY <2>1, <2>2
<1>9. ReadyHolds'
  <2>1. ASSUME NEW s \in Seg, state'[s] = "ok" PROVE count'[s] >= need[s]
    BY <1>3, <1>4, <1>5, <2>1 DEF Order, ReadyHolds
  <2>2. QED
    BY <1>1, <2>1 DEF ReadyHolds
<1>10. NewestHolds'
  BY <1>1, <1>6, SegFacts DEF Order, NewestHolds
<1>11. UsedHolds'
  <2>1. /\ used =< Buf /\ 0 =< Claimed /\ Claimed =< used
        /\ need[seg] - count[seg] =< Buf - used
    BY <1>1 DEF Order, UsedHolds
  <2>2. used + 1 =< Buf /\ 0 =< Claimed + 1 /\ Claimed + 1 =< used + 1
    BY <1>7, <2>1, SegFacts
  <2>3. need[seg] - (count[seg] + 1) =< Buf - (used + 1)
    BY <2>1, SegFacts
  <2>4. QED
    BY <1>1, <1>4, <1>8, <2>2, <2>3 DEF UsedHolds
<1>12. PlaceHolds'
  <2>1. PICK begin \in [Seg -> Nat] : Placed(begin)
    BY DEF Order, PlaceHolds
  <2>2. ASSUME NEW s \in Seg, NEW t \in Seg, Live(s), Live(t)
        PROVE  /\ id[s] < id[t] => begin[s] + count'[s] =< begin[t]
               /\ begin[t] + count'[t] - begin[s] =< Claimed + 1
    <3>1. /\ id[s] < id[t] => begin[s] + count[s] =< begin[t]
          /\ begin[t] + count[t] - begin[s] =< Claimed
      BY <2>1, <2>2 DEF Placed
    <3>2. id[s] < id[t] => s # seg
      BY <2>2, SegFacts DEF Order, NewestHolds
    <3>3. count'[t] = count[t] \/ count'[t] = count[t] + 1
      BY <1>3, <1>4
    <3>4. begin[s] \in Nat /\ begin[t] \in Nat /\ count[t] \in Nat /\ Claimed \in Int
      BY SegFacts
    <3>5. begin[t] + count'[t] - begin[s] =< Claimed + 1
      BY <3>1, <3>3, <3>4
    <3>6. QED
      BY <1>3, <3>1, <3>2, <3>5
  <2>3. Placed(begin)'
    BY <1>1, <1>6, <1>8, <2>1, <2>2 DEF Placed
  <2>4. QED
    BY <2>3 DEF PlaceHolds
<1>13. PointHolds'
  <2>1. ASSUME NEW s \in Seg, Live(s), NEW i \in 0 .. count'[s] - 1
        PROVE  point'[(base[s] + i) % Buf] = id[s]
    <3>1. CASE i \in 0 .. count[s] - 1
      <4>1. point[(base[s] + i) % Buf] = id[s]
        BY <2>1, <3>1 DEF Order, PointHolds
      <4>2. (base[s] + i) % Buf # place
        BY <1>1, <2>1, <3>1, SampleApart
      <4>3. (base[s] + i) % Buf \in 0 .. Buf - 1
        <5>1. base[s] + i \in Nat
          BY SegFacts
        <5>2. QED
          BY <5>1, SegFacts, ModFacts
      <4>4. QED
        BY <1>1, <4>1, <4>2, <4>3 DEF TInv, Typed
    <3>2. CASE i \notin 0 .. count[s] - 1
      <4>1. s = seg /\ i = count[seg]
        BY <1>3, <1>4, <2>1, <3>2, SegFacts
      <4>2. QED
        BY <1>1, <1>2, <4>1 DEF TInv, Typed
    <3>3. QED
      BY <3>1, <3>2
  <2>2. QED
    BY <1>1, <1>6, <2>1 DEF PointHolds
<1>14. QED
  BY <1>9, <1>10, <1>11, <1>12, <1>13 DEF Order

LEMMA SegAdd ==
  ASSUME NEW a \in Nat, NEW b \in Nat
  PROVE  ((a % Segs) + b) % Segs = (a + b) % Segs
<1>1. Segs \in Nat /\ Segs > 0
  BY Sizes
<1>2. QED
  BY <1>1, ModAdd, Zenon

\* The segment before the next one.
LEMMA BackAgain ==
  ASSUME NEW s \in Seg
  PROVE  (((s + 1) % Segs) + Segs - 1) % Segs = s
<1>1. s \in Nat /\ s \in 0 .. Segs - 1 /\ Segs \in Nat /\ Segs > 1 /\ s + 1 \in Nat
      /\ Segs - 1 \in Nat /\ 1 \in Nat /\ Segs > 0
  BY Sizes DEF Seg
<1> DEFINE r == (s + 1) % Segs
<1>2. r \in Nat
  BY <1>1, ModFacts
<1>3. (r + (Segs - 1)) % Segs = (s + 1 + (Segs - 1)) % Segs
  BY <1>1, SegAdd, Zenon
<1> HIDE DEF r
<1>4. r + Segs - 1 = r + (Segs - 1) /\ s + 1 + (Segs - 1) = 1 * Segs + s
  BY <1>1, <1>2
<1>5. (1 * Segs + s) % Segs = s
  BY <1>1, ModUnique, Zenon
<1>6. QED
  BY <1>3, <1>4, <1>5 DEF r

\* Where a new record is begun, and the segment before that.
Chosen == IF state[seg] = "ok" THEN (seg + 1) % Segs ELSE seg
Behind == (Chosen + Segs - 1) % Segs

LEMMA ChosenFacts ==
  ASSUME TInv
  PROVE  Chosen \in Seg /\ Behind \in Seg
<1>1. Chosen \in Seg
  BY SegFacts, NextIn DEF Chosen
<1>2. QED
  BY <1>1, NextIn DEF Behind

\* What the start of a new record does, if no segment is in its way.
LEMMA NewFacts ==
  ASSUME TInv, StateHolds, IdHolds, StartNew, odd' = {},
         NEW s \in Seg, NEW p \in Seg, s = Chosen, p = Behind
  PROVE  /\ state[s] = "idle" /\ state[seg] # "doing" /\ seg' = s /\ used < Buf
         /\ state'[s] = "doing" /\ id'[s] = made + 1 /\ count'[s] = 0
         /\ need'[s] = Least(Buf - used, Per)
         /\ base'[s] = (base[p] + count[p]) % Buf /\ base'[s] \in 0 .. Buf - 1
         /\ Live(s)' /\ ~Live(s)
         /\ \A t \in Seg : t # s =>
              /\ state'[t] = state[t] /\ id'[t] = id[t] /\ count'[t] = count[t]
              /\ need'[t] = need[t] /\ base'[t] = base[t] /\ (Live(t)' <=> Live(t))
         /\ \A t \in Seg : id[t] < made + 1
         /\ Claimed' = Claimed /\ UNCHANGED <<used, point, dpc, at, word>>
<1>1. /\ state[seg] # "doing" /\ seg' = s /\ used < Buf
      /\ UNCHANGED <<used, point, dpc, at, word>>
      /\ IF state[s] = "idle"
         THEN /\ made' = made + 1 /\ id' = [id EXCEPT ![s] = made']
              /\ count' = [count EXCEPT ![s] = 0]
              /\ need' = [need EXCEPT ![s] = Least(Buf - used, Per)]
              /\ base' = [base EXCEPT ![s] = (base[p] + count[p]) % Buf]
              /\ state' = [state EXCEPT ![s] = "doing"]
         ELSE UNCHANGED <<made, id, count, need, base, state>>
      /\ odd' = IF state[s] = "idle" THEN odd ELSE odd \cup {"full"}
  BY DEF StartNew, loop, Chosen, Behind
<1>2. state[s] = "idle"
  BY <1>1
<1>3. /\ state'[s] = "doing" /\ id'[s] = made + 1 /\ count'[s] = 0
      /\ need'[s] = Least(Buf - used, Per)
      /\ base'[s] = (base[p] + count[p]) % Buf
      /\ \A t \in Seg : t # s =>
           /\ state'[t] = state[t] /\ id'[t] = id[t] /\ count'[t] = count[t]
           /\ need'[t] = need[t] /\ base'[t] = base[t]
  BY <1>1, <1>2 DEF TInv, TypeOK
<1>4. dpc \in Copied => at # s
  BY <1>2 DEF StateHolds, Unbound, Copied
<1>5. Live(s)' /\ ~Live(s) /\ \A t \in Seg : t # s => (Live(t)' <=> Live(t))
  <2>1. dpc' = dpc /\ at' = at
    BY <1>1
  <2>2. Live(s)'
    BY <1>3, <1>4, <2>1 DEF Live
  <2>3. ~Live(s)
    BY <1>2 DEF Live
  <2>4. \A t \in Seg : t # s => (Live(t)' <=> Live(t))
    BY <1>3, <2>1 DEF Live
  <2>5. QED
    BY <2>2, <2>3, <2>4
<1>6. Claimed' = Claimed
  BY <1>1, <1>3, <1>4, SegFacts DEF Claimed, Copied
<1>7. \A t \in Seg : id[t] < made + 1
  BY SegFacts DEF IdHolds
<1>8. base'[s] \in 0 .. Buf - 1
  <2>1. base[p] + count[p] \in Nat
    BY SegFacts
  <2>2. (base[p] + count[p]) % Buf \in 0 .. Buf - 1
    BY <2>1, SegFacts, ModFacts
  <2>3. QED
    BY <1>3, <2>2
<1>9. QED
  BY <1>1, <1>2, <1>3, <1>5, <1>6, <1>7, <1>8, Zenon

LEMMA OrderNew ==
  ASSUME TInv, StateHolds, IdHolds, Order, StartNew, odd' = {}
  PROVE  Order'
<1>1. PICK s \in Seg : s = Chosen
  BY ChosenFacts
<1>2. PICK p \in Seg : p = Behind
  BY ChosenFacts
<1>3. /\ state[s] = "idle" /\ state[seg] # "doing" /\ seg' = s /\ used < Buf
      /\ state'[s] = "doing" /\ id'[s] = made + 1 /\ count'[s] = 0
      /\ need'[s] = Least(Buf - used, Per)
      /\ base'[s] = (base[p] + count[p]) % Buf /\ base'[s] \in 0 .. Buf - 1
      /\ Live(s)' /\ ~Live(s)
      /\ \A t \in Seg : id[t] < made + 1
      /\ Claimed' = Claimed /\ UNCHANGED <<used, point, dpc, at, word>>
  BY <1>1, <1>2, NewFacts, Zenon
<1>4. \A t \in Seg : t # s =>
        /\ state'[t] = state[t] /\ id'[t] = id[t] /\ count'[t] = count[t]
        /\ need'[t] = need[t] /\ base'[t] = base[t] /\ (Live(t)' <=> Live(t))
  BY <1>1, <1>2, NewFacts, Zenon
<1>5. \A t \in Seg : Live(t) => t # s
  BY <1>3
<1>6. ReadyHolds'
  BY <1>3, <1>4 DEF Order, ReadyHolds
<1>7. NewestHolds'
  <2>1. \A t \in Seg : id'[t] =< made + 1
    BY <1>3, <1>4, SegFacts
  <2>2. QED
    BY <1>3, <2>1 DEF NewestHolds
<1>8. UsedHolds'
  <2>1. used =< Buf /\ 0 =< Claimed /\ Claimed =< used
    BY DEF Order, UsedHolds
  <2>2. need'[s] - 0 =< Buf - used
    BY <1>3, Sizes, SegFacts DEF Least
  <2>3. QED
    BY <1>3, <2>1, <2>2 DEF UsedHolds
<1>9. PlaceHolds'
  <2>1. PICK begin \in [Seg -> Nat] : Placed(begin)
    BY DEF Order, PlaceHolds
  <2>2. CASE \A t \in Seg : ~Live(t)
    <3>1. PICK there \in [Seg -> Nat] : there[s] = base'[s]
      <4>1. [begin EXCEPT ![s] = base'[s]] \in [Seg -> Nat]
        BY <1>3
      <4>2. [begin EXCEPT ![s] = base'[s]][s] = base'[s]
        OBVIOUS
      <4>3. QED
        BY <4>1, <4>2
    <3>2. base'[s] = base'[s] % Buf
      BY <1>3, BufIn, Zenon
    <3>3. \A t \in Seg : Live(t)' => t = s
      BY <1>4, <2>2
    <3>4. there[s] + count'[s] - there[s] =< Claimed
      BY <1>3, <3>1, SegFacts DEF Order, UsedHolds
    <3>5. Placed(there)'
      <4>1. ~(id'[s] < id'[s])
        BY <1>3, SegFacts
      <4>2. \A t \in Seg : Live(t)' => base'[t] = there[t] % Buf
        BY <3>1, <3>2, <3>3
      <4>3. \A t, u \in Seg : Live(t)' /\ Live(u)' =>
              /\ id'[t] < id'[u] => there[t] + count'[t] =< there[u]
              /\ there[u] + count'[u] - there[t] =< Claimed'
        BY <1>3, <3>3, <3>4, <4>1
      <4>4. QED
        BY <4>2, <4>3 DEF Placed
    <3>6. QED
      BY <3>1, <3>5 DEF PlaceHolds
  <2>3. CASE \E t \in Seg : Live(t)
    <3>1. Live(seg) /\ seg # s /\ state[seg] = "ok"
      BY <1>3, <1>5, <2>3, SegFacts DEF Order, NewestHolds, Live, TInv, TypeOK
    <3>2. p = seg
      <4>1. s = (seg + 1) % Segs
        BY <1>1, <3>1 DEF Chosen
      <4>2. QED
        BY <1>1, <1>2, <4>1, BackAgain, SegFacts DEF Behind
    <3>3. /\ begin[seg] \in Nat /\ count[seg] \in Nat /\ Claimed \in Int
          /\ \A t \in Seg : begin[t] \in Nat /\ count[t] \in Nat /\ id[t] \in Nat
      BY SegFacts
    <3>4. PICK there \in [Seg -> Nat] :
            /\ there[s] = begin[seg] + count[seg]
            /\ \A t \in Seg : t # s => there[t] = begin[t]
      <4> DEFINE next == [begin EXCEPT ![s] = begin[seg] + count[seg]]
      <4>1. /\ next \in [Seg -> Nat] /\ next[s] = begin[seg] + count[seg]
            /\ \A t \in Seg : t # s => next[t] = begin[t]
        BY <3>3
      <4>2. QED
        BY <4>1
    <3>5. base'[s] = there[s] % Buf
      <4>1. base[seg] = begin[seg] % Buf
        BY <2>1, <3>1, SegFacts DEF Placed
      <4>2. ((begin[seg] % Buf) + count[seg]) % Buf = (begin[seg] + count[seg]) % Buf
        BY <3>3, BufAdd
      <4>3. QED
        BY <1>3, <3>2, <3>4, <4>1, <4>2
    <3>6. ASSUME NEW t \in Seg, Live(t)
          PROVE  begin[t] + count[t] =< there[s] /\ there[s] - begin[t] =< Claimed
      <4>1. t = seg \/ id[t] < id[seg]
        <5>1. id[t] =< id[seg]
          BY <3>6 DEF Order, NewestHolds
        <5>2. t # seg => id[t] # id[seg]
          BY <3>1, <3>6, SegFacts DEF IdHolds, Live
        <5>3. QED
          BY <3>3, <5>1, <5>2, SegFacts
      <4>2. /\ id[t] < id[seg] => begin[t] + count[t] =< begin[seg]
            /\ begin[seg] + count[seg] - begin[t] =< Claimed
        BY <2>1, <3>1, <3>6, SegFacts DEF Placed
      <4>3. QED
        BY <3>3, <3>4, <4>1, <4>2
    <3>7. \A t \in Seg : Live(t)' => base'[t] = there[t] % Buf
      BY <1>4, <2>1, <3>4, <3>5 DEF Placed
    <3>8. ASSUME NEW t \in Seg, NEW u \in Seg, Live(t)', Live(u)'
          PROVE  /\ id'[t] < id'[u] => there[t] + count'[t] =< there[u]
                 /\ there[u] + count'[u] - there[t] =< Claimed
      <4>1. 0 =< Claimed
        BY DEF Order, UsedHolds
      <4>2. CASE t = s /\ u = s
        BY <1>3, <3>3, <3>4, <4>1, <4>2
      <4>3. CASE t = s /\ u # s
        <5>1. Live(u) /\ id'[u] = id[u] /\ count'[u] = count[u] /\ there[u] = begin[u]
          BY <1>4, <3>4, <3>8, <4>3
        <5>2. ~(id'[t] < id'[u])
          BY <1>3, <3>3, <4>3, <5>1, SegFacts
        <5>3. there[u] + count'[u] - there[t] =< Claimed
          BY <3>3, <3>4, <3>6, <4>1, <4>3, <5>1
        <5>4. QED
          BY <5>2, <5>3
      <4>4. CASE t # s /\ u = s
        <5>1. Live(t) /\ count'[t] = count[t] /\ there[t] = begin[t]
          BY <1>4, <3>4, <3>8, <4>4
        <5>2. there[u] + count'[u] - there[t] = there[s] - begin[t]
          BY <1>3, <3>3, <3>4, <4>4, <5>1
        <5>3. QED
          BY <3>6, <4>4, <5>1, <5>2
      <4>5. CASE t # s /\ u # s
        <5>1. /\ Live(t) /\ Live(u) /\ id'[t] = id[t] /\ id'[u] = id[u]
              /\ count'[t] = count[t] /\ count'[u] = count[u]
              /\ there[t] = begin[t] /\ there[u] = begin[u]
          BY <1>4, <3>4, <3>8, <4>5
        <5>2. QED
          BY <2>1, <5>1 DEF Placed
      <4>6. QED
        BY <4>2, <4>3, <4>4, <4>5
    <3>9. Placed(there)'
      BY <1>3, <3>7, <3>8 DEF Placed
    <3>10. QED
      BY <3>4, <3>9 DEF PlaceHolds
  <2>4. QED
    BY <2>2, <2>3
<1>10. PointHolds'
  <2>1. ASSUME NEW t \in Seg, Live(t)', NEW i \in 0 .. count'[t] - 1
        PROVE  point[(base'[t] + i) % Buf] = id'[t]
    <3>1. t # s
      BY <1>3, <2>1
    <3>2. QED
      BY <1>4, <2>1, <3>1 DEF Order, PointHolds
  <2>2. QED
    BY <1>3, <2>1 DEF PointHolds
<1>11. QED
  BY <1>6, <1>7, <1>8, <1>9, <1>10 DEF Order

LEMMA OrderLengthen ==
  ASSUME TInv, StateHolds, Order, StartLengthen, odd' = {}
  PROVE  Order'
<1> DEFINE more == Least(free, count[seg])
<1>1. more \in Nat
  BY SegFacts DEF Least, TInv, Typed
<1>2. /\ need' = [need EXCEPT ![seg] = @ + more]
      /\ state[seg] # "doing" => ~(more > 0)
      /\ need'[seg] - count[seg] =< Buf - used
      /\ UNCHANGED <<seg, state, count, base, id, used, point, dpc, at, word>>
  <2>1. need' \in [Seg -> Nat] /\ need'[seg] \in Nat
    <3>1. TInv'
      BY TypesKept DEF Next, Start
    <3>2. QED
      BY <3>1, SegFacts DEF TInv, TypeOK
  <2>2. ~(need'[seg] - count[seg] > Buf - used)
    BY DEF StartLengthen
  <2>3. need'[seg] - count[seg] =< Buf - used
    BY <2>1, <2>2, SegFacts
  <2>4. QED
    BY <2>3 DEF StartLengthen, loop
<1> HIDE DEF more
<1>3. \A s \in Seg : s # seg => need'[s] = need[s]
  BY <1>2 DEF TInv, TypeOK
<1>4. state[seg] = "ok" => need'[seg] = need[seg]
  BY <1>1, <1>2, SegFacts DEF TInv, TypeOK
<1>5. ReadyHolds'
  BY <1>2, <1>3, <1>4 DEF Order, ReadyHolds
<1>6. Claimed' = Claimed
  BY <1>2 DEF Claimed
<1>7. UsedHolds'
  BY <1>2, <1>6 DEF Order, UsedHolds
<1>8. QED
  BY <1>2, <1>5, <1>6, <1>7, OrderStill DEF Live

LEMMA OrderAnnounce ==
  ASSUME TInv, StateHolds, IdHolds, Order, Announce, odd' = {}
  PROVE  Order'
<1>1. /\ dpc = "announce" /\ dpc' = "base" /\ state[at] = "ok" /\ Live(at)
      /\ ~(\E s \in Seg : Ready(s) /\ id[s] < id[at])
      /\ UNCHANGED <<segment, used, point, at, word>>
  BY DEF Announce, Loop, StateHolds, Unbound, Live, Copied
<1>2. UNCHANGED <<seg, state, count, need, base, id, used, point, at>>
  BY <1>1 DEF segment
<1>3. \A s \in Seg : Live(s)' <=> Live(s) /\ s # at
  BY <1>1, <1>2 DEF Live, Copied
<1>4. ASSUME NEW s \in Seg, Live(s), s # at PROVE id[at] < id[s]
  <2>1. id[s] # id[at]
    BY <1>1, <1>4, SegFacts DEF IdHolds, Live
  <2>2. CASE state[s] = "ok"
    <3>1. Ready(s)
      BY <2>2 DEF Ready, Order, ReadyHolds
    <3>2. QED
      BY <1>1, <2>1, <3>1, SegFacts
  <2>3. CASE state[s] = "doing"
    <3>1. s = seg
      BY <2>3 DEF StateHolds
    <3>2. id[at] =< id[s]
      BY <1>1, <3>1, SegFacts DEF Order, NewestHolds
    <3>3. QED
      BY <2>1, <3>2, SegFacts
  <2>4. QED
    BY <1>4, <2>2, <2>3 DEF Live, TInv, TypeOK
<1>5. Claimed = used /\ Claimed' = used - count[at]
  BY <1>1, <1>2 DEF Claimed
<1>6. NewestHolds'
  <2>1. ASSUME NEW s \in Seg, Live(s), s # at PROVE Live(seg) /\ seg # at /\ id[s] =< id[seg]
    <3>1. Live(seg) /\ id[s] =< id[seg]
      BY <2>1 DEF Order, NewestHolds
    <3>2. QED
      BY <1>4, <2>1, <3>1, SegFacts
  <2>2. QED
    BY <1>2, <1>3, <2>1, SegFacts DEF NewestHolds
<1>7. PICK begin \in [Seg -> Nat] : Placed(begin)
  BY DEF Order, PlaceHolds
<1>8. \A s \in Seg : begin[s] \in Nat /\ count[s] \in Nat
  BY SegFacts
<1>9. begin[at] + count[at] - begin[at] =< used
  BY <1>1, <1>5, <1>7, SegFacts DEF Placed
<1>10. UsedHolds'
  <2>1. 0 =< used - count[at] /\ used - count[at] =< used
    BY <1>8, <1>9, SegFacts
  <2>2. QED
    BY <1>2, <1>5, <2>1 DEF Order, UsedHolds
<1>11. ASSUME NEW s \in Seg, NEW t \in Seg, Live(s), s # at, Live(t), t # at
       PROVE  /\ id[s] < id[t] => begin[s] + count[s] =< begin[t]
              /\ begin[t] + count[t] - begin[s] =< used - count[at]
  <2>1. id[s] < id[t] => begin[s] + count[s] =< begin[t]
    BY <1>7, <1>11 DEF Placed
  <2>2. begin[at] + count[at] =< begin[s]
    BY <1>1, <1>4, <1>7, <1>11, SegFacts DEF Placed
  <2>3. begin[t] + count[t] - begin[at] =< used
    BY <1>1, <1>5, <1>7, <1>11, SegFacts DEF Placed
  <2>4. QED
    BY <1>8, <2>1, <2>2, <2>3, SegFacts
<1>12. PlaceHolds'
  <2>1. \A s \in Seg : Live(s)' => base'[s] = begin[s] % Buf
    BY <1>2, <1>3, <1>7 DEF Placed
  <2>2. Placed(begin)'
    BY <1>2, <1>3, <1>5, <1>11, <2>1 DEF Placed
  <2>3. QED
    BY <2>2 DEF PlaceHolds
<1>13. ReadyHolds' /\ PointHolds'
  BY <1>2, <1>3 DEF Order, ReadyHolds, PointHolds
<1>14. QED
  BY <1>6, <1>10, <1>12, <1>13 DEF Order

LEMMA OrderClear ==
  ASSUME TInv, StateHolds, Order, ClearBase \/ ClearCount \/ Free
  PROVE  Order'
<1>0. at \in Seg
  BY SegFacts
<1>1. CASE ClearBase
  <2>1. /\ base' = [base EXCEPT ![at] = 0] /\ dpc = "base" /\ dpc' = "count"
        /\ UNCHANGED <<seg, state, count, need, id, used, point, at, word>>
    BY <1>1 DEF ClearBase, Loop
  <2>2. \A s \in Seg : s # at => base'[s] = base[s]
    BY <2>1 DEF TInv, TypeOK
  <2>3. \A s \in Seg : (Live(s)' <=> Live(s)) /\ (Live(s) => s # at)
    BY <2>1 DEF Live, Copied
  <2>4. Claimed' = Claimed
    BY <2>1 DEF Claimed
  <2>5. ReadyHolds' /\ UsedHolds'
    BY <2>1, <2>4 DEF Order, ReadyHolds, UsedHolds
  <2>6. QED
    BY <2>1, <2>2, <2>3, <2>4, <2>5, OrderStill
<1>2. CASE ClearCount
  <2>1. /\ count' = [count EXCEPT ![at] = 0] /\ need' = [need EXCEPT ![at] = 0]
        /\ dpc = "count" /\ dpc' = "free" /\ state[at] = "ok"
        /\ word' = used - count[at]
        /\ UNCHANGED <<seg, state, base, id, used, point, at>>
    BY <1>2 DEF ClearCount, Loop, StateHolds, Unbound
  <2>2. /\ count'[at] = 0 /\ need'[at] = 0
        /\ \A s \in Seg : s # at => count'[s] = count[s] /\ need'[s] = need[s]
    BY <1>0, <2>1 DEF TInv, TypeOK
  <2>3. \A s \in Seg : (Live(s)' <=> Live(s)) /\ (Live(s) => s # at)
    BY <2>1 DEF Live, Copied
  <2>4. Claimed' = Claimed
    BY <2>1 DEF Claimed
  <2>5. ReadyHolds'
    BY <2>1, <2>2 DEF Order, ReadyHolds
  <2>6. UsedHolds'
    <3>1. state[seg] = "doing" => seg # at
      BY <2>1
    <3>2. state[seg] = "doing" => need'[seg] - count'[seg] =< Buf - used
      BY <2>2, <3>1, SegFacts DEF Order, UsedHolds
    <3>3. QED
      BY <2>1, <2>4, <3>2 DEF Order, UsedHolds
  <2>7. QED
    BY <2>1, <2>2, <2>3, <2>4, <2>5, <2>6, OrderStill
<1>3. CASE Free
  <2>1. /\ state' = [state EXCEPT ![at] = "idle"] /\ dpc = "free"
        /\ dpc' \in {"idle", "scan"} /\ Claimed = word
        /\ UNCHANGED <<seg, count, need, base, id, point>>
    BY <1>3 DEF Free, Onward, Claimed
  <2>2. /\ 0 =< word /\ word =< used /\ used' = word
    <3>1. 0 =< word /\ word =< used
      BY <2>1 DEF Order, UsedHolds
    <3>2. ~(word < 0)
      BY <3>1, SegFacts
    <3>3. QED
      BY <1>3, <3>1, <3>2 DEF Free
  <2>3. Claimed' = Claimed
    BY <2>1, <2>2 DEF Claimed
  <2>4. \A s \in Seg : state'[s] = IF s = at THEN "idle" ELSE state[s]
    BY <1>0, <2>1 DEF TInv, TypeOK
  <2>5. \A s \in Seg : Live(s)' <=> Live(s)
    BY <2>1, <2>4 DEF Live, Copied
  <2>6. ReadyHolds'
    BY <2>1, <2>4 DEF Order, ReadyHolds
  <2>7. UsedHolds'
    <3>1. used =< Buf /\ (state'[seg] = "doing" => need[seg] - count[seg] =< Buf - used)
      BY <2>4, SegFacts DEF Order, UsedHolds
    <3>2. used' =< Buf /\ (state'[seg] = "doing" => need[seg] - count[seg] =< Buf - used')
      BY <2>2, <3>1, SegFacts
    <3>3. 0 =< Claimed' /\ Claimed' =< used'
      BY <2>1, <2>2, <2>3, SegFacts
    <3>4. QED
      BY <2>1, <3>2, <3>3 DEF UsedHolds
  <2>8. QED
    BY <2>1, <2>3, <2>5, <2>6, <2>7, OrderStill
<1>4. QED
  BY <1>1, <1>2, <1>3

LEMMA OrderKept ==
  ASSUME TInv, StateHolds, IdHolds, OrderInv, [Next]_vars
  PROVE  OrderInv'
<1> SUFFICES ASSUME odd' = {} PROVE Order'
  BY DEF OrderInv
<1>1. odd = {}
  BY DEF Next, Start, StartTest, StartLengthen, StartNew, Sample, Idle, EvReceive, EvLoad, EvTake, EvSkip,
     Scan,
    CopyFirst, CopySecond, Announce, ClearBase, ClearCount, Free, Linux, Take,
    FileFirst, FileSecond, vars
<1>2. Order
  BY <1>1 DEF OrderInv
<1>3. CASE StartTest \/ Linux \/ UNCHANGED vars
  <2>1. UNCHANGED <<segment, used, point, loop>>
    BY <1>3 DEF StartTest, Linux, Take, FileFirst, FileSecond, vars
  <2>2. UNCHANGED <<seg, state, count, need, base, id, used, point, dpc, at, word>>
    BY <2>1 DEF segment, loop
  <2>3. Claimed' = Claimed
    BY <2>2 DEF Claimed
  <2>4. ReadyHolds' /\ UsedHolds'
    BY <1>2, <2>2, <2>3 DEF Order, ReadyHolds, UsedHolds
  <2>5. QED
    BY <1>2, <2>2, <2>3, <2>4, OrderStill DEF Live
<1>4. CASE EvReceive \/ Scan \/ CopyFirst \/ CopySecond
  <2>1. UNCHANGED <<segment, used, point, word>> /\ dpc \notin Copied /\ dpc' \notin Copied
    BY <1>4 DEF EvReceive, EvLoad, EvTake, EvSkip,
       Scan, CopyFirst, CopySecond, Loop, Onward, Copied
  <2>2. UNCHANGED <<seg, state, count, need, base, id, used, point, word>>
    BY <2>1 DEF segment
  <2>3. Claimed' = Claimed
    BY <2>1, <2>2 DEF Claimed, Copied
  <2>4. ReadyHolds' /\ UsedHolds'
    BY <1>2, <2>2, <2>3 DEF Order, ReadyHolds, UsedHolds
  <2>5. QED
    BY <1>2, <2>1, <2>2, <2>3, <2>4, OrderStill DEF Live
<1>5. CASE Sample
  <2>1. dpc # "free"
    BY <1>5 DEF Sample
  <2>2. QED
    BY <1>2, <1>5, <2>1, OrderSample
<1>6. QED
  BY <1>2, <1>3, <1>4, <1>5, OrderNew, OrderLengthen, OrderAnnounce, OrderClear
    DEF Next, Start, Idle

LEMMA OrderInit == Init => OrderInv
<1> SUFFICES ASSUME Init PROVE Order
  BY DEF OrderInv
<1>1. /\ \A s \in Seg : state[s] = "idle"
      /\ dpc = "idle" /\ used = 0 /\ seg = 0 /\ count = [s \in Seg |-> 0]
      /\ need = [s \in Seg |-> 0]
  BY DEF Init
<1>2. \A s \in Seg : ~Live(s)
  BY <1>1 DEF Live
<1>3. 0 \in Seg /\ Buf > 0
  BY Sizes DEF Seg
<1>4. ReadyHolds /\ NewestHolds /\ PointHolds
  BY <1>1, <1>2 DEF ReadyHolds, NewestHolds, PointHolds
<1>5. UsedHolds
  BY <1>1, <1>3, Sizes DEF UsedHolds, Claimed
<1>6. PlaceHolds
  <2>1. Placed([s \in Seg |-> 0])
    BY <1>2 DEF Placed
  <2>2. [s \in Seg |-> 0] \in [Seg -> Nat]
    OBVIOUS
  <2>3. QED
    BY <2>1, <2>2 DEF PlaceHolds
<1>7. QED
  BY <1>4, <1>5, <1>6 DEF Order

------------------------------------------------------------------------------
(* The records of the ring.                                                *)

\* What has been copied so far, and what has been put into the ring.
HalfHolds ==
  /\ dpc \in {"second", "announce"} => ring[wp][1] = id[at]
  /\ dpc = "announce" => ring[wp][2] = id[at]

PutHolds == \A i \in 1 .. Len(put) : put[i].half = <<put[i].id, put[i].id>>

HalfInv == odd = {} => HalfHolds /\ PutHolds

LEMMA HalfStill ==
  ASSUME HalfHolds, PutHolds, UNCHANGED <<ring, wp, put, at>>,
         dpc' \in {"second", "announce"} => dpc' = dpc /\ id'[at] = id[at]
  PROVE  HalfHolds' /\ PutHolds'
  BY DEF HalfHolds, PutHolds

\* A half of a live segment is of its record.
LEMMA PartIs ==
  ASSUME TInv, Order, Live(at), NEW h \in Half
  PROVE  PartOf(h) = id[at]
<1> DEFINE n == count[at]
           places == IF h = 1 THEN 0 .. (n \div 2) - 1 ELSE n \div 2 .. n - 1
<1>1. n \in Nat /\ at \in Seg
  BY SegFacts
<1>2. n \div 2 \in Nat /\ n \div 2 =< n
  BY <1>1
<1>3. places \subseteq 0 .. n - 1
  BY <1>1, <1>2
<1> HIDE DEF places
<1>4. \A i \in places : point[(base[at] + i) % Buf] = id[at]
  BY <1>1, <1>3 DEF Order, PointHolds
<1>5. {point[(base[at] + i) % Buf] : i \in places} \subseteq {id[at]}
  BY <1>4
<1>6. QED
  BY <1>5 DEF PartOf, places

LEMMA HalfKept ==
  ASSUME TInv, StateHolds, OrderInv, HalfInv, [Next]_vars
  PROVE  HalfInv'
<1> SUFFICES ASSUME odd' = {} PROVE HalfHolds' /\ PutHolds'
  BY DEF HalfInv
<1>1. odd = {}
  BY DEF Next, Start, StartTest, StartLengthen, StartNew, Sample, Idle, EvReceive, EvLoad, EvTake, EvSkip,
     Scan,
    CopyFirst, CopySecond, Announce, ClearBase, ClearCount, Free, Linux, Take,
    FileFirst, FileSecond, vars
<1>2. Order /\ HalfHolds /\ PutHolds
  BY <1>1 DEF OrderInv, HalfInv
<1>3. at \in Seg /\ wp \in Slot /\ ring[wp] \in Halves
  BY SegFacts DEF TInv, TypeOK, Typed
<1>4. CASE StartTest \/ StartLengthen \/ Sample \/ Linux \/ UNCHANGED vars
  BY <1>2, <1>4, HalfStill DEF StartTest, StartLengthen, Sample, Linux, Take,
    FileFirst, FileSecond, vars, segment, loop, shared
<1>5. CASE StartNew
  <2>1. PICK s \in Seg : s = Chosen
    BY ChosenFacts
  <2>2. UNCHANGED <<ring, wp, put, at, dpc>>
    BY <1>5 DEF StartNew, loop, shared
  <2>3. IF state[s] = "idle" THEN \E m : id' = [id EXCEPT ![s] = m] ELSE id' = id
    BY <1>5, <2>1 DEF StartNew, Chosen
  <2>4. dpc \in {"second", "announce"} => state[at] = "ok"
    BY DEF StateHolds, Unbound
  <2>5. dpc \in {"second", "announce"} => id'[at] = id[at]
    BY <1>3, <2>3, <2>4 DEF TInv, TypeOK
  <2>6. QED
    BY <1>2, <2>2, <2>5, HalfStill
<1>6. CASE EvReceive \/ Scan \/ ClearBase \/ ClearCount \/ Free
  <2>1. dpc' \notin {"second", "announce"}
    BY <1>6 DEF EvReceive, EvLoad, EvTake, EvSkip,
       Scan, ClearBase, ClearCount, Free, Loop, Onward
  <2>2. UNCHANGED put
    BY <1>6 DEF EvReceive, EvLoad, EvTake, EvSkip,
       Scan, ClearBase, ClearCount, Free, shared
  <2>3. QED
    BY <1>2, <2>1, <2>2 DEF HalfHolds, PutHolds
<1>7. CASE CopyFirst
  <2>1. /\ dpc = "first" /\ dpc' = "second" /\ UNCHANGED <<id, at, wp, put>>
        /\ ring' = [ring EXCEPT ![wp][1] = PartOf(1)]
    BY <1>7 DEF CopyFirst, Loop, segment
  <2>2. PartOf(1) = id[at]
    <3>1. Live(at) /\ 1 \in Half
      BY <2>1 DEF StateHolds, Unbound, Live, Copied, Half
    <3>2. QED
      BY <1>2, <3>1, PartIs
  <2>3. ring'[wp][1] = id[at]
    BY <1>3, <2>1, <2>2 DEF TInv, Typed, Halves, Half
  <2>4. QED
    BY <1>2, <2>1, <2>3 DEF HalfHolds, PutHolds
<1>8. CASE CopySecond
  <2>1. /\ dpc = "second" /\ dpc' = "announce" /\ UNCHANGED <<id, at, wp, put>>
        /\ ring' = [ring EXCEPT ![wp][2] = PartOf(2)]
    BY <1>8 DEF CopySecond, Loop, segment
  <2>2. PartOf(2) = id[at]
    <3>1. Live(at) /\ 2 \in Half
      BY <2>1 DEF StateHolds, Unbound, Live, Copied, Half
    <3>2. QED
      BY <1>2, <3>1, PartIs
  <2>3. ring'[wp][2] = id[at] /\ ring'[wp][1] = ring[wp][1]
    BY <1>3, <2>1, <2>2 DEF TInv, Typed, Halves, Half
  <2>4. QED
    BY <1>2, <2>1, <2>3 DEF HalfHolds, PutHolds
<1>9. CASE Announce
  <2> DEFINE n == Len(put)
             r == [id |-> id[at], half |-> ring[wp]]
  <2>1. put' = Append(put, r) /\ dpc = "announce" /\ dpc' = "base"
    BY <1>9 DEF Announce, Loop
  <2>2. n \in Nat /\ put \in Seq(Record) /\ r \in Record
    BY <1>3, SegFacts DEF TInv, Typed, Record
  <2>3. /\ Len(put') = n + 1 /\ put'[n + 1] = r
        /\ \A i \in 1 .. n : put'[i] = put[i]
    BY <2>1, <2>2, AppendProperties
  <2>4. ring[wp] = <<id[at], id[at]>>
    BY <1>2, <1>3, <2>1, PairIs DEF HalfHolds
  <2>5. r.half = <<r.id, r.id>>
    BY <2>4
  <2> HIDE DEF r
  <2>6. ASSUME NEW i \in 1 .. n + 1 PROVE put'[i].half = <<put'[i].id, put'[i].id>>
    <3>1. i = n + 1 \/ i \in 1 .. n
      BY <2>2
    <3>2. QED
      BY <1>2, <2>3, <2>5, <3>1 DEF PutHolds
  <2>7. QED
    BY <2>1, <2>3, <2>6 DEF HalfHolds, PutHolds
<1>10. QED
  BY <1>4, <1>5, <1>6, <1>7, <1>8, <1>9 DEF Next, Start, Idle

\* A record is put into the ring once, and it holds its own points only, in
\* whatever order records are started, finished, copied and cleared, unless one
\* of the oddities has happened.
THEOREM RecordsWhole == Spec => []RecordIntact
<1> DEFINE IInv == TInv /\ StateHolds /\ IdHolds /\ OrderInv /\ HalfInv
<1>1. Init => IInv
  <2> SUFFICES ASSUME Init PROVE IInv
    OBVIOUS
  <2>1. put = << >> /\ dpc = "idle"
    BY DEF Init
  <2>2. StateHolds
    BY DEF Init, StateHolds, Unbound
  <2>3. \A s \in Seg : state[s] = "idle" /\ ~Live(s) /\ id[s] =< made
    BY DEF Init, Live
  <2>4. IdHolds
    BY <2>1, <2>3 DEF IdHolds
  <2>5. HalfInv
    BY <2>1 DEF HalfInv, HalfHolds, PutHolds
  <2>6. QED
    BY <2>2, <2>4, <2>5, InitTypes, OrderInit
<1>2. IInv /\ [Next]_vars => IInv'
  BY TypesKept, StateKept, IdKept, OrderKept, HalfKept
<1>3. IInv => RecordIntact
  BY PutOnce DEF HalfInv, PutHolds, RecordIntact
<1>4. QED
  BY <1>1, <1>2, <1>3, PTL DEF Spec
===============================================================================
