------------------------- MODULE SharedMemory_proofs --------------------------
(* Proofs about what core 1 tells Linux in shared memory: the time         *)
(* (SharedTime), and the events and the image of the inputs (ShareSoe).     *)
(* The two share no state.                                                  *)
EXTENDS SharedTime, ShareSoe, SequenceTheorems, TLAPS

------------------------------------------------------------------------------
(* The time, for every number of microseconds in a second, of tries and of  *)
(* times.                                                                  *)

\* The words of time t as the memory holds them: before the first store of a
\* time it holds 0.
HiOf(t) == IF t = Base THEN 0 ELSE Hi(t)
LoOf(t) == IF t = Base THEN 0 ELSE Lo(t)

\* The time that the i-th word is of, and the time that all of fdt1 is of.
Newest(i) == IF stored >= i THEN clock ELSE clock - 1
First     == Newest(2)

SharedHolds ==
  /\ clock = Base => stored = 4
  /\ shared["hi1"] = HiOf(Newest(1)) /\ shared["lo1"] = LoOf(Newest(2))
  /\ shared["hi2"] = HiOf(Newest(3)) /\ shared["lo2"] = LoOf(Newest(4))

\* What a call found complete when it began is no newer than fdt1.
SinceHolds ==
  try > 0 => /\ since = 0 \/ since \in Base + 1 .. First
             /\ loaded > 0 /\ read["hi1"] = 0 => since = 0

\* What a try has read, unless fdt1 was completed meanwhile: hi1 may be ahead
\* of the rest of fdt1, but then fdt2 is what fdt1 was.
ReadHolds ==
  try > 0 /\ ~crossed =>
    /\ loaded > 0 /\ read["hi1"] # HiOf(First) => stored = 1 /\ clock > Base
    /\ loaded > 1 => read["lo1"] = LoOf(First)
    /\ loaded > 2 /\ read["hi1"] # HiOf(First) => read["hi2"] = HiOf(First)

\* A try that was not disturbed has read what the memory holds, and no time is
\* half stored; the tries before were disturbed.
DisturbedHolds ==
  try > 0 =>
    /\ \A k \in 1 .. try - 1 : k \in disturbed
    /\ loaded > 0 /\ try \notin disturbed =>
         /\ stored \in {0, 4}
         /\ \A i \in 1 .. 4 : i =< loaded => read[Words[i]] = shared[Words[i]]

TimeInv == /\ TimeTypeOK /\ SharedHolds /\ SinceHolds /\ ReadHolds /\ DisturbedHolds
        /\ TimeRightUnlessCrossed /\ FailsOnlyIfDisturbed
-------------------------------------------------------------------------------
\* What the words of a time are, and that they determine it.
LEMMA WordFacts ==
  ASSUME NEW t \in Base .. MaxTime
  PROVE  /\ HiOf(t) \in Nat /\ LoOf(t) \in Nat
         /\ t > Base => HiOf(t) > 0 /\ Time(HiOf(t), LoOf(t)) = t
         /\ t = Base => HiOf(t) = 0 /\ LoOf(t) = 0
<1>1. t \in Nat /\ Base \in Nat /\ Base > 0 /\ t >= Base
  BY TimeAssumption
<1>2. t = (t \div Base) * Base + (t % Base)
  BY <1>1, SMT
<1>3. t \div Base \in Nat /\ t % Base \in Nat
  BY <1>1, SMT
<1>4. t \div Base > 0
  BY <1>1, SMT
<1>5. QED
  BY <1>1, <1>2, <1>3, <1>4 DEF HiOf, LoOf, Hi, Lo, Time

LEMMA WordNames ==
  /\ Word = {"hi1", "lo1", "hi2", "lo2"}
  /\ Words[1] = "hi1" /\ Words[2] = "lo1" /\ Words[3] = "hi2" /\ Words[4] = "lo2"
<1>1. Words[1] = "hi1" /\ Words[2] = "lo1" /\ Words[3] = "hi2" /\ Words[4] = "lo2"
  BY DEF Words
<1>2. QED
  BY <1>1, 1 .. 4 = {1, 2, 3, 4} DEF Word

\* The invariant holds at the start.
LEMMA InitHolds == TimeInit => TimeInv
<1> SUFFICES ASSUME TimeInit PROVE TimeInv
  OBVIOUS
<1>1. TimeTypeOK
  <2>1. shared \in [Word -> Nat] /\ read \in [Word -> Nat]
    BY DEF TimeInit
  <2>2. crossed \in BOOLEAN /\ disturbed \subseteq 1 .. Tries
    BY DEF TimeInit
  <2>3. /\ clock \in Base .. MaxTime /\ try \in 0 .. Tries /\ since \in 0 .. MaxTime
        /\ stored \in 0 .. 4 /\ loaded \in 0 .. 4 /\ result \in Nat
    BY TimeAssumption DEF TimeInit, None
  <2>4. QED
    BY <2>1, <2>2, <2>3 DEF TimeTypeOK
<1>2. SharedHolds
  BY WordNames, TimeAssumption DEF TimeInit, SharedHolds, Newest, HiOf, LoOf
<1>3. QED
  BY <1>1, <1>2 DEF TimeInit, TimeInv, SinceHolds, ReadHolds, DisturbedHolds, TimeRightUnlessCrossed,
     TimeRight, Returned, FailsOnlyIfDisturbed, None, Failed

\* Core 1 begins to store the next time.
LEMMA AdvanceKeeps == TimeInv /\ Advance => TimeInv'
<1> SUFFICES ASSUME TimeInv, Advance PROVE TimeInv'
  OBVIOUS
<1>1. /\ clock \in Base .. MaxTime /\ clock < MaxTime /\ stored = 4
      /\ clock' = clock + 1 /\ stored' = 0
      /\ Base \in Nat /\ MaxTime \in Nat
  BY TimeAssumption DEF TimeInv, TimeTypeOK, Advance
<1>2. UNCHANGED <<shared, call, crossed, disturbed>>
  BY DEF Advance
<1>3. \A i \in 1 .. 4 : Newest(i) = clock /\ Newest(i)' = clock
  BY <1>1 DEF Newest
<1>4. First' = First
  BY <1>3 DEF First
<1>5. TimeTypeOK'
  BY <1>1, <1>2 DEF TimeInv, TimeTypeOK, call
<1>6. SharedHolds'
  BY <1>1, <1>2, <1>3 DEF TimeInv, SharedHolds, HiOf, LoOf
<1>7. SinceHolds' /\ ReadHolds' /\ DisturbedHolds'
  BY <1>1, <1>2, <1>4 DEF TimeInv, SinceHolds, ReadHolds, DisturbedHolds, call, HiOf, LoOf
<1>8. TimeRightUnlessCrossed' /\ FailsOnlyIfDisturbed'
  BY <1>1, <1>2 DEF TimeInv, TimeTypeOK, TimeRightUnlessCrossed, TimeRight, Returned,
     FailsOnlyIfDisturbed, call, None, Failed
<1>9. QED
  BY <1>5, <1>6, <1>7, <1>8 DEF TimeInv

\* Core 1 stores a word.
LEMMA StoreKeeps == TimeInv /\ Store => TimeInv'
<1> SUFFICES ASSUME TimeInv, Store PROVE TimeInv'
  OBVIOUS
<1> DEFINE v == IF stored % 2 = 0 THEN Hi(clock) ELSE Lo(clock)
<1>1. /\ clock \in Base .. MaxTime /\ stored \in 0 .. 3 /\ clock # Base
      /\ clock' = clock /\ stored' = stored + 1
      /\ Base \in Nat /\ MaxTime \in Nat
  BY TimeAssumption DEF TimeInv, TimeTypeOK, SharedHolds, Store
<1>2. /\ UNCHANGED call
      /\ crossed' = (crossed \/ stored = 1)
      /\ disturbed' = disturbed \cup ({try} \ {0})
      /\ shared' = [shared EXCEPT ![Words[stored + 1]] = v]
  BY DEF Store
<1>3. /\ shared \in [Word -> Nat] /\ try \in 0 .. Tries /\ Tries \in Nat
      /\ crossed \in BOOLEAN
  BY TimeAssumption DEF TimeInv, TimeTypeOK
<1>4. /\ stored \in {0, 2} => v = HiOf(clock)
      /\ stored \in {1, 3} => v = LoOf(clock)
  BY <1>1 DEF HiOf, LoOf
<1>5. v \in Nat
  BY <1>1, <1>4, WordFacts
<1> HIDE DEF v
<1>6. TimeTypeOK'
  <2>1. shared' \in [Word -> Nat]
    BY <1>2, <1>3, <1>5
  <2>2. disturbed' \subseteq 1 .. Tries
    BY <1>2, <1>3 DEF TimeInv, TimeTypeOK
  <2>3. stored' \in 0 .. 4 /\ crossed' \in BOOLEAN
    BY <1>1, <1>2, <1>3
  <2>4. QED
    BY <1>1, <1>2, <2>1, <2>2, <2>3 DEF TimeInv, TimeTypeOK, call
<1>7. SharedHolds'
  BY <1>1, <1>2, <1>3, <1>4, WordNames DEF TimeInv, SharedHolds, Newest, HiOf, LoOf
<1>8. crossed' \/ First' = First
  <2>1. CASE stored = 1
    BY <2>1, <1>2
  <2>2. CASE stored # 1
    BY <2>2, <1>1 DEF First, Newest
  <2>3. QED
    BY <2>1, <2>2
<1>9. SinceHolds'
  BY <1>1, <1>2 DEF TimeInv, SinceHolds, First, Newest, call
<1>10. ReadHolds'
  BY <1>1, <1>2, <1>3, <1>8 DEF TimeInv, ReadHolds, call, HiOf, LoOf
<1>11. DisturbedHolds'
  BY <1>1, <1>2, <1>3 DEF TimeInv, DisturbedHolds, call
<1>12. TimeRightUnlessCrossed'
  BY <1>1, <1>2, <1>3 DEF TimeInv, TimeRightUnlessCrossed, TimeRight, Returned, call
<1>13. FailsOnlyIfDisturbed'
  BY <1>1, <1>2, <1>3 DEF TimeInv, FailsOnlyIfDisturbed, call
<1>14. QED
  BY <1>6, <1>7, <1>9, <1>10, <1>11, <1>12, <1>13 DEF TimeInv

-------------------------------------------------------------------------------
(* Linux.                                                                  *)

LEMMA BeginKeeps == TimeInv /\ BeginRead => TimeInv'
<1> SUFFICES ASSUME TimeInv, BeginRead PROVE TimeInv'
  OBVIOUS
<1>1. /\ clock \in Base .. MaxTime /\ stored \in 0 .. 4
      /\ Base \in Nat /\ MaxTime \in Nat /\ MaxTime >= Base
      /\ Tries \in Nat /\ Tries > 0
  BY TimeAssumption DEF TimeInv, TimeTypeOK
<1>2. /\ try' = 1 /\ loaded' = 0 /\ since' = Complete /\ result' = None
      /\ crossed' = FALSE /\ disturbed' = {}
      /\ UNCHANGED <<clock, stored, shared, read>>
  BY DEF BeginRead
<1>3. First' = First
  BY <1>2 DEF First, Newest
<1>4. Complete = 0 \/ Complete \in Base + 1 .. First
  <2>1. CASE stored = 4
    <3>1. shared["hi2"] = HiOf(clock) /\ shared["lo2"] = LoOf(clock)
      BY <2>1, <1>1 DEF TimeInv, SharedHolds, Newest
    <3>2. CASE clock > Base
      BY <2>1, <3>1, <3>2, <1>1, WordFacts DEF Complete, First, Newest
    <3>3. CASE clock = Base
      <4>1. shared["hi2"] = 0 /\ shared["lo2"] = 0
        BY <3>1, <3>3, <1>1, WordFacts
      <4>2. QED
        BY <4>1, <2>1, <1>1 DEF Complete, Time
    <3>4. QED
      BY <3>2, <3>3, <1>1
  <2>2. CASE stored # 4
    <3>1. clock # Base
      BY <2>2 DEF TimeInv, SharedHolds
    <3>2. QED
      BY <2>2, <3>1, <1>1 DEF Complete, First, Newest
  <2>3. QED
    BY <2>1, <2>2
<1>5. First \in Nat /\ First =< MaxTime
  BY <1>1 DEF First, Newest, TimeInv, SharedHolds
<1>6. TimeTypeOK'
  <2>1. crossed' \in BOOLEAN /\ disturbed' \subseteq 1 .. Tries
    BY <1>2
  <2>2. try' \in 0 .. Tries /\ since' \in 0 .. MaxTime /\ result' \in Nat
    BY <1>1, <1>2, <1>4, <1>5 DEF None
  <2>3. QED
    BY <1>1, <1>2, <2>1, <2>2 DEF TimeInv, TimeTypeOK
<1>7. SharedHolds'
  BY <1>2 DEF TimeInv, SharedHolds, Newest
<1>8. SinceHolds' /\ ReadHolds' /\ DisturbedHolds'
  BY <1>2, <1>3, <1>4 DEF SinceHolds, ReadHolds, DisturbedHolds
<1>9. TimeRightUnlessCrossed' /\ FailsOnlyIfDisturbed'
  BY <1>2 DEF TimeRightUnlessCrossed, TimeRight, Returned, FailsOnlyIfDisturbed
<1>10. QED
  BY <1>6, <1>7, <1>8, <1>9 DEF TimeInv

LEMMA LoadKeeps == TimeInv /\ Load => TimeInv'
<1> SUFFICES ASSUME TimeInv, Load PROVE TimeInv'
  OBVIOUS
<1>1. /\ clock \in Base .. MaxTime /\ stored \in 0 .. 4
      /\ Base \in Nat /\ MaxTime \in Nat /\ MaxTime >= Base
      /\ loaded \in 0 .. 3 /\ try \in 1 .. Tries /\ Tries \in Nat
      /\ read \in [Word -> Nat] /\ shared \in [Word -> Nat]
  BY TimeAssumption DEF TimeInv, TimeTypeOK, Load
<1>2. /\ loaded' = loaded + 1
      /\ read' = [read EXCEPT ![Words[loaded + 1]] = shared[Words[loaded + 1]]]
      /\ disturbed' = IF stored < 4 THEN disturbed \cup {try} ELSE disturbed
      /\ UNCHANGED <<clock, stored, shared, try, result, since, crossed>>
  BY DEF Load
<1>3. First' = First
  BY <1>2 DEF First, Newest
<1>4. Words[loaded + 1] \in Word
  BY <1>1 DEF Word
<1>5. TimeTypeOK'
  <2>1. read' \in [Word -> Nat]
    BY <1>1, <1>2, <1>4
  <2>2. disturbed' \subseteq 1 .. Tries
    BY <1>1, <1>2 DEF TimeInv, TimeTypeOK
  <2>3. QED
    BY <1>1, <1>2, <2>1, <2>2 DEF TimeInv, TimeTypeOK
<1>6. SharedHolds'
  BY <1>2 DEF TimeInv, SharedHolds, Newest
<1>7. SinceHolds'
  <2>1. shared["hi1"] = HiOf(Newest(1))
    BY DEF TimeInv, SharedHolds
  <2>2. Newest(1) \in Base .. MaxTime
    BY <1>1 DEF Newest, TimeInv, SharedHolds
  <2>3. shared["hi1"] = 0 => Newest(1) = Base
    BY <2>1, <2>2, <1>1, WordFacts
  <2>4. shared["hi1"] = 0 => First = Base
    BY <2>3, <1>1 DEF First, Newest, TimeInv, SharedHolds
  <2>5. CASE loaded = 0
    <3>1. read'["hi1"] = shared["hi1"]
      BY <2>5, <1>1, <1>2, WordNames
    <3>2. QED
      BY <3>1, <2>4, <1>1, <1>2, <1>3 DEF TimeInv, SinceHolds
  <2>6. CASE loaded > 0
    <3>1. read'["hi1"] = read["hi1"]
      BY <2>6, <1>1, <1>2, WordNames
    <3>2. QED
      BY <3>1, <2>6, <1>1, <1>2, <1>3 DEF TimeInv, SinceHolds
  <2>7. QED
    BY <2>5, <2>6, <1>1
<1>8. ReadHolds'
  <2> SUFFICES ASSUME ~crossed
               PROVE  /\ read'["hi1"] # HiOf(First) => stored = 1 /\ clock > Base
                      /\ loaded' > 1 => read'["lo1"] = LoOf(First)
                      /\ loaded' > 2 /\ read'["hi1"] # HiOf(First)
                           => read'["hi2"] = HiOf(First)
    BY <1>1, <1>2, <1>3 DEF ReadHolds, HiOf, LoOf
  <2>1. CASE loaded = 0
    <3>1. read'["hi1"] = HiOf(Newest(1))
      BY <2>1, <1>1, <1>2, WordNames DEF TimeInv, SharedHolds
    <3>2. Newest(1) # First => stored = 1 /\ clock > Base
      BY <1>1 DEF First, Newest, TimeInv, SharedHolds
    <3>3. QED
      BY <2>1, <3>1, <3>2, <1>2
  <2>2. CASE loaded = 1
    <3>1. read'["hi1"] = read["hi1"] /\ read'["lo1"] = shared["lo1"]
      BY <2>2, <1>1, <1>2, WordNames
    <3>2. QED
      BY <2>2, <3>1, <1>1, <1>2 DEF TimeInv, ReadHolds, SharedHolds, First
  <2>3. CASE loaded = 2
    <3>1. /\ read'["hi1"] = read["hi1"] /\ read'["lo1"] = read["lo1"]
          /\ read'["hi2"] = shared["hi2"]
      BY <2>3, <1>1, <1>2, WordNames
    <3>2. stored = 1 => Newest(3) = First
      BY DEF First, Newest
    <3>3. QED
      BY <2>3, <3>1, <3>2, <1>1, <1>2 DEF TimeInv, ReadHolds, SharedHolds
  <2>4. CASE loaded = 3
    <3>1. /\ read'["hi1"] = read["hi1"] /\ read'["lo1"] = read["lo1"]
          /\ read'["hi2"] = read["hi2"]
      BY <2>4, <1>1, <1>2, WordNames
    <3>2. QED
      BY <2>4, <3>1, <1>1, <1>2 DEF TimeInv, ReadHolds
  <2>5. QED
    BY <2>1, <2>2, <2>3, <2>4, <1>1
<1>9. DisturbedHolds'
  <2> SUFFICES ASSUME try \notin disturbed'
               PROVE  /\ stored = 4
                      /\ \A i \in 1 .. 4 :
                           i =< loaded' => read'[Words[i]] = shared[Words[i]]
    BY <1>1, <1>2 DEF TimeInv, DisturbedHolds
  <2>1. stored = 4 /\ try \notin disturbed
    BY <1>1, <1>2
  <2>2. ASSUME NEW i \in 1 .. 4, i =< loaded
        PROVE  read'[Words[i]] = shared[Words[i]]
    <3>1. read[Words[i]] = shared[Words[i]]
      BY <2>1, <2>2, <1>1 DEF TimeInv, DisturbedHolds
    <3>2. Words[i] \in Word
      BY DEF Word
    <3>3. QED
      BY <3>1, <3>2, <1>1, <1>2, <1>4
  <2>3. read'[Words[loaded + 1]] = shared[Words[loaded + 1]]
    BY <1>1, <1>2, <1>4
  <2>4. QED
    BY <2>1, <2>2, <2>3, <1>1, <1>2
<1>10. TimeRightUnlessCrossed' /\ FailsOnlyIfDisturbed'
  BY <1>1, <1>2 DEF TimeRightUnlessCrossed, TimeRight, Returned, FailsOnlyIfDisturbed
<1>11. QED
  BY <1>5, <1>6, <1>7, <1>8, <1>9, <1>10 DEF TimeInv

\* A time is returned.
LEMMA AcceptKeeps == TimeInv /\ Accept => TimeInv'
<1> SUFFICES ASSUME TimeInv, Accept PROVE TimeInv'
  OBVIOUS
<1>1. /\ clock \in Base .. MaxTime /\ stored \in 0 .. 4
      /\ Base \in Nat /\ MaxTime \in Nat /\ MaxTime >= Base
      /\ loaded = 4 /\ try \in 1 .. Tries /\ Tries \in Nat
      /\ read \in [Word -> Nat]
  BY TimeAssumption DEF TimeInv, TimeTypeOK, Accept
<1>2. /\ try' = 0 /\ result' = Time(read["hi1"], read["lo1"])
      /\ UNCHANGED <<clock, stored, shared, read, loaded, since, crossed, disturbed>>
  BY DEF Accept, Return
<1>3. read["hi1"] > 0 /\ read["hi1"] = read["hi2"] /\ read["lo1"] = read["lo2"]
  BY DEF Accept, Valid, Same
<1>4. First \in Base .. MaxTime /\ First =< clock
  BY <1>1 DEF First, Newest, TimeInv, SharedHolds
<1>5. crossed \/ result' \in since .. clock
  <2> SUFFICES ASSUME ~crossed PROVE result' \in since .. clock
    OBVIOUS
  <2>1. read["hi1"] = HiOf(First) /\ read["lo1"] = LoOf(First)
    BY <1>1, <1>3 DEF TimeInv, ReadHolds
  <2>2. First > Base
    <3>1. First = Base => HiOf(First) = 0
      BY DEF HiOf
    <3>2. QED
      BY <3>1, <2>1, <1>1, <1>3, <1>4
  <2>3. result' = First
    BY <2>1, <2>2, <1>1, <1>2, <1>4, WordFacts
  <2>4. QED
    BY <2>3, <1>1, <1>4 DEF TimeInv, SinceHolds, TimeTypeOK
<1>6. result' \in Nat /\ result' # Failed
  <2>1. /\ read["hi1"] \in Nat \ {0} /\ read["lo1"] \in Nat
        /\ Base \in Nat /\ Base > 1
    BY <1>1, <1>3, WordNames, TimeAssumption
  <2>2. read["hi1"] * Base \in Nat /\ read["hi1"] * Base >= Base
    BY <2>1, SMT
  <2>3. QED
    BY <2>1, <2>2, <1>2 DEF Time, Failed
<1>7. TimeTypeOK'
  BY <1>1, <1>2, <1>6 DEF TimeInv, TimeTypeOK
<1>8. SharedHolds' /\ SinceHolds' /\ ReadHolds' /\ DisturbedHolds'
  BY <1>2 DEF TimeInv, SharedHolds, Newest, SinceHolds, ReadHolds, DisturbedHolds, HiOf, LoOf
<1>9. TimeRightUnlessCrossed' /\ FailsOnlyIfDisturbed'
  BY <1>2, <1>5, <1>6 DEF TimeRightUnlessCrossed, TimeRight, Returned, FailsOnlyIfDisturbed
<1>10. QED
  BY <1>7, <1>8, <1>9 DEF TimeInv

\* If the two copies differ the try was disturbed.
LEMMA DifferentOnlyIfDisturbed ==
  ASSUME TimeInv, try > 0, loaded = 4, ~Same
  PROVE  try \in disturbed
<1> SUFFICES ASSUME try \notin disturbed PROVE Same
  OBVIOUS
<1>1. stored \in {0, 4} /\ \A i \in 1 .. 4 : read[Words[i]] = shared[Words[i]]
  BY DEF TimeInv, DisturbedHolds
<1>2. /\ read["hi1"] = shared["hi1"] /\ read["lo1"] = shared["lo1"]
      /\ read["hi2"] = shared["hi2"] /\ read["lo2"] = shared["lo2"]
  BY <1>1, WordNames
<1>3. Newest(1) = Newest(3) /\ Newest(2) = Newest(4)
  BY <1>1 DEF Newest
<1>4. QED
  BY <1>2, <1>3 DEF Same, TimeInv, SharedHolds

LEMMA GiveUpKeeps == TimeInv /\ GiveUp => TimeInv'
<1> SUFFICES ASSUME TimeInv, GiveUp PROVE TimeInv'
  OBVIOUS
<1>1. /\ loaded = 4 /\ try \in 1 .. Tries /\ Tries \in Nat
      /\ read \in [Word -> Nat]
  BY TimeAssumption DEF TimeInv, TimeTypeOK, GiveUp
<1>2. /\ try' = 0 /\ result' = Failed
      /\ UNCHANGED <<clock, stored, shared, read, loaded, since, crossed, disturbed>>
  BY DEF GiveUp, Return
<1>3. since = 0 \/ disturbed = 1 .. Tries
  <2>1. CASE ~Valid
    <3>1. read["hi1"] = 0
      BY <2>1, <1>1, WordNames DEF Valid
    <3>2. QED
      BY <3>1, <1>1 DEF TimeInv, SinceHolds
  <2>2. CASE ~Same /\ try = Tries
    <3>1. try \in disturbed
      BY <2>2, <1>1, DifferentOnlyIfDisturbed
    <3>2. \A k \in 1 .. Tries : k \in disturbed
      BY <2>2, <3>1, <1>1 DEF TimeInv, DisturbedHolds
    <3>3. QED
      BY <3>2 DEF TimeInv, TimeTypeOK
  <2>3. QED
    BY <2>1, <2>2 DEF GiveUp
<1>4. TimeTypeOK'
  BY <1>1, <1>2 DEF TimeInv, TimeTypeOK, Failed
<1>5. SharedHolds' /\ SinceHolds' /\ ReadHolds' /\ DisturbedHolds'
  BY <1>2 DEF TimeInv, SharedHolds, Newest, SinceHolds, ReadHolds, DisturbedHolds, HiOf, LoOf
<1>6. TimeRightUnlessCrossed' /\ FailsOnlyIfDisturbed'
  BY <1>2, <1>3 DEF TimeRightUnlessCrossed, TimeRight, Returned, FailsOnlyIfDisturbed
<1>7. QED
  BY <1>4, <1>5, <1>6 DEF TimeInv

LEMMA RetryKeeps == TimeInv /\ Retry => TimeInv'
<1> SUFFICES ASSUME TimeInv, Retry PROVE TimeInv'
  OBVIOUS
<1>1. /\ loaded = 4 /\ try \in 1 .. Tries /\ try < Tries /\ Tries \in Nat
  BY TimeAssumption DEF TimeInv, TimeTypeOK, Retry
<1>2. /\ try' = try + 1 /\ loaded' = 0 /\ crossed' = FALSE
      /\ UNCHANGED <<clock, stored, shared, read, result, since, disturbed>>
  BY DEF Retry
<1>3. try \in disturbed
  BY <1>1, DifferentOnlyIfDisturbed DEF Retry
<1>4. TimeTypeOK'
  <2>1. crossed' \in BOOLEAN
    BY <1>2
  <2>2. QED
    BY <1>1, <1>2, <2>1 DEF TimeInv, TimeTypeOK
<1>5. SharedHolds' /\ ReadHolds'
  BY <1>1, <1>2 DEF TimeInv, SharedHolds, Newest, ReadHolds
<1>6. First' = First
  BY <1>2 DEF First, Newest
<1>7. SinceHolds'
  BY <1>1, <1>2, <1>6 DEF TimeInv, SinceHolds
<1>8. DisturbedHolds'
  BY <1>1, <1>2, <1>3 DEF TimeInv, DisturbedHolds
<1>9. TimeRightUnlessCrossed' /\ FailsOnlyIfDisturbed'
  BY <1>1, <1>2 DEF TimeRightUnlessCrossed, TimeRight, Returned, FailsOnlyIfDisturbed
<1>10. QED
  BY <1>4, <1>5, <1>7, <1>8, <1>9 DEF TimeInv

-------------------------------------------------------------------------------
\* The invariant holds in every state of every behaviour.
THEOREM Invariance == TimeSpec => []TimeInv
<1>1. TimeInv /\ [TimeNext]_timeVars => TimeInv'
  <2> SUFFICES ASSUME TimeInv, [TimeNext]_timeVars PROVE TimeInv'
    OBVIOUS
  <2>1. CASE Advance \/ Store
    BY <2>1, AdvanceKeeps, StoreKeeps
  <2>2. CASE BeginRead \/ Load
    BY <2>2, BeginKeeps, LoadKeeps
  <2>3. CASE Accept \/ GiveUp \/ Retry
    BY <2>3, AcceptKeeps, GiveUpKeeps, RetryKeeps
  <2>4. CASE UNCHANGED timeVars
    BY <2>4 DEF timeVars, call, TimeInv, TimeTypeOK, SharedHolds, SinceHolds, ReadHolds, DisturbedHolds,
       First, Newest, TimeRightUnlessCrossed, TimeRight, Returned, FailsOnlyIfDisturbed,
       HiOf, LoOf
  <2>5. QED
    BY <2>1, <2>2, <2>3, <2>4 DEF TimeNext
<1>2. QED
  BY InitHolds, <1>1, PTL DEF TimeSpec

\* The words and counters stay in their types.
THEOREM TimeTypeCorrect == TimeSpec => []TimeTypeOK
<1>1. TimeInv => TimeTypeOK
  BY DEF TimeInv
<1>2. QED
  BY <1>1, Invariance, PTL

\* GetBMSharedDateTime returns a time the clock has shown during the call,
\* unless core 1 completed fdt1 within the try that was accepted.
THEOREM RightUnlessCrossed == TimeSpec => []TimeRightUnlessCrossed
<1>1. TimeInv => TimeRightUnlessCrossed
  BY DEF TimeInv
<1>2. QED
  BY <1>1, Invariance, PTL

\* GetBMSharedDateTime fails only before the first time was stored, or if a
\* store overlapped each of its tries.
THEOREM FailureExcused == TimeSpec => []FailsOnlyIfDisturbed
<1>1. TimeInv => FailsOnlyIfDisturbed
  BY DEF TimeInv
<1>2. QED
  BY <1>1, Invariance, PTL

------------------------------------------------------------------------------
(* The event ring and the image, for every size of the ring, number of     *)
(* points and events, and every interval between two copies of the image.  *)

\* The events Linux has taken out of the ring, and those still in it.
Taken   == IF rpc = "file" THEN Len(filed) + 1 ELSE Len(filed)
Pending == Len(sent) - Taken

\* The slot of the i-th pending event.
At(i) == IF rp + i < Num THEN rp + i ELSE rp + i - Num

\* The ring holds the pending events, in order.
RingHolds ==
  /\ Taken =< Len(sent) /\ Pending < Num
  /\ wp = At(Pending)
  /\ \A i \in Slot : i < Pending => soe[At(i)] = sent[Taken + 1 + i]

\* What core 1 has written of its event.
WriterHolds ==
  /\ wpc = "value" => soe[wp].no = ev.no
  /\ wpc = "advance" => soe[wp] = ev

\* What Linux has read of the oldest event.
ReaderHolds ==
  /\ rpc \in {"no", "value"} => Pending > 0
  /\ rpc = "value" => reg.no = sent[Taken + 1].no
  /\ rpc = "file" => reg = sent[Taken]

FiledHolds == \A i \in 1 .. Len(filed) : filed[i] = sent[i]

\* The events of all changes, the one being written included.
Changes == IF wpc = "idle" THEN sent ELSE Append(sent, ev)

\* The last change of a point is what the image shows.
ImageHolds ==
  \A p \in Point, i \in 1 .. Len(Changes) :
    /\ Changes[i].no = p
    /\ \A j \in i + 1 .. Len(Changes) : Changes[j].no # p
    => Changes[i].value = image[p]

\* A point without a change that Linux has not filed is right in the data
\* base, and right in the hands of a copy of the image.
DbHolds ==
  \A p \in Point :
    (\A i \in Len(filed) + 1 .. Len(Changes) : Changes[i].no # p) =>
      /\ db[p] = image[p]
      /\ rpc = "store" /\ next = p => reg.value = image[p]

Sound == /\ RingHolds /\ WriterHolds /\ ReaderHolds /\ FiledHolds
         /\ ImageHolds /\ DbHolds

IInv == TypeOK /\ (overrun \/ Sound)

-------------------------------------------------------------------------------
\* The sequences are sequences of events, and appending behaves as expected.
LEMMA SeqFacts ==
  ASSUME TypeOK
  PROVE  /\ Len(sent) \in Nat /\ Len(filed) \in Nat
         /\ \A i \in 1 .. Len(sent) : sent[i] \in Event
         /\ \A e \in Event : /\ Append(sent, e) \in Seq(Event)
                             /\ Len(Append(sent, e)) = Len(sent) + 1
                             /\ Append(sent, e)[Len(sent) + 1] = e
                             /\ \A i \in 1 .. Len(sent) :
                                  Append(sent, e)[i] = sent[i]
         /\ \A e \in Event : /\ Append(filed, e) \in Seq(Event)
                             /\ Len(Append(filed, e)) = Len(filed) + 1
                             /\ Append(filed, e)[Len(filed) + 1] = e
                             /\ \A i \in 1 .. Len(filed) :
                                  Append(filed, e)[i] = filed[i]
<1>1. sent \in Seq(Event) /\ filed \in Seq(Event)
  BY DEF TypeOK
<1>2. \A i \in 1 .. Len(sent) : sent[i] \in Event
  BY <1>1, ElementOfSeq
<1> QED BY <1>1, <1>2, AppendProperties, LenProperties

\* The index after i.
LEMMA SuccFact ==
  ASSUME NEW i \in Slot
  PROVE  /\ Succ(i) = IF i + 1 < Num THEN i + 1 ELSE 0
         /\ Succ(i) \in Slot
<1>1. CASE i + 1 < Num
  BY <1>1, ShareAssumption DEF Succ, Slot
<1>2. CASE i + 1 = Num
  BY <1>2, ShareAssumption DEF Succ, Slot
<1> QED BY <1>1, <1>2, ShareAssumption DEF Slot

\* Slot indices stay in the ring, At walks round it.
LEMMA AtFacts ==
  ASSUME TypeOK
  PROVE  /\ \A i \in Slot : At(i) \in Slot
         /\ \A i, j \in Slot : At(i) = At(j) => i = j
         /\ At(0) = rp
  BY ShareAssumption DEF TypeOK, At, Slot

\* The slot after the i-th pending event, up to the last and beyond it.
LEMMA AtSucc ==
  ASSUME TypeOK, NEW i \in Slot
  PROVE  Succ(At(i)) = IF i + 1 < Num THEN At(i + 1) ELSE rp
<1>1. At(i) \in Slot
  BY AtFacts
<1> QED BY <1>1, SuccFact, ShareAssumption DEF TypeOK, At, Slot

\* The same slot seen from the next oldest event.
LEMMA AtShift ==
  ASSUME TypeOK, NEW i \in Slot, i + 1 < Num, rp' = Succ(rp)
  PROVE  At(i)' = At(i + 1)
<1>1. rp \in Slot
  BY DEF TypeOK
<1> QED BY <1>1, SuccFact, ShareAssumption DEF At, Slot

\* The type invariant is inductive by itself.
LEMMA TypeStep == TypeOK /\ [Next]_vars => TypeOK'
<1> SUFFICES ASSUME TypeOK, [Next]_vars PROVE TypeOK'
  OBVIOUS
<1> USE ShareAssumption
<1>1. ASSUME NEW p \in Point, WriteImage(p) PROVE TypeOK'
  <2>1. image' \in [Point -> Bit]
    BY <1>1 DEF WriteImage, TypeOK, Bit
  <2>2. image[p] \in Bit /\ Len(sent) + 1 \in 0 .. MaxSoe
    BY <1>1, SeqFacts DEF WriteImage, TypeOK
  <2>3. ev' \in Event
    BY <1>1, <2>2 DEF WriteImage, Event, Bit
  <2> QED BY <1>1, <2>1, <2>3 DEF WriteImage, TypeOK, linux
<1>2. CASE WriteNo
  <2>1. soe' \in [Slot -> Event]
    BY <1>2 DEF WriteNo, TypeOK, Event
  <2> QED BY <1>2, <2>1 DEF WriteNo, TypeOK, linux
<1>3. CASE WriteValue
  <2>1. soe' \in [Slot -> Event]
    BY <1>3 DEF WriteValue, TypeOK, Event
  <2> QED BY <1>3, <2>1 DEF WriteValue, TypeOK, linux
<1>4. CASE WriteAdvance
  <2>1. wp' \in Slot
    BY <1>4, SuccFact DEF WriteAdvance, TypeOK
  <2>2. sent' \in Seq(Event)
    BY <1>4, SeqFacts DEF WriteAdvance, TypeOK
  <2> QED BY <1>4, <2>1, <2>2 DEF WriteAdvance, TypeOK, linux
<1>5. CASE Begin
  <2>1. count' \in 0 .. Every - 1 /\ next' \in Point
    BY <1>5 DEF Begin, TypeOK, Point
  <2> QED BY <1>5, <2>1 DEF Begin, TypeOK, core1
<1>6. CASE CopyLoad
  <2>1. reg' \in Event
    BY <1>6 DEF CopyLoad, TypeOK, Event
  <2> QED BY <1>6, <2>1 DEF CopyLoad, TypeOK, core1
<1>7. CASE CopyStore
  <2>1. reg.value \in Bit
    BY DEF TypeOK, Event
  <2>2. db' \in [Point -> Bit] /\ next' \in Point
    BY <1>7, <2>1 DEF CopyStore, TypeOK, Point
  <2> QED BY <1>7, <2>2 DEF CopyStore, TypeOK, core1
<1>8. CASE ReadCheck
  BY <1>8 DEF ReadCheck, TypeOK, core1
<1>9. CASE ReadNo
  <2>1. reg' \in Event
    BY <1>9 DEF ReadNo, TypeOK, Event
  <2> QED BY <1>9, <2>1 DEF ReadNo, TypeOK, core1
<1>10. CASE ReadValue
  <2>1. reg' \in Event
    BY <1>10 DEF ReadValue, TypeOK, Event
  <2>2. rp' \in Slot
    BY <1>10, SuccFact DEF ReadValue, TypeOK
  <2> QED BY <1>10, <2>1, <2>2 DEF ReadValue, TypeOK, core1
<1>11. CASE File
  <2>1. reg.no \in Point /\ reg.value \in Bit
    BY DEF TypeOK, Event
  <2>2. db' \in [Point -> Bit] /\ filed' \in Seq(Event)
    BY <1>11, <2>1, SeqFacts DEF File, TypeOK
  <2> QED BY <1>11, <2>2 DEF File, TypeOK, core1
<1>12. CASE UNCHANGED vars
  BY <1>12 DEF vars, core1, linux, TypeOK
<1> QED BY <1>1, <1>2, <1>3, <1>4, <1>5, <1>6, <1>7, <1>8, <1>9, <1>10, <1>11,
           <1>12 DEF Next, Core1, Linux

LEMMA Initially == Init => IInv
<1> SUFFICES ASSUME Init PROVE IInv
  OBVIOUS
<1> USE ShareAssumption
<1>1. Empty \in Event
  BY DEF Empty, Event, Point, Bit
<1>2. TypeOK
  <2>1. image \in [Point -> Bit] /\ db \in [Point -> Bit]
    BY DEF Init, Bit
  <2>2. soe \in [Slot -> Event]
    BY <1>1 DEF Init
  <2>3. wp \in Slot /\ rp \in Slot /\ count \in 0 .. Every - 1 /\ next \in Point
    BY DEF Init, Slot, Point
  <2>4. sent \in Seq(Event) /\ filed \in Seq(Event)
    BY DEF Init
  <2> QED BY <1>1, <2>1, <2>2, <2>3, <2>4 DEF Init, TypeOK
<1>3. Len(sent) = 0 /\ Len(filed) = 0 /\ Changes = << >>
  BY DEF Init, Changes
<1>4. RingHolds
  BY <1>3 DEF Init, RingHolds, Taken, Pending, At, Slot
<1>5. WriterHolds /\ ReaderHolds
  BY DEF Init, WriterHolds, ReaderHolds
<1>6. FiledHolds /\ ImageHolds /\ DbHolds
  BY <1>3 DEF Init, FiledHolds, ImageHolds, DbHolds
<1> QED BY <1>2, <1>4, <1>5, <1>6 DEF IInv, Sound

-------------------------------------------------------------------------------
\* The numbers of events, and the order of the events filed, taken and sent.
LEMMA Counts ==
  ASSUME TypeOK, RingHolds
  PROVE  /\ Len(sent) \in Nat /\ Len(filed) \in Nat /\ Taken \in Nat
         /\ Len(filed) =< Taken /\ Taken =< Len(sent)
         /\ Pending \in Slot /\ Taken + Pending = Len(sent)
<1>1. Len(sent) \in Nat /\ Len(filed) \in Nat
  BY SeqFacts
<1>2. Taken \in Nat /\ Len(filed) =< Taken /\ Taken =< Len(sent)
  BY <1>1 DEF Taken, RingHolds
<1> QED BY <1>1, <1>2, ShareAssumption DEF Pending, RingHolds, Slot

\* The changes are the events sent and the one being written.
LEMMA ChangesFacts ==
  ASSUME TypeOK
  PROVE  /\ wpc = "idle" => Changes = sent
         /\ wpc # "idle" =>
              /\ Len(Changes) = Len(sent) + 1 /\ Changes[Len(sent) + 1] = ev
              /\ \A i \in 1 .. Len(sent) : Changes[i] = sent[i]
<1>1. ev \in Event
  BY DEF TypeOK
<1> QED BY <1>1, SeqFacts DEF Changes

\* Core 1 changes a point and makes the event of the change.
LEMMA WriteImageSound ==
  ASSUME TypeOK, TypeOK', Sound, NEW p \in Point, WriteImage(p)
  PROVE  Sound'
<1> USE DEF WriteImage
<1>1. RingHolds /\ ReaderHolds /\ FiledHolds /\ ImageHolds /\ DbHolds
  BY DEF Sound
<1>2. RingHolds' /\ ReaderHolds' /\ FiledHolds' /\ WriterHolds'
  BY <1>1 DEF RingHolds, ReaderHolds, FiledHolds, WriterHolds, Taken, Pending,
              At, linux
<1>3. Changes = sent
  BY DEF Changes
<1>4. /\ Len(Changes') = Len(sent) + 1 /\ Changes'[Len(sent) + 1] = ev'
      /\ \A i \in 1 .. Len(sent) : Changes'[i] = sent[i]
  <2>1. Changes' = Append(sent, ev')
    BY DEF Changes
  <2>2. ev' \in Event
    BY DEF TypeOK
  <2> QED BY <2>1, <2>2, SeqFacts
<1>5. ev'.no = p /\ ev'.value = 1 - image[p]
  OBVIOUS
<1>6. /\ Len(sent) \in Nat /\ Len(filed) \in Nat /\ Len(filed) =< Len(sent)
  BY <1>1, Counts
<1>7. image'[p] = 1 - image[p] /\ \A q \in Point : q # p => image'[q] = image[q]
  BY DEF TypeOK
<1>8. ImageHolds'
  <2> SUFFICES ASSUME NEW q \in Point, NEW i \in 1 .. Len(Changes'),
                      Changes'[i].no = q,
                      \A j \in i + 1 .. Len(Changes') : Changes'[j].no # q
               PROVE  Changes'[i].value = image'[q]
    BY DEF ImageHolds
  <2>1. CASE i = Len(sent) + 1
    BY <2>1, <1>4, <1>5, <1>7
  <2>2. CASE i \in 1 .. Len(sent)
    <3>1. q # p
      BY <2>2, <1>4, <1>5, <1>6
    <3>2. sent[i].no = q /\ \A j \in i + 1 .. Len(sent) : sent[j].no # q
      BY <2>2, <1>4, <1>6
    <3>3. sent[i].value = image[q]
      BY <2>2, <3>2, <1>1, <1>3 DEF ImageHolds
    <3> QED BY <3>1, <3>3, <2>2, <1>4, <1>7
  <2> QED BY <2>1, <2>2, <1>4, <1>6
<1>9. DbHolds'
  <2> SUFFICES ASSUME NEW q \in Point,
                      \A i \in Len(filed') + 1 .. Len(Changes') :
                        Changes'[i].no # q
               PROVE  /\ db'[q] = image'[q]
                      /\ rpc' = "store" /\ next' = q => reg'.value = image'[q]
    BY DEF DbHolds
  <2>1. q # p
    BY <1>4, <1>5, <1>6
  <2>2. \A i \in Len(filed) + 1 .. Len(sent) : sent[i].no # q
    BY <1>4, <1>6
  <2>3. /\ db[q] = image[q]
        /\ rpc = "store" /\ next = q => reg.value = image[q]
    BY <2>2, <1>1, <1>3 DEF DbHolds
  <2> QED BY <2>1, <2>3, <1>7 DEF linux
<1> QED BY <1>2, <1>8, <1>9 DEF Sound

\* The slot core 1 writes is none of those with pending events.
LEMMA WpFree ==
  ASSUME TypeOK, RingHolds, NEW i \in Slot, i < Pending
  PROVE  At(i) \in Slot /\ At(i) # wp
<1>1. Pending \in Slot
  BY Counts
<1> QED BY <1>1, AtFacts, ShareAssumption DEF RingHolds, Slot

\* Core 1 fills the slot.
LEMMA WriteSlotSound ==
  ASSUME TypeOK, TypeOK', Sound, WriteNo \/ WriteValue
  PROVE  Sound'
<1>1. RingHolds /\ ReaderHolds /\ FiledHolds /\ ImageHolds /\ DbHolds
  BY DEF Sound
<1>2. /\ UNCHANGED <<image, wp, rp, ev, rpc, next, reg, db, sent, filed>>
      /\ \A i \in Slot : i # wp => soe'[i] = soe[i]
  BY DEF WriteNo, WriteValue, linux, TypeOK
<1>3. Taken' = Taken /\ Pending' = Pending /\ \A i : At(i)' = At(i)
  BY <1>2 DEF Taken, Pending, At
<1>4. \A i \in Slot : i < Pending => soe'[At(i)] = soe[At(i)]
  BY <1>1, <1>2, WpFree
<1>5. RingHolds'
  BY <1>1, <1>2, <1>3, <1>4 DEF RingHolds
<1>6. WriterHolds'
  <2>1. soe[wp] \in Event /\ ev \in Event
    BY DEF TypeOK
  <2>2. CASE WriteNo
    <3>1. soe'[wp] = [soe[wp] EXCEPT !.no = ev.no]
      BY <2>2 DEF WriteNo, TypeOK
    <3> QED BY <2>1, <2>2, <3>1 DEF WriteNo, WriterHolds, Event
  <2>3. CASE WriteValue
    <3>1. soe'[wp] = [soe[wp] EXCEPT !.value = ev.value, !.time = ev.time]
      BY <2>3 DEF WriteValue, TypeOK
    <3>2. soe[wp].no = ev.no
      BY <2>3 DEF WriteValue, Sound, WriterHolds
    <3>3. soe'[wp] = ev
      BY <2>1, <3>1, <3>2 DEF Event
    <3> QED BY <2>3, <3>3, <1>2 DEF WriteValue, WriterHolds
  <2> QED BY <2>2, <2>3
<1>7. Changes' = Changes
  BY <1>2 DEF WriteNo, WriteValue, Changes
<1>8. ReaderHolds' /\ FiledHolds' /\ ImageHolds' /\ DbHolds'
  BY <1>1, <1>2, <1>3, <1>7 DEF ReaderHolds, FiledHolds, ImageHolds, DbHolds
<1> QED BY <1>5, <1>6, <1>8 DEF Sound

\* Core 1 moves wp past the slot it has filled, and does not meet rp.
LEMMA WriteAdvanceSound ==
  ASSUME TypeOK, TypeOK', Sound, WriteAdvance, ~overrun'
  PROVE  Sound'
<1> USE DEF WriteAdvance
<1>1. /\ RingHolds /\ WriterHolds /\ ReaderHolds /\ FiledHolds /\ ImageHolds
      /\ DbHolds
  BY DEF Sound
<1>2. /\ Len(sent) \in Nat /\ Len(filed) \in Nat /\ Taken \in Nat
      /\ Len(filed) =< Taken /\ Taken =< Len(sent)
      /\ Pending \in Slot /\ Taken + Pending = Len(sent)
  BY <1>1, Counts
<1>3. /\ Len(sent') = Len(sent) + 1 /\ sent'[Len(sent) + 1] = ev
      /\ \A i \in 1 .. Len(sent) : sent'[i] = sent[i]
  <2>1. ev \in Event
    BY DEF TypeOK
  <2> QED BY <2>1, SeqFacts
<1>4. Pending + 1 < Num /\ wp' = At(Pending + 1)
  <2>1. Succ(wp) # rp
    OBVIOUS
  <2> QED BY <2>1, <1>1, <1>2, AtSucc DEF RingHolds
<1>5. Taken' = Taken /\ Pending' = Pending + 1 /\ \A i : At(i)' = At(i)
  BY <1>2, <1>3 DEF Taken, Pending, At, linux
<1>6. RingHolds'
  <2>1. Taken' =< Len(sent') /\ Pending' < Num /\ wp' = At(Pending)'
    BY <1>2, <1>3, <1>4, <1>5
  <2>2. ASSUME NEW i \in Slot, i < Pending'
        PROVE  soe'[At(i)'] = sent'[Taken' + 1 + i]
    <3>1. CASE i < Pending
      <4>1. soe[At(i)] = sent[Taken + 1 + i]
        BY <3>1, <1>1 DEF RingHolds
      <4>2. Taken + 1 + i \in 1 .. Len(sent)
        BY <3>1, <1>2 DEF Slot
      <4> QED BY <4>1, <4>2, <1>3, <1>5
    <3>2. CASE i = Pending
      <4>1. soe[At(i)] = ev
        BY <3>2, <1>1 DEF RingHolds, WriterHolds
      <4>2. Taken + 1 + i = Len(sent) + 1
        BY <3>2, <1>2 DEF Slot
      <4> QED BY <4>1, <4>2, <1>3, <1>5
    <3> QED BY <3>1, <3>2, <2>2, <1>2, <1>5 DEF Slot
  <2> QED BY <2>1, <2>2 DEF RingHolds
<1>7. WriterHolds'
  BY DEF WriterHolds
<1>8. ReaderHolds'
  <2>1. rpc' = rpc /\ reg' = reg
    BY DEF linux
  <2>2. rpc \in {"no", "value"} => Taken + 1 \in 1 .. Len(sent)
    BY <1>1, <1>2 DEF ReaderHolds, Slot
  <2>3. rpc = "file" => Taken \in 1 .. Len(sent)
    BY <1>2 DEF Taken
  <2> QED BY <2>1, <2>2, <2>3, <1>1, <1>2, <1>3, <1>5 DEF ReaderHolds, Slot
<1>9. FiledHolds'
  BY <1>1, <1>2, <1>3 DEF FiledHolds
<1>10. Changes' = Changes
  BY DEF Changes
<1>11. ImageHolds' /\ DbHolds'
  BY <1>1, <1>10 DEF ImageHolds, DbHolds, linux
<1> QED BY <1>6, <1>7, <1>8, <1>9, <1>11 DEF Sound

-------------------------------------------------------------------------------
\* Linux begins a round, or copies a point of the image.
LEMMA CopySound ==
  ASSUME TypeOK, TypeOK', Sound, Begin \/ CopyLoad \/ CopyStore
  PROVE  Sound'
<1>1. /\ RingHolds /\ WriterHolds /\ ReaderHolds /\ FiledHolds /\ ImageHolds
      /\ DbHolds
  BY DEF Sound
<1>2. /\ UNCHANGED <<image, soe, wp, rp, wpc, ev, sent, filed>>
      /\ rpc # "file" /\ rpc' \in {"load", "store", "drain"}
  BY DEF Begin, CopyLoad, CopyStore, core1
<1>3. Taken' = Taken /\ Pending' = Pending /\ Changes' = Changes
  BY <1>2 DEF Taken, Pending, Changes
<1>4. RingHolds' /\ WriterHolds' /\ ReaderHolds' /\ FiledHolds' /\ ImageHolds'
  BY <1>1, <1>2, <1>3 DEF RingHolds, WriterHolds, ReaderHolds, FiledHolds,
                          ImageHolds, At
<1>5. DbHolds'
  <2> SUFFICES ASSUME NEW p \in Point,
                      \A i \in Len(filed') + 1 .. Len(Changes') :
                        Changes'[i].no # p
               PROVE  /\ db'[p] = image'[p]
                      /\ rpc' = "store" /\ next' = p => reg'.value = image'[p]
    BY DEF DbHolds
  <2>1. /\ db[p] = image[p]
        /\ rpc = "store" /\ next = p => reg.value = image[p]
    BY <1>1, <1>2, <1>3 DEF DbHolds
  <2>2. CASE Begin
    BY <2>1, <2>2 DEF Begin
  <2>3. CASE CopyLoad
    <3>1. reg'.value = image[next]
      BY <2>3 DEF CopyLoad, TypeOK, Event
    <3> QED BY <2>1, <2>3, <3>1 DEF CopyLoad
  <2>4. CASE CopyStore
    BY <2>1, <2>4 DEF CopyStore, TypeOK
  <2> QED BY <2>2, <2>3, <2>4
<1> QED BY <1>4, <1>5 DEF Sound

\* Linux looks whether there is an event, and reads its point.
LEMMA ReadSound ==
  ASSUME TypeOK, TypeOK', Sound, ReadCheck \/ ReadNo
  PROVE  Sound'
<1>1. /\ RingHolds /\ WriterHolds /\ ReaderHolds /\ FiledHolds /\ ImageHolds
      /\ DbHolds
  BY DEF Sound
<1>2. /\ UNCHANGED <<image, soe, wp, rp, wpc, ev, db, sent, filed>>
      /\ rpc \in {"drain", "no"} /\ rpc' \in {"idle", "no", "value"}
  BY DEF ReadCheck, ReadNo, core1
<1>3. Taken' = Taken /\ Pending' = Pending /\ Changes' = Changes
  BY <1>2 DEF Taken, Pending, Changes
<1>4. /\ RingHolds' /\ WriterHolds' /\ FiledHolds' /\ ImageHolds' /\ DbHolds'
  BY <1>1, <1>2, <1>3 DEF RingHolds, WriterHolds, FiledHolds, ImageHolds,
                          DbHolds, At
<1>5. Pending \in Slot /\ At(0) = rp
  BY <1>1, Counts, AtFacts
<1>6. ReaderHolds'
  <2>1. CASE ReadCheck
    <3>1. rpc' = "no" => Pending # 0
      BY <2>1, <1>1, <1>5 DEF ReadCheck, RingHolds
    <3> QED BY <2>1, <3>1, <1>2, <1>3, <1>5 DEF ReadCheck, ReaderHolds, Slot
  <2>2. CASE ReadNo
    <3>1. Pending > 0
      BY <2>2, <1>1 DEF ReadNo, ReaderHolds
    <3>2. soe[rp] = sent[Taken + 1 + 0]
      BY <3>1, <1>1, <1>5, ShareAssumption DEF RingHolds, Slot
    <3>3. Taken + 1 + 0 = Taken + 1
      BY <1>1, Counts
    <3>4. reg'.no = soe[rp].no
      BY <2>2 DEF ReadNo, TypeOK, Event
    <3> QED BY <2>2, <3>1, <3>2, <3>3, <3>4, <1>3 DEF ReadNo, ReaderHolds
  <2> QED BY <2>1, <2>2
<1> QED BY <1>4, <1>6 DEF Sound

\* Linux reads the rest of the event and takes it out of the ring.
LEMMA ReadValueSound ==
  ASSUME TypeOK, TypeOK', Sound, ReadValue
  PROVE  Sound'
<1>1. /\ RingHolds /\ WriterHolds /\ ReaderHolds /\ FiledHolds /\ ImageHolds
      /\ DbHolds
  BY DEF Sound
<1>2. /\ UNCHANGED <<image, soe, wp, wpc, ev, db, sent, filed>>
      /\ rpc = "value" /\ rpc' = "file" /\ rp' = Succ(rp)
  BY DEF ReadValue, core1
<1>3. /\ Len(sent) \in Nat /\ Len(filed) \in Nat /\ Taken \in Nat
      /\ Len(filed) =< Taken /\ Taken =< Len(sent)
      /\ Pending \in Slot /\ Taken + Pending = Len(sent) /\ Pending > 0
  BY <1>1, <1>2, Counts DEF ReaderHolds
<1>4. Taken' = Taken + 1 /\ Pending' = Pending - 1 /\ Changes' = Changes
  BY <1>2, <1>3 DEF Taken, Pending, Changes
<1>5. \A i \in Slot : i + 1 < Num => At(i)' = At(i + 1)
  BY <1>2, AtShift
<1>6. RingHolds'
  <2>1. Taken' =< Len(sent') /\ Pending' < Num
    BY <1>2, <1>3, <1>4, ShareAssumption DEF Slot
  <2>2. wp' = At(Pending)'
    <3>1. PICK k \in Slot : k + 1 = Pending /\ k + 1 < Num
      BY <1>3, ShareAssumption DEF Slot
    <3>2. At(k)' = At(Pending)
      BY <3>1, <1>5
    <3>3. Pending' = k
      BY <3>1, <1>4 DEF Slot
    <3>4. At(Pending)' = At(k)'
      BY <3>3
    <3> QED BY <3>2, <3>4, <1>1, <1>2 DEF RingHolds
  <2>3. ASSUME NEW i \in Slot, i < Pending'
        PROVE  soe'[At(i)'] = sent'[Taken' + 1 + i]
    <3>1. i + 1 \in Slot /\ i + 1 < Num /\ i + 1 < Pending
      BY <2>3, <1>3, <1>4, ShareAssumption DEF Slot
    <3>2. soe[At(i + 1)] = sent[Taken + 1 + (i + 1)]
      BY <3>1, <1>1 DEF RingHolds
    <3>3. Taken + 1 + (i + 1) = Taken' + 1 + i
      BY <1>3, <1>4 DEF Slot
    <3> QED BY <3>1, <3>2, <3>3, <1>2, <1>5
  <2> QED BY <2>1, <2>2, <2>3 DEF RingHolds
<1>7. ReaderHolds'
  <2>1. soe[rp] = sent[Taken + 1 + 0]
    BY <1>1, <1>3, AtFacts, ShareAssumption DEF RingHolds, Slot
  <2>2. Taken + 1 + 0 = Taken + 1
    BY <1>3
  <2>3. /\ reg' = [reg EXCEPT !.value = soe[rp].value, !.time = soe[rp].time]
        /\ reg.no = sent[Taken + 1].no
    BY <1>1, <1>2 DEF ReadValue, ReaderHolds
  <2>4. reg \in Event /\ soe[rp] \in Event
    BY DEF TypeOK
  <2>5. reg' = soe[rp]
    BY <2>1, <2>2, <2>3, <2>4 DEF Event
  <2> QED BY <2>1, <2>2, <2>5, <1>2, <1>4 DEF ReaderHolds
<1>8. WriterHolds' /\ FiledHolds' /\ ImageHolds' /\ DbHolds'
  BY <1>1, <1>2, <1>4 DEF WriterHolds, FiledHolds, ImageHolds, DbHolds
<1> QED BY <1>6, <1>7, <1>8 DEF Sound

\* Linux files the event it has taken.
LEMMA FileSound ==
  ASSUME TypeOK, TypeOK', Sound, File
  PROVE  Sound'
<1>1. /\ RingHolds /\ WriterHolds /\ ReaderHolds /\ FiledHolds /\ ImageHolds
      /\ DbHolds
  BY DEF Sound
<1>2. /\ UNCHANGED <<image, soe, wp, rp, wpc, ev, reg, sent>>
      /\ rpc = "file" /\ rpc' = "drain"
  BY DEF File, core1
<1>3. /\ Len(sent) \in Nat /\ Len(filed) \in Nat /\ Taken = Len(filed) + 1
      /\ Taken =< Len(sent)
  BY <1>1, <1>2, Counts DEF Taken
<1>4. /\ Len(filed') = Len(filed) + 1 /\ filed'[Len(filed) + 1] = reg
      /\ \A i \in 1 .. Len(filed) : filed'[i] = filed[i]
  <2>1. reg \in Event
    BY DEF TypeOK
  <2> QED BY <2>1, SeqFacts DEF File
<1>5. reg = sent[Len(filed) + 1]
  BY <1>1, <1>2, <1>3 DEF ReaderHolds
<1>6. Taken' = Taken /\ Pending' = Pending /\ Changes' = Changes
  BY <1>2, <1>3, <1>4 DEF Taken, Pending, Changes
<1>7. RingHolds' /\ WriterHolds' /\ ReaderHolds' /\ ImageHolds'
  BY <1>1, <1>2, <1>6 DEF RingHolds, WriterHolds, ReaderHolds, ImageHolds, At
<1>8. FiledHolds'
  BY <1>1, <1>2, <1>3, <1>4, <1>5 DEF FiledHolds
<1>9. Changes[Len(filed) + 1] = reg /\ Len(filed) + 1 \in 1 .. Len(Changes)
  BY <1>3, <1>5, ChangesFacts
<1>10. Len(Changes) \in Nat
  BY <1>3, ChangesFacts
<1>11. DbHolds'
  <2> SUFFICES ASSUME NEW p \in Point,
                      \A i \in Len(filed') + 1 .. Len(Changes') :
                        Changes'[i].no # p
               PROVE  db'[p] = image'[p]
    BY <1>2 DEF DbHolds
  <2>1. \A i \in Len(filed) + 2 .. Len(Changes) : Changes[i].no # p
    BY <1>3, <1>4, <1>6
  <2>2. CASE reg.no = p
    <3>1. \A j \in (Len(filed) + 1) + 1 .. Len(Changes) : Changes[j].no # p
      BY <2>1, <1>3
    <3>2. reg.value = image[p]
      BY <2>2, <3>1, <1>1, <1>9 DEF ImageHolds
    <3> QED BY <2>2, <3>2, <1>2 DEF File, TypeOK
  <2>3. CASE reg.no # p
    <3>1. \A i \in Len(filed) + 1 .. Len(Changes) : Changes[i].no # p
      BY <2>1, <2>3, <1>3, <1>9, <1>10
    <3>2. db[p] = image[p]
      BY <3>1, <1>1 DEF DbHolds
    <3> QED BY <2>3, <3>2, <1>2 DEF File, TypeOK
  <2> QED BY <2>2, <2>3
<1> QED BY <1>7, <1>8, <1>11 DEF Sound

-------------------------------------------------------------------------------
\* Unless the reader is overrun, no step of the two cores breaks the invariant.
LEMMA IInvStep == IInv /\ [Next]_vars => IInv'
<1> SUFFICES ASSUME IInv, [Next]_vars PROVE IInv'
  OBVIOUS
<1>1. TypeOK /\ TypeOK'
  BY TypeStep DEF IInv
<1>2. overrun => overrun'
  BY <1>1 DEF Next, Core1, Linux, WriteImage, WriteNo, WriteValue, WriteAdvance,
              Begin, CopyLoad, CopyStore, ReadCheck, ReadNo, ReadValue, File,
              vars
<1>3. ASSUME ~overrun' PROVE Sound'
  <2>1. Sound
    BY <1>2, <1>3 DEF IInv
  <2>2. CASE UNCHANGED vars
    BY <2>1, <2>2 DEF vars, core1, linux, Sound, RingHolds, WriterHolds,
          ReaderHolds, FiledHolds, ImageHolds, DbHolds, Changes, Taken,
          Pending, At
  <2>3. CASE Core1
    BY <1>1, <1>3, <2>1, <2>3, WriteImageSound, WriteSlotSound,
       WriteAdvanceSound DEF Core1
  <2>4. CASE Linux
    BY <1>1, <2>1, <2>4, CopySound, ReadSound, ReadValueSound, FileSound
       DEF Linux
  <2> QED BY <2>2, <2>3, <2>4 DEF Next
<1> QED BY <1>1, <1>3 DEF IInv

\* The invariant holds in every reachable state.
THEOREM Invariant == Spec => []IInv
BY Initially, IInvStep, PTL DEF Spec

\* Every variable keeps its type: the indices of both cores stay in the ring
\* and every field of an event in its range.
THEOREM TypeCorrect == Spec => []TypeOK
<1>1. IInv => TypeOK
  BY DEF IInv
<1> QED BY <1>1, Invariant, PTL

\* Unless wp has caught up with rp, what Linux files is what core 1 sent: each
\* event whole, once and in order (WriteSSOE, ReadBMSOE), for every ring size.
THEOREM FilesInOrder == Spec => []FiledInOrder
<1>1. IInv => FiledInOrder
  <2> SUFFICES ASSUME IInv, ~overrun PROVE FiledInOrder
    BY DEF FiledInOrder
  <2>1. TypeOK /\ RingHolds /\ FiledHolds
    BY DEF IInv, Sound
  <2>2. Len(filed) =< Len(sent)
    BY <2>1, Counts
  <2> QED BY <2>1, <2>2 DEF FiledInOrder, FiledHolds
<1> QED BY <1>1, Invariant, PTL

\* Unless wp has caught up with rp, a drained ring leaves the data base equal
\* to the image, whatever copies of the image were made in between (yxWrite).
THEOREM DrainedInStep == Spec => []InStepWhenDrained
<1>1. IInv => InStepWhenDrained
  <2> SUFFICES ASSUME IInv, ~overrun, wpc = "idle", rpc = "idle", rp = wp
               PROVE  db = image
    BY DEF InStepWhenDrained
  <2>1. TypeOK /\ RingHolds /\ DbHolds
    BY DEF IInv, Sound
  <2>2. Pending = 0
    BY <2>1, Counts, AtFacts, ShareAssumption DEF RingHolds, Slot
  <2>3. Len(filed) = Len(sent) /\ Len(sent) \in Nat /\ Changes = sent
    BY <2>1, <2>2, Counts DEF Taken, Changes
  <2>4. \A p \in Point : db[p] = image[p]
    BY <2>1, <2>3 DEF DbHolds
  <2> QED BY <2>1, <2>4 DEF TypeOK
<1> QED BY <1>1, Invariant, PTL
==============================================================================
