--------------------------- MODULE Gb104Link_proofs ----------------------------
(***************************************************************************)
(* Proofs about the controlled station of IEC 60870-5-104, for every size  *)
(* of the window, number of sequence numbers, of events, of connections    *)
(* and of what else happens.                                               *)
(***************************************************************************)
EXTENDS Gb104Link, SequenceTheorems, FiniteSetTheorems, FunctionTheorems, TLAPS

------------------------------------------------------------------------------
(* Types.                                                                  *)

\* What the station sends: no event but one that was written.
Sent == [type : {"I"}, ns : Num, ev : 0 .. made] \cup [type : {"S"}]
        \cup [type : {"U"}, fn : {"startdt con", "stopdt con", "testfr act",
                                 "testfr con"}]

\* What the controlling station sends.
Given == [type : {"I"}, ns : Num, nr : Num, op : {"bad", "ask", "quiet"}]
         \cup [type : {"S"}, nr : Num]
         \cup [type : {"U"}, fn : {"startdt act", "stopdt act", "testfr act",
                                  "testfr con"}]

Causes == {"late", "break not seen", "left over", "dropped"}

\* Everything that is on its way to the controlling station.
Line == down \o buf

NumberTypes ==
  /\ sn \in Num /\ rn \in 0 .. M /\ ack \in Num /\ ackrn \in Num
  /\ mvr \in Num /\ macked \in Num /\ msn \in Num

FlagTypes ==
  /\ dt \in BOOLEAN /\ cont \in BOOLEAN /\ open \in BOOLEAN /\ status \in BOOLEAN
  /\ ready \in BOOLEAN /\ begun \in BOOLEAN /\ lap \in BOOLEAN
  /\ timer \subseteq {1, 2, 3}

EventTypes ==
  /\ made \in 0 .. MaxEvent /\ freed \in 0 .. made /\ held \in 0 .. made - freed
  /\ got \subseteq 1 .. made /\ last \in 0 .. made

OutTypes ==
  /\ down \in Seq(Sent) /\ buf \in Seq(Sent) /\ Len(buf) =< 1
  /\ retx \in BOOLEAN /\ effort \in 0 .. MaxEffort /\ skewed \subseteq Causes

RestTypes == up \in Seq(Given) /\ conns \in 0 .. MaxConnect /\ unasked \in Nat

TInv == NumberTypes /\ FlagTypes /\ EventTypes /\ OutTypes /\ RestTypes

LEMMA Sizes ==
  /\ M \in Nat /\ K \in Nat /\ W \in Nat /\ MaxEvent \in Nat /\ MaxConnect \in Nat
  /\ MaxEffort \in Nat /\ M > 2 /\ W > 0 /\ K > 1 /\ M > K + 1
<1>1. /\ M \in Nat /\ K \in Nat /\ W \in Nat /\ MaxEvent \in Nat /\ MaxConnect \in Nat
      /\ MaxEffort \in Nat /\ W > 0 /\ K > 1 /\ M > K + 1
  BY LinkAssumption
<1>2. QED
  BY <1>1

LEMMA ModFacts ==
  ASSUME NEW n \in Nat, n > 0, NEW x \in Nat
  PROVE  /\ x % n \in 0 .. n - 1 /\ x \div n \in Nat
         /\ x = (x \div n) * n + (x % n)
<1> DEFINE q == x \div n
           m == x % n
<1>1. n \in Nat /\ n > 0
  OBVIOUS
<1>2. x = q * n + m /\ q \in Int /\ m \in 0 .. n - 1
  BY <1>1, SMT
<1> HIDE DEF q, m
<1>3. q =< -1 => q * n =< -n
  BY <1>2, SMT
<1>4. q >= 0
  BY <1>2, <1>3, SMT
<1>5. QED
  BY <1>2, <1>4 DEF q, m

\* A number less than n is the remainder of what it leaves.
LEMMA ModUnique ==
  ASSUME NEW n \in Nat, n > 0, NEW q \in Nat, NEW m \in 0 .. n - 1
  PROVE  (q * n + m) % n = m
<1> DEFINE x == q * n + m
           p == x \div n
           r == x % n
<1>1. x \in Nat
  BY SMT
<1>2. r \in 0 .. n - 1 /\ p \in Nat /\ x = p * n + r
  BY <1>1, ModFacts
<1> HIDE DEF p, r
<1>3. (q - p) * n = r - m
  BY <1>2, SMT
<1>4. q - p >= 1 => (q - p) * n >= n
  BY <1>2, SMT
<1>5. q - p =< -1 => (q - p) * n =< -n
  BY <1>2, SMT
<1>6. q = p
  BY <1>2, <1>3, <1>4, <1>5, SMT
<1>7. r = m
  BY <1>2, <1>3, <1>6, SMT
<1>8. QED
  BY <1>7 DEF r

LEMMA NumFacts ==
  /\ 0 \in Num /\ 1 \in Num /\ 0 \in 0 .. M
  /\ \A n \in Nat : n % M \in Num
  /\ \A n \in 0 .. M : n \in Nat /\ (n % M) \in Num /\ (n % M) \in 0 .. M
  /\ \A n \in Num : n \in Nat /\ n + 1 \in Nat /\ n + 1 \in 0 .. M /\ (n + 1) % M \in Num
  /\ \A n \in Num : n % M = n
<1>1. M \in Nat /\ M > 2
  BY Sizes
<1>2. \A n \in Nat : n % M \in 0 .. M - 1
  BY <1>1
<1>3. ASSUME NEW n \in Num PROVE n % M = n
  <2>1. M \in Nat /\ M > 0 /\ 0 \in Nat /\ n \in 0 .. M - 1
    BY <1>1, <1>3 DEF Num
  <2>2. (0 * M + n) % M = n
    BY <2>1, ModUnique, Zenon
  <2>3. 0 * M + n = n
    BY <2>1
  <2>4. QED
    BY <2>2, <2>3
<1>4. QED
  BY <1>1, <1>2, <1>3 DEF Num

\* An element of a set of frames.
LEMMA FrameFacts ==
  ASSUME TInv
  PROVE  /\ \A n \in Num : \A e \in 0 .. made : I(n, e) \in Sent
         /\ S \in Sent
         /\ \A g \in {"startdt con", "stopdt con", "testfr act", "testfr con"} : U(g) \in Sent
         /\ \A g \in {"startdt act", "stopdt act", "testfr act", "testfr con"} : U(g) \in Given
         /\ \A n \in Num : Ack(n) \in Given
         /\ \A n, m \in Num : \A op \in {"bad", "ask", "quiet"} : Command(n, m, op) \in Given
  BY DEF Sent, Given, I, S, U, Ack, Command

LEMMA SeqOne ==
  ASSUME NEW T, NEW x \in T
  PROVE  /\ <<x>> \in Seq(T) /\ Len(<<x>>) = 1 /\ Len(<<x>>) =< 2
         /\ <<x>>[1] = x
  OBVIOUS

LEMMA SeqTwo ==
  ASSUME NEW T, NEW x \in T, NEW y \in T
  PROVE  /\ <<x, y>> \in Seq(T) /\ Len(<<x, y>>) = 2 /\ Len(<<x, y>>) =< 2
         /\ <<x, y>>[1] = x /\ <<x, y>>[2] = y
  OBVIOUS

LEMMA OneAndOne ==
  ASSUME NEW T, NEW x \in T, NEW y \in T
  PROVE  <<x>> \o <<y>> = <<x, y>>
<1> DEFINE a == <<x>>
           b == <<y>>
           c == <<x, y>>
<1>1. a \in Seq(T) /\ Len(a) = 1 /\ a[1] = x /\ b \in Seq(T) /\ Len(b) = 1 /\ b[1] = y
  BY SeqOne
<1>2. c \in Seq(T) /\ Len(c) = 2 /\ c[1] = x /\ c[2] = y
  BY SeqTwo
<1> HIDE DEF a, b, c
<1>3. a \o b \in Seq(T) /\ Len(a \o b) = 2 /\ (a \o b)[1] = x /\ (a \o b)[2] = y
  BY <1>1, ConcatProperties
<1> DEFINE d == a \o b
<1>4. d \in Seq(T) /\ Len(d) = 2 /\ d[1] = x /\ d[2] = y
  BY <1>3
<1> HIDE DEF d
<1>5. \A i \in 1 .. 2 : i = 1 \/ i = 2
  OBVIOUS
<1>6. d = c
  BY <1>2, <1>4, <1>5, SeqEqual
<1>7. QED
  BY <1>6 DEF a, b, c, d

LEMMA CutFacts ==
  ASSUME NEW T, NEW s \in Seq(T), NEW m \in Nat, m > 0, NEW n \in Int, n =< Len(s)
  PROVE  SubSeq(s, m, n) \in Seq(T)
<1>1. Len(s) \in Nat /\ \A i \in m .. n : i \in 1 .. Len(s)
  BY LenProperties
<1>2. \A i \in m .. n : s[i] \in T
  BY <1>1, ElementOfSeq
<1>3. QED
  BY <1>2, SubSeqProperties

------------------------------------------------------------------------------
(* What a write leaves on its way.                                         *)

\* The frames of a handler go out in their order; one that fails stays in the
\* buffer, and those before it, or what was left there, are gone.
LEMMA PutFacts ==
  ASSUME TInv, NEW cost \in Nat, effort + cost =< MaxEffort,
         NEW frames \in Seq(Sent), Len(frames) =< 2, PutFor(cost, frames)
  PROVE  /\ down' \in Seq(Sent) /\ buf' \in Seq(Sent) /\ Len(buf') =< 1
         /\ retx' \in BOOLEAN /\ effort' \in 0 .. MaxEffort /\ skewed' \subseteq Causes
         /\ skewed' = skewed \/ skewed' = skewed \cup {"dropped"}
         /\ "dropped" \notin skewed' => Numbered(buf) = {}
         /\ Len(frames) = 0 => Line' = down
         /\ Len(frames) = 1 => Line' = Append(down, frames[1])
         /\ Len(frames) = 2 =>
              \/ Line' = Append(Append(down, frames[1]), frames[2])
              \/ /\ Line' = Append(down, frames[2])
                 /\ "dropped" \notin skewed' => frames[1].type # "I"
<1> DEFINE Out(n) == SubSeq(frames, 1, n)
           Gone(n) == IF frames = << >> THEN buf
                      ELSE buf \o SubSeq(frames, n + 1, Len(frames) - 1)
<1>1. PICK n \in 0 .. Len(frames) :
        /\ open /\ n < Len(frames) => effort + cost < MaxEffort
        /\ effort' = effort + cost + IF open /\ n < Len(frames) THEN 1 ELSE 0
        /\ down' = down \o Out(n)
        /\ buf' = IF n < Len(frames) THEN <<frames[Len(frames)]>> ELSE << >>
        /\ retx' = (retx \/ n < Len(frames))
        /\ skewed' = IF Numbered(Gone(n)) = {} THEN skewed ELSE skewed \cup {"dropped"}
  BY DEF PutFor
<1>2. /\ down \in Seq(Sent) /\ buf \in Seq(Sent) /\ effort \in 0 .. MaxEffort
      /\ skewed \subseteq Causes /\ Len(down) \in Nat /\ Len(buf) \in Nat
      /\ MaxEffort \in Nat /\ Len(frames) \in Nat
  BY Sizes, LenProperties DEF TInv, OutTypes
<1>3. Out(n) \in Seq(Sent)
  BY <1>2, CutFacts
<1>4. /\ Len(frames) > 0 => frames[Len(frames)] \in Sent
      /\ \A i \in 1 .. Len(frames) : frames[i] \in Sent
  BY <1>2, ElementOfSeq
<1>5. down' \in Seq(Sent)
  BY <1>1, <1>2, <1>3, ConcatProperties
<1>6. buf' \in Seq(Sent) /\ Len(buf') =< 1
  <2>1. CASE n < Len(frames)
    <3>1. frames[Len(frames)] \in Sent
      BY <1>2, <1>4, <2>1
    <3>2. QED
      BY <1>1, <2>1, <3>1, SeqOne
  <2>2. CASE ~(n < Len(frames))
    BY <1>1, <2>2, EmptySeq
  <2>3. QED
    BY <2>1, <2>2
<1>7. retx' \in BOOLEAN
  BY <1>1
<1>8. effort' \in 0 .. MaxEffort
  BY <1>1, <1>2
<1>9. /\ skewed' = skewed \/ skewed' = skewed \cup {"dropped"}
      /\ skewed' \subseteq Causes
  BY <1>1, <1>2 DEF Causes
<1>10. "dropped" \notin skewed' => Numbered(Gone(n)) = {}
  BY <1>1
<1>11. SubSeq(frames, n + 1, Len(frames) - 1) \in Seq(Sent)
  BY <1>2, CutFacts
<1>12. "dropped" \notin skewed' => Numbered(buf) = {}
  <2>1. frames # << >> => Numbered(buf) \subseteq Numbered(Gone(n))
    <3>1. SUFFICES ASSUME frames # << >>, NEW i \in Numbered(buf)
                   PROVE  i \in Numbered(Gone(n))
      OBVIOUS
    <3>2. i \in 1 .. Len(buf) /\ buf[i].type = "I"
      BY <1>2, LenProperties DEF Numbered
    <3> DEFINE rest == SubSeq(frames, n + 1, Len(frames) - 1)
    <3>3. Len(rest) \in Nat
      BY <1>11, LenProperties
    <3>4. /\ buf \o rest \in Seq(Sent) /\ Len(buf \o rest) = Len(buf) + Len(rest)
          /\ (buf \o rest)[i] = buf[i]
      BY <1>2, <1>11, <3>2, <3>3, ConcatProperties
    <3> HIDE DEF rest
    <3>5. i \in DOMAIN (buf \o rest)
      BY <1>2, <3>2, <3>3, <3>4, LenProperties
    <3>6. i \in Numbered(buf \o rest)
      BY <3>2, <3>4, <3>5 DEF Numbered
    <3>7. QED
      BY <3>1, <3>6 DEF rest
  <2>2. QED
    BY <1>10, <2>1
<1>13. Len(frames) = 0 => Line' = down
  <2>1. SUFFICES ASSUME Len(frames) = 0 PROVE Line' = down
    OBVIOUS
  <2>2. n = 0 /\ Out(n) = << >> /\ buf' = << >>
    BY <1>1, <2>1, SubSeqEmpty
  <2>3. down \o << >> = down
    BY <1>2, ConcatEmptySeq
  <2>4. QED
    BY <1>1, <2>2, <2>3 DEF Line
<1>14. Out(0) = << >>
  BY SubSeqEmpty
<1>15. Out(Len(frames)) = frames
  BY SubSeqFull
<1>16. Len(frames) = 1 => Line' = Append(down, frames[1])
  <2>1. SUFFICES ASSUME Len(frames) = 1 PROVE Line' = Append(down, frames[1])
    OBVIOUS
  <2>2. frames[1] \in Sent
    BY <1>4, <2>1
  <2>3. frames = <<frames[1]>>
    BY <2>1, <2>2, SeqOne, SeqEqual
  <2>4. Append(down, frames[1]) = down \o <<frames[1]>>
    BY <1>2, <2>2, AppendIsConcat
  <2>5. CASE n = 0
    <3>1. down' = down \o << >> /\ buf' = <<frames[1]>>
      <4>1. down' = down \o Out(0)
        BY <1>1, <2>5
      <4>2. buf' = <<frames[1]>>
        BY <1>1, <2>1, <2>5
      <4>3. QED
        BY <1>14, <4>1, <4>2, Zenon
    <3>2. down' = down
      BY <1>2, <3>1, ConcatEmptySeq
    <3>3. QED
      BY <2>4, <3>1, <3>2 DEF Line
  <2>6. CASE n = 1
    <3>1. down' = down \o <<frames[1]>> /\ buf' = << >>
      BY <1>1, <1>15, <2>1, <2>3, <2>6
    <3>2. down' \o << >> = down'
      BY <1>5, ConcatEmptySeq
    <3>3. QED
      BY <2>4, <3>1, <3>2 DEF Line
  <2>7. QED
    BY <1>1, <2>1, <2>5, <2>6
<1>17. Len(frames) = 2 =>
         \/ Line' = Append(Append(down, frames[1]), frames[2])
         \/ /\ Line' = Append(down, frames[2])
            /\ "dropped" \notin skewed' => frames[1].type # "I"
  <2>1. SUFFICES ASSUME Len(frames) = 2
                 PROVE  \/ Line' = Append(Append(down, frames[1]), frames[2])
                        \/ /\ Line' = Append(down, frames[2])
                           /\ "dropped" \notin skewed' => frames[1].type # "I"
    OBVIOUS
  <2> DEFINE x == frames[1]
             y == frames[2]
  <2>2. x \in Sent /\ y \in Sent /\ frames # << >>
    BY <1>4, <2>1
  <2>3. frames = <<x, y>>
    BY <2>1, <2>2, SeqTwo, SeqEqual
  <2>4. /\ Append(down, x) = down \o <<x>> /\ Append(down, x) \in Seq(Sent)
        /\ Append(down, y) = down \o <<y>>
    BY <1>2, <2>2, AppendIsConcat, AppendProperties
  <2>5. Append(Append(down, x), y) = (down \o <<x>>) \o <<y>>
    BY <2>2, <2>4, AppendIsConcat
  <2>6. <<x>> \in Seq(Sent) /\ <<y>> \in Seq(Sent) /\ <<x, y>> \in Seq(Sent)
    BY <2>2, SeqOne, SeqTwo
  <2>7. Append(Append(down, x), y) = down \o <<x, y>>
    <3>1. <<x>> \o <<y>> = <<x, y>>
      BY <2>2, OneAndOne
    <3>2. QED
      BY <1>2, <2>5, <2>6, <3>1, ConcatAssociative
  <2>8. CASE n = 0
    <3>1. down' = down \o << >> /\ buf' = <<y>>
      <4>1. down' = down \o Out(0)
        BY <1>1, <2>8
      <4>2. buf' = <<y>>
        BY <1>1, <2>1, <2>8
      <4>3. QED
        BY <1>14, <4>1, <4>2, Zenon
    <3>2. down' = down
      BY <1>2, <3>1, ConcatEmptySeq
    <3>3. Line' = Append(down, y)
      BY <2>4, <3>1, <3>2 DEF Line
    <3>4. ASSUME "dropped" \notin skewed' PROVE x.type # "I"
      <4> DEFINE rest == SubSeq(frames, 1, 1)
      <4>1. Gone(n) = buf \o rest
        BY <2>1, <2>2, <2>8
      <4>2. Len(rest) = 1 /\ rest[1] = x /\ rest \in Seq(Sent)
        BY <1>4, <2>1, SubSeqProperties
      <4>3. Len(buf) + 1 \in DOMAIN (buf \o rest) /\ (buf \o rest)[Len(buf) + 1] = x
        <5>1. /\ buf \o rest \in Seq(Sent) /\ Len(buf \o rest) = Len(buf) + 1
              /\ (buf \o rest)[Len(buf) + 1] = rest[1]
          BY <1>2, <4>2, ConcatProperties
        <5>2. QED
          BY <1>2, <4>2, <5>1, LenProperties
      <4> HIDE DEF rest
      <4>4. x.type = "I" => Len(buf) + 1 \in Numbered(buf \o rest)
        BY <4>3 DEF Numbered
      <4>5. QED
        BY <1>10, <3>4, <4>1, <4>4
    <3>5. QED
      BY <3>3, <3>4
  <2>9. CASE n = 1
    <3>1. Out(1) = <<x>>
      <4>1. Out(1) \in Seq(Sent) /\ Len(Out(1)) = 1 /\ Out(1)[1] = x
        BY <1>4, <2>1, SubSeqProperties
      <4> DEFINE out == Out(1)
                 one == <<x>>
      <4>2. out \in Seq(Sent) /\ Len(out) = 1 /\ out[1] = x
        BY <4>1
      <4>3. one \in Seq(Sent) /\ Len(one) = 1 /\ one[1] = x
        BY <2>2, SeqOne
      <4> HIDE DEF out, one
      <4>4. out = one
        BY <4>2, <4>3, SeqEqual
      <4>5. QED
        BY <4>4 DEF out, one
    <3>2. Line' = (down \o <<x>>) \o <<y>>
      BY <1>1, <2>1, <2>9, <3>1 DEF Line
    <3>3. QED
      BY <2>5, <3>2
  <2>10. CASE n = 2
    <3>1. down' = down \o <<x, y>> /\ buf' = << >>
      BY <1>1, <1>15, <2>1, <2>3, <2>10
    <3>2. down' \o << >> = down'
      BY <1>5, ConcatEmptySeq
    <3>3. QED
      BY <2>7, <3>1, <3>2 DEF Line
  <2>11. QED
    BY <1>1, <2>1, <2>8, <2>9, <2>10
<1>18. QED
  BY <1>5, <1>6, <1>7, <1>8, <1>9, <1>12, <1>13, <1>16, <1>17

------------------------------------------------------------------------------
(* Types are kept.                                                         *)

LEMMA InitTypes == Init => TInv
<1> SUFFICES ASSUME Init PROVE TInv
  OBVIOUS
<1>1. << >> \in Seq(Sent) /\ << >> \in Seq(Given) /\ Len(<< >>) = 0
  BY EmptySeq
<1>2. NumberTypes
  BY NumFacts DEF Init, NumberTypes
<1>3. FlagTypes
  BY DEF Init, FlagTypes
<1>4. EventTypes
  BY Sizes DEF Init, EventTypes
<1>5. OutTypes
  <2>1. down = << >> /\ buf = << >> /\ retx = FALSE /\ effort = 0 /\ skewed = {}
    BY DEF Init
  <2>2. down \in Seq(Sent) /\ buf \in Seq(Sent) /\ Len(buf) = 0
    BY <1>1, <2>1
  <2>3. retx \in BOOLEAN /\ skewed \subseteq Causes
    BY <2>1
  <2>4. effort \in 0 .. MaxEffort
    BY <2>1, Sizes
  <2>5. QED
    BY <2>2, <2>3, <2>4 DEF OutTypes
<1>6. RestTypes
  BY <1>1, Sizes DEF Init, RestTypes
<1>7. QED
  BY <1>2, <1>3, <1>4, <1>5, <1>6 DEF TInv

LEMMA TypeStill ==
  ASSUME TInv
  PROVE  /\ UNCHANGED <<sn, rn, ack, ackrn, mvr, macked, msn>> => NumberTypes'
         /\ UNCHANGED <<dt, cont, timer, open, status, ready, begun, lap>> => FlagTypes'
         /\ UNCHANGED <<made, freed, held, got, last>> => EventTypes'
         /\ UNCHANGED <<made, down, buf, retx, effort, skewed>> => OutTypes'
         /\ UNCHANGED <<up, conns, unasked>> => RestTypes'
  BY DEF TInv, NumberTypes, FlagTypes, EventTypes, OutTypes, RestTypes, Sent

\* A write.
LEMMA PutTypes ==
  ASSUME TInv, NEW cost \in {0, 1}, cost = 1 => Spare,
         NEW frames \in Seq(Sent), Len(frames) =< 2, PutFor(cost, frames), made' = made
  PROVE  OutTypes'
<1>1. effort + cost =< MaxEffort /\ cost \in Nat
  BY Sizes DEF TInv, OutTypes, Spare
<1>2. /\ down' \in Seq(Sent) /\ buf' \in Seq(Sent) /\ Len(buf') =< 1
      /\ retx' \in BOOLEAN /\ effort' \in 0 .. MaxEffort /\ skewed' \subseteq Causes
  BY <1>1, PutFacts
<1>3. Sent' = Sent
  BY DEF Sent
<1>4. QED
  BY <1>2, <1>3 DEF OutTypes

LEMMA NoFrames == << >> \in Seq(Sent) /\ Len(<< >>) = 0 /\ Len(<< >>) =< 2
  BY EmptySeq

LEMMA SoeTypes ==
  ASSUME TInv, SendDSoe
  PROVE  TInv'
<1> DEFINE unread == made - freed
           before == IF held > unread THEN 0 ELSE held
           f      == I(sn, freed + before + 1)
<1>1. /\ unread > before /\ held' = before + 1 /\ cont' = (InFlight(sn, ack) < K)
      /\ sn' = Succ(sn) /\ rn' = rn % M /\ ackrn' = rn % M
      /\ timer' = (timer \cup {1}) \ {2} /\ lap' = (lap \/ sn' = 0)
      /\ PutFor(0, <<f>>)
      /\ UNCHANGED <<ack, dt, made, freed, mvr, macked, msn, ready, got, last,
                     open, status, up, conns, begun, unasked>>
  BY DEF SendDSoe, Put, master, socket
<1>2. made \in Nat /\ freed \in Nat /\ held \in Nat /\ before = held /\ held =< unread
  BY Sizes DEF TInv, EventTypes
<1>3. f \in Sent
  <2>1. freed + before + 1 \in 0 .. made
    BY <1>1, <1>2
  <2>2. QED
    BY <2>1, FrameFacts DEF TInv, NumberTypes
<1> HIDE DEF f
<1>4. OutTypes'
  <2>1. <<f>> \in Seq(Sent) /\ Len(<<f>>) = 1
    BY <1>3, SeqOne
  <2> DEFINE s == <<f>>
  <2> HIDE DEF s
  <2>2. s \in Seq(Sent) /\ Len(s) =< 2 /\ PutFor(0, s) /\ made' = made
    BY <1>1, <2>1 DEF s
  <2>3. QED
    BY <2>2, PutTypes
<1>5. NumberTypes'
  <2>1. sn' \in Num /\ (rn % M) \in Num /\ rn' \in 0 .. M
    BY <1>1, NumFacts DEF TInv, NumberTypes, Succ
  <2>2. QED
    BY <1>1, <2>1 DEF TInv, NumberTypes
<1>6. FlagTypes'
  <2>1. cont' \in BOOLEAN /\ lap' \in BOOLEAN
    BY <1>1
  <2>2. timer' \subseteq {1, 2, 3}
    BY <1>1 DEF TInv, FlagTypes
  <2>3. QED
    BY <1>1, <2>1, <2>2 DEF TInv, FlagTypes
<1>7. EventTypes'
  <2>1. held' \in 0 .. made - freed
    BY <1>1, <1>2
  <2>2. QED
    BY <1>1, <2>1 DEF TInv, EventTypes
<1>8. QED
  BY <1>1, <1>4, <1>5, <1>6, <1>7, TypeStill DEF TInv

LEMMA IdleTypes ==
  ASSUME TInv, Idle
  PROVE  TInv'
<1>1. /\ retx' = FALSE
      /\ \/ down' = down \o buf /\ buf' = << >> /\ UNCHANGED effort
         \/ effort < MaxEffort /\ effort' = effort + 1 /\ UNCHANGED <<down, buf>>
         \/ UNCHANGED <<down, buf, effort>>
      /\ UNCHANGED <<sn, rn, ack, ackrn, dt, cont, timer, skewed, made, freed, held,
                     mvr, macked, msn, ready, got, last, open, status, up, conns,
                     begun, unasked, lap>>
  BY DEF Idle, Spare, numbers, enable, events, master, socket, history
<1>2. down \in Seq(Sent) /\ buf \in Seq(Sent)
  BY DEF TInv, OutTypes
<1>3. down \o buf \in Seq(Sent) /\ << >> \in Seq(Sent) /\ Len(<< >>) = 0
  BY <1>2, ConcatProperties, EmptySeq
<1>4. Sent' = Sent
  BY <1>1 DEF Sent
<1>5. effort' \in 0 .. MaxEffort
  BY <1>1, Sizes DEF TInv, OutTypes
<1>6. OutTypes'
  <2>1. down' \in Seq(Sent) /\ buf' \in Seq(Sent) /\ Len(buf') =< 1
    <3>1. CASE down' = down \o buf /\ buf' = << >>
      <4>1. Len(buf') = 0 /\ down' \in Seq(Sent) /\ buf' \in Seq(Sent)
        BY <1>3, <3>1
      <4>2. QED
        BY <4>1
    <3>2. CASE UNCHANGED <<down, buf>>
      BY <3>2 DEF TInv, OutTypes
    <3>3. QED
      BY <1>1, <3>1, <3>2
  <2>2. QED
    BY <1>1, <1>4, <1>5, <2>1 DEF TInv, OutTypes
<1>7. QED
  BY <1>1, <1>6, TypeStill DEF TInv

\* A frame that is received.
LEMMA HeadFacts ==
  ASSUME TInv, up # << >>
  PROVE  /\ Head(up) \in Given /\ Tail(up) \in Seq(Given)
         /\ Head(up).type = "I" => /\ Head(up).ns \in Num /\ Head(up).nr \in Num
                                   /\ Head(up).op \in {"bad", "ask", "quiet"}
         /\ Head(up).type = "S" => Head(up).nr \in Num
<1>1. Head(up) \in Given /\ Tail(up) \in Seq(Given)
  BY HeadTailProperties DEF TInv, RestTypes
<1>2. QED
  BY <1>1 DEF Given

\* The parts of the state that DoIFrame leaves, told by what it sends.
LEMMA AnswerFacts ==
  ASSUME TInv, NEW f \in Given, f.type = "I", DoIFrame(f)
  PROVE  LET r      == f.ns + 1
             sframe == r - ackrn >= W
             reply  == f.op = "bad" \/ (f.op = "ask" /\ CanSendIFrame) IN
         /\ ack' = f.nr
         /\ rn' = IF sframe \/ reply THEN r % M ELSE r
         /\ ackrn' = IF sframe \/ reply THEN r % M ELSE ackrn
         /\ sn' = IF reply THEN Succ(sn) ELSE sn
         /\ timer' = (IF sframe \/ reply THEN Heard \ {2} ELSE Heard \cup {2})
                     \cup (IF reply THEN {1} ELSE {})
         /\ lap' = (lap \/ (reply /\ sn' = 0))
         /\ unasked' = IF f.op = "bad" THEN unasked + 1 ELSE unasked
         /\ \/ ~reply /\ ~sframe /\ PutFor(0, << >>)
            \/ ~reply /\ sframe /\ PutFor(0, <<S>>)
            \/ reply /\ ~sframe /\ PutFor(0, <<I(sn, 0)>>)
            \/ reply /\ sframe /\ PutFor(0, <<S, I(sn, 0)>>)
         /\ UNCHANGED <<dt, begun>>
<1> DEFINE r      == f.ns + 1
           sframe == r - ackrn >= W
           reply  == f.op = "bad" \/ (f.op = "ask" /\ CanSendIFrame)
           frames == (IF sframe THEN <<S>> ELSE << >>)
                     \o (IF reply THEN <<I(sn, 0)>> ELSE << >>)
<1>1. PutFor(0, frames)
  BY DEF DoIFrame, Put
<1>2. S \in Sent /\ I(sn, 0) \in Sent
  <2>1. 0 \in 0 .. made /\ sn \in Num
    BY Sizes DEF TInv, NumberTypes, EventTypes
  <2>2. QED
    BY <2>1, FrameFacts
<1>3. <<S>> \in Seq(Sent) /\ <<I(sn, 0)>> \in Seq(Sent) /\ << >> \in Seq(Sent)
  BY <1>2, SeqOne, NoFrames
<1>4. /\ << >> \o << >> = << >> /\ <<S>> \o << >> = <<S>>
      /\ << >> \o <<I(sn, 0)>> = <<I(sn, 0)>> /\ <<S>> \o <<I(sn, 0)>> = <<S, I(sn, 0)>>
  BY <1>2, <1>3, ConcatEmptySeq, OneAndOne
<1>5. \/ ~reply /\ ~sframe /\ PutFor(0, << >>)
      \/ ~reply /\ sframe /\ PutFor(0, <<S>>)
      \/ reply /\ ~sframe /\ PutFor(0, <<I(sn, 0)>>)
      \/ reply /\ sframe /\ PutFor(0, <<S, I(sn, 0)>>)
  BY <1>1, <1>4, Zenon
<1>6. QED
  BY <1>5 DEF DoIFrame

LEMMA IFrameTypes ==
  ASSUME TInv, NEW f \in Given, f.type = "I", f.ns \in Num, f.nr \in Num, DoIFrame(f),
         made' = made
  PROVE  /\ sn' \in Num /\ rn' \in 0 .. M /\ ack' \in Num /\ ackrn' \in Num
         /\ lap' \in BOOLEAN /\ timer' \subseteq {1, 2, 3} /\ unasked' \in Nat
         /\ OutTypes' /\ UNCHANGED <<dt, begun>>
<1> DEFINE r      == f.ns + 1
           sframe == r - ackrn >= W
           reply  == f.op = "bad" \/ (f.op = "ask" /\ CanSendIFrame)
<1>1. /\ ack' = f.nr
      /\ rn' = IF sframe \/ reply THEN r % M ELSE r
      /\ ackrn' = IF sframe \/ reply THEN r % M ELSE ackrn
      /\ sn' = IF reply THEN Succ(sn) ELSE sn
      /\ timer' = (IF sframe \/ reply THEN Heard \ {2} ELSE Heard \cup {2})
                  \cup (IF reply THEN {1} ELSE {})
      /\ lap' = (lap \/ (reply /\ sn' = 0))
      /\ unasked' = IF f.op = "bad" THEN unasked + 1 ELSE unasked
      /\ UNCHANGED <<dt, begun>>
  BY AnswerFacts
<1>2. \/ PutFor(0, << >>) \/ PutFor(0, <<S>>)
      \/ PutFor(0, <<I(sn, 0)>>) \/ PutFor(0, <<S, I(sn, 0)>>)
  BY AnswerFacts
<1>3. S \in Sent /\ I(sn, 0) \in Sent
  <2>1. 0 \in 0 .. made /\ sn \in Num
    BY Sizes DEF TInv, NumberTypes, EventTypes
  <2>2. QED
    BY <2>1, FrameFacts
<1>4. PICK frames \in Seq(Sent) : Len(frames) =< 2 /\ PutFor(0, frames)
  <2>1. /\ << >> \in Seq(Sent) /\ Len(<< >>) =< 2
        /\ <<S>> \in Seq(Sent) /\ Len(<<S>>) =< 2
        /\ <<I(sn, 0)>> \in Seq(Sent) /\ Len(<<I(sn, 0)>>) =< 2
        /\ <<S, I(sn, 0)>> \in Seq(Sent) /\ Len(<<S, I(sn, 0)>>) =< 2
    BY <1>3, NoFrames, SeqOne, SeqTwo
  <2>2. QED
    BY <1>2, <2>1, Zenon
<1>5. OutTypes'
  BY <1>4, PutTypes
<1> HIDE DEF sframe, reply
<1>6. rn' \in 0 .. M /\ ackrn' \in Num /\ sn' \in Num
  <2>1. r \in 0 .. M /\ (r % M) \in Num /\ (r % M) \in 0 .. M
    BY NumFacts
  <2> HIDE DEF r
  <2>2. Succ(sn) \in Num /\ sn \in Num /\ ackrn \in Num
    BY NumFacts DEF TInv, NumberTypes, Succ
  <2>3. QED
    BY <1>1, <2>1, <2>2
<1>7. timer' \subseteq {1, 2, 3}
  BY <1>1 DEF TInv, FlagTypes, Heard
<1>8. lap' \in BOOLEAN
  BY <1>1
<1>9. unasked' \in Nat
  BY <1>1 DEF TInv, RestTypes
<1>10. QED
  BY <1>1, <1>5, <1>6, <1>7, <1>8, <1>9

\* A handler that sends at most one frame of the two other types.
LEMMA AnswerTypes ==
  ASSUME TInv, NEW frames \in Seq(Sent), Len(frames) =< 2, Put(frames), made' = made
  PROVE  OutTypes'
<1>1. PutFor(0, frames)
  BY DEF Put
<1>2. QED
  BY <1>1, PutTypes

LEMMA UFrames ==
  ASSUME TInv, NEW g \in {"stopdt con", "testfr act", "testfr con"}
  PROVE  <<U(g)>> \in Seq(Sent) /\ Len(<<U(g)>>) =< 2
<1>1. U(g) \in Sent
  BY FrameFacts
<1>2. QED
  BY <1>1, SeqOne, Zenon

LEMMA ReceiveTypes ==
  ASSUME TInv, DoReceive
  PROVE  TInv'
<1> DEFINE f == Head(up)
<1>1. /\ f \in Given /\ Tail(up) \in Seq(Given)
      /\ f.type = "I" => f.ns \in Num /\ f.nr \in Num
      /\ f.type = "S" => f.nr \in Num
  BY HeadFacts DEF DoReceive
<1>2. /\ \/ f.type = "I" /\ DoIFrame(f)
         \/ f.type = "S" /\ DoSFrame(f)
         \/ f.type = "U" /\ f.fn = "startdt act" /\ StartDt
         \/ f.type = "U" /\ f.fn = "stopdt act" /\ StopDt
         \/ f.type = "U" /\ f.fn \in {"testfr act", "testfr con"} /\ TestFr(f)
      /\ freed' = freed + held /\ held' = 0 /\ made' = made
      /\ cont' = (InFlight(sn', ack') < K) /\ up' = Tail(up)
      /\ UNCHANGED <<mvr, macked, msn, ready, got, last, open, status, conns>>
  BY DEF DoReceive, FreeEvents, master
<1> HIDE DEF f
<1>3. EventTypes' /\ cont' \in BOOLEAN
  <2>1. freed + held \in 0 .. made /\ 0 \in 0 .. made - (freed + held)
    BY Sizes DEF TInv, EventTypes
  <2>2. freed' \in 0 .. made' /\ held' \in 0 .. made' - freed'
    BY <1>2, <2>1
  <2>3. UNCHANGED <<made, got, last>>
    BY <1>2
  <2>4. made' \in 0 .. MaxEvent /\ got' \subseteq 1 .. made' /\ last' \in 0 .. made'
    BY <2>3 DEF TInv, EventTypes
  <2>5. cont' \in BOOLEAN
    <3>1. cont' = (InFlight(sn', ack') < K)
      BY <1>2
    <3>2. QED
      BY <3>1
  <2>6. QED
    BY <2>2, <2>4, <2>5 DEF EventTypes
<1>4. /\ sn \in Num /\ rn \in 0 .. M /\ ack \in Num /\ ackrn \in Num
      /\ lap \in BOOLEAN /\ begun \in BOOLEAN /\ dt \in BOOLEAN /\ unasked \in Nat
      /\ Heard \subseteq {1, 2, 3}
  BY DEF TInv, NumberTypes, FlagTypes, RestTypes, Heard
<1>5. /\ sn' \in Num /\ rn' \in 0 .. M /\ ack' \in Num /\ ackrn' \in Num
      /\ lap' \in BOOLEAN /\ begun' \in BOOLEAN /\ dt' \in BOOLEAN /\ unasked' \in Nat
      /\ timer' \subseteq {1, 2, 3} /\ OutTypes'
  <2>1. CASE f.type = "I" /\ DoIFrame(f)
    BY <1>1, <1>2, <1>4, <2>1, IFrameTypes
  <2>2. CASE f.type = "S" /\ DoSFrame(f)
    <3>1. Put(<< >>)
      BY <2>2 DEF DoSFrame
    <3>2. OutTypes'
      BY <1>2, <3>1, NoFrames, AnswerTypes, Zenon
    <3>3. QED
      BY <1>1, <1>4, <2>2, <3>2 DEF DoSFrame, history
  <2>3. CASE StartDt
    <3>1. U("startdt con") \in Sent /\ I(0, 0) \in Sent
      <4>1. 0 \in 0 .. made /\ 0 \in Num
        BY Sizes, NumFacts DEF TInv, EventTypes
      <4>2. QED
        BY <4>1, FrameFacts
    <3> DEFINE s == <<U("startdt con"), I(0, 0)>>
    <3>2. s \in Seq(Sent) /\ Len(s) =< 2
      BY <3>1, SeqTwo, Zenon
    <3>3. Put(s)
      BY <2>3 DEF StartDt
    <3> HIDE DEF s
    <3>4. OutTypes'
      BY <1>2, <3>2, <3>3, AnswerTypes
    <3>5. QED
      BY <1>4, <2>3, <3>4, NumFacts DEF StartDt
  <2>4. CASE StopDt
    <3> DEFINE s == <<U("stopdt con")>>
    <3>1. s \in Seq(Sent) /\ Len(s) =< 2
      BY UFrames
    <3>2. Put(s)
      BY <2>4 DEF StopDt
    <3> HIDE DEF s
    <3>3. OutTypes'
      BY <1>2, <3>1, <3>2, AnswerTypes
    <3>4. QED
      BY <1>4, <2>4, <3>3 DEF StopDt, numbers, history
  <2>5. CASE TestFr(f)
    <3> DEFINE s == <<U("testfr con")>>
    <3>1. s \in Seq(Sent) /\ Len(s) =< 2
      BY UFrames
    <3>2. Put(s) \/ Put(<< >>)
      BY <2>5 DEF TestFr
    <3> HIDE DEF s
    <3>3. OutTypes'
      BY <1>2, <3>1, <3>2, NoFrames, AnswerTypes, Zenon
    <3>4. QED
      BY <1>4, <2>5, <3>3 DEF TestFr, numbers, history
  <2>6. QED
    BY <1>2, <2>1, <2>2, <2>3, <2>4, <2>5
<1>6. NumberTypes'
  BY <1>2, <1>5 DEF TInv, NumberTypes
<1>7. FlagTypes'
  BY <1>2, <1>3, <1>5 DEF TInv, FlagTypes
<1>8. RestTypes'
  BY <1>1, <1>2, <1>5 DEF TInv, RestTypes
<1>9. QED
  BY <1>3, <1>5, <1>6, <1>7, <1>8 DEF TInv

\* A break leaves parts of what was on its way.
LEMMA BreakFacts ==
  ASSUME TInv, NEW first \in {0, 1}, Break(first)
  PROVE  /\ down' \in Seq(Sent) /\ up' \in Seq(Given)
         /\ open' = FALSE /\ status' = TRUE
<1>1. PICK i \in first .. Len(down), j \in 0 .. Len(up) :
        down' = SubSeq(down, i + 1, Len(down)) /\ up' = SubSeq(up, 1, j)
  BY DEF Break
<1>2. Len(down) \in Nat /\ Len(up) \in Nat /\ down \in Seq(Sent) /\ up \in Seq(Given)
  BY LenProperties DEF TInv, OutTypes, RestTypes
<1>3. i + 1 \in Nat /\ i + 1 > 0 /\ j \in Int /\ j =< Len(up)
  BY <1>2
<1>4. QED
  BY <1>1, <1>2, <1>3, CutFacts DEF Break

LEMMA OutFrom ==
  ASSUME TInv, down' \in Seq(Sent), UNCHANGED <<made, buf, retx, skewed>>,
         effort' \in 0 .. MaxEffort
  PROVE  OutTypes'
<1>1. Sent' = Sent
  BY DEF Sent
<1>2. QED
  BY <1>1 DEF TInv, OutTypes

LEMMA TimerTypes ==
  ASSUME TInv, T1Out \/ T2Out \/ T3Out \/ DoCommState
  PROVE  TInv'
<1>1. CASE T1Out
  <2>1. down' \in Seq(Sent) /\ up' \in Seq(Given) /\ open' \in BOOLEAN /\ status' \in BOOLEAN
    <3>1. CASE open
      BY <1>1, <3>1, BreakFacts DEF T1Out
    <3>2. CASE ~open
      BY <1>1, <3>2 DEF T1Out, TInv, OutTypes, RestTypes, FlagTypes
    <3>3. QED
      BY <3>1, <3>2
  <2>2. /\ sn' = 0 /\ rn' = 0 /\ ack' = 0 /\ ackrn' = 0 /\ timer' = {} /\ dt' = FALSE
        /\ UNCHANGED <<cont, buf, retx, effort, skewed, made, freed, held, mvr, macked,
                       msn, ready, got, last, conns, begun, unasked, lap>>
    BY <1>1 DEF T1Out, events, master, history
  <2>3. effort \in 0 .. MaxEffort
    BY DEF TInv, OutTypes
  <2>4. OutTypes'
    BY <2>1, <2>2, <2>3, OutFrom
  <2>5. NumberTypes'
    BY <2>2, NumFacts DEF TInv, NumberTypes
  <2>6. FlagTypes' /\ RestTypes'
    BY <2>1, <2>2 DEF TInv, FlagTypes, RestTypes
  <2>7. QED
    BY <2>2, <2>4, <2>5, <2>6, TypeStill DEF TInv
<1>2. CASE T2Out
  <2>1. /\ timer' = timer \ {2} /\ rn' = rn % M /\ ackrn' = rn % M /\ PutFor(0, <<S>>)
        /\ UNCHANGED <<sn, ack, dt, cont, made, freed, held, mvr, macked, msn, ready, got,
                       last, open, status, up, conns, begun, unasked, lap>>
    BY <1>2 DEF T2Out, Put, enable, events, master, socket, history
  <2> DEFINE s == <<S>>
  <2>2. s \in Seq(Sent) /\ Len(s) =< 2
    BY FrameFacts, SeqOne, Zenon
  <2>3. PutFor(0, s)
    BY <2>1
  <2> HIDE DEF s
  <2>4. OutTypes'
    BY <2>1, <2>2, <2>3, PutTypes
  <2>5. NumberTypes'
    BY <2>1, NumFacts DEF TInv, NumberTypes
  <2>6. FlagTypes'
    BY <2>1 DEF TInv, FlagTypes
  <2>7. QED
    BY <2>1, <2>4, <2>5, <2>6, TypeStill DEF TInv
<1>3. CASE T3Out
  <2>1. /\ timer' = (timer \ {3}) \cup {1} /\ Spare /\ PutFor(1, <<U("testfr act")>>)
        /\ UNCHANGED <<sn, rn, ack, ackrn, dt, cont, made, freed, held, mvr, macked, msn,
                       ready, got, last, open, status, up, conns, begun, unasked, lap>>
    BY <1>3 DEF T3Out, numbers, enable, events, master, socket, history
  <2> DEFINE s == <<U("testfr act")>>
  <2>2. s \in Seq(Sent) /\ Len(s) =< 2
    BY UFrames
  <2>3. PutFor(1, s)
    BY <2>1
  <2> HIDE DEF s
  <2>4. OutTypes'
    BY <2>1, <2>2, <2>3, PutTypes
  <2>5. FlagTypes'
    BY <2>1 DEF TInv, FlagTypes
  <2>6. QED
    BY <2>1, <2>4, <2>5, TypeStill DEF TInv
<1>4. CASE DoCommState
  <2>1. /\ status' = FALSE /\ timer' = {} /\ held' = 0
        /\ \/ sn' = 0 /\ rn' = 0 /\ ack' = 0 /\ ackrn' = 0
           \/ UNCHANGED <<sn, rn, ack, ackrn>>
        /\ skewed' = skewed \cup {"late"} \/ skewed' = skewed
        /\ dt' = dt \/ dt' = FALSE
        /\ UNCHANGED <<cont, buf, retx, down, effort, made, freed, mvr, macked, msn, ready,
                       got, last, open, up, conns, begun, unasked, lap>>
    BY <1>4 DEF DoCommState, numbers, master, history
  <2>2. NumberTypes'
    BY <2>1, NumFacts DEF TInv, NumberTypes
  <2>3. FlagTypes'
    BY <2>1 DEF TInv, FlagTypes
  <2>4. EventTypes'
    <3>1. 0 \in 0 .. made - freed
      BY Sizes DEF TInv, EventTypes
    <3>2. UNCHANGED <<made, freed, got, last>> /\ held' = 0
      BY <2>1
    <3>3. QED
      BY <3>1, <3>2 DEF TInv, EventTypes
  <2>5. OutTypes'
    <3>1. skewed' \subseteq Causes
      BY <2>1 DEF TInv, OutTypes, Causes
    <3>2. Sent' = Sent
      BY <2>1 DEF Sent
    <3>3. UNCHANGED <<down, buf, retx, effort>>
      BY <2>1
    <3>4. QED
      BY <3>1, <3>2, <3>3 DEF TInv, OutTypes
  <2>6. QED
    BY <2>1, <2>2, <2>3, <2>4, <2>5, TypeStill DEF TInv
<1>5. QED
  BY <1>1, <1>2, <1>3, <1>4

LEMMA WriteTypes ==
  ASSUME TInv, WriteEvent
  PROVE  TInv'
<1>1. /\ made < MaxEvent /\ made' = made + 1
      /\ UNCHANGED <<sn, rn, ack, ackrn, mvr, macked, msn>>
      /\ UNCHANGED <<dt, cont, timer, open, status, ready, begun, lap>>
      /\ UNCHANGED <<up, conns, unasked>>
      /\ UNCHANGED <<freed, held, got, last, down, buf, retx, effort, skewed>>
  BY DEF WriteEvent, numbers, enable, output, master, socket, history
<1>2. /\ made' \in 0 .. MaxEvent /\ 0 .. made \subseteq 0 .. made' /\ 1 .. made \subseteq 1 .. made'
      /\ 0 .. made - freed \subseteq 0 .. made' - freed
  BY <1>1, Sizes DEF TInv, EventTypes
<1>3. EventTypes'
  BY <1>1, <1>2 DEF TInv, EventTypes
<1>4. Sent \subseteq Sent'
  BY <1>2 DEF Sent
<1>5. down' \in Seq(Sent') /\ buf' \in Seq(Sent')
  <2>1. down \in Seq(Sent) /\ buf \in Seq(Sent) /\ down' = down /\ buf' = buf
    BY <1>1 DEF TInv, OutTypes
  <2>2. QED
    BY <1>4, <2>1, SeqMonotonic
<1>6. OutTypes'
  BY <1>1, <1>5 DEF TInv, OutTypes
<1>7. QED
  BY <1>1, <1>3, <1>6, TypeStill DEF TInv

LEMMA ConnectTypes ==
  ASSUME TInv, Connect
  PROVE  TInv'
<1>1. PICK i \in 0 .. Len(down), j \in 0 .. Len(up) :
        /\ down' = SubSeq(down, i + 1, Len(down))
        /\ up' = Append(SubSeq(up, 1, j), U("startdt act"))
        /\ skewed' = (IF dt THEN {"break not seen"} ELSE {})
                     \cup (IF j > 0 \/ i < Len(down) \/ buf # << >>
                           THEN {"left over"} ELSE {})
  BY DEF Connect
<1>2. /\ conns < MaxConnect /\ conns' = conns + 1 /\ effort < MaxEffort
      /\ effort' = effort + 1 /\ open' = TRUE /\ status' = TRUE
      /\ mvr' = 0 /\ macked' = 0 /\ msn' = 0 /\ ready' = FALSE /\ last' = 0
      /\ begun' = FALSE /\ unasked' = 0 /\ lap' = FALSE
      /\ UNCHANGED <<sn, rn, ack, ackrn, dt, cont, timer, buf, retx, made, freed, held, got>>
  BY DEF Connect, Spare, numbers, enable, events
<1>3. Len(down) \in Nat /\ Len(up) \in Nat /\ down \in Seq(Sent) /\ up \in Seq(Given)
  BY LenProperties DEF TInv, OutTypes, RestTypes
<1>4. down' \in Seq(Sent)
  <2>1. i + 1 \in Nat /\ i + 1 > 0 /\ Len(down) \in Int /\ Len(down) =< Len(down)
    BY <1>3
  <2>2. SubSeq(down, i + 1, Len(down)) \in Seq(Sent)
    BY <1>3, <2>1, CutFacts, Zenon
  <2>3. QED
    BY <1>1, <2>2
<1>5. up' \in Seq(Given)
  <2>1. 1 \in Nat /\ 1 > 0 /\ j \in Int /\ j =< Len(up)
    BY <1>3
  <2>2. SubSeq(up, 1, j) \in Seq(Given) /\ U("startdt act") \in Given
    BY <1>3, <2>1, CutFacts, FrameFacts, Zenon
  <2>3. QED
    BY <1>1, <2>2, AppendProperties
<1>6. OutTypes'
  <2>1. Sent' = Sent
    BY <1>2 DEF Sent
  <2>2. skewed' \subseteq Causes
    BY <1>1 DEF Causes
  <2>3. effort' \in 0 .. MaxEffort
    BY <1>2, Sizes DEF TInv, OutTypes
  <2>4. QED
    BY <1>2, <1>4, <2>1, <2>2, <2>3 DEF TInv, OutTypes
<1>7. NumberTypes' /\ FlagTypes'
  BY <1>2, NumFacts DEF TInv, NumberTypes, FlagTypes
<1>8. EventTypes'
  BY <1>2, Sizes DEF TInv, EventTypes
<1>9. RestTypes'
  <2>1. conns' \in 0 .. MaxConnect
    BY <1>2, Sizes DEF TInv, RestTypes
  <2>2. QED
    BY <1>2, <1>5, <2>1 DEF TInv, RestTypes
<1>10. QED
  BY <1>6, <1>7, <1>8, <1>9 DEF TInv

LEMMA DisconnectTypes ==
  ASSUME TInv, Disconnect
  PROVE  TInv'
<1>1. /\ Break(0)
      /\ UNCHANGED <<sn, rn, ack, ackrn, dt, cont, timer, buf, retx, effort, skewed, made,
                     freed, held, mvr, macked, msn, ready, got, last, conns, begun, unasked,
                     lap>>
  BY DEF Disconnect, numbers, enable, events, master, history
<1>2. down' \in Seq(Sent) /\ up' \in Seq(Given) /\ open' = FALSE /\ status' = TRUE
  BY <1>1, BreakFacts
<1>3. effort \in 0 .. MaxEffort
  BY DEF TInv, OutTypes
<1>4. OutTypes'
  BY <1>1, <1>2, <1>3, OutFrom
<1>5. FlagTypes' /\ RestTypes'
  BY <1>1, <1>2 DEF TInv, FlagTypes, RestTypes
<1>6. QED
  BY <1>1, <1>4, <1>5, TypeStill DEF TInv

LEMMA MasterSendTypes ==
  ASSUME TInv, NEW f \in Given, MasterSends(f)
  PROVE  /\ up' \in Seq(Given) /\ up' = Append(up, f) /\ open
         /\ UNCHANGED <<sn, rn, ack, ackrn, dt, cont, timer, buf, retx, down, skewed, made,
                        freed, held, open, status, conns, begun, unasked, lap>>
<1>1. up' = Append(up, f)
  BY DEF MasterSends
<1>2. up' \in Seq(Given)
  BY <1>1, AppendProperties DEF TInv, RestTypes
<1>3. QED
  BY <1>1, <1>2 DEF MasterSends, numbers, enable, events, history

LEMMA MasterTypes ==
  ASSUME TInv, MasterAcks \/ MasterCommands \/ MasterReceives
  PROVE  TInv'
<1>1. CASE MasterAcks
  <2>1. Ack(mvr) \in Given
    BY FrameFacts DEF TInv, NumberTypes
  <2>2. /\ macked' = mvr /\ MasterSends(Ack(mvr))
        /\ UNCHANGED <<effort, mvr, msn, ready, got, last>>
    BY <1>1 DEF MasterAcks
  <2>3. /\ up' \in Seq(Given)
        /\ UNCHANGED <<sn, rn, ack, ackrn, dt, cont, timer, buf, retx, down, skewed, made,
                       freed, held, open, status, conns, begun, unasked, lap>>
    BY <2>1, <2>2, MasterSendTypes
  <2>4. NumberTypes' /\ RestTypes'
    BY <2>2, <2>3 DEF TInv, NumberTypes, RestTypes
  <2>5. QED
    BY <2>2, <2>3, <2>4, TypeStill DEF TInv
<1>2. CASE MasterCommands
  <2>1. PICK f \in Given : MasterSends(f)
    <3>1. \A op \in {"bad", "ask", "quiet"} : Command(msn, mvr, op) \in Given
      BY FrameFacts DEF TInv, NumberTypes
    <3>2. \A fn \in {"testfr act", "stopdt act"} : U(fn) \in Given
      BY FrameFacts
    <3>3. QED
      BY <1>2, <3>1, <3>2 DEF MasterCommands
  <2>2. /\ effort < MaxEffort /\ effort' = effort + 1
        /\ \/ msn' = (msn + 1) % M /\ macked' = mvr
           \/ UNCHANGED <<msn, macked>>
        /\ UNCHANGED <<mvr, ready, got, last>>
    BY <1>2 DEF MasterCommands, Spare
  <2>3. /\ up' \in Seq(Given)
        /\ UNCHANGED <<sn, rn, ack, ackrn, dt, cont, timer, buf, retx, down, skewed, made,
                       freed, held, open, status, conns, begun, unasked, lap>>
    BY <2>1, MasterSendTypes
  <2>4. NumberTypes'
    BY <2>2, <2>3, NumFacts DEF TInv, NumberTypes
  <2>5. effort' \in 0 .. MaxEffort /\ down' \in Seq(Sent)
    BY <2>2, <2>3, Sizes DEF TInv, OutTypes
  <2>6. OutTypes'
    BY <2>3, <2>5, OutFrom
  <2>7. RestTypes'
    BY <2>3 DEF TInv, RestTypes
  <2>8. QED
    BY <2>2, <2>3, <2>4, <2>6, <2>7, TypeStill DEF TInv
<1>3. CASE MasterReceives
  <2> DEFINE f == Head(down)
  <2>1. f \in Sent /\ Tail(down) \in Seq(Sent)
    BY <1>3, HeadTailProperties DEF MasterReceives, TInv, OutTypes
  <2>2. UNCHANGED <<sn, rn, ack, ackrn, dt, cont, timer, buf, retx, effort, skewed, made,
                    freed, held, macked, msn, conns, begun, unasked, lap>>
    BY <1>3 DEF MasterReceives, numbers, enable, events, history
  <2>3. CASE Break(1) /\ UNCHANGED <<mvr, ready, got, last>>
    <3>1. down' \in Seq(Sent) /\ up' \in Seq(Given) /\ open' = FALSE /\ status' = TRUE
      BY <2>3, BreakFacts
    <3>2. effort \in 0 .. MaxEffort
      BY DEF TInv, OutTypes
    <3>3. OutTypes'
      BY <2>2, <3>1, <3>2, OutFrom
    <3>4. FlagTypes' /\ RestTypes'
      BY <2>2, <2>3, <3>1 DEF TInv, FlagTypes, RestTypes
    <3>5. QED
      BY <2>2, <2>3, <3>3, <3>4, TypeStill DEF TInv
  <2>4. CASE ~(Break(1) /\ UNCHANGED <<mvr, ready, got, last>>)
    <3>1. /\ down' = Tail(down)
          /\ up' = Append(up, U("testfr con")) \/ up' = up
          /\ ready' = (ready \/ f = U("startdt con"))
          /\ IF f.type = "I" /\ f.ev > 0 THEN got' = got \cup {f.ev} /\ last' = f.ev
             ELSE UNCHANGED <<got, last>>
          /\ mvr' = IF f.type = "I" THEN (mvr + 1) % M ELSE mvr
          /\ UNCHANGED <<open, status>>
      BY <1>3, <2>4 DEF MasterReceives
    <3>2. up' \in Seq(Given)
      <4>1. U("testfr con") \in Given /\ up \in Seq(Given)
        BY FrameFacts DEF TInv, RestTypes
      <4>2. Append(up, U("testfr con")) \in Seq(Given)
        BY <4>1, AppendProperties, Zenon
      <4>3. QED
        BY <3>1, <4>1, <4>2
    <3>3. f.type = "I" => f.ev \in 0 .. made
      BY <2>1 DEF Sent
    <3> HIDE DEF f
    <3>4. effort \in 0 .. MaxEffort /\ down' \in Seq(Sent)
      BY <2>1, <3>1 DEF TInv, OutTypes
    <3>5. OutTypes'
      BY <2>2, <3>4, OutFrom
    <3>6. NumberTypes'
      BY <2>2, <3>1, NumFacts DEF TInv, NumberTypes
    <3>7. FlagTypes'
      BY <2>2, <3>1 DEF TInv, FlagTypes
    <3>8. EventTypes'
      <4>1. got' \subseteq 1 .. made /\ last' \in 0 .. made
        <5>1. CASE f.type = "I" /\ f.ev > 0
          <6>1. f.ev \in 1 .. made
            BY <3>3, <5>1, Sizes DEF TInv, EventTypes
          <6>2. QED
            BY <3>1, <3>3, <5>1, <6>1 DEF TInv, EventTypes
        <5>2. CASE ~(f.type = "I" /\ f.ev > 0)
          BY <3>1, <5>2 DEF TInv, EventTypes
        <5>3. QED
          BY <5>1, <5>2
      <4>2. UNCHANGED <<made, freed, held>>
        BY <2>2
      <4>3. QED
        BY <4>1, <4>2 DEF TInv, EventTypes
    <3>9. RestTypes'
      BY <2>2, <3>2 DEF TInv, RestTypes
    <3>10. QED
      BY <3>5, <3>6, <3>7, <3>8, <3>9 DEF TInv
  <2>5. QED
    BY <2>3, <2>4
<1>4. QED
  BY <1>1, <1>2, <1>3

LEMMA TypesKept ==
  ASSUME TInv, [Next]_vars
  PROVE  TInv'
<1>1. CASE UNCHANGED vars
  <2>1. /\ UNCHANGED <<sn, rn, ack, ackrn, mvr, macked, msn>>
        /\ UNCHANGED <<dt, cont, timer, open, status, ready, begun, lap>>
        /\ UNCHANGED <<made, freed, held, got, last>>
        /\ UNCHANGED <<made, down, buf, retx, effort, skewed>>
        /\ UNCHANGED <<up, conns, unasked>>
    BY <1>1 DEF vars, numbers, enable, output, events, master, socket, history
  <2>2. QED
    BY <2>1, TypeStill DEF TInv
<1>2. QED
  BY <1>1, SoeTypes, IdleTypes, ReceiveTypes, TimerTypes, WriteTypes, ConnectTypes,
    DisconnectTypes, MasterTypes DEF Next, Station, Environment

\* Counters stay below the modulus (V(R) reaches it until it is next sent), no
\* more is freed and held than was written.
THEOREM TypeCorrect == Spec => []TypeOK
<1>1. TInv => TypeOK
  <2> SUFFICES ASSUME TInv PROVE TypeOK
    OBVIOUS
  <2>1. {sn, ack, ackrn, mvr, macked, msn} \subseteq Num /\ rn \in 0 .. M
    BY DEF TInv, NumberTypes
  <2>2. /\ {dt, cont, retx, open, status, ready, begun, lap} \subseteq BOOLEAN
        /\ timer \subseteq {1, 2, 3}
    BY DEF TInv, FlagTypes, OutTypes
  <2>3. made \in 0 .. MaxEvent /\ held \in Nat /\ freed \in 0 .. made /\ got \subseteq 1 .. made
    BY Sizes DEF TInv, EventTypes
  <2>4. Sent \subseteq Frame
    <3>1. 0 .. made \subseteq 0 .. MaxEvent
      BY Sizes DEF TInv, EventTypes
    <3>2. QED
      BY <3>1 DEF Sent, Frame
  <2>5. down \in Seq(Frame) /\ buf \in Seq(Frame) /\ Len(buf) =< 1
    BY <2>4, SeqMonotonic DEF TInv, OutTypes
  <2>6. conns \in 0 .. MaxConnect /\ effort \in 0 .. MaxEffort
    BY DEF TInv, RestTypes, OutTypes
  <2>7. QED
    BY <2>1, <2>2, <2>3, <2>5, <2>6 DEF TypeOK
<1>2. Spec => []TInv
  BY InitTypes, TypesKept, PTL DEF Spec
<1>3. QED
  BY <1>1, <1>2, PTL

------------------------------------------------------------------------------
(* Acknowledgements and timers.                                            *)

AcksHold == dt =>
              /\ rn % M # ackrn => 2 \in timer
              /\ rn - ackrn < W

\* What is owed does not change, and timer 2 does not stop.
LEMMA AcksStill ==
  ASSUME AcksHold, UNCHANGED <<rn, ackrn>>, dt' => dt, 2 \in timer => 2 \in timer'
  PROVE  AcksHold'
  BY DEF AcksHold

\* An acknowledgement goes out.
LEMMA AcksPaid ==
  ASSUME TInv, rn' \in 0 .. M - 1, ackrn' = rn'
  PROVE  AcksHold'
<1>1. rn' % M = rn'
  BY NumFacts DEF Num
<1>2. PICK r \in 0 .. M - 1 : rn' = r /\ ackrn' = r
  OBVIOUS
<1>3. r - r < W
  <2>1. r \in Int /\ W > 0
    BY Sizes
  <2>2. QED
    BY <2>1
<1>4. QED
  BY <1>1, <1>2, <1>3 DEF AcksHold

LEMMA AcksReceive ==
  ASSUME TInv, AcksHold, DoReceive
  PROVE  AcksHold'
<1> DEFINE f == Head(up)
<1>1. /\ f \in Given
      /\ f.type = "I" => f.ns \in Num /\ f.nr \in Num
  BY HeadFacts DEF DoReceive
<1>2. \/ f.type = "I" /\ DoIFrame(f)
      \/ f.type = "S" /\ DoSFrame(f)
      \/ StartDt
      \/ StopDt
      \/ TestFr(f)
  BY DEF DoReceive
<1> HIDE DEF f
<1>3. CASE f.type = "I" /\ DoIFrame(f)
  <2> DEFINE r      == f.ns + 1
             sframe == r - ackrn >= W
             reply  == f.op = "bad" \/ (f.op = "ask" /\ CanSendIFrame)
  <2>1. /\ rn' = IF sframe \/ reply THEN r % M ELSE r
        /\ ackrn' = IF sframe \/ reply THEN r % M ELSE ackrn
        /\ timer' = (IF sframe \/ reply THEN Heard \ {2} ELSE Heard \cup {2})
                    \cup (IF reply THEN {1} ELSE {})
    BY <1>1, <1>3, AnswerFacts
  <2>2. r \in Nat /\ (r % M) \in 0 .. M - 1 /\ ackrn \in Nat /\ W \in Nat
    BY <1>1, <1>3, NumFacts, Sizes DEF TInv, NumberTypes, Num
  <2>3. CASE sframe \/ reply
    <3>1. rn' \in 0 .. M - 1 /\ ackrn' = rn'
      BY <2>1, <2>2, <2>3
    <3>2. QED
      BY <3>1, AcksPaid
  <2>4. CASE ~(sframe \/ reply)
    <3>1. 2 \in timer'
      BY <2>1, <2>4
    <3>2. rn' - ackrn' < W
      BY <2>1, <2>2, <2>4
    <3>3. QED
      BY <3>1, <3>2 DEF AcksHold
  <2>5. QED
    BY <2>3, <2>4
<1>4. CASE DoSFrame(f) \/ TestFr(f)
  <2>1. UNCHANGED <<rn, ackrn, dt>> /\ timer' = Heard
    BY <1>4 DEF DoSFrame, TestFr, numbers
  <2>2. QED
    BY <2>1, AcksStill DEF Heard
<1>5. CASE StartDt
  <2>1. rn' = 0 /\ ackrn' = 0
    BY <1>5 DEF StartDt
  <2>2. QED
    BY <2>1, Sizes, AcksPaid
<1>6. CASE StopDt
  BY <1>6 DEF StopDt, AcksHold
<1>7. QED
  BY <1>2, <1>3, <1>4, <1>5, <1>6

LEMMA AcksKept ==
  ASSUME TInv, AcksHold, [Next]_vars
  PROVE  AcksHold'
<1>1. CASE SendDSoe \/ T2Out
  <2>1. rn' = rn % M /\ ackrn' = rn % M
    BY <1>1 DEF SendDSoe, T2Out
  <2>2. rn % M \in 0 .. M - 1
    BY NumFacts DEF TInv, NumberTypes, Num
  <2>3. QED
    BY <2>1, <2>2, AcksPaid
<1>2. CASE T1Out
  BY <1>2 DEF T1Out, AcksHold
<1>3. CASE T3Out
  <2>1. UNCHANGED <<rn, ackrn, dt>> /\ timer' = (timer \ {3}) \cup {1}
    BY <1>3 DEF T3Out, numbers, enable
  <2>2. QED
    BY <2>1, AcksStill
<1>4. CASE DoCommState
  <2>1. CASE open
    <3>1. rn' = 0 /\ ackrn' = 0
      BY <1>4, <2>1 DEF DoCommState
    <3>2. QED
      BY <3>1, Sizes, AcksPaid
  <2>2. CASE ~open
    BY <1>4, <2>2 DEF DoCommState, AcksHold
  <2>3. QED
    BY <2>1, <2>2
<1>5. CASE Idle \/ Environment \/ UNCHANGED vars
  <2>1. UNCHANGED <<rn, ackrn, dt, timer>>
    BY <1>5 DEF Idle, Environment, WriteEvent, Connect, Disconnect, MasterAcks,
      MasterCommands, MasterReceives, MasterSends, vars, numbers, enable
  <2>2. QED
    BY <2>1, AcksStill
<1>6. QED
  BY <1>1, <1>2, <1>3, <1>4, <1>5, AcksReceive DEF Next, Station

\* Commands are acknowledged in time: timer 2 runs while an acknowledgement is
\* owed, and W of them are never owed, unless the counter has just wrapped.
THEOREM AcksPunctual == Spec => []AcksInTime
<1>1. Init => AcksHold
  BY DEF Init, AcksHold
<1>2. AcksHold => AcksInTime
  BY DEF AcksHold, AcksInTime
<1>3. Init => TInv /\ AcksHold
  BY <1>1, InitTypes
<1>4. TInv /\ AcksHold /\ [Next]_vars => (TInv /\ AcksHold)'
  BY TypesKept, AcksKept
<1>5. QED
  BY <1>2, <1>3, <1>4, PTL DEF Spec

\* STARTDT was handled on this connection, unless a break was not seen, and
\* since then a timer watches the controlling station.
WatchHolds == dt /\ skewed = {} => begun /\ timer \cap {1, 3} # {}

LEMMA WatchStill ==
  ASSUME WatchHolds, dt' => dt, skewed' = {} => skewed = {}, begun' = begun,
         timer \cap {1, 3} # {} => timer' \cap {1, 3} # {}
  PROVE  WatchHolds'
  BY DEF WatchHolds

\* A write forgives nothing.
LEMMA PutSkews ==
  ASSUME NEW cost, NEW frames, PutFor(cost, frames)
  PROVE  skewed' = {} => skewed = {}
  BY DEF PutFor

LEMMA WatchReceive ==
  ASSUME TInv, WatchHolds, DoReceive
  PROVE  WatchHolds'
<1> DEFINE f == Head(up)
<1>1. f \in Given
  BY HeadFacts DEF DoReceive
<1>2. \/ f.type = "I" /\ DoIFrame(f)
      \/ f.type = "S" /\ DoSFrame(f)
      \/ StartDt
      \/ StopDt
      \/ TestFr(f)
  BY DEF DoReceive
<1> HIDE DEF f
<1>3. 3 \in Heard
  BY DEF Heard
<1>4. CASE f.type = "I" /\ DoIFrame(f)
  <2>1. 3 \in timer' /\ UNCHANGED <<dt, begun>>
    BY <1>3, <1>4 DEF DoIFrame
  <2>2. skewed' = {} => skewed = {}
    BY <1>4, PutSkews DEF DoIFrame, Put
  <2>3. QED
    BY <2>1, <2>2, WatchStill
<1>5. CASE DoSFrame(f) \/ TestFr(f)
  <2>1. 3 \in timer' /\ UNCHANGED <<dt, begun>>
    BY <1>3, <1>5 DEF DoSFrame, TestFr, history
  <2>2. skewed' = {} => skewed = {}
    BY <1>5, PutSkews DEF DoSFrame, TestFr, Put
  <2>3. QED
    BY <2>1, <2>2, WatchStill
<1>6. CASE StartDt
  <2>1. begun' = TRUE /\ timer' = (Heard \cup {1}) \ {2}
    BY <1>6 DEF StartDt
  <2>2. QED
    BY <2>1 DEF WatchHolds
<1>7. CASE StopDt
  BY <1>7 DEF StopDt, WatchHolds
<1>8. QED
  BY <1>2, <1>4, <1>5, <1>6, <1>7

LEMMA WatchKept ==
  ASSUME TInv, WatchHolds, [Next]_vars
  PROVE  WatchHolds'
<1>1. CASE SendDSoe \/ T2Out \/ T3Out
  <2>1. /\ UNCHANGED <<dt, begun>>
        /\ timer \cap {1, 3} # {} => timer' \cap {1, 3} # {}
    <3>1. CASE SendDSoe
      BY <3>1 DEF SendDSoe
    <3>2. CASE T2Out
      BY <3>2 DEF T2Out, enable, history
    <3>3. CASE T3Out
      BY <3>3 DEF T3Out, enable, history
    <3>4. QED
      BY <1>1, <3>1, <3>2, <3>3
  <2>2. skewed' = {} => skewed = {}
    BY <1>1, PutSkews DEF SendDSoe, T2Out, T3Out, Put
  <2>3. QED
    BY <2>1, <2>2, WatchStill
<1>2. CASE T1Out
  BY <1>2 DEF T1Out, WatchHolds
<1>3. CASE DoCommState
  <2>1. CASE open
    BY <1>3, <2>1 DEF DoCommState, WatchHolds, history
  <2>2. CASE ~open
    BY <1>3, <2>2 DEF DoCommState, WatchHolds
  <2>3. QED
    BY <2>1, <2>2
<1>4. CASE Connect
  BY <1>4 DEF Connect, WatchHolds, enable
<1>5. CASE Idle \/ WriteEvent \/ Disconnect \/ MasterAcks \/ MasterCommands
           \/ MasterReceives \/ UNCHANGED vars
  <2>1. UNCHANGED <<dt, begun, timer, skewed>>
    BY <1>5 DEF Idle, WriteEvent, Disconnect, MasterAcks, MasterCommands, MasterReceives,
      MasterSends, vars, enable, output, history
  <2>2. QED
    BY <2>1, WatchStill
<1>6. QED
  BY <1>1, <1>2, <1>3, <1>4, <1>5, WatchReceive DEF Next, Station, Environment

\* While the window is open a silent controlling station is noticed: timer 1 or
\* timer 3 runs.
THEOREM SilenceWatched == Spec => []SilenceNoticed
<1>1. Init => TInv /\ WatchHolds
  <2>1. Init => WatchHolds
    BY DEF Init, WatchHolds
  <2>2. QED
    BY <2>1, InitTypes
<1>2. TInv /\ WatchHolds /\ [Next]_vars => (TInv /\ WatchHolds)'
  BY TypesKept, WatchKept
<1>3. WatchHolds => SilenceNoticed
  BY DEF WatchHolds, SilenceNoticed, Sound, CanSendIFrame
<1>4. QED
  BY <1>1, <1>2, <1>3, PTL DEF Spec

------------------------------------------------------------------------------
(* Lines of frames.                                                        *)

\* The same I frames in the same places.
Alike(s, t) == Numbered(s) = Numbered(t) /\ \A i \in Numbered(s) : s[i] = t[i]

LEMMA AlikeChain ==
  ASSUME NEW s, NEW t, NEW u, Alike(s, t), Alike(t, u)
  PROVE  Alike(s, u)
  BY DEF Alike

LEMMA AlikeBack ==
  ASSUME NEW s, NEW t, Alike(s, t)
  PROVE  Alike(t, s)
  BY DEF Alike

LEMMA AlikeEvents ==
  ASSUME NEW s, NEW t, Alike(s, t)
  PROVE  Carriers(s) = Carriers(t) /\ Events(s) = Events(t)
  BY DEF Alike, Carriers, Events

\* A frame at the end.
LEMMA LastFrame ==
  ASSUME NEW T, NEW s \in Seq(T), NEW f \in T
  PROVE  /\ Len(s) \in Nat /\ Numbered(s) \subseteq 1 .. Len(s)
         /\ Numbered(Append(s, f)) = Numbered(s) \cup IF f.type = "I" THEN {Len(s) + 1} ELSE {}
         /\ \A i \in Numbered(s) : Append(s, f)[i] = s[i]
         /\ Append(s, f)[Len(s) + 1] = f
<1>1. Len(s) \in Nat /\ DOMAIN s = 1 .. Len(s)
  BY LenProperties
<1> DEFINE t == Append(s, f)
<1>2. /\ t \in Seq(T) /\ Len(t) = Len(s) + 1
      /\ \A i \in 1 .. Len(s) : t[i] = s[i]
      /\ t[Len(s) + 1] = f
  BY AppendProperties
<1>3. DOMAIN t = 1 .. Len(s) + 1
  BY <1>2, LenProperties
<1> HIDE DEF t
<1>4. Numbered(s) \subseteq 1 .. Len(s)
  BY <1>1 DEF Numbered
<1>5. Numbered(t) = Numbered(s) \cup IF f.type = "I" THEN {Len(s) + 1} ELSE {}
  BY <1>1, <1>2, <1>3 DEF Numbered
<1>6. \A i \in Numbered(s) : t[i] = s[i]
  BY <1>2, <1>4
<1>7. QED
  BY <1>1, <1>2, <1>4, <1>5, <1>6 DEF t

LEMMA QuietLast ==
  ASSUME NEW T, NEW s \in Seq(T), NEW f \in T, f.type # "I"
  PROVE  Alike(s, Append(s, f))
<1> DEFINE t == Append(s, f)
<1>1. /\ Numbered(t) = Numbered(s) \cup IF f.type = "I" THEN {Len(s) + 1} ELSE {}
      /\ \A i \in Numbered(s) : t[i] = s[i]
  BY LastFrame
<1> HIDE DEF t
<1>2. Numbered(t) = Numbered(s)
  BY <1>1
<1>3. QED
  BY <1>1, <1>2 DEF Alike, t

\* Frames without numbers that follow.
LEMMA QuietEnd ==
  ASSUME NEW T, NEW s \in Seq(T), NEW b \in Seq(T), Numbered(b) = {}
  PROVE  Alike(s, s \o b)
<1>1. /\ Len(s) \in Nat /\ DOMAIN s = 1 .. Len(s) /\ Len(b) \in Nat /\ DOMAIN b = 1 .. Len(b)
  BY LenProperties
<1> DEFINE t == s \o b
<1>2. /\ t \in Seq(T) /\ Len(t) = Len(s) + Len(b)
      /\ \A i \in 1 .. Len(s) + Len(b) : t[i] = IF i =< Len(s) THEN s[i] ELSE b[i - Len(s)]
  BY ConcatProperties
<1>3. DOMAIN t = 1 .. Len(s) + Len(b)
  BY <1>2, LenProperties
<1> HIDE DEF t
<1>4. ASSUME NEW i \in Numbered(t) PROVE i \in 1 .. Len(s)
  <2>1. i \in 1 .. Len(s) + Len(b) /\ t[i].type = "I"
    BY <1>3, <1>4 DEF Numbered
  <2>2. CASE i > Len(s)
    <3>1. i - Len(s) \in DOMAIN b /\ t[i] = b[i - Len(s)]
      BY <1>1, <1>2, <2>1, <2>2
    <3>2. i - Len(s) \in Numbered(b)
      BY <2>1, <3>1 DEF Numbered
    <3>3. QED
      BY <3>2
  <2>3. QED
    BY <1>1, <2>1, <2>2
<1>5. \A i \in 1 .. Len(s) : t[i] = s[i] /\ i \in DOMAIN t
  BY <1>1, <1>2, <1>3
<1>6. Numbered(s) = Numbered(t)
  BY <1>1, <1>4, <1>5 DEF Numbered
<1>7. QED
  BY <1>1, <1>5, <1>6 DEF Alike, Numbered, t

\* The frame at the head leaves.
LEMMA WithoutHead ==
  ASSUME NEW T, NEW d \in Seq(T), d # << >>, NEW b \in Seq(T)
  PROVE  LET s == d \o b
             t == Tail(d) \o b IN
         /\ Len(s) \in Nat /\ Len(s) > 0 /\ s[1] = Head(d)
         /\ DOMAIN s = 1 .. Len(s) /\ DOMAIN t = 1 .. Len(s) - 1
         /\ \A i \in 1 .. Len(s) - 1 : t[i] = s[i + 1]
<1> DEFINE e == Tail(d)
           s == d \o b
           t == e \o b
<1>1. /\ Len(d) \in Nat \ {0} /\ Len(b) \in Nat
      /\ e \in Seq(T) /\ Len(e) = Len(d) - 1 /\ \A i \in 1 .. Len(e) : e[i] = d[i + 1]
  BY HeadTailProperties, LenProperties, EmptySeq
<1>2. Head(d) = d[1]
  BY <1>1
<1>3. /\ s \in Seq(T) /\ Len(s) = Len(d) + Len(b)
      /\ \A i \in 1 .. Len(d) + Len(b) : s[i] = IF i =< Len(d) THEN d[i] ELSE b[i - Len(d)]
  BY ConcatProperties
<1>4. /\ t \in Seq(T) /\ Len(t) = Len(e) + Len(b)
      /\ \A i \in 1 .. Len(e) + Len(b) : t[i] = IF i =< Len(e) THEN e[i] ELSE b[i - Len(e)]
  BY <1>1, ConcatProperties
<1>5. DOMAIN s = 1 .. Len(s) /\ DOMAIN t = 1 .. Len(t)
  BY <1>3, <1>4, LenProperties
<1> HIDE DEF e, s, t
<1>6. /\ Len(s) \in Nat /\ Len(s) > 0 /\ Len(t) = Len(s) - 1
      /\ s[1] = Head(d)
  BY <1>1, <1>2, <1>3, <1>4
<1>7. ASSUME NEW i \in 1 .. Len(s) - 1 PROVE t[i] = s[i + 1]
  <2>1. CASE i =< Len(e)
    BY <1>1, <1>3, <1>4, <1>7, <2>1
  <2>2. CASE i > Len(e)
    <3>1. /\ t[i] = b[i - Len(e)] /\ s[i + 1] = b[(i + 1) - Len(d)]
          /\ i - Len(e) = (i + 1) - Len(d)
      BY <1>1, <1>3, <1>4, <1>7, <2>2
    <3>2. QED
      BY <3>1
  <2>3. QED
    BY <1>1, <1>6, <1>7, <2>1, <2>2
<1>8. QED
  BY <1>5, <1>6, <1>7 DEF e, s, t

LEMMA HeadLeaves ==
  ASSUME NEW s, NEW t, NEW n \in Nat, n > 0, DOMAIN s = 1 .. n, DOMAIN t = 1 .. n - 1,
         \A i \in 1 .. n - 1 : t[i] = s[i + 1]
  PROVE  /\ \A i \in Numbered(t) : i \in Nat /\ i > 0 /\ i + 1 \in Numbered(s) /\ t[i] = s[i + 1]
         /\ \A i \in Numbered(s) : i = 1 \/ (i - 1 \in Numbered(t) /\ i - 1 \in Nat /\ i > 1)
         /\ \A i \in Numbered(s) : i \in Nat /\ i > 0
         /\ 1 \in Numbered(s) <=> s[1].type = "I"
<1>1. ASSUME NEW i \in Numbered(t)
      PROVE  i \in Nat /\ i > 0 /\ i + 1 \in Numbered(s) /\ t[i] = s[i + 1]
  <2>1. i \in 1 .. n - 1 /\ t[i].type = "I"
    BY <1>1 DEF Numbered
  <2>2. i + 1 \in 1 .. n /\ t[i] = s[i + 1]
    BY <2>1
  <2>3. QED
    BY <2>1, <2>2 DEF Numbered
<1>2. ASSUME NEW i \in Numbered(s)
      PROVE  i = 1 \/ (i - 1 \in Numbered(t) /\ i - 1 \in Nat /\ i > 1)
  <2>1. i \in 1 .. n /\ s[i].type = "I"
    BY <1>2 DEF Numbered
  <2>2. CASE i # 1
    <3>1. i - 1 \in 1 .. n - 1 /\ (i - 1) + 1 = i
      BY <2>1, <2>2
    <3>2. t[i - 1] = s[i]
      BY <3>1
    <3>3. QED
      BY <2>1, <2>2, <3>1, <3>2 DEF Numbered
  <2>3. QED
    BY <2>2
<1>3. 1 \in DOMAIN s
  OBVIOUS
<1>4. QED
  BY <1>1, <1>2, <1>3 DEF Numbered

\* A write of at most one frame without a number changes nothing that matters.
LEMMA QuietWrite ==
  ASSUME TInv, NEW cost \in Nat, effort + cost =< MaxEffort,
         NEW frames \in Seq(Sent), Len(frames) =< 1,
         Len(frames) = 1 => frames[1].type # "I",
         PutFor(cost, frames), "dropped" \notin skewed'
  PROVE  Alike(Line, Line')
<1>1. down \in Seq(Sent) /\ buf \in Seq(Sent) /\ Len(frames) \in Nat
  BY LenProperties DEF TInv, OutTypes
<1>2. /\ Numbered(buf) = {}
      /\ Len(frames) = 0 => Line' = down
      /\ Len(frames) = 1 => Line' = Append(down, frames[1])
  <2>1. Len(frames) =< 2
    BY <1>1
  <2>2. QED
    BY <2>1, PutFacts
<1>3. Alike(down, Line)
  BY <1>1, <1>2, QuietEnd DEF Line
<1>4. Alike(Line, down)
  BY <1>3, AlikeBack
<1>5. CASE Len(frames) = 0
  BY <1>2, <1>4, <1>5
<1>6. CASE Len(frames) = 1
  <2>1. frames[1] \in Sent
    BY <1>6, ElementOfSeq
  <2>2. Alike(down, Append(down, frames[1]))
    BY <1>1, <1>6, <2>1, QuietLast
  <2>3. QED
    BY <1>2, <1>4, <1>6, <2>2, AlikeChain
<1>7. QED
  <2>1. Len(frames) \in Nat /\ Len(frames) =< 1
    BY <1>1
  <2> DEFINE n == Len(frames)
  <2>2. n \in Nat /\ n =< 1
    BY <2>1
  <2> HIDE DEF n
  <2>3. n = 0 \/ n = 1
    BY <2>2
  <2>4. QED
    BY <1>5, <1>6, <2>3 DEF n

\* A write that ends with an I frame.
LEMMA NumberedWrite ==
  ASSUME TInv, NEW frames \in Seq(Sent), Len(frames) \in {1, 2},
         Len(frames) = 2 => frames[1].type # "I",
         PutFor(0, frames), "dropped" \notin skewed'
  PROVE  \E s \in Seq(Sent) : /\ Alike(Line, s)
                              /\ Line' = Append(s, frames[Len(frames)])
<1>1. down \in Seq(Sent) /\ buf \in Seq(Sent)
  BY DEF TInv, OutTypes
<1>2. effort + 0 =< MaxEffort
  BY Sizes DEF TInv, OutTypes
<1>3. /\ Numbered(buf) = {}
      /\ Len(frames) = 1 => Line' = Append(down, frames[1])
      /\ Len(frames) = 2 => \/ Line' = Append(Append(down, frames[1]), frames[2])
                            \/ Line' = Append(down, frames[2])
  <2>1. CASE Len(frames) = 1
    <3>1. Len(frames) =< 2
      BY <2>1
    <3>2. QED
      BY <1>2, <2>1, <3>1, PutFacts
  <2>2. CASE Len(frames) = 2
    <3>1. Len(frames) =< 2
      BY <2>2
    <3>2. QED
      BY <1>2, <2>2, <3>1, PutFacts
  <2>3. QED
    BY <2>1, <2>2
<1>4. Alike(down, Line)
  BY <1>1, <1>3, QuietEnd DEF Line
<1>5. Alike(Line, down)
  BY <1>4, AlikeBack
<1>6. CASE Len(frames) = 1
  BY <1>1, <1>3, <1>5, <1>6
<1>7. CASE Len(frames) = 2
  <2>1. frames[1] \in Sent
    BY <1>7, ElementOfSeq
  <2>2. Alike(down, Append(down, frames[1])) /\ Append(down, frames[1]) \in Seq(Sent)
    BY <1>1, <1>7, <2>1, QuietLast, AppendProperties
  <2>3. Alike(Line, Append(down, frames[1]))
    BY <1>5, <2>2, AlikeChain
  <2>4. QED
    BY <1>1, <1>3, <1>5, <1>7, <2>2, <2>3
<1>8. QED
  BY <1>6, <1>7

------------------------------------------------------------------------------
(* Events are freed when they are safe.                                    *)

\* What was sent and is not freed has arrived or is on its way.
HeldHolds == ~status /\ "dropped" \notin skewed =>
               freed + 1 .. freed + held \subseteq got \cup Events(Line)

LEMMA HeldStill ==
  ASSUME HeldHolds, UNCHANGED <<freed, held>>, ~status' => ~status,
         "dropped" \notin skewed' => "dropped" \notin skewed,
         ~status' /\ "dropped" \notin skewed' =>
           got \cup Events(Line) \subseteq got' \cup Events(Line')
  PROVE  HeldHolds'
<1>1. SUFFICES ASSUME ~status', "dropped" \notin skewed'
               PROVE  freed + 1 .. freed + held \subseteq got' \cup Events(Line')
  BY DEF HeldHolds
<1>2. freed + 1 .. freed + held \subseteq got \cup Events(Line)
  BY <1>1 DEF HeldHolds
<1>3. QED
  BY <1>1, <1>2

LEMMA HeldNone ==
  ASSUME TInv, held' = 0, freed' \in Nat
  PROVE  HeldHolds'
<1>1. freed' + 1 .. freed' + held' = {}
  <2>1. PICK n \in Nat : freed' = n
    OBVIOUS
  <2>2. n + 1 .. n + 0 = {}
    OBVIOUS
  <2>3. QED
    BY <2>1, <2>2
<1>2. QED
  BY <1>1 DEF HeldHolds

LEMMA DropStays ==
  ASSUME NEW cost, NEW frames, PutFor(cost, frames)
  PROVE  "dropped" \notin skewed' => "dropped" \notin skewed
  BY DEF PutFor

LEMMA HeldSoe ==
  ASSUME TInv, HeldHolds, SendDSoe
  PROVE  HeldHolds'
<1> DEFINE unread == made - freed
           before == IF held > unread THEN 0 ELSE held
           f      == I(sn, freed + before + 1)
<1>1. /\ unread > before /\ held' = before + 1 /\ PutFor(0, <<f>>)
      /\ UNCHANGED <<freed, got, status, made>>
  BY DEF SendDSoe, Put, master, socket
<1>2. made \in Nat /\ freed \in Nat /\ held \in Nat /\ held =< unread
  BY Sizes DEF TInv, EventTypes
<1>3. before = held /\ held' = held + 1
  BY <1>1, <1>2
<1>4. f \in Sent /\ f.type = "I" /\ f.ev = freed + held + 1
  <2>1. freed + before + 1 \in 0 .. made /\ sn \in Num
    BY <1>1, <1>2 DEF TInv, NumberTypes
  <2>2. QED
    BY <1>3, <2>1, FrameFacts DEF I
<1> HIDE DEF f
<1> DEFINE s == <<f>>
<1>5. s \in Seq(Sent) /\ Len(s) = 1 /\ s[1] = f
  BY <1>4, SeqOne
<1>6. PutFor(0, s)
  BY <1>1
<1> HIDE DEF s
<1>7. "dropped" \notin skewed' => "dropped" \notin skewed
  BY <1>6, DropStays
<1>8. SUFFICES ASSUME ~status', "dropped" \notin skewed'
               PROVE  freed' + 1 .. freed' + held' \subseteq got' \cup Events(Line')
  BY DEF HeldHolds
<1>9. PICK t \in Seq(Sent) : Alike(Line, t) /\ Line' = Append(t, f)
  <2>1. Len(s) \in {1, 2}
    BY <1>5
  <2>2. Len(s) = 2 => s[1].type # "I"
    <3>1. Len(s) # 2
      BY <1>5
    <3>2. QED
      BY <3>1, Zenon
  <2>3. s[Len(s)] = f
    BY <1>5
  <2>4. QED
    BY <1>5, <1>6, <1>8, <2>1, <2>2, <2>3, NumberedWrite
<1>10. freed + 1 .. freed + held \subseteq got \cup Events(Line)
  BY <1>1, <1>7, <1>8 DEF HeldHolds
<1>11. Events(Line) = Events(t)
  BY <1>9, AlikeEvents
<1> DEFINE a == Append(t, f)
<1>12. /\ Len(t) \in Nat /\ Numbered(a) = Numbered(t) \cup {Len(t) + 1}
       /\ \A i \in Numbered(t) : a[i] = t[i]
       /\ a[Len(t) + 1] = f
  BY <1>4, <1>9, LastFrame
<1>13. Line' = a
  BY <1>9
<1> HIDE DEF a
<1>14. freed + held + 1 > 0
  BY <1>2
<1>15. Len(t) + 1 \in Carriers(a)
  BY <1>4, <1>12, <1>14 DEF Carriers
<1>16. Events(t) \subseteq Events(a) /\ freed + held + 1 \in Events(a)
  BY <1>4, <1>12, <1>15 DEF Events, Carriers
<1>17. freed + 1 .. freed + (held + 1) \subseteq (freed + 1 .. freed + held) \cup {freed + held + 1}
  BY <1>2
<1>18. QED
  BY <1>1, <1>3, <1>10, <1>11, <1>13, <1>16, <1>17

LEMMA HeldTimer ==
  ASSUME TInv, HeldHolds, T2Out \/ T3Out
  PROVE  HeldHolds'
<1>1. PICK cost \in {0, 1}, f \in Sent :
        f.type # "I" /\ PutFor(cost, <<f>>) /\ effort + cost =< MaxEffort
  <2>1. effort + 0 =< MaxEffort /\ (Spare => effort + 1 =< MaxEffort)
    BY Sizes DEF TInv, OutTypes, Spare
  <2>2. /\ S \in Sent /\ S.type # "I"
        /\ U("testfr act") \in Sent /\ U("testfr act").type # "I"
    BY FrameFacts DEF S, U
  <2>3. CASE T2Out
    BY <2>1, <2>2, <2>3 DEF T2Out, Put
  <2>4. CASE T3Out
    BY <2>1, <2>2, <2>4 DEF T3Out
  <2>5. QED
    BY <2>3, <2>4
<1> DEFINE s == <<f>>
<1>2. s \in Seq(Sent) /\ Len(s) = 1 /\ s[1] = f
  BY SeqOne
<1>3. PutFor(cost, s)
  BY <1>1
<1> HIDE DEF s
<1>4. UNCHANGED <<freed, held, got, status>>
  BY DEF T2Out, T3Out, events, master, socket
<1>5. "dropped" \notin skewed' => "dropped" \notin skewed
  BY <1>3, DropStays
<1>6. ASSUME "dropped" \notin skewed' PROVE Events(Line) = Events(Line')
  <2>1. Len(s) =< 1 /\ cost \in Nat /\ (Len(s) = 1 => s[1].type # "I")
    BY <1>1, <1>2
  <2>2. Alike(Line, Line')
    BY <1>1, <1>2, <1>3, <1>6, <2>1, QuietWrite
  <2>3. QED
    BY <2>2, AlikeEvents
<1>7. QED
  BY <1>4, <1>5, <1>6, HeldStill

LEMMA LineStill ==
  ASSUME TInv, Idle \/ UNCHANGED <<down, buf>>
  PROVE  Line' = Line
<1>1. CASE down' = down \o buf /\ buf' = << >>
  <2>1. down \o buf \in Seq(Sent)
    BY ConcatProperties DEF TInv, OutTypes
  <2>2. (down \o buf) \o << >> = down \o buf
    BY <2>1, ConcatEmptySeq
  <2>3. QED
    BY <1>1, <2>2 DEF Line
<1>2. CASE UNCHANGED <<down, buf>>
  BY <1>2 DEF Line
<1>3. QED
  BY <1>1, <1>2 DEF Idle

\* The controlling station takes the first frame.
LEMMA HeadTaken ==
  ASSUME TInv, down # << >>, down' = Tail(down), buf' = buf
  PROVE  \E n \in Nat \ {0} :
           /\ DOMAIN Line = 1 .. n /\ DOMAIN Line' = 1 .. n - 1
           /\ \A i \in 1 .. n - 1 : Line'[i] = Line[i + 1]
           /\ Line[1] = Head(down)
<1>1. down \in Seq(Sent) /\ buf \in Seq(Sent)
  BY DEF TInv, OutTypes
<1> DEFINE s == down \o buf
           t == Tail(down) \o buf
<1>2. /\ Len(s) \in Nat /\ Len(s) > 0 /\ s[1] = Head(down)
      /\ DOMAIN s = 1 .. Len(s) /\ DOMAIN t = 1 .. Len(s) - 1
      /\ \A i \in 1 .. Len(s) - 1 : t[i] = s[i + 1]
  BY <1>1, WithoutHead
<1>3. Line = s /\ Line' = t
  BY DEF Line
<1> HIDE DEF s, t
<1> DEFINE n == Len(s)
<1>4. n \in Nat \ {0}
  BY <1>2
<1>5. /\ DOMAIN Line = 1 .. n /\ DOMAIN Line' = 1 .. n - 1
      /\ \A i \in 1 .. n - 1 : Line'[i] = Line[i + 1]
      /\ Line[1] = Head(down)
  BY <1>2, <1>3
<1> HIDE DEF n
<1>6. QED
  BY <1>4, <1>5

LEMMA HeldMaster ==
  ASSUME TInv, HeldHolds, MasterReceives
  PROVE  HeldHolds'
<1> DEFINE f == Head(down)
<1>1. /\ down # << >> /\ UNCHANGED <<buf, freed, held, skewed>>
      /\ \/ Break(1)
         \/ /\ down' = Tail(down) /\ UNCHANGED status
            /\ IF f.type = "I" /\ f.ev > 0 THEN got' = got \cup {f.ev} ELSE UNCHANGED got
  BY DEF MasterReceives, events
<1>2. CASE Break(1)
  BY <1>2 DEF Break, HeldHolds
<1>3. CASE down' = Tail(down) /\ UNCHANGED status
           /\ IF f.type = "I" /\ f.ev > 0 THEN got' = got \cup {f.ev} ELSE UNCHANGED got
  <2>1. PICK n \in Nat \ {0} :
          /\ DOMAIN Line = 1 .. n /\ DOMAIN Line' = 1 .. n - 1
          /\ \A i \in 1 .. n - 1 : Line'[i] = Line[i + 1]
          /\ Line[1] = f
    BY <1>1, <1>3, HeadTaken
  <2> HIDE DEF f
  <2>2. PICK s, t : s = Line /\ t = Line'
    OBVIOUS
  <2>3. /\ \A i \in Numbered(s) : i = 1 \/ (i - 1 \in Numbered(t) /\ i - 1 \in Nat /\ i > 1)
        /\ \A i \in Numbered(s) : i \in Nat /\ i > 0
        /\ \A i \in Numbered(t) : i \in Nat /\ t[i] = s[i + 1]
    <3>1. DOMAIN s = 1 .. n /\ DOMAIN t = 1 .. n - 1 /\ \A i \in 1 .. n - 1 : t[i] = s[i + 1]
      BY <2>1, <2>2
    <3>2. n \in Nat /\ n > 0
      OBVIOUS
    <3>3. QED
      BY <3>1, <3>2, HeadLeaves
  <2>4. ASSUME NEW e \in Events(s) PROVE e \in got' \cup Events(t)
    <3>1. PICK i \in Numbered(s) : s[i].ev = e /\ s[i].ev > 0 /\ s[i].type = "I"
      BY <2>4 DEF Events, Carriers, Numbered
    <3>2. CASE i = 1
      <4>1. f.ev = e /\ f.ev > 0 /\ f.type = "I"
        BY <2>1, <2>2, <3>1, <3>2
      <4>2. QED
        BY <1>3, <4>1
    <3>3. CASE i # 1
      <4>1. i - 1 \in Numbered(t) /\ t[i - 1] = s[i]
        <5>1. i - 1 \in Numbered(t) /\ i \in Nat
          BY <2>3, <3>3
        <5>2. (i - 1) + 1 = i
          BY <5>1
        <5>3. QED
          BY <2>3, <5>1, <5>2
      <4>2. i - 1 \in Carriers(t)
        BY <3>1, <4>1 DEF Carriers
      <4>3. QED
        BY <3>1, <4>1, <4>2 DEF Events
    <3>4. QED
      BY <3>2, <3>3
  <2>5. got \subseteq got'
    BY <1>3
  <2>6. got \cup Events(Line) \subseteq got' \cup Events(Line')
    BY <2>2, <2>4, <2>5
  <2>7. QED
    BY <1>1, <1>3, <2>6, HeldStill
<1>4. QED
  BY <1>1, <1>2, <1>3

LEMMA HeldKept ==
  ASSUME TInv, HeldHolds, [Next]_vars
  PROVE  HeldHolds'
<1>1. CASE DoReceive
  <2>1. held' = 0 /\ freed' = freed + held
    BY <1>1 DEF DoReceive, FreeEvents
  <2>2. freed + held \in Nat
    BY Sizes DEF TInv, EventTypes
  <2>3. QED
    BY <2>1, <2>2, HeldNone
<1>2. CASE DoCommState
  <2>1. held' = 0 /\ freed' = freed
    BY <1>2 DEF DoCommState
  <2>2. freed \in Nat
    BY Sizes DEF TInv, EventTypes
  <2>3. QED
    BY <2>1, <2>2, HeldNone
<1>3. CASE Connect \/ Disconnect \/ (T1Out /\ open)
  <2>1. status' = TRUE
    BY <1>3 DEF Connect, Disconnect, T1Out, Break
  <2>2. QED
    BY <2>1 DEF HeldHolds
<1>4. CASE Idle \/ (T1Out /\ ~open) \/ WriteEvent \/ MasterAcks \/ MasterCommands
           \/ UNCHANGED vars
  <2>1. UNCHANGED <<freed, held, got, status, skewed>>
    <3>1. CASE Idle
      BY <3>1 DEF Idle, events, master, socket
    <3>2. CASE T1Out /\ ~open
      BY <3>2 DEF T1Out, events, master
    <3>3. CASE WriteEvent
      BY <3>3 DEF WriteEvent, output, master, socket
    <3>4. CASE MasterAcks \/ MasterCommands
      BY <3>4 DEF MasterAcks, MasterCommands, MasterSends, events
    <3>5. CASE UNCHANGED vars
      BY <3>5 DEF vars, output, events, master, socket
    <3>6. QED
      BY <1>4, <3>1, <3>2, <3>3, <3>4, <3>5
  <2>2. Idle \/ UNCHANGED <<down, buf>>
    BY <1>4 DEF T1Out, WriteEvent, MasterAcks, MasterCommands, MasterSends, vars, output
  <2>3. Line' = Line
    BY <2>2, LineStill
  <2>4. QED
    BY <2>1, <2>3, HeldStill
<1>5. QED
  BY <1>1, <1>2, <1>3, <1>4, HeldSoe, HeldTimer, HeldMaster
    DEF Next, Station, Environment

\* An event is freed only when the controlling station has received it or its
\* frame is on its way, unless a break has not been handled yet or a frame was
\* dropped after a failed write.
THEOREM EventsSafe == Spec => FreedWhenSafe
<1> DEFINE Safe == \A e \in freed + 1 .. freed' :
                     \/ e \in got \cup Events(down \o buf)
                     \/ status \/ "dropped" \in skewed
<1>1. Init => TInv /\ HeldHolds
  <2>1. Init => HeldHolds
    <3> SUFFICES ASSUME Init PROVE HeldHolds
      OBVIOUS
    <3>1. freed = 0 /\ held = 0
      BY DEF Init
    <3>2. freed + 1 .. freed + held = {}
      BY <3>1
    <3>3. QED
      BY <3>2 DEF HeldHolds
  <2>2. QED
    BY <2>1, InitTypes
<1>2. TInv /\ HeldHolds /\ [Next]_vars => (TInv /\ HeldHolds)'
  BY TypesKept, HeldKept
<1>3. TInv /\ HeldHolds /\ [Next]_vars => Safe
  <2> SUFFICES ASSUME TInv, HeldHolds, [Next]_vars PROVE Safe
    OBVIOUS
  <2>1. freed \in Nat
    BY Sizes DEF TInv, EventTypes
  <2>2. CASE DoReceive
    <3>1. freed' = freed + held
      BY <2>2 DEF DoReceive, FreeEvents
    <3>2. QED
      BY <3>1 DEF HeldHolds, Line
  <2>3. CASE freed' = freed
    <3>1. freed + 1 .. freed' = {}
      BY <2>1, <2>3
    <3>2. QED
      BY <3>1
  <2>4. [Next]_vars => DoReceive \/ freed' = freed
    BY DEF Next, Station, Environment, SendDSoe, Idle, T1Out, T2Out, T3Out, DoCommState,
      WriteEvent, Connect, Disconnect, MasterAcks, MasterCommands, MasterReceives,
      MasterSends, vars, events
  <2>5. QED
    BY <2>2, <2>3, <2>4
<1>4. TInv /\ HeldHolds /\ [Next]_vars => [Safe]_vars
  BY <1>3
<1>5. QED
  BY <1>1, <1>2, <1>4, PTL DEF Spec, FreedWhenSafe

------------------------------------------------------------------------------
(* Lines without gaps.                                                     *)

\* The I frames of s are numbered from r on; n is the number that follows.
Gapless(s, r, n) ==
  /\ \A i \in Numbered(s) : (\A j \in Numbered(s) : i =< j) => s[i].ns = r
  /\ \A i, j \in Numbered(s) :
       i < j /\ ~(\E k \in Numbered(s) : i < k /\ k < j) => s[j].ns = (s[i].ns + 1) % M
  /\ \A i \in Numbered(s) : (\A j \in Numbered(s) : j =< i) => n = (s[i].ns + 1) % M
  /\ Numbered(s) = {} => n = r

\* The events of s ascend, above l and up to h.
Rising(s, l, h) ==
  \A i \in Carriers(s) :
    /\ s[i].ev > l /\ s[i].ev =< h
    /\ \A j \in Carriers(s) : i < j => s[i].ev < s[j].ev

LEMMA GapAlike ==
  ASSUME NEW s, NEW t, Alike(s, t), NEW r, NEW n, Gapless(s, r, n)
  PROVE  Gapless(t, r, n)
  BY DEF Alike, Gapless

LEMMA RiseAlike ==
  ASSUME NEW s, NEW t, Alike(s, t), NEW l, NEW h, Rising(s, l, h)
  PROVE  Rising(t, l, h)
<1>1. Carriers(s) = Carriers(t) /\ \A i \in Carriers(s) : s[i] = t[i]
  BY DEF Alike, Carriers
<1>2. QED
  BY <1>1 DEF Rising

\* An empty line, and one without numbers.
LEMMA GapNone ==
  ASSUME NEW s, Numbered(s) = {}, NEW r, NEW l, NEW h
  PROVE  Gapless(s, r, r) /\ Rising(s, l, h)
  BY DEF Gapless, Rising, Carriers

\* The next number at the end.
LEMMA GapLast ==
  ASSUME NEW T, NEW s \in Seq(T), NEW f \in T, f.type = "I",
         NEW r, Gapless(s, r, f.ns)
  PROVE  Gapless(Append(s, f), r, (f.ns + 1) % M)
<1> DEFINE t == Append(s, f)
           m == Len(s) + 1
           x == (f.ns + 1) % M
<1>1. /\ Len(s) \in Nat /\ Numbered(s) \subseteq 1 .. Len(s)
      /\ Numbered(t) = Numbered(s) \cup {m}
      /\ \A i \in Numbered(s) : t[i] = s[i]
      /\ t[m] = f
  BY LastFrame
<1>2. m \in Nat /\ \A i \in Numbered(s) : i \in Nat /\ i < m
  BY <1>1
<1>3. t[m].ns = f.ns /\ x = (t[m].ns + 1) % M
  BY <1>1
<1> HIDE DEF t, m, x
<1>4. ASSUME NEW i \in Numbered(t), \A j \in Numbered(t) : i =< j
      PROVE  t[i].ns = r
  <2>1. CASE i \in Numbered(s)
    <3>1. \A j \in Numbered(s) : i =< j
      BY <1>1, <1>4
    <3>2. QED
      BY <1>1, <2>1, <3>1 DEF Gapless
  <2>2. CASE i = m
    <3>1. Numbered(s) = {}
      <4>1. \A j \in Numbered(s) : i =< j /\ j < i /\ i \in Nat /\ j \in Nat
        BY <1>1, <1>2, <1>4, <2>2
      <4>2. QED
        BY <4>1
    <3>2. QED
      BY <1>3, <2>2, <3>1 DEF Gapless
  <2>3. QED
    BY <1>1, <2>1, <2>2
<1>5. ASSUME NEW i \in Numbered(t), NEW j \in Numbered(t), i < j,
             ~(\E k \in Numbered(t) : i < k /\ k < j)
      PROVE  t[j].ns = (t[i].ns + 1) % M
  <2>1. i \in Numbered(s)
    BY <1>1, <1>2, <1>5
  <2>2. CASE j \in Numbered(s)
    <3>1. ~(\E k \in Numbered(s) : i < k /\ k < j)
      BY <1>1, <1>5
    <3>2. s[j].ns = (s[i].ns + 1) % M
      BY <1>5, <2>1, <2>2, <3>1 DEF Gapless
    <3>3. QED
      BY <1>1, <2>1, <2>2, <3>2
  <2>3. CASE j = m
    <3>1. \A k \in Numbered(s) : k =< i
      <4>1. \A k \in Numbered(s) : ~(i < k) /\ i \in Nat /\ k \in Nat
        BY <1>1, <1>2, <1>5, <2>1, <2>3
      <4>2. QED
        BY <4>1
    <3>2. f.ns = (s[i].ns + 1) % M
      BY <2>1, <3>1 DEF Gapless
    <3>3. QED
      BY <1>1, <1>3, <2>1, <2>3, <3>2
  <2>4. QED
    BY <1>1, <2>2, <2>3
<1>6. ASSUME NEW i \in Numbered(t), \A j \in Numbered(t) : j =< i
      PROVE  x = (t[i].ns + 1) % M
  <2>1. m =< i
    BY <1>1, <1>6
  <2>2. i = m
    <3>1. i \in Numbered(s) => i < m /\ i \in Nat /\ m \in Nat
      BY <1>2
    <3>2. QED
      BY <1>1, <2>1, <3>1
  <2>3. QED
    BY <1>3, <2>2
<1>7. Numbered(t) # {}
  BY <1>1
<1>8. Gapless(t, r, x)
  BY <1>4, <1>5, <1>6, <1>7 DEF Gapless
<1>9. QED
  BY <1>8 DEF t, x

\* The next event, or none, at the end.
LEMMA RiseLast ==
  ASSUME NEW T, NEW s \in Seq(T), NEW f \in T, f.type = "I",
         NEW l \in Nat, NEW h \in Nat, l =< h, Rising(s, l, h), NEW m \in {h, h + 1},
         m = h => f.ev = 0, m = h + 1 => f.ev = h + 1,
         \A i \in Carriers(s) : s[i].ev \in Nat
  PROVE  Rising(Append(s, f), l, m)
<1> DEFINE t == Append(s, f)
           z == Len(s) + 1
<1>1. /\ Len(s) \in Nat /\ Numbered(s) \subseteq 1 .. Len(s)
      /\ Numbered(t) = Numbered(s) \cup {z}
      /\ \A i \in Numbered(s) : t[i] = s[i]
      /\ t[z] = f
  BY LastFrame
<1>2. z \in Nat /\ \A i \in Numbered(s) : i \in Nat /\ i < z
  BY <1>1
<1> HIDE DEF t, z
<1>3. /\ \A i \in Carriers(t) : i \in Carriers(s) \/ (i = z /\ m = h + 1)
      /\ \A i \in Carriers(s) : i < z /\ i \in Nat /\ t[i] = s[i]
  BY <1>1, <1>2 DEF Carriers
<1>4. \A i \in Carriers(s) : s[i].ev > l /\ s[i].ev =< h /\ s[i].ev \in Nat
  BY DEF Rising
<1>5. ASSUME NEW i \in Carriers(t)
      PROVE  t[i].ev > l /\ t[i].ev =< m
  <2>1. CASE i \in Carriers(s)
    BY <1>3, <1>4, <2>1
  <2>2. CASE i = z /\ m = h + 1
    BY <1>1, <2>2
  <2>3. QED
    BY <1>3, <2>1, <2>2
<1>6. ASSUME NEW i \in Carriers(t), NEW j \in Carriers(t), i < j
      PROVE  t[i].ev < t[j].ev
  <2>1. i \in Carriers(s)
    BY <1>2, <1>3, <1>6
  <2>2. CASE j \in Carriers(s)
    BY <1>3, <1>6, <2>1, <2>2 DEF Rising
  <2>3. CASE j = z /\ m = h + 1
    <3>1. t[j].ev = h + 1
      BY <1>1, <2>3
    <3>2. t[i].ev =< h /\ t[i].ev \in Nat
      BY <1>3, <1>4, <2>1
    <3>3. QED
      BY <3>1, <3>2
  <2>4. QED
    BY <1>3, <2>2, <2>3
<1>7. Rising(t, l, m)
  BY <1>5, <1>6 DEF Rising
<1>8. QED
  BY <1>7 DEF t

\* The first frame leaves.
LEMMA GapFirst ==
  ASSUME NEW s, NEW t, NEW n \in Nat, n > 0, DOMAIN s = 1 .. n, DOMAIN t = 1 .. n - 1,
         \A i \in 1 .. n - 1 : t[i] = s[i + 1],
         NEW r, NEW x, Gapless(s, r, x)
  PROVE  /\ s[1].type = "I" => s[1].ns = r /\ Gapless(t, (r + 1) % M, x)
         /\ s[1].type # "I" => Gapless(t, r, x)
<1>1. /\ \A i \in Numbered(t) : i \in Nat /\ i > 0 /\ i + 1 \in Numbered(s) /\ t[i] = s[i + 1]
      /\ \A i \in Numbered(s) : i = 1 \/ (i - 1 \in Numbered(t) /\ i - 1 \in Nat /\ i > 1)
      /\ \A i \in Numbered(s) : i \in Nat /\ i > 0
      /\ 1 \in Numbered(s) <=> s[1].type = "I"
  BY HeadLeaves
<1>2. s[1].type = "I" => s[1].ns = r
  <2>1. SUFFICES ASSUME s[1].type = "I" PROVE s[1].ns = r
    OBVIOUS
  <2>2. 1 \in Numbered(s) /\ \A j \in Numbered(s) : 1 =< j
    BY <1>1, <2>1
  <2>3. QED
    BY <2>2 DEF Gapless
<1> DEFINE q == IF s[1].type = "I" THEN (r + 1) % M ELSE r
<1>3. ASSUME NEW i \in Numbered(t), \A j \in Numbered(t) : i =< j
      PROVE  t[i].ns = q
  <2>1. i + 1 \in Numbered(s) /\ i \in Nat /\ i > 0 /\ t[i] = s[i + 1]
    BY <1>1
  <2>2. \A k \in Numbered(s) : k = 1 \/ i + 1 =< k
    <3>1. \A k \in Numbered(s) : k = 1 \/ (i =< k - 1 /\ k \in Nat)
      BY <1>1, <1>3
    <3>2. QED
      BY <2>1, <3>1
  <2>3. CASE s[1].type = "I"
    <3>1. 1 \in Numbered(s) /\ 1 < i + 1 /\ ~(\E k \in Numbered(s) : 1 < k /\ k < i + 1)
      BY <1>1, <2>1, <2>2, <2>3
    <3>2. s[i + 1].ns = (s[1].ns + 1) % M
      BY <2>1, <3>1 DEF Gapless
    <3>3. QED
      BY <1>2, <2>1, <2>3, <3>2
  <2>4. CASE s[1].type # "I"
    <3>1. \A k \in Numbered(s) : i + 1 =< k
      BY <1>1, <2>2, <2>4
    <3>2. QED
      BY <2>1, <2>4, <3>1 DEF Gapless
  <2>5. QED
    BY <2>3, <2>4
<1>4. ASSUME NEW i \in Numbered(t), NEW j \in Numbered(t), i < j,
             ~(\E k \in Numbered(t) : i < k /\ k < j)
      PROVE  t[j].ns = (t[i].ns + 1) % M
  <2>1. /\ i + 1 \in Numbered(s) /\ i \in Nat /\ i > 0 /\ t[i] = s[i + 1]
        /\ j + 1 \in Numbered(s) /\ j \in Nat /\ t[j] = s[j + 1] /\ i + 1 < j + 1
    BY <1>1, <1>4
  <2>2. ASSUME NEW k \in Numbered(s), i + 1 < k, k < j + 1 PROVE FALSE
    <3>1. k \in Nat /\ k # 1
      BY <1>1, <2>1, <2>2
    <3>2. k - 1 \in Numbered(t) /\ i < k - 1 /\ k - 1 < j
      BY <1>1, <2>1, <2>2, <3>1
    <3>3. QED
      BY <1>4, <3>2
  <2>3. s[j + 1].ns = (s[i + 1].ns + 1) % M
    BY <2>1, <2>2 DEF Gapless
  <2>4. QED
    BY <2>1, <2>3
<1>5. ASSUME NEW i \in Numbered(t), \A j \in Numbered(t) : j =< i
      PROVE  x = (t[i].ns + 1) % M
  <2>1. i + 1 \in Numbered(s) /\ i \in Nat /\ i > 0 /\ t[i] = s[i + 1]
    BY <1>1
  <2>2. ASSUME NEW k \in Numbered(s) PROVE k =< i + 1
    <3>1. CASE k = 1
      BY <2>1, <3>1
    <3>2. CASE k # 1
      <4>1. k - 1 =< i /\ k \in Nat
        BY <1>1, <1>5, <3>2
      <4>2. QED
        BY <2>1, <4>1
    <3>3. QED
      BY <3>1, <3>2
  <2>3. x = (s[i + 1].ns + 1) % M
    BY <2>1, <2>2 DEF Gapless
  <2>4. QED
    BY <2>1, <2>3
<1>6. ASSUME Numbered(t) = {} PROVE x = q
  <2>1. \A k \in Numbered(s) : k = 1
    BY <1>1, <1>6
  <2>2. CASE s[1].type = "I"
    <3>1. 1 \in Numbered(s) /\ \A k \in Numbered(s) : k =< 1
      BY <1>1, <2>1, <2>2
    <3>2. x = (s[1].ns + 1) % M
      BY <3>1 DEF Gapless
    <3>3. QED
      BY <1>2, <2>2, <3>2
  <2>3. CASE s[1].type # "I"
    <3>1. Numbered(s) = {}
      BY <1>1, <2>1, <2>3
    <3>2. QED
      BY <2>3, <3>1 DEF Gapless
  <2>4. QED
    BY <2>2, <2>3
<1>7. Gapless(t, q, x)
  <2> HIDE DEF q
  <2>1. QED
    BY <1>3, <1>4, <1>5, <1>6 DEF Gapless
<1>8. QED
  BY <1>2, <1>7

LEMMA RiseFirst ==
  ASSUME NEW s, NEW t, NEW n \in Nat, n > 0, DOMAIN s = 1 .. n, DOMAIN t = 1 .. n - 1,
         \A i \in 1 .. n - 1 : t[i] = s[i + 1],
         NEW l, NEW h, Rising(s, l, h)
  PROVE  /\ s[1].type = "I" /\ s[1].ev > 0 => s[1].ev =< h /\ Rising(t, s[1].ev, h)
         /\ ~(s[1].type = "I" /\ s[1].ev > 0) => Rising(t, l, h)
<1>1. /\ \A i \in Numbered(t) : i \in Nat /\ i > 0 /\ i + 1 \in Numbered(s) /\ t[i] = s[i + 1]
      /\ 1 \in Numbered(s) <=> s[1].type = "I"
  BY HeadLeaves
<1>2. \A i \in Carriers(t) : i \in Nat /\ i > 0 /\ i + 1 \in Carriers(s) /\ t[i] = s[i + 1]
  BY <1>1 DEF Carriers
<1>3. s[1].type = "I" /\ s[1].ev > 0 => 1 \in Carriers(s)
  BY <1>1 DEF Carriers
<1>4. ASSUME NEW i \in Carriers(t)
      PROVE  /\ t[i].ev > l /\ t[i].ev =< h
             /\ \A j \in Carriers(t) : i < j => t[i].ev < t[j].ev
  <2>1. i + 1 \in Carriers(s) /\ t[i] = s[i + 1] /\ i \in Nat
    BY <1>2
  <2>2. s[i + 1].ev > l /\ s[i + 1].ev =< h
    BY <2>1 DEF Rising
  <2>3. ASSUME NEW j \in Carriers(t), i < j PROVE t[i].ev < t[j].ev
    <3>1. j + 1 \in Carriers(s) /\ t[j] = s[j + 1] /\ i + 1 < j + 1
      BY <1>2, <2>1, <2>3
    <3>2. s[i + 1].ev < s[j + 1].ev
      BY <2>1, <3>1 DEF Rising
    <3>3. QED
      BY <2>1, <3>1, <3>2
  <2>4. QED
    BY <2>1, <2>2, <2>3
<1>5. ASSUME s[1].type = "I", s[1].ev > 0, NEW i \in Carriers(t) PROVE t[i].ev > s[1].ev
  <2>1. 1 \in Carriers(s) /\ i + 1 \in Carriers(s) /\ 1 < i + 1
    BY <1>2, <1>3, <1>5
  <2>2. s[1].ev < s[i + 1].ev
    BY <2>1 DEF Rising
  <2>3. QED
    BY <1>2, <2>2
<1>6. s[1].type = "I" /\ s[1].ev > 0 => s[1].ev =< h
  BY <1>3 DEF Rising
<1>7. QED
  BY <1>4, <1>5, <1>6 DEF Rising

------------------------------------------------------------------------------
(* What is on its way on a connection without mishaps.                     *)

\* Before STARTDT_ACT is handled: it is all the controlling station has sent,
\* and it has received nothing.
Fresh ==
  /\ ~ready /\ last = 0 /\ mvr = 0 /\ macked = 0
  /\ up = <<U("startdt act")>>
  /\ \A i \in DOMAIN Line : Line[i].type = "S"

\* Afterwards: the numbers on their way join what was received to what will be
\* sent, and the events what was received to what was sent.
Running ==
  /\ Gapless(Line, mvr, sn)
  /\ Rising(Line, last, freed + held) /\ last =< freed + held
  /\ \A i \in DOMAIN up : up[i] # U("startdt act")

Session == open /\ skewed = {} => (begun => Running) /\ (~begun => Fresh)

LEMMA CarrierFacts ==
  ASSUME TInv, NEW s \in Seq(Sent)
  PROVE  \A i \in Carriers(s) : s[i].ev \in Nat
<1>1. DOMAIN s = 1 .. Len(s)
  BY LenProperties
<1>2. \A i \in Carriers(s) : i \in 1 .. Len(s) /\ s[i].type = "I"
  BY <1>1 DEF Carriers, Numbered
<1>3. \A i \in 1 .. Len(s) : s[i] \in Sent
  BY ElementOfSeq
<1>4. \A f \in Sent : f.type = "I" => f.ev \in Nat
  <2>1. made \in Nat
    BY Sizes DEF TInv, EventTypes
  <2>2. \A f \in Sent : f.type = "I" => f.ev \in 0 .. made
    BY DEF Sent
  <2>3. QED
    BY <2>1, <2>2
<1>5. QED
  BY <1>2, <1>3, <1>4

LEMMA RunningStill ==
  ASSUME Running, Alike(Line, Line'), UNCHANGED <<mvr, sn, last>>,
         freed' + held' = freed + held,
         \A i \in DOMAIN up' : up'[i] # U("startdt act")
  PROVE  Running'
<1>1. Gapless(Line', mvr, sn) /\ Rising(Line', last, freed + held)
  BY GapAlike, RiseAlike DEF Running
<1>2. QED
  BY <1>1 DEF Running

LEMMA CountTypes ==
  ASSUME TInv
  PROVE  /\ made \in Nat /\ freed \in Nat /\ held \in Nat /\ last \in Nat
         /\ freed + held \in Nat /\ 0 \in 0 .. made
  BY Sizes DEF TInv, EventTypes

LEMMA Apart == ASSUME NEW h \in Nat PROVE h \in {h, h + 1} /\ h # h + 1
  OBVIOUS

LEMMA OneMore ==
  ASSUME NEW l \in Nat, NEW h \in Nat, l =< h, NEW m \in {h, h + 1}
  PROVE  l =< m
  OBVIOUS

\* One more I frame, with the next event or with none.
LEMMA RunningNext ==
  ASSUME TInv, NEW s \in Seq(Sent), NEW n \in Num, NEW e \in 0 .. made,
         NEW h \in Nat, NEW m \in {h, h + 1}, m = h => e = 0, m = h + 1 => e = h + 1,
         Gapless(s, mvr, n), Rising(s, last, h), last =< h,
         Line' = Append(s, I(n, e)), sn' = Succ(n), freed' + held' = m,
         UNCHANGED <<mvr, last>>, \A i \in DOMAIN up' : up'[i] # U("startdt act")
  PROVE  Running'
<1> DEFINE f == I(n, e)
           t == Append(s, f)
<1>1. f \in Sent /\ f.type = "I" /\ f.ns = n /\ f.ev = e
  BY FrameFacts DEF I
<1>2. last \in Nat
  BY CountTypes
<1> HIDE DEF f
<1>3. Gapless(t, mvr, Succ(n))
  <2>1. Gapless(s, mvr, f.ns)
    BY <1>1
  <2>2. Gapless(t, mvr, (f.ns + 1) % M)
    BY <1>1, <2>1, GapLast
  <2>3. QED
    BY <1>1, <2>2 DEF Succ
<1>4. Rising(t, last, m)
  <2>1. \A i \in Carriers(s) : s[i].ev \in Nat
    BY CarrierFacts
  <2>2. (m = h => f.ev = 0) /\ (m = h + 1 => f.ev = h + 1)
    BY <1>1
  <2>3. QED
    BY <1>1, <1>2, <2>1, <2>2, RiseLast
<1>5. last =< m
  BY <1>2, OneMore
<1>6. Line' = t
  BY DEF f
<1> HIDE DEF t
<1>7. QED
  BY <1>3, <1>4, <1>5, <1>6 DEF Running

\* A frame that a handler of the station sends.
LEMMA OneSent ==
  ASSUME TInv, NEW f \in Sent, PutFor(0, <<f>>), skewed' = {}
  PROVE  /\ skewed = {}
         /\ f.type # "I" => Alike(Line, Line')
         /\ \E s \in Seq(Sent) : Alike(Line, s) /\ Line' = Append(s, f)
<1> DEFINE w == <<f>>
<1>1. w \in Seq(Sent) /\ Len(w) = 1 /\ w[1] = f
  BY SeqOne
<1>2. PutFor(0, w)
  OBVIOUS
<1> HIDE DEF w
<1>3. skewed = {} /\ "dropped" \notin skewed'
  BY <1>2, PutSkews
<1>4. 0 \in Nat /\ effort + 0 =< MaxEffort /\ Len(w) =< 1
  BY <1>1, Sizes DEF TInv, OutTypes
<1>5. ASSUME f.type # "I" PROVE Alike(Line, Line')
  <2>1. Len(w) = 1 => w[1].type # "I"
    BY <1>1, <1>5
  <2>2. QED
    BY <1>1, <1>2, <1>3, <1>4, <2>1, QuietWrite
<1>6. PICK s \in Seq(Sent) : Alike(Line, s) /\ Line' = Append(s, w[Len(w)])
  <2>1. Len(w) \in {1, 2}
    BY <1>1
  <2>2. Len(w) = 2 => w[1].type # "I"
    <3>1. Len(w) # 2
      BY <1>1
    <3>2. QED
      BY <3>1, Zenon
  <2>3. QED
    BY <1>1, <1>2, <1>3, <2>1, <2>2, NumberedWrite
<1>7. w[Len(w)] = f
  BY <1>1
<1>8. QED
  BY <1>3, <1>5, <1>6, <1>7

LEMMA NoneSent ==
  ASSUME TInv, PutFor(0, << >>), skewed' = {}
  PROVE  skewed = {} /\ Alike(Line, Line')
<1> DEFINE w == << >>
<1>1. w \in Seq(Sent) /\ Len(w) = 0
  BY EmptySeq
<1>2. PutFor(0, w)
  OBVIOUS
<1> HIDE DEF w
<1>3. skewed = {} /\ "dropped" \notin skewed'
  BY <1>2, PutSkews
<1>4. 0 \in Nat /\ effort + 0 =< MaxEffort /\ Len(w) =< 1 /\ Len(w) # 1
  BY <1>1, Sizes DEF TInv, OutTypes
<1>5. Len(w) = 1 => w[1].type # "I"
  BY <1>4, Zenon
<1>6. QED
  BY <1>1, <1>2, <1>3, <1>4, <1>5, QuietWrite

LEMMA TwoSent ==
  ASSUME TInv, NEW g \in Sent, g.type # "I", NEW f \in Sent, PutFor(0, <<g, f>>), skewed' = {}
  PROVE  /\ skewed = {}
         /\ \E s \in Seq(Sent) : Alike(Line, s) /\ Line' = Append(s, f)
<1> DEFINE w == <<g, f>>
<1>1. w \in Seq(Sent) /\ Len(w) = 2 /\ w[1] = g /\ w[2] = f
  BY SeqTwo
<1>2. PutFor(0, w)
  OBVIOUS
<1> HIDE DEF w
<1>3. skewed = {} /\ "dropped" \notin skewed'
  BY <1>2, PutSkews
<1>4. PICK s \in Seq(Sent) : Alike(Line, s) /\ Line' = Append(s, w[Len(w)])
  <2>1. Len(w) \in {1, 2} /\ w[1].type # "I"
    BY <1>1
  <2>2. QED
    BY <1>1, <1>2, <1>3, <2>1, NumberedWrite
<1>5. w[Len(w)] = f
  BY <1>1
<1>6. QED
  BY <1>3, <1>4, <1>5

LEMMA SoeSession ==
  ASSUME TInv, WatchHolds, Session, SendDSoe
  PROVE  Session'
<1> SUFFICES ASSUME open', skewed' = {} PROVE (begun' => Running') /\ (~begun' => Fresh')
  BY DEF Session
<1> DEFINE unread == made - freed
           before == IF held > unread THEN 0 ELSE held
           f      == I(sn, freed + before + 1)
<1>1. /\ dt /\ unread > before /\ held' = before + 1 /\ sn' = Succ(sn) /\ PutFor(0, <<f>>)
      /\ UNCHANGED <<freed, made, mvr, last, up, open, begun>>
  BY DEF SendDSoe, CanSendIFrame, Put, master, socket
<1>2. made \in Nat /\ freed \in Nat /\ held \in Nat /\ held =< unread
  BY Sizes DEF TInv, EventTypes
<1>3. /\ before = held /\ held' = held + 1 /\ freed + before + 1 = freed + held + 1
      /\ freed + held + 1 \in 0 .. made /\ freed' + held' = freed + held + 1
  BY <1>1, <1>2
<1>4. sn \in Num
  BY DEF TInv, NumberTypes
<1>5. f \in Sent /\ f = I(sn, freed + held + 1)
  BY <1>3, <1>4, FrameFacts
<1> HIDE DEF f
<1>6. /\ skewed = {}
      /\ \E s \in Seq(Sent) : Alike(Line, s) /\ Line' = Append(s, f)
  BY <1>1, <1>5, OneSent
<1>7. PICK s \in Seq(Sent) : Alike(Line, s) /\ Line' = Append(s, f)
  BY <1>6
<1>8. begun /\ Running
  BY <1>1, <1>6 DEF WatchHolds, Session
<1>9. Gapless(s, mvr, sn) /\ Rising(s, last, freed + held)
  BY <1>7, <1>8, GapAlike, RiseAlike DEF Running
<1>10. last =< freed + held /\ \A i \in DOMAIN up' : up'[i] # U("startdt act")
  BY <1>1, <1>8 DEF Running
<1> DEFINE h == freed + held
           m == h + 1
<1>11. /\ h \in Nat /\ m \in {h, h + 1} /\ m # h /\ m \in 0 .. made /\ freed' + held' = m
  BY <1>2, <1>3
<1>12. Line' = Append(s, I(sn, m))
  BY <1>5, <1>7
<1>13. Rising(s, last, h) /\ last =< h /\ (m = h + 1 => m = h + 1)
  BY <1>9, <1>10
<1>14. UNCHANGED <<mvr, last>> /\ sn' = Succ(sn)
  BY <1>1
<1> HIDE DEF h, m
<1>15. m = h => m = 0
  BY <1>11
<1>16. m = h + 1 => m = h + 1
  OBVIOUS
<1>17. Running'
  BY <1>4, <1>9, <1>10, <1>11, <1>12, <1>13, <1>14, <1>15, <1>16, RunningNext
<1>18. QED
  BY <1>1, <1>8, <1>17

\* Timers 2 and 3 send a frame without a number.
LEMMA TimerLine ==
  ASSUME TInv, T2Out \/ T3Out, skewed' = {}
  PROVE  skewed = {} /\ Alike(Line, Line')
<1>1. CASE T2Out
  <2>1. S \in Sent /\ S.type = "S"
    BY FrameFacts DEF S
  <2>2. PutFor(0, <<S>>)
    BY <1>1 DEF T2Out, Put
  <2> DEFINE f == S
  <2>3. f \in Sent /\ f.type # "I" /\ f.type = "S" /\ PutFor(0, <<f>>)
    BY <2>1, <2>2
  <2> HIDE DEF f
  <2>4. QED
    BY <2>3, OneSent
<1>2. CASE T3Out
  <2> DEFINE f == U("testfr act")
             w == <<f>>
  <2>1. f \in Sent /\ f.type # "I"
    BY FrameFacts DEF U
  <2> HIDE DEF f
  <2>2. w \in Seq(Sent) /\ Len(w) = 1 /\ w[1] = f
    BY <2>1, SeqOne
  <2>3. PutFor(1, w) /\ dt /\ effort + 1 =< MaxEffort
    <3>1. PutFor(1, w) /\ dt /\ effort < MaxEffort
      BY <1>2, Zenon DEF T3Out, CanSendIFrame, Spare, f
    <3>2. effort \in Nat /\ MaxEffort \in Nat
      BY Sizes DEF TInv, OutTypes
    <3>3. effort + 1 =< MaxEffort
      BY <3>1, <3>2
    <3>4. QED
      BY <3>1, <3>3
  <2> HIDE DEF w
  <2>4. skewed = {} /\ "dropped" \notin skewed'
    BY <2>3, PutSkews
  <2>5. Len(w) =< 1 /\ (Len(w) = 1 => w[1].type # "I")
    BY <2>1, <2>2
  <2>6. Alike(Line, Line')
    BY <2>2, <2>3, <2>4, <2>5, QuietWrite
  <2>7. QED
    BY <2>4, <2>6
<1>3. QED
  BY <1>1, <1>2

LEMMA TimerSession ==
  ASSUME TInv, WatchHolds, Session, T2Out \/ T3Out
  PROVE  Session'
<1> SUFFICES ASSUME open', skewed' = {} PROVE (begun' => Running') /\ (~begun' => Fresh')
  BY DEF Session
<1>1. /\ UNCHANGED <<sn, freed, held, mvr, macked, last, ready, open, up, begun>>
      /\ freed' + held' = freed + held
  BY DEF T2Out, T3Out, numbers, events, master, socket, history
<1>2. skewed = {} /\ Alike(Line, Line')
  BY TimerLine
<1>3. CASE begun
  <2>1. Running
    BY <1>1, <1>2, <1>3 DEF Session
  <2>2. Running'
    BY <1>1, <1>2, <2>1, RunningStill DEF Running
  <2>3. QED
    BY <1>1, <1>3, <2>2
<1>4. CASE ~begun
  <2>1. Fresh /\ ~dt
    BY <1>1, <1>2, <1>4 DEF Session, WatchHolds
  <2>2. PICK f \in Sent : f.type = "S" /\ f = S
    BY FrameFacts DEF S
  <2>3. down \in Seq(Sent) /\ buf \in Seq(Sent)
    BY DEF TInv, OutTypes
  <2> DEFINE w == <<f>>
  <2>4. w \in Seq(Sent) /\ Len(w) = 1 /\ w[1] = f
    BY SeqOne
  <2>5. PutFor(0, w)
    BY <2>1, <2>2 DEF T2Out, T3Out, CanSendIFrame, Put
  <2> HIDE DEF w
  <2>6. Line' = Append(down, f)
    <3>1. PICK k \in 0 .. 1 : /\ down' = down \o SubSeq(w, 1, k)
                              /\ buf' = IF k < 1 THEN <<w[1]>> ELSE << >>
      BY <2>4, <2>5 DEF PutFor
    <3>2. Append(down, f) = down \o <<f>>
      BY <2>3, AppendIsConcat
    <3>3. CASE k = 0
      <4>1. SubSeq(w, 1, 0) = << >>
        BY SubSeqEmpty
      <4>2. down' = down /\ buf' = <<f>>
        BY <2>3, <2>4, <3>1, <3>3, <4>1, ConcatEmptySeq
      <4>3. QED
        BY <3>2, <4>2 DEF Line
    <3>4. CASE k = 1
      <4>1. SubSeq(w, 1, 1) = w
        BY <2>4, SubSeqFull
      <4>2. down' = down \o w /\ buf' = << >>
        <5>1. ~(k < 1)
          BY <3>4
        <5>2. QED
          BY <3>1, <3>4, <4>1, <5>1, Zenon
      <4>3. down \o w = Append(down, f)
        BY <3>2 DEF w
      <4>4. Append(down, f) \in Seq(Sent)
        BY <2>3, AppendProperties
      <4>5. Append(down, f) \o << >> = Append(down, f)
        BY <4>4, ConcatEmptySeq
      <4>6. QED
        BY <4>2, <4>3, <4>5 DEF Line
    <3>5. QED
      BY <3>3, <3>4
  <2>7. \A i \in DOMAIN Line' : Line'[i].type = "S"
    <3> DEFINE s == down \o buf
               a == Append(down, f)
    <3>1. /\ a \in Seq(Sent) /\ Len(a) = Len(down) + 1 /\ a[Len(down) + 1] = f
          /\ \A i \in 1 .. Len(down) : a[i] = down[i]
      BY <2>3, AppendProperties
    <3>2. /\ Len(s) = Len(down) + Len(buf) /\ \A i \in 1 .. Len(down) : s[i] = down[i]
          /\ s \in Seq(Sent) /\ Len(down) \in Nat /\ Len(buf) \in Nat
      BY <2>3, ConcatProperties, LenProperties
    <3>3. DOMAIN a = 1 .. Len(down) + 1 /\ DOMAIN s = 1 .. Len(down) + Len(buf)
      BY <3>1, <3>2, LenProperties
    <3>4. \A i \in DOMAIN s : s[i].type = "S"
      BY <2>1 DEF Fresh, Line
    <3>5. Line' = a
      BY <2>6
    <3> HIDE DEF a, s
    <3>6. \A i \in 1 .. Len(down) : a[i].type = "S"
      BY <3>1, <3>2, <3>3, <3>4
    <3>7. QED
      BY <2>2, <3>1, <3>2, <3>3, <3>5, <3>6
  <2>8. Fresh'
    BY <1>1, <2>1, <2>7 DEF Fresh
  <2>9. QED
    BY <1>1, <1>4, <2>8
<1>5. QED
  BY <1>3, <1>4

LEMMA ConnectSession ==
  ASSUME TInv, Connect
  PROVE  Session'
<1> SUFFICES ASSUME open', skewed' = {} PROVE (begun' => Running') /\ (~begun' => Fresh')
  BY DEF Session
<1>1. PICK i \in 0 .. Len(down), j \in 0 .. Len(up) :
        /\ down' = SubSeq(down, i + 1, Len(down))
        /\ up' = Append(SubSeq(up, 1, j), U("startdt act"))
        /\ ~(j > 0) /\ ~(i < Len(down)) /\ buf = << >>
  BY DEF Connect
<1>2. Len(down) \in Nat /\ Len(up) \in Nat
  BY LenProperties DEF TInv, OutTypes, RestTypes
<1>3. j = 0 /\ i = Len(down)
  <2>1. ~(j > 0) /\ ~(i < Len(down))
    BY <1>1
  <2>2. QED
    BY <1>2, <2>1
<1>4. SubSeq(up, 1, 0) = << >> /\ SubSeq(down, Len(down) + 1, Len(down)) = << >>
  BY <1>2, SubSeqEmpty
<1>5. down' = << >> /\ up' = Append(<< >>, U("startdt act"))
  BY <1>1, <1>3, <1>4
<1>6. up' = <<U("startdt act")>>
  <2> DEFINE f == U("startdt act")
  <2>1. << >> \in Seq({f}) /\ f \in {f}
    BY EmptySeq
  <2>2. Append(<< >>, f) = << >> \o <<f>>
    BY <2>1, AppendIsConcat, Zenon
  <2>3. <<f>> \in Seq({f})
    BY <2>1, SeqOne
  <2>4. << >> \o <<f>> = <<f>>
    BY <2>3, ConcatEmptySeq, Zenon
  <2>5. QED
    BY <1>5, <2>2, <2>4
<1>7. buf' = << >>
  BY <1>1 DEF Connect
<1>8. \A k \in DOMAIN Line' : Line'[k].type = "S"
  <2>1. << >> \in Seq(Sent) /\ Len(<< >>) = 0
    BY EmptySeq
  <2>2. << >> \o << >> = << >>
    BY <2>1, ConcatEmptySeq
  <2>3. Line' = << >>
    BY <1>5, <1>7, <2>2 DEF Line
  <2>4. QED
    BY <2>3
<1>9. ready' = FALSE /\ last' = 0 /\ mvr' = 0 /\ macked' = 0 /\ begun' = FALSE
  BY DEF Connect
<1>10. QED
  BY <1>6, <1>8, <1>9 DEF Fresh

LEMMA StayAlike == ASSUME NEW s PROVE Alike(s, s)
  BY DEF Alike

LEMMA SendsSession ==
  ASSUME TInv, Session, MasterAcks \/ MasterCommands
  PROVE  Session'
<1> SUFFICES ASSUME open', skewed' = {} PROVE (begun' => Running') /\ (~begun' => Fresh')
  BY DEF Session
<1>1. /\ UNCHANGED <<sn, freed, held, mvr, last, ready, open, begun, down, buf, skewed>>
      /\ freed' + held' = freed + held
  BY DEF MasterAcks, MasterCommands, MasterSends, numbers, events, history
<1>2. ready \/ mvr # macked
  BY DEF MasterAcks, MasterCommands
<1>3. begun /\ Running
  BY <1>1, <1>2 DEF Session, Fresh
<1>4. PICK f \in Given : up' = Append(up, f) /\ f # U("startdt act")
  <2>1. CASE MasterAcks
    <3>1. Ack(mvr) \in Given
      BY FrameFacts DEF TInv, NumberTypes
    <3>2. Ack(mvr).type # U("startdt act").type
      BY DEF Ack, U
    <3>3. QED
      BY <2>1, <3>1, <3>2 DEF MasterAcks, MasterSends
  <2>2. CASE MasterCommands
    <3>1. \A op \in {"bad", "ask", "quiet"} : /\ Command(msn, mvr, op) \in Given
                                              /\ Command(msn, mvr, op).type = "I"
      BY FrameFacts DEF TInv, NumberTypes, Command
    <3>2. U("startdt act").type = "U" /\ U("startdt act").fn = "startdt act"
      BY DEF U
    <3>3. \A fn \in {"testfr act", "stopdt act"} : U(fn) \in Given /\ U(fn).fn # "startdt act"
      BY FrameFacts DEF U
    <3>4. QED
      BY <2>2, <3>1, <3>2, <3>3 DEF MasterCommands, MasterSends
  <2>3. QED
    BY <2>1, <2>2
<1>5. \A i \in DOMAIN up' : up'[i] # U("startdt act")
  <2>1. up \in Seq(Given)
    BY DEF TInv, RestTypes
  <2> DEFINE a == Append(up, f)
  <2>2. /\ a \in Seq(Given) /\ Len(a) = Len(up) + 1 /\ a[Len(up) + 1] = f
        /\ \A i \in 1 .. Len(up) : a[i] = up[i]
    BY <2>1, AppendProperties
  <2>3. DOMAIN a = 1 .. Len(up) + 1 /\ DOMAIN up = 1 .. Len(up) /\ Len(up) \in Nat
    BY <2>1, <2>2, LenProperties
  <2> HIDE DEF a
  <2>4. \A i \in DOMAIN up : up[i] # U("startdt act")
    BY <1>3 DEF Running
  <2>5. ASSUME NEW i \in DOMAIN a PROVE a[i] # U("startdt act")
    <3>1. i \in 1 .. Len(up) \/ i = Len(up) + 1
      BY <2>3
    <3>2. CASE i \in 1 .. Len(up)
      BY <2>2, <2>3, <2>4, <3>2, Zenon
    <3>3. CASE i = Len(up) + 1
      BY <1>4, <2>2, <3>3, Zenon
    <3>4. QED
      BY <3>1, <3>2, <3>3
  <2>6. QED
    BY <1>4, <2>5 DEF a
<1>6. Alike(Line, Line')
  BY <1>1, LineStill, StayAlike
<1>7. Running'
  BY <1>1, <1>3, <1>5, <1>6, RunningStill
<1>8. QED
  BY <1>1, <1>3, <1>7

\* A frame that is not among those on their way.
LEMMA LacksTail ==
  ASSUME NEW T, NEW s \in Seq(T), s # << >>, NEW x, \A i \in DOMAIN s : s[i] # x
  PROVE  /\ Head(s) # x
         /\ \A i \in DOMAIN Tail(s) : Tail(s)[i] # x
<1>1. /\ Len(s) \in Nat /\ Len(s) > 0 /\ DOMAIN s = 1 .. Len(s)
  BY EmptySeq, LenProperties
<1> DEFINE t == Tail(s)
<1>2. /\ t \in Seq(T) /\ Len(t) = Len(s) - 1 /\ \A i \in 1 .. Len(t) : t[i] = s[i + 1]
  BY HeadTailProperties
<1>3. DOMAIN t = 1 .. Len(t)
  BY <1>2, LenProperties
<1>4. Head(s) = s[1]
  BY <1>1
<1> HIDE DEF t
<1>5. 1 \in DOMAIN s
  BY <1>1
<1>6. \A i \in DOMAIN t : i + 1 \in DOMAIN s /\ t[i] = s[i + 1]
  BY <1>1, <1>2, <1>3
<1>7. \A i \in DOMAIN t : t[i] # x
  BY <1>6
<1>8. QED
  BY <1>4, <1>5, <1>7 DEF t

LEMMA LacksLast ==
  ASSUME NEW T, NEW s \in Seq(T), NEW f \in T, NEW x, f # x, \A i \in DOMAIN s : s[i] # x
  PROVE  \A i \in DOMAIN Append(s, f) : Append(s, f)[i] # x
<1> DEFINE a == Append(s, f)
<1>1. /\ a \in Seq(T) /\ Len(a) = Len(s) + 1 /\ a[Len(s) + 1] = f
      /\ \A i \in 1 .. Len(s) : a[i] = s[i]
  BY AppendProperties
<1>2. DOMAIN a = 1 .. Len(s) + 1 /\ DOMAIN s = 1 .. Len(s) /\ Len(s) \in Nat
  BY <1>1, LenProperties
<1> HIDE DEF a
<1>3. \A i \in DOMAIN a : i \in DOMAIN s \/ i = Len(s) + 1
  BY <1>2
<1>4. \A i \in DOMAIN a : a[i] # x
  BY <1>1, <1>2, <1>3
<1>5. QED
  BY <1>4 DEF a

LEMMA StartFrame ==
  ASSUME NEW f \in Given, f.type = "U", f.fn = "startdt act"
  PROVE  f = U("startdt act")
  BY DEF Given, U

\* A handler that answers with no I frame.
LEMMA QuietReceive ==
  ASSUME TInv, Running, skewed' = {},
         PutFor(0, << >>) \/ (\E f \in Sent : f.type # "I" /\ PutFor(0, <<f>>)),
         UNCHANGED <<mvr, sn, last>>, freed' + held' = freed + held,
         \A i \in DOMAIN up' : up'[i] # U("startdt act")
  PROVE  Running'
<1>1. Alike(Line, Line')
  BY NoneSent, OneSent
<1>2. QED
  BY <1>1, RunningStill

\* One that answers with an I frame.
LEMMA AnswerReceive ==
  ASSUME TInv, NEW n \in Num, Gapless(Line, mvr, n), Rising(Line, last, freed + held),
         last =< freed + held, skewed' = {},
         PutFor(0, <<I(n, 0)>>) \/ (\E g \in Sent : g.type # "I" /\ PutFor(0, <<g, I(n, 0)>>)),
         UNCHANGED <<mvr, last>>, freed' + held' = freed + held, sn' = Succ(n),
         \A i \in DOMAIN up' : up'[i] # U("startdt act")
  PROVE  Running'
<1> DEFINE f == I(n, 0)
<1>1. 0 \in 0 .. made
  BY CountTypes
<1>2. f \in Sent
  BY <1>1, FrameFacts
<1>3. PutFor(0, <<f>>) \/ (\E g \in Sent : g.type # "I" /\ PutFor(0, <<g, f>>))
  OBVIOUS
<1> HIDE DEF f
<1>4. PICK s \in Seq(Sent) : Alike(Line, s) /\ Line' = Append(s, f)
  <2>1. CASE PutFor(0, <<f>>)
    BY <1>2, <2>1, OneSent
  <2>2. CASE \E g \in Sent : g.type # "I" /\ PutFor(0, <<g, f>>)
    <3>1. PICK g \in Sent : g.type # "I" /\ PutFor(0, <<g, f>>)
      BY <2>2
    <3>2. QED
      BY <1>2, <3>1, TwoSent
  <2>3. QED
    BY <1>3, <2>1, <2>2
<1>5. Gapless(s, mvr, n) /\ Rising(s, last, freed + held)
  BY <1>4, GapAlike, RiseAlike
<1> DEFINE h == freed + held
           e == 0
<1>6. h \in Nat /\ e \in 0 .. made
  BY <1>1, CountTypes
<1>7. freed' + held' = h /\ Rising(s, last, h) /\ last =< h
  BY <1>5
<1>8. Line' = Append(s, I(n, e))
  BY <1>4 DEF f
<1>9. h = h => e = 0
  OBVIOUS
<1> HIDE DEF h, e
<1>10. h \in {h, h + 1} /\ (h = h + 1 => e = h + 1)
  BY <1>6, Apart
<1>11. QED
  BY <1>5, <1>6, <1>7, <1>8, <1>9, <1>10, RunningNext

LEMMA ReceiveSession ==
  ASSUME TInv, Session, DoReceive
  PROVE  Session'
<1> SUFFICES ASSUME open', skewed' = {} PROVE (begun' => Running') /\ (~begun' => Fresh')
  BY DEF Session
<1> DEFINE f == Head(up)
<1>1. /\ up # << >> /\ freed' = freed + held /\ held' = 0 /\ up' = Tail(up)
      /\ UNCHANGED <<mvr, last, open>>
  BY DEF DoReceive, FreeEvents, master
<1>2. freed' + held' = freed + held /\ freed + held \in Nat
  <2>1. freed + held \in Nat
    BY CountTypes
  <2> DEFINE h == freed + held
  <2>2. h \in Nat /\ freed' = h /\ held' = 0
    BY <1>1, <2>1
  <2> HIDE DEF h
  <2>3. freed' + held' = h
    BY <2>2
  <2>4. QED
    BY <2>1, <2>3 DEF h
<1>3. f \in Given
  BY <1>1, HeadFacts
<1>4. \/ f.type = "I" /\ DoIFrame(f)
      \/ f.type = "S" /\ DoSFrame(f)
      \/ f.type = "U" /\ f.fn = "startdt act" /\ StartDt
      \/ f.type = "U" /\ f.fn = "stopdt act" /\ StopDt
      \/ f.type = "U" /\ f.fn \in {"testfr act", "testfr con"} /\ TestFr(f)
  BY DEF DoReceive
<1>5. skewed = {}
  BY <1>4, PutSkews DEF DoIFrame, DoSFrame, StartDt, StopDt, TestFr, Put
<1>6. open
  BY <1>1
<1>7. CASE begun
  <2>1. Running
    BY <1>5, <1>6, <1>7 DEF Session
  <2>2. f # U("startdt act") /\ \A i \in DOMAIN up' : up'[i] # U("startdt act")
    <3>1. up \in Seq(Given) /\ \A i \in DOMAIN up : up[i] # U("startdt act")
      BY <2>1 DEF Running, TInv, RestTypes
    <3> DEFINE x == U("startdt act")
    <3>2. \A i \in DOMAIN up : up[i] # x
      BY <3>1
    <3> HIDE DEF x
    <3>3. Head(up) # x /\ \A i \in DOMAIN Tail(up) : Tail(up)[i] # x
      BY <1>1, <3>1, <3>2, LacksTail
    <3>4. QED
      BY <1>1, <3>3 DEF x
  <2> HIDE DEF f
  <2>3. CASE f.type = "I" /\ DoIFrame(f)
    <3> DEFINE r      == f.ns + 1
               sframe == r - ackrn >= W
               reply  == f.op = "bad" \/ (f.op = "ask" /\ CanSendIFrame)
    <3>0. sn' = (IF reply THEN Succ(sn) ELSE sn) /\ UNCHANGED begun
      BY <1>3, <2>3, AnswerFacts
    <3>1. \/ ~reply /\ ~sframe /\ PutFor(0, << >>)
          \/ ~reply /\ sframe /\ PutFor(0, <<S>>)
          \/ reply /\ ~sframe /\ PutFor(0, <<I(sn, 0)>>)
          \/ reply /\ sframe /\ PutFor(0, <<S, I(sn, 0)>>)
      BY <1>3, <2>3, AnswerFacts, Zenon
    <3> HIDE DEF sframe, reply
    <3>2. S \in Sent /\ S.type # "I"
      BY FrameFacts DEF S
    <3>3. CASE ~reply
      <4>1. PutFor(0, << >>) \/ (\E g \in Sent : g.type # "I" /\ PutFor(0, <<g>>))
        BY <3>1, <3>2, <3>3, Zenon
      <4>2. UNCHANGED <<mvr, sn, last>>
        BY <1>1, <3>0, <3>3
      <4>3. Running'
        BY <1>2, <2>1, <2>2, <4>1, <4>2, QuietReceive
      <4>4. QED
        BY <1>7, <3>0, <4>3
    <3>4. CASE reply
      <4>1. PutFor(0, <<I(sn, 0)>>) \/ (\E g \in Sent : g.type # "I" /\ PutFor(0, <<g, I(sn, 0)>>))
        BY <3>1, <3>2, <3>4, Zenon
      <4>2. sn' = Succ(sn) /\ UNCHANGED <<mvr, last>> /\ sn \in Num
        BY <1>1, <3>0, <3>4 DEF TInv, NumberTypes
      <4>3. /\ Gapless(Line, mvr, sn) /\ Rising(Line, last, freed + held)
            /\ last =< freed + held
        BY <2>1 DEF Running
      <4>4. Running'
        BY <1>2, <2>2, <4>1, <4>2, <4>3, AnswerReceive
      <4>5. QED
        BY <1>7, <3>0, <4>4
    <3>5. QED
      BY <3>3, <3>4
  <2>4. CASE DoSFrame(f) \/ StopDt \/ TestFr(f)
    <3>1. UNCHANGED <<sn, begun>>
      BY <2>4 DEF DoSFrame, StopDt, TestFr, numbers, history
    <3>2. PutFor(0, << >>) \/ (\E g \in Sent : g.type # "I" /\ PutFor(0, <<g>>))
      <4>1. /\ U("stopdt con") \in Sent /\ U("stopdt con").type # "I"
            /\ U("testfr con") \in Sent /\ U("testfr con").type # "I"
        BY FrameFacts DEF U
      <4>2. CASE DoSFrame(f)
        BY <4>2 DEF DoSFrame, Put
      <4>3. CASE StopDt
        BY <4>1, <4>3, Zenon DEF StopDt, Put
      <4>4. CASE TestFr(f)
        <5>1. PutFor(0, << >>) \/ PutFor(0, <<U("testfr con")>>)
          BY <4>4 DEF TestFr, Put
        <5>2. QED
          BY <4>1, <5>1, Zenon
      <4>5. QED
        BY <2>4, <4>2, <4>3, <4>4
    <3>3. Running'
      BY <1>1, <1>2, <2>1, <2>2, <3>1, <3>2, QuietReceive
    <3>4. QED
      BY <1>7, <3>1, <3>3
  <2>5. ~(f.type = "U" /\ f.fn = "startdt act")
    BY <1>3, <2>2, StartFrame
  <2>6. QED
    BY <1>4, <2>3, <2>4, <2>5
<1>8. CASE ~begun
  <2>1. Fresh
    BY <1>5, <1>6, <1>8 DEF Session
  <2>2. up = <<U("startdt act")>>
    BY <2>1 DEF Fresh
  <2> DEFINE x == U("startdt act")
             w == <<x>>
  <2>0. x.type = "U" /\ x.fn = "startdt act"
    BY DEF U
  <2> HIDE DEF x
  <2>3. w \in Seq({x}) /\ Len(w) = 1 /\ w[1] = x
    BY SeqOne
  <2>4. up = w
    BY <2>2 DEF x
  <2> HIDE DEF w
  <2>5. f = x /\ \A i \in DOMAIN Tail(w) : FALSE
    <3>1. w # << >>
      <4>1. Len(<< >>) = 0 /\ Len(w) = 1
        BY <2>3, EmptySeq
      <4>2. QED
        BY <4>1
    <3>2. Tail(w) \in Seq({x}) /\ Len(Tail(w)) = 0
      BY <2>3, <3>1, HeadTailProperties
    <3>3. DOMAIN Tail(w) = 1 .. 0
      BY <3>2, LenProperties
    <3>4. f = x
      BY <2>3, <2>4
    <3>5. QED
      BY <3>3, <3>4
  <2>6. f.type = "U" /\ f.fn = "startdt act"
    BY <2>0, <2>5
  <2> HIDE DEF f
  <2>7. StartDt
    BY <1>4, <2>6
  <2>8. begun' = TRUE /\ sn' = 1 /\ PutFor(0, <<U("startdt con"), I(0, 0)>>)
    BY <2>7 DEF StartDt, Put
  <2>9. U("startdt con") \in Sent /\ U("startdt con").type # "I"
    BY FrameFacts DEF U
  <2>10. sn' = Succ(0) /\ 0 \in Num
    <3>1. 1 % M = 1 /\ 0 + 1 = 1 /\ 0 \in Num
      BY NumFacts
    <3>2. QED
      BY <2>8, <3>1 DEF Succ
  <2>11. mvr = 0 /\ last = 0 /\ \A i \in DOMAIN Line : Line[i].type = "S"
    BY <2>1 DEF Fresh
  <2>12. Numbered(Line) = {}
    BY <2>11 DEF Numbered
  <2>13. Gapless(Line, mvr, 0) /\ Rising(Line, last, freed + held)
    BY <2>11, <2>12, GapNone
  <2>14. last =< freed + held
    BY <1>2, <2>11
  <2>15. \A i \in DOMAIN up' : up'[i] # U("startdt act")
    BY <1>1, <2>4, <2>5, Zenon
  <2>16. PutFor(0, <<I(0, 0)>>) \/ (\E g \in Sent : g.type # "I" /\ PutFor(0, <<g, I(0, 0)>>))
    BY <2>8, <2>9, Zenon
  <2>17. Running'
    BY <1>1, <1>2, <2>10, <2>13, <2>14, <2>15, <2>16, AnswerReceive
  <2>18. QED
    BY <2>8, <2>17
<1>9. QED
  BY <1>7, <1>8

LEMMA TakesSession ==
  ASSUME TInv, Session, MasterReceives
  PROVE  Session'
<1> SUFFICES ASSUME open', skewed' = {} PROVE (begun' => Running') /\ (~begun' => Fresh')
  BY DEF Session
<1> DEFINE f == Head(down)
<1>1. /\ down # << >> /\ open /\ down' = Tail(down) /\ ~(f.type = "I" /\ f.ns # mvr)
      /\ IF f = U("testfr act") THEN up' = Append(up, U("testfr con")) ELSE UNCHANGED up
      /\ ready' = (ready \/ f = U("startdt con"))
      /\ last' = IF f.type = "I" /\ f.ev > 0 THEN f.ev ELSE last
      /\ mvr' = IF f.type = "I" THEN (mvr + 1) % M ELSE mvr
      /\ UNCHANGED <<buf, skewed, sn, freed, held, macked, begun>>
  BY DEF MasterReceives, Break, numbers, events, history
<1>2. PICK n \in Nat \ {0} :
        /\ DOMAIN Line = 1 .. n /\ DOMAIN Line' = 1 .. n - 1
        /\ \A i \in 1 .. n - 1 : Line'[i] = Line[i + 1]
        /\ Line[1] = f
  BY <1>1, HeadTaken
<1>3. PICK s, t : s = Line /\ t = Line'
  OBVIOUS
<1>4. /\ DOMAIN s = 1 .. n /\ DOMAIN t = 1 .. n - 1 /\ n \in Nat /\ n > 0
      /\ \A i \in 1 .. n - 1 : t[i] = s[i + 1]
      /\ s[1] = f
  BY <1>2, <1>3
<1>5. U("testfr act").type = "U" /\ U("startdt con").type = "U"
  BY DEF U
<1> HIDE DEF f
<1>6. CASE begun
  <2>1. Running
    BY <1>1, <1>6 DEF Session
  <2>2. Gapless(s, mvr, sn) /\ Rising(s, last, freed + held) /\ last =< freed + held
    BY <1>3, <2>1 DEF Running
  <2>3. Gapless(t, mvr', sn)
    <3>1. /\ s[1].type = "I" => Gapless(t, (mvr + 1) % M, sn)
          /\ s[1].type # "I" => Gapless(t, mvr, sn)
      BY <1>4, <2>2, GapFirst
    <3>2. QED
      BY <1>1, <1>4, <3>1
  <2>4. Rising(t, last', freed + held) /\ last' =< freed + held
    <3>1. /\ f.type = "I" /\ f.ev > 0 => f.ev =< freed + held /\ Rising(t, f.ev, freed + held)
          /\ ~(f.type = "I" /\ f.ev > 0) => Rising(t, last, freed + held)
      BY <1>4, <2>2, RiseFirst
    <3>2. QED
      BY <1>1, <2>2, <3>1
  <2>5. \A i \in DOMAIN up' : up'[i] # U("startdt act")
    <3>1. \A i \in DOMAIN up : up[i] # U("startdt act")
      BY <2>1 DEF Running
    <3>2. up \in Seq(Given) /\ U("testfr con") \in Given
      BY FrameFacts DEF TInv, RestTypes
    <3>3. U("testfr con") # U("startdt act")
      BY DEF U
    <3> DEFINE g == U("testfr con")
               x == U("startdt act")
    <3>4. g \in Given /\ g # x /\ \A i \in DOMAIN up : up[i] # x
      BY <3>1, <3>2, <3>3
    <3>5. up' = Append(up, g) \/ up' = up
      BY <1>1
    <3> HIDE DEF g, x
    <3>6. \A i \in DOMAIN Append(up, g) : Append(up, g)[i] # x
      BY <3>2, <3>4, LacksLast
    <3>7. \A i \in DOMAIN up' : up'[i] # x
      BY <3>4, <3>5, <3>6
    <3>8. QED
      BY <3>7 DEF x
  <2>6. Running'
    <3>1. UNCHANGED <<sn, freed, held>> /\ Line' = t
      BY <1>1, <1>3
    <3>2. QED
      BY <2>3, <2>4, <2>5, <3>1 DEF Running
  <2>7. QED
    BY <1>1, <1>6, <2>6
<1>7. CASE ~begun
  <2>1. Fresh
    BY <1>1, <1>7 DEF Session
  <2>2. \A i \in 1 .. n : s[i].type = "S"
    BY <1>3, <1>4, <2>1 DEF Fresh
  <2>3. f.type = "S"
    BY <1>4, <2>2
  <2>4. UNCHANGED <<up, last, mvr, macked>> /\ ready' = ready
    <3>1. f # U("testfr act") /\ f # U("startdt con") /\ f.type # "I"
      BY <1>5, <2>3
    <3>2. ready \in BOOLEAN
      BY DEF TInv, FlagTypes
    <3>3. QED
      BY <1>1, <3>1, <3>2
  <2>5. \A i \in DOMAIN t : t[i].type = "S"
    BY <1>4, <2>2
  <2>6. Fresh'
    BY <1>3, <2>1, <2>4, <2>5 DEF Fresh
  <2>7. QED
    BY <1>1, <1>7, <2>6
<1>8. QED
  BY <1>6, <1>7

LEMMA SessionKept ==
  ASSUME TInv, WatchHolds, Session, [Next]_vars
  PROVE  Session'
<1>1. CASE Disconnect \/ (T1Out /\ open)
  <2>1. open' = FALSE
    BY <1>1 DEF Disconnect, T1Out, Break
  <2>2. QED
    BY <2>1 DEF Session
<1>2. CASE T1Out /\ ~open
  <2>1. open' = open
    BY <1>2 DEF T1Out
  <2>2. QED
    BY <1>2, <2>1 DEF Session
<1>3. CASE DoCommState
  <2>1. /\ UNCHANGED <<open, begun, mvr, last, ready, macked, up, down, buf>>
        /\ open => skewed' = IF begun THEN skewed \cup {"late"} ELSE skewed
    BY <1>3 DEF DoCommState, master, history
  <2>2. CASE ~open
    BY <2>1, <2>2 DEF Session
  <2>3. CASE open /\ begun
    <3>1. skewed' # {}
      BY <2>1, <2>3
    <3>2. QED
      BY <3>1 DEF Session
  <2>4. CASE open /\ ~begun
    <3>1. skewed' = skewed
      BY <2>1, <2>4
    <3>2. Line' = Line
      BY <2>1, LineStill
    <3>3. QED
      BY <2>1, <2>4, <3>1, <3>2 DEF Session, Fresh
  <2>5. QED
    BY <2>2, <2>3, <2>4
<1>4. CASE Idle \/ WriteEvent \/ UNCHANGED vars
  <2>1. UNCHANGED <<open, begun, skewed, mvr, last, ready, macked, up, sn, freed, held>>
    <3>1. CASE Idle
      BY <3>1 DEF Idle, numbers, events, master, socket, history
    <3>2. CASE WriteEvent
      BY <3>2 DEF WriteEvent, numbers, output, master, socket, history
    <3>3. CASE UNCHANGED vars
      BY <3>3 DEF vars, numbers, output, events, master, socket, history
    <3>4. QED
      BY <1>4, <3>1, <3>2, <3>3
  <2>2. Idle \/ UNCHANGED <<down, buf>>
    BY <1>4 DEF WriteEvent, vars, output
  <2>3. Line' = Line
    BY <2>2, LineStill
  <2>4. Running' = Running /\ Fresh' = Fresh
    BY <2>1, <2>3 DEF Running, Fresh
  <2>5. QED
    BY <2>1, <2>4 DEF Session
<1>5. QED
  BY <1>1, <1>2, <1>3, <1>4, SoeSession, TimerSession, ReceiveSession, ConnectSession,
    SendsSession, TakesSession DEF Next, Station, Environment

SessionInv == TInv /\ WatchHolds /\ Session

LEMMA SessionAlways == Spec => []SessionInv
<1>1. Init => SessionInv
  <2>1. Init => WatchHolds /\ Session
    BY DEF Init, WatchHolds, Session
  <2>2. QED
    BY <2>1, InitTypes DEF SessionInv
<1>2. SessionInv /\ [Next]_vars => SessionInv'
  BY TypesKept, WatchKept, SessionKept DEF SessionInv
<1>3. QED
  BY <1>1, <1>2, PTL DEF Spec

\* The controlling station sees the numbers of I frames without a gap or a
\* repetition, and none before STARTDT.
THEOREM NumbersInSequence == Spec => []InSequence
<1>1. SessionInv => InSequence
  <2> SUFFICES ASSUME SessionInv, open, skewed = {}
               PROVE  /\ Gapless(Line, mvr, sn) \/ ~begun
                      /\ begun \/ Numbered(Line) = {}
    <3>1. Numbered(down \o buf) = Numbered(Line) /\ \A i \in Numbered(Line) : Line[i] = (down \o buf)[i]
      BY DEF Line
    <3>2. QED
      BY <3>1 DEF InSequence, Gapless, Line
  <2>1. (begun => Running) /\ (~begun => Fresh)
    BY DEF SessionInv, Session
  <2>2. Fresh => Numbered(Line) = {}
    BY DEF Fresh, Numbered
  <2>3. QED
    BY <2>1, <2>2 DEF Running
<1>2. QED
  BY <1>1, SessionAlways, PTL

\* On a connection without mishaps events arrive in order and none twice.
THEOREM EventsOnce == Spec => []OncePerConnection
<1>1. SessionInv => OncePerConnection
  <2> SUFFICES ASSUME SessionInv, open, skewed = {}, NEW i \in Carriers(Line)
               PROVE  /\ Line[i].ev > last
                      /\ \A j \in Carriers(Line) : i < j => Line[i].ev < Line[j].ev
    BY DEF OncePerConnection, Line
  <2>1. (begun => Running) /\ (~begun => Fresh)
    BY DEF SessionInv, Session
  <2>2. Fresh => Carriers(Line) = {}
    BY DEF Fresh, Numbered, Carriers
  <2>3. QED
    BY <2>1, <2>2 DEF Running, Rising
<1>2. QED
  BY <1>1, SessionAlways, PTL
------------------------------------------------------------------------------
(* The window.                                                             *)

\* How far the number n is ahead of a.
Dist(n, a) == IF n >= a THEN n - a ELSE (n + M) - a

LEMMA DistFacts ==
  ASSUME NEW n \in Num, NEW a \in Num
  PROVE  /\ n \in Nat /\ a \in Nat /\ n < M /\ a < M /\ M \in Nat /\ M > 2
         /\ Dist(n, a) \in Nat /\ Dist(n, a) < M
         /\ n >= a => Dist(n, a) = n - a
         /\ n < a => Dist(n, a) = (n + M) - a
  BY Sizes DEF Num, Dist

LEMMA SuccFacts ==
  ASSUME NEW n \in Num
  PROVE  /\ Succ(n) \in Num
         /\ n + 1 < M => Succ(n) = n + 1
         /\ n + 1 = M => Succ(n) = 0
         /\ n + 1 < M \/ n + 1 = M
<1>1. n \in Nat /\ n < M /\ M \in Nat /\ M > 2
  BY Sizes DEF Num
<1>2. n + 1 < M => (n + 1) % M = n + 1
  <2>1. ASSUME n + 1 < M PROVE n + 1 \in Num
    BY <1>1, <2>1 DEF Num
  <2>2. QED
    BY <2>1, NumFacts
<1>3. n + 1 = M => (n + 1) % M = 0
  <2>1. ASSUME n + 1 = M PROVE M % M = 0
    <3>1. (1 * M + 0) % M = 0
      <4>1. M \in Nat /\ M > 0 /\ 1 \in Nat /\ 0 \in 0 .. M - 1
        BY <1>1
      <4>2. QED
        BY <4>1, ModUnique, Zenon
    <3>2. 1 * M + 0 = M
      BY <1>1
    <3>3. QED
      BY <3>1, <3>2
  <2>2. QED
    BY <2>1
<1>4. Succ(n) \in Num
  BY NumFacts DEF Succ
<1>5. n + 1 < M \/ n + 1 = M
  BY <1>1
<1>6. QED
  BY <1>2, <1>3, <1>4, <1>5 DEF Succ

LEMMA DistNext ==
  ASSUME NEW n \in Num, NEW a \in Num, Dist(n, a) + 1 < M
  PROVE  Dist(Succ(n), a) = Dist(n, a) + 1
<1> DEFINE m == Succ(n)
           d == Dist(n, a)
           e == Dist(m, a)
<1>1. /\ m \in Num /\ (n + 1 < M => m = n + 1) /\ (n + 1 = M => m = 0)
      /\ n + 1 < M \/ n + 1 = M
  BY SuccFacts
<1> HIDE DEF m
<1>2. /\ n \in Nat /\ a \in Nat /\ m \in Nat /\ n < M /\ a < M /\ M \in Nat
      /\ d \in Nat /\ (n >= a => d = n - a) /\ (n < a => d = (n + M) - a)
      /\ e \in Nat /\ (m >= a => e = m - a) /\ (m < a => e = (m + M) - a)
  BY <1>1, DistFacts
<1>3. d + 1 < M
  OBVIOUS
<1> HIDE DEF d, e
<1>4. e = d + 1
  BY <1>1, <1>2, <1>3
<1>5. QED
  BY <1>4 DEF d, e, m

LEMMA DistTaken ==
  ASSUME NEW n \in Num, NEW a \in Num, Dist(n, a) > 0
  PROVE  Dist(n, Succ(a)) = Dist(n, a) - 1
<1> DEFINE b == Succ(a)
           d == Dist(n, a)
           e == Dist(n, b)
<1>1. /\ b \in Num /\ (a + 1 < M => b = a + 1) /\ (a + 1 = M => b = 0)
      /\ a + 1 < M \/ a + 1 = M
  BY SuccFacts
<1> HIDE DEF b
<1>2. /\ n \in Nat /\ a \in Nat /\ b \in Nat /\ n < M /\ a < M /\ M \in Nat
      /\ d \in Nat /\ (n >= a => d = n - a) /\ (n < a => d = (n + M) - a)
      /\ e \in Nat /\ (n >= b => e = n - b) /\ (n < b => e = (n + M) - b)
  BY <1>1, DistFacts
<1>3. d > 0
  OBVIOUS
<1> HIDE DEF d, e
<1>4. e = d - 1
  BY <1>1, <1>2, <1>3
<1>5. QED
  BY <1>4 DEF d, e, b

LEMMA DistMod ==
  ASSUME NEW x \in Num, NEW y \in Num
  PROVE  (x - y) % M = Dist(x, y)
<1> DEFINE d == Dist(x, y)
<1>1. /\ x \in Nat /\ y \in Nat /\ x < M /\ y < M /\ M \in Nat /\ M > 2
      /\ d \in Nat /\ d < M /\ (x >= y => d = x - y) /\ (x < y => d = (x + M) - y)
  BY DistFacts
<1> HIDE DEF d
<1>2. d \in Num
  BY <1>1 DEF Num
<1>3. CASE x >= y
  BY <1>1, <1>2, <1>3, NumFacts DEF d
<1>4. CASE x < y
  <2> DEFINE z == x - y
             q == z \div M
             r == z % M
  <2>1. z \in Int /\ z = d - M
    BY <1>1, <1>4
  <2>2. r \in 0 .. M - 1 /\ q \in Int /\ z = q * M + r
    BY <1>1, <2>1, SMT
  <2> HIDE DEF z, q, r
  <2>3. (q + 1) * M = d - r
    BY <1>1, <2>1, <2>2, SMT
  <2>4. q + 1 >= 1 => (q + 1) * M >= M
    BY <1>1, <2>2, SMT
  <2>5. q + 1 =< -1 => (q + 1) * M =< -M
    BY <1>1, <2>2, SMT
  <2>6. q + 1 = 0
    BY <1>1, <2>2, <2>3, <2>4, <2>5, SMT
  <2>7. r = d
    BY <1>1, <2>2, <2>3, <2>6, SMT
  <2>8. QED
    BY <2>7 DEF r, z, d
<1>5. QED
  BY <1>1, <1>3, <1>4

\* What wRet counts: it is one too few after the wrap-around.
LEMMA FlightFacts ==
  ASSUME NEW n \in Num, NEW a \in Num
  PROVE  InFlight(n, a) = IF n >= a THEN Dist(n, a) + 1 ELSE Dist(n, a)
<1>1. n \in Nat /\ a \in Nat /\ n < M /\ a < M /\ M \in Nat
  BY DistFacts
<1>2. QED
  BY <1>1 DEF InFlight, Dist

\* The number of frames that are not acknowledged, as the station sees it:
\* one more once the counter has wrapped.
Extra(l) == IF l THEN 1 ELSE 0

Narrow(n, a, u, l) ==
  /\ Dist(n, a) =< K + u + Extra(l)
  /\ ~l => Dist(n, a) =< n

Free(n, a, l) == Dist(n, a) + 1 =< K + Extra(l)

LEMMA FreeFacts ==
  ASSUME NEW n \in Num, NEW a \in Num, NEW l \in BOOLEAN, Free(n, a, l)
  PROVE  Dist(n, a) + 1 < M
<1> DEFINE d == Dist(n, a)
           x == Extra(l)
<1>1. d \in Nat /\ x \in {0, 1} /\ d + 1 =< K + x /\ K \in Nat /\ M \in Nat /\ K + 1 < M
  BY DistFacts, Sizes DEF Free, Extra
<1> HIDE DEF d, x
<1>2. d + 1 < M
  BY <1>1
<1>3. QED
  BY <1>2 DEF d

\* A frame that is acknowledged makes room.
LEMMA NarrowAcked ==
  ASSUME NEW n \in Num, NEW a \in Num, NEW b \in Num, NEW u \in Nat, NEW l \in BOOLEAN,
         Narrow(n, a, u, l), Dist(n, b) =< Dist(n, a)
  PROVE  Narrow(n, b, u, l) /\ (Free(n, a, l) => Free(n, b, l))
<1> DEFINE d == Dist(n, a)
           e == Dist(n, b)
           x == Extra(l)
<1>1. d \in Nat /\ e \in Nat /\ x \in Nat /\ K \in Nat /\ n \in Nat
  BY DistFacts, Sizes DEF Extra
<1>2. d =< K + u + x /\ (~l => d =< n) /\ e =< d
  BY DEF Narrow
<1> HIDE DEF d, e, x
<1>3. e =< K + u + x /\ (~l => e =< n) /\ (d + 1 =< K + x => e + 1 =< K + x)
  BY <1>1, <1>2
<1>4. QED
  BY <1>3 DEF d, e, x, Narrow, Free

\* A frame more: asked for, or not.
LEMMA NarrowNext ==
  ASSUME NEW n \in Num, NEW a \in Num, NEW u \in Nat, NEW v \in Nat,
         NEW l \in BOOLEAN, NEW m \in BOOLEAN,
         Narrow(n, a, u, l), m = (l \/ Succ(n) = 0),
         (v = u /\ Free(n, a, l)) \/ (v = u + 1 /\ v + K + 1 < M)
  PROVE  /\ Dist(n, a) + 1 < M
         /\ Narrow(Succ(n), a, v, m)
<1> DEFINE d == Dist(n, a)
           x == Extra(l)
           y == Extra(m)
<1>1. /\ d \in Nat /\ d < M /\ x \in {0, 1} /\ y \in {0, 1} /\ K \in Nat /\ M \in Nat
      /\ n \in Nat /\ K + 1 < M
  BY DistFacts, Sizes DEF Extra
<1>2. x =< y
  BY DEF Extra
<1>3. d =< K + u + x /\ (~l => d =< n) /\ (Free(n, a, l) => d + 1 =< K + x)
  BY DEF Narrow, Free
<1> HIDE DEF d, x, y
<1>4. d + 1 < M /\ d + 1 =< K + v + y
  BY <1>1, <1>2, <1>3
<1>5. Dist(Succ(n), a) = d + 1
  BY <1>4, DistNext DEF d
<1>6. ~m => d + 1 =< Succ(n)
  <2>1. SUFFICES ASSUME ~m PROVE d + 1 =< Succ(n)
    OBVIOUS
  <2>2. ~l /\ Succ(n) # 0
    BY <2>1
  <2>3. Succ(n) = n + 1
    BY <2>2, SuccFacts
  <2>4. QED
    BY <1>1, <1>3, <2>2, <2>3
<1>7. QED
  BY <1>4, <1>5, <1>6 DEF Narrow, d, y

\* The two ways the window is reckoned: before the number counts, and after.
LEMMA ReckonedBefore ==
  ASSUME NEW n \in Num, NEW a \in Num, NEW u \in Nat, NEW l \in BOOLEAN, NEW m \in BOOLEAN,
         Narrow(n, a, u, l), m = (l \/ Succ(n) = 0), Dist(n, a) + 1 < M,
         InFlight(n, a) < K
  PROVE  Free(Succ(n), a, m)
<1> DEFINE d == Dist(n, a)
           y == Extra(m)
<1>1. /\ d \in Nat /\ y \in {0, 1} /\ K \in Nat /\ n \in Nat /\ a \in Nat /\ a < M
      /\ M \in Nat /\ (n < a => d = (n + M) - a)
  BY DistFacts, Sizes DEF Extra
<1>2. InFlight(n, a) = IF n >= a THEN d + 1 ELSE d
  BY FlightFacts
<1>3. Dist(Succ(n), a) = d + 1
  BY DistNext
<1>4. ~l => d =< n
  BY DEF Narrow
<1>5. l => y = 1
  BY DEF Extra
<1> HIDE DEF d, y
<1>6. n < a => l
  BY <1>1, <1>4
<1>7. (d + 1) + 1 =< K + y
  BY <1>1, <1>2, <1>5, <1>6
<1>8. QED
  BY <1>3, <1>7 DEF Free, y

LEMMA ReckonedAfter ==
  ASSUME NEW n \in Num, NEW a \in Num, NEW l \in BOOLEAN, InFlight(n, a) < K
  PROVE  Free(n, a, l)
<1> DEFINE d == Dist(n, a)
           y == Extra(l)
           z == InFlight(n, a)
<1>1. d \in Nat /\ y \in {0, 1} /\ K \in Nat /\ n \in Nat /\ a \in Nat
  BY DistFacts, Sizes DEF Extra
<1>2. z = IF n >= a THEN d + 1 ELSE d
  BY FlightFacts
<1>3. z < K
  OBVIOUS
<1> HIDE DEF d, y, z
<1>4. d + 1 =< K + y
  BY <1>1, <1>2, <1>3
<1>5. QED
  BY <1>4 DEF Free, d, y

------------------------------------------------------------------------------
(* Acknowledgements on their way.                                          *)

Acking(s) == {i \in DOMAIN s : s[i].type # "U"}

\* The numbers they acknowledge rise, and leave from l to h of the station's.
Falling(s, n, l, h) ==
  /\ \A i \in Acking(s) :
       s[i].nr \in Num /\ l =< Dist(n, s[i].nr) /\ Dist(n, s[i].nr) =< h
  /\ \A i, j \in Acking(s) : i < j => Dist(n, s[j].nr) =< Dist(n, s[i].nr)

LEMMA FallNone ==
  ASSUME NEW s, DOMAIN s = {}, NEW n, NEW l, NEW h
  PROVE  Falling(s, n, l, h)
  BY DEF Falling, Acking

\* The station sends one more.
LEMMA FallNext ==
  ASSUME NEW s, NEW n \in Num, NEW l \in Nat, NEW h \in Nat, Falling(s, n, l, h), h + 1 < M
  PROVE  Falling(s, Succ(n), l + 1, h + 1)
<1>1. ASSUME NEW i \in Acking(s)
      PROVE  /\ s[i].nr \in Num /\ Dist(n, s[i].nr) \in Nat
             /\ Dist(Succ(n), s[i].nr) = Dist(n, s[i].nr) + 1
             /\ l =< Dist(n, s[i].nr) /\ Dist(n, s[i].nr) =< h
  <2>1. s[i].nr \in Num /\ l =< Dist(n, s[i].nr) /\ Dist(n, s[i].nr) =< h
    BY <1>1 DEF Falling
  <2> DEFINE d == Dist(n, s[i].nr)
  <2>2. d \in Nat /\ d =< h /\ M \in Nat
    BY <2>1, DistFacts
  <2> HIDE DEF d
  <2>3. d + 1 < M
    BY <2>2
  <2>4. QED
    BY <2>1, <2>2, <2>3, DistNext DEF d
<1>2. \A i, j \in Acking(s) : i < j => Dist(n, s[j].nr) =< Dist(n, s[i].nr)
  BY DEF Falling
<1>3. ASSUME NEW i \in Acking(s), NEW j \in Acking(s), i < j
      PROVE  Dist(Succ(n), s[j].nr) =< Dist(Succ(n), s[i].nr)
  <2> DEFINE d == Dist(n, s[i].nr)
             e == Dist(n, s[j].nr)
             x == Dist(Succ(n), s[i].nr)
             y == Dist(Succ(n), s[j].nr)
  <2>1. d \in Nat /\ e \in Nat /\ e =< d /\ x = d + 1 /\ y = e + 1
    BY <1>1, <1>2, <1>3
  <2> HIDE DEF d, e, x, y
  <2>2. y =< x
    BY <2>1
  <2>3. QED
    BY <2>2 DEF x, y
<1>4. ASSUME NEW i \in Acking(s)
      PROVE  /\ s[i].nr \in Num /\ l + 1 =< Dist(Succ(n), s[i].nr)
             /\ Dist(Succ(n), s[i].nr) =< h + 1
  <2> DEFINE d == Dist(n, s[i].nr)
             x == Dist(Succ(n), s[i].nr)
  <2>1. d \in Nat /\ l =< d /\ d =< h /\ x = d + 1
    BY <1>1
  <2> HIDE DEF d, x
  <2>2. l + 1 =< x /\ x =< h + 1
    BY <2>1
  <2>3. QED
    BY <1>1, <2>2 DEF x
<1>5. QED
  BY <1>3, <1>4 DEF Falling

\* The station handles the first.
LEMMA FallFirst ==
  ASSUME NEW T, NEW s \in Seq(T), s # << >>, NEW n, NEW l, NEW h, Falling(s, n, l, h)
  PROVE  /\ Head(s).type = "U" => Falling(Tail(s), n, l, h)
         /\ Head(s).type # "U" =>
              /\ Head(s).nr \in Num /\ l =< Dist(n, Head(s).nr) /\ Dist(n, Head(s).nr) =< h
              /\ Falling(Tail(s), n, l, Dist(n, Head(s).nr))
<1> DEFINE t == Tail(s)
           f == Head(s)
<1>1. /\ Len(s) \in Nat /\ Len(s) > 0 /\ DOMAIN s = 1 .. Len(s) /\ f = s[1]
  BY EmptySeq, LenProperties
<1>2. t \in Seq(T) /\ Len(t) = Len(s) - 1 /\ \A i \in 1 .. Len(t) : t[i] = s[i + 1]
  BY HeadTailProperties
<1>3. DOMAIN t = 1 .. Len(s) - 1
  BY <1>2, LenProperties
<1> HIDE DEF t, f
<1>4. \A i \in Acking(t) : i \in Nat /\ i > 0 /\ i + 1 \in Acking(s) /\ t[i] = s[i + 1]
  <2>1. SUFFICES ASSUME NEW i \in Acking(t)
                 PROVE  i \in Nat /\ i > 0 /\ i + 1 \in Acking(s) /\ t[i] = s[i + 1]
    OBVIOUS
  <2>2. i \in 1 .. Len(s) - 1 /\ t[i].type # "U"
    BY <1>3, <2>1 DEF Acking
  <2>3. i \in Nat /\ i > 0 /\ i + 1 \in 1 .. Len(s) /\ t[i] = s[i + 1]
    BY <1>1, <1>2, <2>2
  <2>4. QED
    BY <1>1, <2>2, <2>3 DEF Acking
<1>5. /\ \A i \in Acking(t) :
           t[i].nr \in Num /\ l =< Dist(n, t[i].nr) /\ Dist(n, t[i].nr) =< h
      /\ \A i, j \in Acking(t) : i < j => Dist(n, t[j].nr) =< Dist(n, t[i].nr)
  <2>1. \A i \in Acking(s) :
           s[i].nr \in Num /\ l =< Dist(n, s[i].nr) /\ Dist(n, s[i].nr) =< h
    BY DEF Falling
  <2>2. \A i, j \in Acking(s) : i < j => Dist(n, s[j].nr) =< Dist(n, s[i].nr)
    BY DEF Falling
  <2>3. \A i, j \in Acking(t) : i < j => i + 1 < j + 1
    BY <1>4
  <2>4. QED
    BY <1>4, <2>1, <2>2, <2>3
<1>6. f.type = "U" => Falling(t, n, l, h)
  BY <1>5 DEF Falling
<1>7. ASSUME f.type # "U"
      PROVE  /\ f.nr \in Num /\ l =< Dist(n, f.nr) /\ Dist(n, f.nr) =< h
             /\ Falling(t, n, l, Dist(n, f.nr))
  <2>1. 1 \in Acking(s)
    BY <1>1, <1>7 DEF Acking
  <2>2. f.nr \in Num /\ l =< Dist(n, f.nr) /\ Dist(n, f.nr) =< h
    BY <1>1, <2>1 DEF Falling
  <2>3. ASSUME NEW i \in Acking(t) PROVE Dist(n, t[i].nr) =< Dist(n, f.nr)
    <3>1. i + 1 \in Acking(s) /\ t[i] = s[i + 1] /\ 1 < i + 1
      BY <1>4, <2>3
    <3>2. QED
      BY <1>1, <2>1, <3>1 DEF Falling
  <2>4. QED
    BY <1>5, <2>2, <2>3 DEF Falling
<1>8. QED
  BY <1>6, <1>7 DEF t, f

\* The controlling station sends one.
LEMMA FallLast ==
  ASSUME NEW T, NEW s \in Seq(T), NEW f \in T, NEW n \in Num,
         NEW l \in Nat, NEW k \in Nat, NEW h \in Nat, Falling(s, n, l, h), k =< l, l =< h,
         f.type # "U" => f.nr \in Num /\ Dist(n, f.nr) = k
  PROVE  Falling(Append(s, f), n, k, h)
<1> DEFINE t == Append(s, f)
<1>1. /\ t \in Seq(T) /\ Len(t) = Len(s) + 1 /\ t[Len(s) + 1] = f
      /\ \A i \in 1 .. Len(s) : t[i] = s[i]
  BY AppendProperties
<1>2. DOMAIN t = 1 .. Len(s) + 1 /\ DOMAIN s = 1 .. Len(s) /\ Len(s) \in Nat
  BY <1>1, LenProperties
<1> HIDE DEF t
<1>3. ASSUME NEW i \in Acking(t)
      PROVE  \/ i \in Acking(s) /\ t[i] = s[i] /\ i \in 1 .. Len(s)
             \/ i = Len(s) + 1 /\ t[i] = f /\ f.type # "U"
  <2>1. i \in 1 .. Len(s) + 1 /\ t[i].type # "U"
    BY <1>2, <1>3 DEF Acking
  <2>2. CASE i \in 1 .. Len(s)
    BY <1>1, <1>2, <2>1, <2>2 DEF Acking
  <2>3. CASE i = Len(s) + 1
    BY <1>1, <2>1, <2>3
  <2>4. QED
    BY <1>2, <2>1, <2>2, <2>3
<1>4. \A i \in Acking(s) :
        /\ s[i].nr \in Num /\ Dist(n, s[i].nr) \in Nat
        /\ l =< Dist(n, s[i].nr) /\ Dist(n, s[i].nr) =< h
  BY DistFacts DEF Falling
<1>5. \A d \in Nat : l =< d => k =< d
  OBVIOUS
<1>6. k =< h
  OBVIOUS
<1>7. ASSUME NEW i \in Acking(t)
      PROVE  t[i].nr \in Num /\ k =< Dist(n, t[i].nr) /\ Dist(n, t[i].nr) =< h
  <2>1. CASE i \in Acking(s) /\ t[i] = s[i]
    BY <1>4, <1>5, <2>1
  <2>2. CASE t[i] = f /\ f.type # "U"
    BY <1>6, <2>2
  <2>3. QED
    BY <1>3, <1>7, <2>1, <2>2
<1>8. ASSUME NEW i \in Acking(t), NEW j \in Acking(t), i < j
      PROVE  Dist(n, t[j].nr) =< Dist(n, t[i].nr)
  <2>1. CASE j = Len(s) + 1 /\ t[j] = f /\ f.type # "U"
    BY <1>7, <2>1
  <2>2. CASE j \in Acking(s) /\ t[j] = s[j] /\ j \in 1 .. Len(s)
    <3>1. i # Len(s) + 1
      BY <1>2, <1>8, <2>2
    <3>2. i \in Acking(s) /\ t[i] = s[i]
      BY <1>3, <1>8, <3>1
    <3>3. QED
      BY <1>8, <2>2, <3>2 DEF Falling
  <2>3. QED
    BY <1>3, <1>8, <2>1, <2>2
<1>9. QED
  BY <1>7, <1>8 DEF Falling, t

------------------------------------------------------------------------------
(* How many I frames are on their way.                                     *)

Many(s) == Cardinality(Numbered(s))

LEMMA ManyAlike ==
  ASSUME NEW s, NEW t, Alike(s, t)
  PROVE  Many(t) = Many(s)
  BY DEF Alike, Many

LEMMA ManyNone ==
  ASSUME NEW s, Numbered(s) = {}
  PROVE  Many(s) = 0
  BY FS_EmptySet DEF Many

LEMMA ManyFacts ==
  ASSUME NEW T, NEW s \in Seq(T)
  PROVE  IsFiniteSet(Numbered(s)) /\ Many(s) \in Nat
<1>1. DOMAIN s = 1 .. Len(s) /\ Len(s) \in Nat
  BY LenProperties
<1>2. IsFiniteSet(1 .. Len(s))
  BY <1>1, FS_Interval
<1>3. Numbered(s) \in SUBSET (1 .. Len(s))
  BY <1>1 DEF Numbered
<1>4. IsFiniteSet(Numbered(s))
  BY <1>2, <1>3, FS_Subset
<1>5. QED
  BY <1>4, FS_CardinalityType DEF Many

LEMMA ManyLast ==
  ASSUME NEW T, NEW s \in Seq(T), NEW f \in T, f.type = "I"
  PROVE  Many(Append(s, f)) = Many(s) + 1
<1> DEFINE N == Numbered(s)
           k == Len(s) + 1
<1>1. /\ Len(s) \in Nat /\ N \subseteq 1 .. Len(s)
      /\ Numbered(Append(s, f)) = N \cup {k}
  BY LastFrame
<1>2. IsFiniteSet(N)
  BY ManyFacts
<1>3. k \notin N
  BY <1>1
<1> HIDE DEF N, k
<1>4. Cardinality(N \cup {k}) = Cardinality(N) + 1
  BY <1>2, <1>3, FS_AddElement
<1>5. QED
  BY <1>1, <1>4 DEF Many, N

LEMMA ManyFirst ==
  ASSUME NEW s, NEW t, NEW n \in Nat, n > 0, DOMAIN s = 1 .. n, DOMAIN t = 1 .. n - 1,
         \A i \in 1 .. n - 1 : t[i] = s[i + 1]
  PROVE  /\ s[1].type = "I" => Many(s) = Many(t) + 1
         /\ s[1].type # "I" => Many(s) = Many(t)
<1> DEFINE N == Numbered(s)
           Q == Numbered(t)
           R == N \ {1}
           g == [i \in Q |-> i + 1]
<1>1. /\ \A i \in Q : i \in Nat /\ i > 0 /\ i + 1 \in N
      /\ \A i \in N : i = 1 \/ (i - 1 \in Q /\ i - 1 \in Nat /\ i > 1)
      /\ \A i \in N : i \in Nat /\ i > 0
      /\ 1 \in N <=> s[1].type = "I"
  BY HeadLeaves
<1>2. IsFiniteSet(Q)
  <2>1. n - 1 \in Int /\ IsFiniteSet(1 .. n - 1)
    BY FS_Interval
  <2>2. Q \in SUBSET (1 .. n - 1)
    BY DEF Numbered
  <2>3. QED
    BY <2>1, <2>2, FS_Subset
<1> HIDE DEF N, Q
<1>3. g \in Bijection(Q, R)
  <2>1. g \in [Q -> R]
    BY <1>1
  <2>2. \A i, j \in Q : g[i] = g[j] => i = j
    BY <1>1
  <2>3. \A j \in R : \E i \in Q : g[i] = j
    <3>1. SUFFICES ASSUME NEW j \in R PROVE \E i \in Q : g[i] = j
      OBVIOUS
    <3>2. j - 1 \in Q /\ j \in Nat /\ (j - 1) + 1 = j
      BY <1>1, <3>1
    <3>3. g[j - 1] = j
      BY <3>2
    <3>4. QED
      BY <3>2, <3>3
  <2> HIDE DEF g
  <2>4. QED
    BY <2>1, <2>2, <2>3, Fun_IsBij
<1>4. ExistsBijection(Q, R)
  BY <1>3 DEF ExistsBijection
<1>5. IsFiniteSet(R) /\ Cardinality(R) = Cardinality(Q)
  BY <1>2, <1>4, FS_Bijection
<1> HIDE DEF R, g
<1>6. CASE 1 \in N
  <2>1. N = R \cup {1} /\ 1 \notin R
    BY <1>6 DEF R
  <2>2. Cardinality(N) = Cardinality(R) + 1
    BY <1>5, <2>1, FS_AddElement
  <2>3. QED
    BY <1>1, <1>5, <1>6, <2>2 DEF Many, N, Q
<1>7. CASE 1 \notin N
  <2>1. N = R
    BY <1>7 DEF R
  <2>2. QED
    BY <1>1, <1>5, <1>7, <2>1 DEF Many, N, Q
<1>8. QED
  BY <1>6, <1>7

------------------------------------------------------------------------------
(* The window is kept.                                                     *)

\* The numbers in their order: the station's, what the controlling station
\* has received, what it has acknowledged, the acknowledgements on their way,
\* what the station knows of; c frames are on their way.
Joined(c, n, m, k, s, a) ==
  /\ c = Dist(n, m) /\ Dist(n, m) =< Dist(n, k) /\ Dist(n, k) =< Dist(n, a)
  /\ Falling(s, n, Dist(n, k), Dist(n, a))

LEMMA JoinedNext ==
  ASSUME NEW c, NEW n \in Num, NEW m \in Num, NEW k \in Num, NEW s, NEW a \in Num,
         Joined(c, n, m, k, s, a), Dist(n, a) + 1 < M
  PROVE  Joined(c + 1, Succ(n), m, k, s, a)
<1> DEFINE x == Dist(n, m)
           y == Dist(n, k)
           z == Dist(n, a)
<1>1. /\ c = x /\ x =< y /\ y =< z /\ z + 1 < M /\ Falling(s, n, y, z)
      /\ x \in Nat /\ y \in Nat /\ z \in Nat /\ M \in Nat
  BY DistFacts DEF Joined
<1> HIDE DEF x, y, z
<1>2. x + 1 < M /\ y + 1 < M /\ c + 1 = x + 1 /\ x + 1 =< y + 1 /\ y + 1 =< z + 1
  BY <1>1
<1>3. Dist(Succ(n), m) = x + 1 /\ Dist(Succ(n), k) = y + 1 /\ Dist(Succ(n), a) = z + 1
  BY <1>1, <1>2, DistNext DEF x, y, z
<1>4. Falling(s, Succ(n), y + 1, z + 1)
  BY <1>1, FallNext
<1>5. QED
  BY <1>2, <1>3, <1>4 DEF Joined

LEMMA JoinedFirst ==
  ASSUME NEW T, NEW s \in Seq(T), s # << >>,
         NEW c, NEW n \in Num, NEW m \in Num, NEW k \in Num, NEW a \in Num, NEW b,
         Joined(c, n, m, k, s, a), b = IF Head(s).type = "U" THEN a ELSE Head(s).nr
  PROVE  b \in Num /\ Dist(n, b) =< Dist(n, a) /\ Joined(c, n, m, k, Tail(s), b)
<1> DEFINE y == Dist(n, k)
           z == Dist(n, a)
<1>1. /\ c = Dist(n, m) /\ Dist(n, m) =< y /\ y =< z /\ Falling(s, n, y, z) /\ z \in Nat
  BY DistFacts DEF Joined
<1> HIDE DEF y, z
<1>2. CASE Head(s).type = "U"
  <2>1. b = a /\ Falling(Tail(s), n, y, z)
    BY <1>1, <1>2, FallFirst
  <2>2. z =< z
    BY <1>1
  <2>3. QED
    BY <1>1, <2>1, <2>2 DEF Joined, y, z
<1>3. CASE Head(s).type # "U"
  <2>1. b = Head(s).nr
    BY <1>3
  <2>2. b \in Num /\ y =< Dist(n, b) /\ Dist(n, b) =< z /\ Falling(Tail(s), n, y, Dist(n, b))
    BY <1>1, <1>3, <2>1, FallFirst
  <2>3. QED
    BY <1>1, <2>2 DEF Joined, y, z
<1>4. QED
  BY <1>2, <1>3

LEMMA JoinedLast ==
  ASSUME NEW T, NEW s \in Seq(T), NEW f \in T,
         NEW c, NEW n \in Num, NEW m \in Num, NEW k \in Num, NEW a \in Num, NEW h \in {m, k},
         Joined(c, n, m, k, s, a), f.type # "U" => f.nr = h
  PROVE  Joined(c, n, m, h, Append(s, f), a)
<1> DEFINE x == Dist(n, m)
           y == Dist(n, k)
           z == Dist(n, a)
           w == Dist(n, h)
<1>1. /\ c = x /\ x =< y /\ y =< z /\ Falling(s, n, y, z) /\ w \in {x, y}
      /\ x \in Nat /\ y \in Nat /\ z \in Nat /\ h \in Num
  BY DistFacts DEF Joined
<1>2. f.type # "U" => f.nr \in Num /\ Dist(n, f.nr) = w
  BY <1>1
<1> HIDE DEF x, y, z, w
<1>3. w \in Nat /\ w =< y /\ x =< w /\ w =< z
  BY <1>1
<1>4. Falling(Append(s, f), n, w, z)
  BY <1>1, <1>2, <1>3, FallLast
<1>5. QED
  BY <1>1, <1>3, <1>4 DEF Joined, x, z, w

LEMMA JoinedTaken ==
  ASSUME NEW c \in Nat, NEW n \in Num, NEW m \in Num, NEW k \in Num, NEW s, NEW a \in Num,
         Joined(c + 1, n, m, k, s, a)
  PROVE  Joined(c, n, Succ(m), k, s, a)
<1> DEFINE x == Dist(n, m)
           y == Dist(n, k)
<1>1. c + 1 = x /\ x =< y /\ x \in Nat /\ y \in Nat
  BY DistFacts DEF Joined
<1> HIDE DEF x, y
<1>2. x > 0 /\ x - 1 = c /\ c =< y
  BY <1>1
<1>3. Dist(n, Succ(m)) = x - 1
  BY <1>2, DistTaken DEF x
<1>4. QED
  BY <1>2, <1>3 DEF Joined, y

\* A connection without mishaps on which the replies sent without asking leave
\* room for the window.
Healthy == open /\ skewed = {} /\ begun /\ unasked + K + 1 < M

InWindow ==
  /\ Joined(Many(Line), sn, mvr, macked, up, ack)
  /\ Narrow(sn, ack, unasked, lap)
  /\ cont => Free(sn, ack, lap)

Window == Healthy => InWindow

LEMMA WindowTypes ==
  ASSUME TInv
  PROVE  /\ sn \in Num /\ ack \in Num /\ mvr \in Num /\ macked \in Num
         /\ unasked \in Nat /\ lap \in BOOLEAN /\ cont \in BOOLEAN
         /\ up \in Seq(Given) /\ Line \in Seq(Sent) /\ Many(Line) \in Nat
<1>1. Line \in Seq(Sent)
  BY ConcatProperties DEF TInv, OutTypes, Line
<1>2. QED
  BY <1>1, ManyFacts DEF TInv, NumberTypes, FlagTypes, RestTypes

LEMMA WindowStill ==
  ASSUME Window, Many(Line') = Many(Line),
         UNCHANGED <<open, skewed, begun, unasked, sn, mvr, macked, up, ack, lap, cont>>
  PROVE  Window'
<1>1. Many(Line)' = Many(Line)
  BY DEF Many, Numbered
<1>2. QED
  BY <1>1 DEF Window, Healthy, InWindow

\* Handlers that answer with no I frame, and with one.
LEMMA QuietLine ==
  ASSUME TInv, skewed' = {},
         PutFor(0, << >>) \/ (\E f \in Sent : f.type # "I" /\ PutFor(0, <<f>>))
  PROVE  skewed = {} /\ Many(Line') = Many(Line)
<1>1. skewed = {} /\ Alike(Line, Line')
  BY NoneSent, OneSent
<1>2. QED
  BY <1>1, ManyAlike

LEMMA AnswerLine ==
  ASSUME TInv, skewed' = {}, NEW f \in Sent, f.type = "I",
         PutFor(0, <<f>>) \/ (\E g \in Sent : g.type # "I" /\ PutFor(0, <<g, f>>))
  PROVE  skewed = {} /\ Many(Line') = Many(Line) + 1
<1>1. skewed = {} /\ \E s \in Seq(Sent) : Alike(Line, s) /\ Line' = Append(s, f)
  BY OneSent, TwoSent
<1>2. PICK s \in Seq(Sent) : Alike(Line, s) /\ Line' = Append(s, f)
  BY <1>1
<1>3. Many(s) = Many(Line)
  BY <1>2, ManyAlike
<1>4. Many(Append(s, f)) = Many(s) + 1
  BY ManyLast
<1>5. QED
  BY <1>1, <1>2, <1>3, <1>4

LEMMA SoeWindow ==
  ASSUME TInv, WatchHolds, Window, SendDSoe
  PROVE  Window'
<1> SUFFICES ASSUME Healthy' PROVE InWindow'
  BY DEF Window
<1> DEFINE unread == made - freed
           before == IF held > unread THEN 0 ELSE held
           f      == I(sn, freed + before + 1)
<1>1. /\ dt /\ cont /\ unread > before /\ sn' = Succ(sn) /\ PutFor(0, <<f>>)
      /\ cont' = (InFlight(sn, ack) < K) /\ lap' = (lap \/ sn' = 0)
      /\ UNCHANGED <<ack, mvr, macked, up, open, begun, unasked>>
  BY DEF SendDSoe, CanSendIFrame, Put, master, socket
<1>2. made \in Nat /\ freed \in Nat /\ held \in Nat
  BY Sizes DEF TInv, EventTypes
<1>3. freed + before + 1 \in 0 .. made
  BY <1>1, <1>2
<1>4. f \in Sent /\ f.type = "I"
  <2>1. sn \in Num
    BY WindowTypes
  <2>2. QED
    BY <1>3, <2>1, FrameFacts DEF I
<1> HIDE DEF f
<1>5. skewed = {} /\ Many(Line') = Many(Line) + 1
  <2>1. skewed' = {}
    BY DEF Healthy
  <2>2. QED
    BY <1>1, <1>4, <2>1, AnswerLine
<1>6. Healthy
  BY <1>1, <1>5 DEF Healthy
<1>7. /\ Joined(Many(Line), sn, mvr, macked, up, ack) /\ Narrow(sn, ack, unasked, lap)
      /\ Free(sn, ack, lap)
  BY <1>1, <1>6 DEF Window, InWindow
<1>8. /\ sn \in Num /\ ack \in Num /\ mvr \in Num /\ macked \in Num /\ unasked \in Nat
      /\ lap \in BOOLEAN /\ lap' \in BOOLEAN
  BY <1>1, WindowTypes
<1>9. Dist(sn, ack) + 1 < M
  BY <1>7, <1>8, FreeFacts
<1>10. Joined(Many(Line) + 1, Succ(sn), mvr, macked, up, ack)
  BY <1>7, <1>8, <1>9, JoinedNext
<1>11. lap' = (lap \/ Succ(sn) = 0)
  BY <1>1
<1>12. Narrow(Succ(sn), ack, unasked, lap')
  BY <1>7, <1>8, <1>11, NarrowNext
<1>13. cont' => Free(Succ(sn), ack, lap')
  BY <1>1, <1>7, <1>8, <1>9, <1>11, ReckonedBefore
<1>14. Many(Line)' = Many(Line) + 1
  BY <1>5 DEF Many, Numbered
<1>15. QED
  BY <1>1, <1>10, <1>12, <1>13, <1>14 DEF InWindow

LEMMA TimerWindow ==
  ASSUME TInv, Window, T2Out \/ T3Out
  PROVE  Window'
<1>1. UNCHANGED <<sn, ack, mvr, macked, up, open, begun, unasked, lap, cont>>
  BY DEF T2Out, T3Out, numbers, enable, master, socket, history
<1>2. CASE skewed' = {}
  <2>1. skewed = {} /\ Alike(Line, Line')
    BY <1>2, TimerLine
  <2>2. Many(Line') = Many(Line)
    BY <2>1, ManyAlike
  <2>3. QED
    BY <1>1, <1>2, <2>1, <2>2, WindowStill
<1>3. CASE skewed' # {}
  BY <1>3 DEF Window, Healthy
<1>4. QED
  BY <1>2, <1>3

\* The frame that is handled is not STARTDT_ACT again.
LEMMA NotAgain ==
  ASSUME TInv, Running, up # << >>
  PROVE  ~(Head(up).type = "U" /\ Head(up).fn = "startdt act")
<1> DEFINE x == U("startdt act")
<1>1. up \in Seq(Given) /\ \A i \in DOMAIN up : up[i] # x
  BY DEF Running, TInv, RestTypes
<1> HIDE DEF x
<1>2. Head(up) # x
  BY <1>1, LacksTail
<1>3. Head(up) \in Given
  BY <1>1, HeadFacts
<1>4. QED
  BY <1>2, <1>3, StartFrame DEF x

\* A frame is handled, without a reply and with one; b is what it acknowledges.
LEMMA UnansweredWindow ==
  ASSUME TInv, InWindow, up # << >>, up' = Tail(up),
         ack' = IF Head(up).type = "U" THEN ack ELSE Head(up).nr,
         Many(Line') = Many(Line), cont' => InFlight(sn', ack') < K,
         UNCHANGED <<sn, mvr, macked, unasked, lap>>
  PROVE  InWindow'
<1>1. /\ sn \in Num /\ ack \in Num /\ mvr \in Num /\ macked \in Num /\ unasked \in Nat
      /\ lap \in BOOLEAN /\ up \in Seq(Given)
  BY WindowTypes
<1>2. PICK b : b = ack'
  OBVIOUS
<1>3. b = IF Head(up).type = "U" THEN ack ELSE Head(up).nr
  BY <1>2
<1>4. Joined(Many(Line), sn, mvr, macked, up, ack) /\ Narrow(sn, ack, unasked, lap)
  BY DEF InWindow
<1>5. /\ b \in Num /\ Dist(sn, b) =< Dist(sn, ack)
      /\ Joined(Many(Line), sn, mvr, macked, Tail(up), b)
  BY <1>1, <1>3, <1>4, JoinedFirst
<1>6. Narrow(sn, b, unasked, lap)
  BY <1>1, <1>4, <1>5, NarrowAcked
<1>7. cont' => Free(sn, b, lap)
  BY <1>1, <1>2, <1>5, ReckonedAfter
<1>8. Many(Line)' = Many(Line)
  BY DEF Many, Numbered
<1>9. QED
  BY <1>2, <1>5, <1>6, <1>7, <1>8 DEF InWindow

LEMMA AnsweredWindow ==
  ASSUME TInv, InWindow, up # << >>, up' = Tail(up), Head(up).type # "U",
         ack' = Head(up).nr, sn' = Succ(sn), lap' = (lap \/ sn' = 0),
         Many(Line') = Many(Line) + 1, cont' => InFlight(sn', ack') < K,
         (unasked' = unasked /\ cont) \/ (unasked' = unasked + 1 /\ unasked' + K + 1 < M),
         UNCHANGED <<mvr, macked>>
  PROVE  InWindow'
<1>1. /\ sn \in Num /\ ack \in Num /\ mvr \in Num /\ macked \in Num /\ unasked \in Nat
      /\ lap \in BOOLEAN /\ lap' \in BOOLEAN /\ up \in Seq(Given)
  BY WindowTypes
<1>2. PICK b, v, l : b = ack' /\ v = unasked' /\ l = lap'
  OBVIOUS
<1>3. b = IF Head(up).type = "U" THEN ack ELSE Head(up).nr
  BY <1>2
<1>4. /\ Joined(Many(Line), sn, mvr, macked, up, ack) /\ Narrow(sn, ack, unasked, lap)
      /\ cont => Free(sn, ack, lap)
  BY DEF InWindow
<1>5. /\ b \in Num /\ Dist(sn, b) =< Dist(sn, ack)
      /\ Joined(Many(Line), sn, mvr, macked, Tail(up), b)
  BY <1>1, <1>3, <1>4, JoinedFirst
<1>6. Narrow(sn, b, unasked, lap) /\ (cont => Free(sn, b, lap))
  BY <1>1, <1>4, <1>5, NarrowAcked
<1>7. /\ v \in Nat /\ l \in BOOLEAN /\ l = (lap \/ Succ(sn) = 0)
      /\ (v = unasked /\ Free(sn, b, lap)) \/ (v = unasked + 1 /\ v + K + 1 < M)
  BY <1>1, <1>2, <1>6
<1>8. Dist(sn, b) + 1 < M /\ Narrow(Succ(sn), b, v, l)
  BY <1>1, <1>5, <1>6, <1>7, NarrowNext
<1>9. Joined(Many(Line) + 1, Succ(sn), mvr, macked, Tail(up), b)
  BY <1>1, <1>5, <1>8, JoinedNext
<1>10. Succ(sn) \in Num
  BY <1>1, SuccFacts
<1>11. cont' => Free(Succ(sn), b, l)
  BY <1>2, <1>5, <1>7, <1>10, ReckonedAfter
<1>12. Many(Line)' = Many(Line) + 1
  BY DEF Many, Numbered
<1>13. QED
  BY <1>2, <1>8, <1>9, <1>11, <1>12 DEF InWindow

LEMMA ReceiveWindow ==
  ASSUME TInv, Session, Window, DoReceive
  PROVE  Window'
<1> SUFFICES ASSUME Healthy' PROVE InWindow'
  BY DEF Window
<1> DEFINE f == Head(up)
<1>1. /\ up # << >> /\ up' = Tail(up) /\ cont' = (InFlight(sn', ack') < K)
      /\ UNCHANGED <<mvr, macked, open>> /\ f \in Given
  BY HeadFacts DEF DoReceive, master
<1>2. \/ f.type = "I" /\ DoIFrame(f)
      \/ f.type = "S" /\ DoSFrame(f)
      \/ f.type = "U" /\ f.fn = "startdt act" /\ StartDt
      \/ f.type = "U" /\ f.fn = "stopdt act" /\ StopDt
      \/ f.type = "U" /\ f.fn \in {"testfr act", "testfr con"} /\ TestFr(f)
  BY DEF DoReceive
<1>3. skewed' = {} /\ open' /\ begun' /\ unasked' + K + 1 < M
  BY DEF Healthy
<1>4. skewed = {} /\ open
  BY <1>1, <1>2, <1>3, PutSkews DEF DoIFrame, DoSFrame, StartDt, StopDt, TestFr, Put
<1>5. unasked \in Nat /\ K \in Nat /\ M \in Nat
  BY Sizes, WindowTypes
<1>6. CASE begun
  <2>1. ~(f.type = "U" /\ f.fn = "startdt act")
    BY <1>1, <1>4, <1>6, NotAgain DEF Session
  <2> HIDE DEF f
  <2>2. CASE f.type = "I" /\ DoIFrame(f)
    <3> DEFINE r      == f.ns + 1
               sframe == r - ackrn >= W
               reply  == f.op = "bad" \/ (f.op = "ask" /\ CanSendIFrame)
    <3>1. /\ ack' = f.nr /\ sn' = (IF reply THEN Succ(sn) ELSE sn)
          /\ lap' = (lap \/ (reply /\ sn' = 0))
          /\ unasked' = IF f.op = "bad" THEN unasked + 1 ELSE unasked
      BY <1>1, <2>2, AnswerFacts
    <3>2. \/ ~reply /\ ~sframe /\ PutFor(0, << >>)
          \/ ~reply /\ sframe /\ PutFor(0, <<S>>)
          \/ reply /\ ~sframe /\ PutFor(0, <<I(sn, 0)>>)
          \/ reply /\ sframe /\ PutFor(0, <<S, I(sn, 0)>>)
      BY <1>1, <2>2, AnswerFacts, Zenon
    <3>3. ~reply => f.op # "bad"
      OBVIOUS
    <3>4. reply => f.op = "bad" \/ cont
      BY DEF CanSendIFrame
    <3>5. Healthy
      <4>1. unasked + K + 1 < M
        BY <1>3, <1>5, <3>1
      <4>2. QED
        BY <1>4, <1>6, <4>1 DEF Healthy
    <3> HIDE DEF sframe, reply
    <3>6. InWindow
      BY <3>5 DEF Window
    <3>7. S \in Sent /\ S.type # "I"
      BY FrameFacts DEF S
    <3>8. CASE ~reply
      <4>1. PutFor(0, << >>) \/ (\E g \in Sent : g.type # "I" /\ PutFor(0, <<g>>))
        BY <3>2, <3>7, <3>8, Zenon
      <4>2. Many(Line') = Many(Line)
        BY <1>3, <4>1, QuietLine
      <4>3. UNCHANGED <<sn, unasked, lap>>
        <5>1. lap \in BOOLEAN
          BY WindowTypes
        <5>2. QED
          BY <3>1, <3>3, <3>8, <5>1
      <4>4. ack' = IF Head(up).type = "U" THEN ack ELSE Head(up).nr
        BY <2>2, <3>1 DEF f
      <4>5. QED
        BY <1>1, <3>6, <4>2, <4>3, <4>4, UnansweredWindow
    <3>9. CASE reply
      <4> DEFINE g == I(sn, 0)
      <4>1. g \in Sent /\ g.type = "I"
        <5>1. 0 \in 0 .. made /\ sn \in Num
          BY CountTypes, WindowTypes
        <5>2. QED
          BY <5>1, FrameFacts DEF I
      <4>2. PutFor(0, <<g>>) \/ (\E h \in Sent : h.type # "I" /\ PutFor(0, <<h, g>>))
        BY <3>2, <3>7, <3>9, Zenon
      <4> HIDE DEF g
      <4>3. Many(Line') = Many(Line) + 1
        BY <1>3, <4>1, <4>2, AnswerLine
      <4>4. sn' = Succ(sn) /\ lap' = (lap \/ sn' = 0)
        BY <3>1, <3>9
      <4>5. (unasked' = unasked /\ cont) \/ (unasked' = unasked + 1 /\ unasked' + K + 1 < M)
        BY <1>3, <3>1, <3>4, <3>9
      <4>6. Head(up).type # "U" /\ ack' = Head(up).nr
        BY <2>2, <3>1 DEF f
      <4>7. QED
        BY <1>1, <3>6, <4>3, <4>4, <4>5, <4>6, AnsweredWindow
    <3>10. QED
      BY <3>8, <3>9
  <2>3. CASE (f.type = "S" /\ DoSFrame(f)) \/ (f.type = "U" /\ (StopDt \/ TestFr(f)))
    <3>1. UNCHANGED <<sn, begun, unasked, lap>>
      BY <2>3 DEF DoSFrame, StopDt, TestFr, numbers, history
    <3>2. PutFor(0, << >>) \/ (\E g \in Sent : g.type # "I" /\ PutFor(0, <<g>>))
      <4>1. /\ U("stopdt con") \in Sent /\ U("stopdt con").type # "I"
            /\ U("testfr con") \in Sent /\ U("testfr con").type # "I"
        BY FrameFacts DEF U
      <4>2. CASE DoSFrame(f)
        BY <4>2 DEF DoSFrame, Put
      <4>3. CASE StopDt
        BY <4>1, <4>3, Zenon DEF StopDt, Put
      <4>4. CASE TestFr(f)
        <5>1. PutFor(0, << >>) \/ PutFor(0, <<U("testfr con")>>)
          BY <4>4 DEF TestFr, Put
        <5>2. QED
          BY <4>1, <5>1, Zenon
      <4>5. QED
        BY <2>3, <4>2, <4>3, <4>4
    <3>3. Many(Line') = Many(Line)
      BY <1>3, <3>2, QuietLine
    <3>4. ack' = IF f.type = "U" THEN ack ELSE f.nr
      BY <2>3 DEF DoSFrame, StopDt, TestFr, numbers
    <3>5. Healthy
      BY <1>3, <1>4, <1>6, <3>1 DEF Healthy
    <3>6. InWindow
      BY <3>5 DEF Window
    <3>7. QED
      BY <1>1, <3>1, <3>3, <3>4, <3>6, UnansweredWindow DEF f
  <2>4. QED
    BY <1>2, <2>1, <2>2, <2>3
<1>7. CASE ~begun
  <2>1. Fresh
    BY <1>4, <1>7 DEF Session
  <2>2. StartDt
    <3>1. ~begun'\/ StartDt
      BY <1>2, <1>7 DEF DoIFrame, DoSFrame, StopDt, TestFr, history
    <3>2. QED
      BY <1>3, <3>1
  <2>3. /\ sn' = 1 /\ ack' = 0 /\ lap' = FALSE /\ unasked' = 0
        /\ PutFor(0, <<U("startdt con"), I(0, 0)>>)
    BY <2>2 DEF StartDt, Put
  <2>4. mvr = 0 /\ macked = 0 /\ Numbered(Line) = {}
    BY <2>1 DEF Fresh, Numbered
  <2>5. DOMAIN up' = {}
    <3>1. up = <<U("startdt act")>>
      BY <2>1 DEF Fresh
    <3> DEFINE x == U("startdt act")
               w == <<x>>
    <3>2. w \in Seq({x}) /\ Len(w) = 1
      BY SeqOne
    <3>3. up = w
      BY <3>1
    <3> HIDE DEF w, x
    <3>4. w # << >>
      BY <1>1, <3>3
    <3>5. Tail(w) \in Seq({x}) /\ Len(Tail(w)) = 0
      BY <3>2, <3>4, HeadTailProperties
    <3>6. DOMAIN Tail(w) = 1 .. 0
      BY <3>5, LenProperties
    <3>7. QED
      BY <1>1, <3>3, <3>6
  <2>6. Many(Line') = 1
    <3> DEFINE g == I(0, 0)
    <3>1. g \in Sent /\ g.type = "I"
      <4>1. 0 \in 0 .. made /\ 0 \in Num
        BY CountTypes, NumFacts
      <4>2. QED
        BY <4>1, FrameFacts DEF I
    <3>2. U("startdt con") \in Sent /\ U("startdt con").type # "I"
      BY FrameFacts DEF U
    <3>3. \E h \in Sent : h.type # "I" /\ PutFor(0, <<h, g>>)
      BY <2>3, <3>2, Zenon
    <3> HIDE DEF g
    <3>4. Many(Line') = Many(Line) + 1
      BY <1>3, <3>1, <3>3, AnswerLine
    <3>5. Many(Line) = 0
      BY <2>4, ManyNone
    <3>6. QED
      BY <3>4, <3>5
  <2>7. 0 \in Num /\ 1 \in Num /\ Dist(1, 0) = 1
    BY NumFacts DEF Dist
  <2>8. Falling(up', 1, 1, 1)
    BY <2>5, FallNone
  <2>9. Joined(1, 1, 0, 0, up', 0)
    BY <2>7, <2>8 DEF Joined
  <2>10. Narrow(1, 0, 0, FALSE)
    BY <2>7, Sizes DEF Narrow, Extra
  <2>11. cont' => Free(1, 0, FALSE)
    BY <1>1, <2>3, <2>7, ReckonedAfter
  <2>12. Many(Line)' = 1
    BY <2>6 DEF Many, Numbered
  <2>13. mvr' = 0 /\ macked' = 0
    BY <1>1, <2>4
  <2>14. QED
    BY <2>3, <2>9, <2>10, <2>11, <2>12, <2>13 DEF InWindow
<1>8. QED
  BY <1>6, <1>7

LEMMA SendsWindow ==
  ASSUME TInv, Window, MasterAcks \/ MasterCommands
  PROVE  Window'
<1> SUFFICES ASSUME Healthy' PROVE InWindow'
  BY DEF Window
<1>1. UNCHANGED <<sn, ack, mvr, open, begun, unasked, lap, cont, down, buf, skewed>>
  BY DEF MasterAcks, MasterCommands, MasterSends, numbers, enable, history
<1>2. Healthy
  BY <1>1 DEF Healthy
<1>3. /\ Joined(Many(Line), sn, mvr, macked, up, ack) /\ Narrow(sn, ack, unasked, lap)
      /\ cont => Free(sn, ack, lap)
  BY <1>2 DEF Window, InWindow
<1>4. sn \in Num /\ ack \in Num /\ mvr \in Num /\ macked \in Num /\ up \in Seq(Given)
  BY WindowTypes
<1>5. PICK f \in Given, h \in {mvr, macked} :
        up' = Append(up, f) /\ macked' = h /\ (f.type # "U" => f.nr = h)
  <2>1. CASE MasterAcks
    <3>1. Ack(mvr) \in Given /\ Ack(mvr).nr = mvr
      BY <1>4, FrameFacts DEF Ack
    <3>2. QED
      BY <2>1, <3>1 DEF MasterAcks, MasterSends
  <2>2. CASE MasterCommands
    <3>1. \A op \in {"bad", "ask", "quiet"} :
            Command(msn, mvr, op) \in Given /\ Command(msn, mvr, op).nr = mvr
      BY FrameFacts DEF TInv, NumberTypes, Command
    <3>2. \A fn \in {"testfr act", "stopdt act"} : U(fn) \in Given /\ U(fn).type = "U"
      BY FrameFacts DEF U
    <3>3. QED
      BY <2>2, <3>1, <3>2 DEF MasterCommands, MasterSends
  <2>3. QED
    BY <2>1, <2>2
<1>6. Joined(Many(Line), sn, mvr, h, Append(up, f), ack)
  BY <1>3, <1>4, <1>5, JoinedLast
<1>7. Line' = Line
  BY <1>1, LineStill
<1>8. Many(Line)' = Many(Line)
  BY <1>7 DEF Many, Numbered
<1>9. QED
  BY <1>1, <1>3, <1>5, <1>6, <1>8 DEF InWindow

LEMMA TakesWindow ==
  ASSUME TInv, Window, MasterReceives
  PROVE  Window'
<1> SUFFICES ASSUME Healthy' PROVE InWindow'
  BY DEF Window
<1> DEFINE f == Head(down)
           g == U("testfr con")
<1>0. open'
  BY DEF Healthy
<1>1. /\ down # << >> /\ open /\ down' = Tail(down) /\ up' \in {up, Append(up, g)}
      /\ mvr' = IF f.type = "I" THEN Succ(mvr) ELSE mvr
      /\ UNCHANGED <<buf, skewed, sn, ack, cont, macked, begun, unasked, lap>>
  BY <1>0 DEF MasterReceives, Break, numbers, enable, history, Succ
<1>2. Healthy
  BY <1>1 DEF Healthy
<1>3. /\ Joined(Many(Line), sn, mvr, macked, up, ack) /\ Narrow(sn, ack, unasked, lap)
      /\ cont => Free(sn, ack, lap)
  BY <1>2 DEF Window, InWindow
<1>4. /\ sn \in Num /\ ack \in Num /\ mvr \in Num /\ macked \in Num /\ up \in Seq(Given)
      /\ g \in Given /\ g.type = "U"
  BY WindowTypes, FrameFacts DEF U
<1>5. PICK n \in Nat \ {0} :
        /\ DOMAIN Line = 1 .. n /\ DOMAIN Line' = 1 .. n - 1
        /\ \A i \in 1 .. n - 1 : Line'[i] = Line[i + 1]
        /\ Line[1] = f
  BY <1>1, HeadTaken
<1> HIDE DEF f, g
<1>6. PICK s, t : s = Line /\ t = Line'
  OBVIOUS
<1>7. /\ n \in Nat /\ n > 0 /\ DOMAIN s = 1 .. n /\ DOMAIN t = 1 .. n - 1
      /\ \A i \in 1 .. n - 1 : t[i] = s[i + 1]
      /\ s[1] = f
  BY <1>5, <1>6
<1>8. /\ f.type = "I" => Many(s) = Many(t) + 1
      /\ f.type # "I" => Many(s) = Many(t)
  BY <1>7, ManyFirst
<1>9. Many(t) \in Nat
  <2>1. TInv'
    BY MasterTypes
  <2>2. Line' \in Seq(Sent')
    BY <2>1, ConcatProperties DEF TInv, OutTypes, Line
  <2>3. t \in Seq(Sent')
    BY <1>6, <2>2
  <2>4. QED
    BY <2>3, ManyFacts
<1>10. PICK v : v = mvr'
  OBVIOUS
<1>11. v \in Num /\ Joined(Many(t), sn, v, macked, up, ack)
  <2>1. CASE f.type = "I"
    <3>1. v = Succ(mvr) /\ Succ(mvr) \in Num
      BY <1>1, <1>4, <1>10, <2>1, SuccFacts
    <3>2. Joined(Many(t) + 1, sn, mvr, macked, up, ack)
      BY <1>3, <1>6, <1>8, <2>1
    <3>3. Joined(Many(t), sn, Succ(mvr), macked, up, ack)
      BY <1>4, <1>9, <3>2, JoinedTaken
    <3>4. QED
      BY <3>1, <3>3
  <2>2. CASE f.type # "I"
    BY <1>1, <1>3, <1>4, <1>6, <1>8, <1>10, <2>2
  <2>3. QED
    BY <2>1, <2>2
<1>12. Joined(Many(t), sn, v, macked, up', ack)
  <2>1. Joined(Many(t), sn, v, macked, Append(up, g), ack)
    BY <1>4, <1>11, JoinedLast
  <2>2. QED
    BY <1>1, <1>11, <2>1
<1>13. Many(Line)' = Many(t)
  BY <1>6 DEF Many, Numbered
<1>14. QED
  BY <1>1, <1>3, <1>10, <1>12, <1>13 DEF InWindow

LEMMA WindowNext ==
  ASSUME TInv, WatchHolds, Session, Window, [Next]_vars
  PROVE  Window'
<1>1. CASE Disconnect \/ T1Out \/ Connect
  <2>1. ~open' \/ ~begun'
    BY <1>1 DEF Disconnect, T1Out, Break, Connect
  <2>2. QED
    BY <2>1 DEF Window, Healthy
<1>2. CASE DoCommState
  <2>1. /\ UNCHANGED <<open, begun>>
        /\ open /\ begun => skewed' = skewed \cup {"late"}
    BY <1>2 DEF DoCommState, history
  <2>2. ~(open' /\ begun' /\ skewed' = {})
    BY <2>1
  <2>3. QED
    BY <2>2 DEF Window, Healthy
<1>3. CASE Idle \/ WriteEvent \/ UNCHANGED vars
  <2>1. UNCHANGED <<open, skewed, begun, unasked, sn, mvr, macked, up, ack, lap, cont>>
    <3>1. CASE Idle
      BY <3>1 DEF Idle, numbers, enable, master, socket, history
    <3>2. CASE WriteEvent
      BY <3>2 DEF WriteEvent, numbers, enable, output, master, socket, history
    <3>3. CASE UNCHANGED vars
      BY <3>3 DEF vars, numbers, enable, output, master, socket, history
    <3>4. QED
      BY <1>3, <3>1, <3>2, <3>3
  <2>2. Idle \/ UNCHANGED <<down, buf>>
    BY <1>3 DEF WriteEvent, vars, output
  <2>3. Line' = Line
    BY <2>2, LineStill
  <2>4. Many(Line') = Many(Line)
    BY <2>3
  <2>5. QED
    BY <2>1, <2>4, WindowStill
<1>4. QED
  BY <1>1, <1>2, <1>3, SoeWindow, TimerWindow, ReceiveWindow, SendsWindow, TakesWindow
    DEF Next, Station, Environment

\* What the window promises follows from the order of the numbers.
LEMMA WindowMeans ==
  ASSUME SessionInv, Window, unasked + K + 1 < M
  PROVE  WindowKept
<1> SUFFICES ASSUME open, skewed = {}
             PROVE  Many(down) + ((mvr - macked) % M)
                      =< K + unasked + (IF lap THEN 1 ELSE 0)
  BY DEF WindowKept, Many
<1>0. TInv
  BY DEF SessionInv
<1>1. /\ sn \in Num /\ ack \in Num /\ mvr \in Num /\ macked \in Num /\ unasked \in Nat
      /\ Many(Line) \in Nat /\ down \in Seq(Sent) /\ buf \in Seq(Sent) /\ Line \in Seq(Sent)
  BY <1>0, WindowTypes DEF TInv, OutTypes
<1>2. Many(down) \in Nat /\ Many(down) =< Many(Line)
  <2>1. /\ Len(down) \in Nat /\ DOMAIN down = 1 .. Len(down) /\ Len(buf) \in Nat
    BY <1>1, LenProperties
  <2> DEFINE s == down \o buf
  <2>2. /\ s \in Seq(Sent) /\ Len(s) = Len(down) + Len(buf)
        /\ \A i \in 1 .. Len(down) : s[i] = down[i]
    BY <1>1, <2>1, ConcatProperties
  <2>3. DOMAIN s = 1 .. Len(down) + Len(buf)
    BY <2>2, LenProperties
  <2> HIDE DEF s
  <2>4. \A i \in 1 .. Len(down) : i \in DOMAIN s
    BY <2>1, <2>3
  <2>5. Numbered(down) \in SUBSET Numbered(s)
    BY <2>1, <2>2, <2>4 DEF Numbered
  <2>6. IsFiniteSet(Numbered(s)) /\ Many(down) \in Nat
    BY <1>1, <2>2, ManyFacts
  <2>7. Many(down) =< Many(s)
    BY <2>5, <2>6, FS_Subset DEF Many
  <2>8. QED
    BY <2>6, <2>7 DEF s, Line
<1>3. (mvr - macked) % M = Dist(mvr, macked)
  BY <1>1, DistMod
<1>4. CASE begun
  <2> DEFINE x == Dist(sn, mvr)
             y == Dist(sn, macked)
             z == Dist(sn, ack)
             w == Dist(mvr, macked)
             p == IF lap THEN 1 ELSE 0
             c == Many(Line)
             d == Many(down)
  <2>1. c = x /\ x =< y /\ y =< z /\ z =< K + unasked + p
    BY <1>4 DEF Window, Healthy, InWindow, Joined, Narrow, Extra
  <2>2. /\ x \in Nat /\ y \in Nat /\ z \in Nat /\ w \in Nat /\ p \in Nat /\ d \in Nat
        /\ d =< c /\ K \in Nat
    BY <1>1, <1>2, DistFacts, Sizes
  <2>3. w = y - x
    <3>1. /\ sn \in Nat /\ mvr \in Nat /\ macked \in Nat /\ sn < M /\ mvr < M /\ macked < M
          /\ M \in Nat
          /\ (sn >= mvr => x = sn - mvr) /\ (sn < mvr => x = (sn + M) - mvr)
          /\ (sn >= macked => y = sn - macked) /\ (sn < macked => y = (sn + M) - macked)
          /\ (mvr >= macked => w = mvr - macked) /\ (mvr < macked => w = (mvr + M) - macked)
      BY <1>1, DistFacts
    <3> HIDE DEF x, y, w
    <3>2. QED
      BY <2>1, <2>2, <3>1
  <2> HIDE DEF x, y, z, w, p, c, d
  <2>4. d + w =< K + unasked + p
    BY <1>1, <2>1, <2>2, <2>3
  <2>5. QED
    BY <1>3, <2>4 DEF d, w, p
<1>5. CASE ~begun
  <2>1. Fresh
    BY <1>5 DEF SessionInv, Session
  <2>2. Many(Line) = 0
    <3>1. Numbered(Line) = {}
      BY <2>1 DEF Fresh, Numbered
    <3>2. QED
      BY <3>1, ManyNone
  <2>3. Dist(mvr, macked) = 0
    <3>1. Dist(0, 0) = 0
      BY DEF Dist
    <3>2. QED
      BY <2>1, <3>1 DEF Fresh
  <2> DEFINE d == Many(down)
             w == (mvr - macked) % M
  <2>4. d = 0 /\ w = 0
    BY <1>2, <1>3, <2>2, <2>3
  <2> HIDE DEF d, w
  <2>5. d + w =< K + unasked + (IF lap THEN 1 ELSE 0)
    BY <1>1, <2>4, Sizes
  <2>6. QED
    BY <2>5 DEF d, w
<1>6. QED
  BY <1>4, <1>5

\* The controlling station never has more than K I frames to acknowledge, one
\* more once the counter has wrapped, and the errors sent without asking, as
\* long as those do not make the numbers meet their own tail: with 32768
\* numbers and a window of 12 that takes 32755 of them on one connection.
THEOREM WindowHeld == Spec => [](unasked + K + 1 < M => WindowKept)
<1> DEFINE Inv == SessionInv /\ Window
<1>1. Init => Inv
  <2>1. Init => WatchHolds /\ Session /\ Window
    BY DEF Init, WatchHolds, Session, Window, Healthy
  <2>2. QED
    BY <2>1, InitTypes DEF SessionInv
<1>2. Inv /\ [Next]_vars => Inv'
  BY TypesKept, WatchKept, SessionKept, WindowNext DEF SessionInv
<1>3. Inv => (unasked + K + 1 < M => WindowKept)
  BY WindowMeans
<1> HIDE DEF Inv
<1>4. QED
  BY <1>1, <1>2, <1>3, PTL DEF Spec
===============================================================================
