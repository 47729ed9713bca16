--------------------------- MODULE InnerCall_proofs ---------------------------
(***************************************************************************)
(* Proofs about the remote calls, for every set of tasks, number of calls, *)
(* number of polls and size of the rings.                                  *)
(***************************************************************************)
EXTENDS InnerCall, SequenceTheorems, TLAPS

Asked(c) == \E i \in 1 .. Len(executed) : executed[i].of = c

\* Unless frames overlapped, one task at a time is using the shared frame, and
\* the frame holds what it wrote.
BuildHolds ==
  "overlap" \notin mishap =>
    /\ \A t, u \in Building : t = u
    /\ \A t \in Building :
         /\ sendBuf.head = mine[t]
         /\ sendBuf.args = IF pc[t] = "args" THEN << >> ELSE <<mine[t]>>

\* A call is being built, on its way or executed: one of the three, and once.
OnceHolds ==
  "overlap" \notin mishap =>
    /\ \A i \in 1 .. Len(toBM) :
         toBM[i].args = <<toBM[i].head>> /\ ~Asked(toBM[i].head)
    /\ \A i, j \in 1 .. Len(toBM) : i # j => toBM[i].head # toBM[j].head
    /\ \A t \in Building :
         /\ ~Asked(mine[t])
         /\ \A i \in 1 .. Len(toBM) : toBM[i].head # mine[t]

\* Core 1 has executed only calls that were begun.
AskedHolds == \A i \in 1 .. Len(executed) : executed[i].of =< calls

\* What is on its way and calls for an answer, and the one answer there may be,
\* belong to the task that polls; a task that is about to read the receive
\* frame finds its own answer in it.
Orderly ==
  /\ \A i \in 1 .. Len(toBM) :
       Waits(codeOf[toBM[i].head]) =>
         \E t \in Task : pc[t] = "poll" /\ mine[t] = toBM[i].head
  /\ Len(toLinux) =< 1
  /\ toLinux # << >> =>
       /\ Asked(toLinux[1].call)
       /\ toLinux[1].code = Answer(codeOf[toLinux[1].call])
       /\ \E t \in Task : pc[t] = "poll" /\ mine[t] = toLinux[1].call
  /\ \A t \in Task : pc[t] = "read" => recFrame = mine[t] /\ Asked(mine[t])
  /\ \A c \in Call : outcome[c].ret = "ok" => outcome[c].from = c /\ Asked(c)

WaitHolds == mishap = {} => Orderly

IInv == /\ TypeOK /\ OneUser /\ BuildHolds /\ OnceHolds /\ AskedHolds
        /\ ExecutedAsAsked /\ WaitHolds
-------------------------------------------------------------------------------
(* The steps of a task that is building a frame.                           *)

LEMMA Constants ==
  /\ Answer("yk") = "yk" /\ Answer("setclk") = "ack"
  /\ Answer("yb") = "none" /\ Answer("getio") = "none"
  /\ \A c \in Code : /\ Answer(c) # "none" => Answer(c) \in Accepts(c)
                     /\ Answer(c) # "none" => Waits(c)
                     /\ "none" \notin Accepts(c)
                     /\ Accepts(c) \subseteq {"yk", "ack"}
BY DEF Answer, Accepts, Code, Waits

LEMMA ExecutedFacts ==
  ASSUME TypeOK
  PROVE  \A i \in 1 .. Len(executed) :
           executed[i].of \in Nat /\ executed[i].with \in Nat
<1>1. executed \in Seq([of : Number, with : Number]) /\ Number \subseteq Nat
  BY CallAssumption DEF TypeOK, Number
<1>2. \A i \in 1 .. Len(executed) : executed[i] \in [of : Number, with : Number]
  <2> DEFINE R == [of : Number, with : Number]
  <2>1. executed \in Seq(R)
    BY <1>1
  <2> HIDE DEF R
  <2>2. \A i \in 1 .. Len(executed) : executed[i] \in R
    BY <2>1
  <2>3. QED
    BY <2>2 DEF R
<1>3. QED
  BY <1>1, <1>2

LEMMA InitHolds == Init => IInv
<1> SUFFICES ASSUME Init PROVE IInv
  OBVIOUS
<1> USE CallAssumption DEF Init
<1>1. Building = {}
  BY DEF Building
<1>2. sendBuf \in Frame
  <2>1. << >> \in Seq(Number) /\ None \in Number
    BY DEF None, Number
  <2>2. QED
    BY <2>1 DEF Empty, Frame
<1>3. TypeOK
  <2>1. codeOf \in Seq(Code) /\ toBM \in Seq(Frame) /\ toLinux \in Seq(Reply)
        /\ executed \in Seq([of : Number, with : Number])
    OBVIOUS
  <2>2. outcome \in [Call -> [ret : {"open", "error", "void", "ok"}, from : Number]]
    BY DEF Open, Number, None
  <2>3. QED
    BY <1>1, <1>2, <2>1, <2>2 DEF TypeOK, Empty, None, Number, Call
<1>4. OneUser
  BY DEF OneUser, Free
<1>5. BuildHolds /\ OnceHolds /\ AskedHolds /\ ExecutedAsAsked
  BY <1>1 DEF BuildHolds, OnceHolds, AskedHolds, ExecutedAsAsked
<1>6. WaitHolds
  BY DEF WaitHolds, Orderly, Open
<1>7. QED
  BY <1>3, <1>4, <1>5, <1>6 DEF IInv

LEMMA BeginHolds ==
  ASSUME IInv, NEW t \in Task, Begin(t)
  PROVE  IInv'
<1> USE CallAssumption DEF IInv
<1>1. PICK c \in Code : codeOf' = Append(codeOf, c)
  BY DEF Begin
<1>2. /\ pc[t] = "idle" /\ pc' = [pc EXCEPT ![t] = "args"]
      /\ calls < MaxCall /\ calls' = calls + 1
      /\ mine' = [mine EXCEPT ![t] = calls + 1]
      /\ cnt' = [cnt EXCEPT ![t] = 0]
      /\ sendBuf' = [sendBuf EXCEPT !.head = calls + 1, !.args = << >>]
      /\ mishap' = mishap \cup (IF Building # {} THEN {"overlap"} ELSE {})
      /\ UNCHANGED <<sem, ring, answer, executed, outcome>>
  BY DEF Begin, Goto
<1>3. UNCHANGED <<sem, toBM, toLinux, recvCode, recFrame, executed, outcome>>
  BY <1>2 DEF ring, answer
<1>4. calls \in Nat /\ calls + 1 \in 1 .. MaxCall /\ calls + 1 \in Number
  BY <1>2 DEF TypeOK, Number
<1>5. Building' = Building \cup {t}
  BY <1>2 DEF Building, TypeOK
<1>6. \A n \in 1 .. calls : codeOf'[n] = codeOf[n]
  BY <1>1 DEF TypeOK
<1>7. TypeOK'
  <2>1. codeOf' \in Seq(Code) /\ Len(codeOf') = calls'
    <3>1. codeOf \in Seq(Code) /\ Len(codeOf) = calls
      BY DEF TypeOK
    <3>2. QED
      BY <1>1, <1>2, <3>1
  <2>2. sendBuf' \in Frame /\ sendBuf'.head = calls + 1
    <3>1. sendBuf \in Frame
      BY DEF TypeOK
    <3>2. << >> \in Seq(Number)
      OBVIOUS
    <3>3. QED
      BY <1>2, <1>4, <3>1, <3>2 DEF Frame
  <2>3. \A i \in 1 .. Len(toBM') : toBM'[i].head \in 1 .. calls'
    BY <1>2, <1>3, <1>4 DEF TypeOK
  <2>4. mine' \in [Task -> 0 .. calls'] /\ cnt' \in [Task -> Nat]
    BY <1>2, <1>4 DEF TypeOK
  <2>5. pc' \in [Task -> {"idle", "args", "tail", "lock", "send", "poll", "read"}]
    BY <1>2 DEF TypeOK
  <2>6. \A u \in Task : pc'[u] # "idle" => mine'[u] # None
    BY <1>2, <1>4 DEF TypeOK, None
  <2>7. mishap' \subseteq {"overlap", "late", "reread"}
    BY <1>2 DEF TypeOK
  <2>8. QED
    BY <1>2, <1>3, <1>4, <2>1, <2>2, <2>3, <2>4, <2>5, <2>6, <2>7
       DEF TypeOK, None
<1>8. OneUser'
  BY <1>2, <1>3 DEF OneUser, TypeOK
<1>9. ASSUME "overlap" \notin mishap'
      PROVE  "overlap" \notin mishap /\ Building = {} /\ Building' = {t}
  BY <1>2, <1>5, <1>9
<1>10. BuildHolds'
  BY <1>2, <1>9 DEF BuildHolds, TypeOK, Frame
<1>11. \A n : Asked(n)' <=> Asked(n)
  BY <1>3 DEF Asked
<1>12. ~Asked(calls + 1)
  BY <1>4 DEF AskedHolds, Asked, TypeOK
<1>13. AskedHolds'
  <2>1. \A i \in 1 .. Len(executed) : executed[i].of \in Nat
    BY ExecutedFacts
  <2>2. QED
    BY <1>2, <1>3, <1>4, <2>1 DEF AskedHolds
<1>14. OnceHolds'
  <2>1. \A i \in 1 .. Len(toBM) : toBM[i].head # calls + 1
    BY <1>4 DEF TypeOK
  <2>2. mine'[t] = calls + 1
    BY <1>2 DEF TypeOK
  <2>3. QED
    BY <1>3, <1>9, <1>11, <1>12, <2>1, <2>2 DEF OnceHolds
<1>15. ExecutedAsAsked'
  BY <1>3, <1>9 DEF ExecutedAsAsked
<1>16. WaitHolds'
  <2> SUFFICES ASSUME mishap' = {} PROVE Orderly'
    BY DEF WaitHolds
  <2>1. mishap = {}
    BY <1>2
  <2>2. \A u \in Task : pc[u] # "idle" => pc'[u] = pc[u] /\ mine'[u] = mine[u]
    BY <1>2 DEF TypeOK
  <2>3. \A u \in Task : pc'[u] = "read" => pc[u] = "read"
    BY <1>2 DEF TypeOK
  <2>4. \A i \in 1 .. Len(toBM) : codeOf'[toBM[i].head] = codeOf[toBM[i].head]
    BY <1>6 DEF TypeOK
  <2>5. toLinux # << >> => codeOf'[toLinux[1].call] = codeOf[toLinux[1].call]
    <3>1. toLinux # << >> => toLinux[1].call \in 1 .. calls
      BY <2>1 DEF WaitHolds, Orderly, TypeOK, None
    <3>2. QED
      BY <1>6, <3>1
  <2>6. QED
    BY <1>3, <1>11, <2>1, <2>2, <2>3, <2>4, <2>5 DEF WaitHolds, Orderly
<1>17. QED
  BY <1>7, <1>8, <1>10, <1>13, <1>14, <1>15, <1>16

LEMMA PutArgsHolds ==
  ASSUME IInv, NEW t \in Task, PutArgs(t)
  PROVE  IInv'
<1> USE CallAssumption DEF IInv
<1>1. /\ pc[t] = "args" /\ pc' = [pc EXCEPT ![t] = "tail"]
      /\ sendBuf' = [sendBuf EXCEPT !.args = Append(@, mine[t])]
      /\ UNCHANGED <<calls, codeOf, mine, cnt, toBM, toLinux, recvCode,
                     recFrame, executed, outcome, mishap, sem>>
  BY DEF PutArgs, Goto, ring, answer
<1>2. Building' = Building /\ t \in Building
  BY <1>1 DEF Building, TypeOK
<1>3. TypeOK'
  <2>1. pc' \in [Task -> {"idle", "args", "tail", "lock", "send", "poll", "read"}]
    BY <1>1 DEF TypeOK
  <2>2. mine[t] \in Number /\ calls \in Nat
    BY DEF TypeOK, Number
  <2>3. \A u \in Task : pc'[u] # "idle" => mine'[u] # None
    BY <1>1 DEF TypeOK
  <2>4. sendBuf' \in Frame /\ sendBuf'.head = sendBuf.head
    <3>1. sendBuf \in Frame
      BY DEF TypeOK
    <3>2. Append(sendBuf.args, mine[t]) \in Seq(Number)
      BY <2>2, <3>1 DEF Frame
    <3>3. QED
      BY <1>1, <3>1, <3>2 DEF Frame
  <2>5. sendBuf.head =< calls /\ sendBuf.head # None
    BY <1>2 DEF TypeOK
  <2>6. QED
    BY <1>1, <2>1, <2>3, <2>4, <2>5 DEF TypeOK
<1>4. OneUser'
  BY <1>1 DEF OneUser, TypeOK
<1>5. BuildHolds'
  <2> SUFFICES ASSUME "overlap" \notin mishap PROVE BuildHolds'
    BY <1>1 DEF BuildHolds
  <2>1. \A u \in Building : u = t
    BY <1>2 DEF BuildHolds
  <2>2. sendBuf.head = mine[t] /\ sendBuf.args = << >>
    BY <1>1, <1>2 DEF BuildHolds
  <2>3. sendBuf \in Frame
    BY DEF TypeOK
  <2>4. sendBuf'.head = mine[t] /\ sendBuf'.args = Append(sendBuf.args, mine[t])
    BY <1>1, <2>2, <2>3 DEF Frame
  <2>5. Append(<< >>, mine[t]) = <<mine[t]>>
    OBVIOUS
  <2>6. pc'[t] = "tail"
    BY <1>1 DEF TypeOK
  <2>7. QED
    BY <1>1, <1>2, <2>1, <2>2, <2>4, <2>5, <2>6 DEF BuildHolds
<1>6. \A n : Asked(n)' <=> Asked(n)
  BY <1>1 DEF Asked
<1>7. AskedHolds' /\ OnceHolds' /\ ExecutedAsAsked'
  BY <1>1, <1>2, <1>6 DEF AskedHolds, OnceHolds, ExecutedAsAsked
<1>8. \A u \in Task : /\ pc'[u] = "read" <=> pc[u] = "read"
                      /\ pc'[u] = "poll" <=> pc[u] = "poll"
  BY <1>1 DEF TypeOK
<1>9. WaitHolds'
  BY <1>1, <1>6, <1>8 DEF WaitHolds, Orderly
<1>10. QED
  BY <1>3, <1>4, <1>5, <1>7, <1>9

LEMMA SendFrameTailHolds ==
  ASSUME IInv, NEW t \in Task, SendFrameTail(t)
  PROVE  IInv'
<1> USE CallAssumption DEF IInv
<1>1. /\ pc[t] = "tail" /\ pc' = [pc EXCEPT ![t] = "lock"]
      /\ sendBuf' = [sendBuf EXCEPT !.sum = <<sendBuf.head, sendBuf.args>>]
      /\ UNCHANGED <<calls, codeOf, mine, cnt, toBM, toLinux, recvCode,
                     recFrame, executed, outcome, mishap, sem>>
  BY DEF SendFrameTail, Goto, ring, answer
<1>2. Building' = Building /\ t \in Building
  BY <1>1 DEF Building, TypeOK
<1>3. TypeOK'
  <2>1. pc' \in [Task -> {"idle", "args", "tail", "lock", "send", "poll", "read"}]
    BY <1>1 DEF TypeOK
  <2>2. mine[t] \in Number /\ calls \in Nat
    BY DEF TypeOK, Number
  <2>3. \A u \in Task : pc'[u] # "idle" => mine'[u] # None
    BY <1>1 DEF TypeOK
  <2>4. sendBuf' \in Frame /\ sendBuf'.head = sendBuf.head
    <3>1. sendBuf \in Frame
      BY DEF TypeOK
    <3>2. <<sendBuf.head, sendBuf.args>> \in Number \X Seq(Number)
      BY <3>1 DEF Frame
    <3>3. QED
      BY <1>1, <3>1, <3>2 DEF Frame
  <2>5. sendBuf.head =< calls /\ sendBuf.head # None
    BY <1>2 DEF TypeOK
  <2>6. QED
    BY <1>1, <2>1, <2>3, <2>4, <2>5 DEF TypeOK
<1>4. OneUser'
  BY <1>1 DEF OneUser, TypeOK
<1>5. BuildHolds'
  BY <1>1, <1>2 DEF BuildHolds, TypeOK, Frame
<1>6. \A n : Asked(n)' <=> Asked(n)
  BY <1>1 DEF Asked
<1>7. AskedHolds' /\ OnceHolds' /\ ExecutedAsAsked'
  BY <1>1, <1>2, <1>6 DEF AskedHolds, OnceHolds, ExecutedAsAsked
<1>8. \A u \in Task : /\ pc'[u] = "read" <=> pc[u] = "read"
                      /\ pc'[u] = "poll" <=> pc[u] = "poll"
  BY <1>1 DEF TypeOK
<1>9. WaitHolds'
  BY <1>1, <1>6, <1>8 DEF WaitHolds, Orderly
<1>10. QED
  BY <1>3, <1>4, <1>5, <1>7, <1>9

LEMMA TakeSemHolds ==
  ASSUME IInv, NEW t \in Task, TakeSem(t)
  PROVE  IInv'
<1> USE CallAssumption DEF IInv
<1>1. /\ pc[t] = "lock" /\ pc' = [pc EXCEPT ![t] = "send"]
      /\ sem = Free /\ sem' = t
      /\ UNCHANGED <<calls, codeOf, mine, cnt, toBM, toLinux, recvCode,
                     recFrame, executed, outcome, mishap, sendBuf>>
  BY DEF TakeSem, Goto, ring, answer
<1>2. Building' = Building /\ t \in Building
  BY <1>1 DEF Building, TypeOK
<1>3. TypeOK'
  <2>1. pc' \in [Task -> {"idle", "args", "tail", "lock", "send", "poll", "read"}]
    BY <1>1 DEF TypeOK
  <2>2. mine[t] \in Number /\ calls \in Nat
    BY DEF TypeOK, Number
  <2>3. \A u \in Task : pc'[u] # "idle" => mine'[u] # None
    BY <1>1 DEF TypeOK
  <2>4. sendBuf' \in Frame /\ sendBuf'.head = sendBuf.head
    BY <1>1 DEF TypeOK
  <2>5. sendBuf.head =< calls /\ sendBuf.head # None
    BY <1>2 DEF TypeOK
  <2>6. QED
    BY <1>1, <2>1, <2>3, <2>4, <2>5 DEF TypeOK
<1>4. OneUser'
  BY <1>1 DEF OneUser, TypeOK, Free
<1>5. BuildHolds'
  BY <1>1, <1>2 DEF BuildHolds, TypeOK, Frame
<1>6. \A n : Asked(n)' <=> Asked(n)
  BY <1>1 DEF Asked
<1>7. AskedHolds' /\ OnceHolds' /\ ExecutedAsAsked'
  BY <1>1, <1>2, <1>6 DEF AskedHolds, OnceHolds, ExecutedAsAsked
<1>8. \A u \in Task : /\ pc'[u] = "read" <=> pc[u] = "read"
                      /\ pc'[u] = "poll" <=> pc[u] = "poll"
  BY <1>1 DEF TypeOK
<1>9. WaitHolds'
  BY <1>1, <1>6, <1>8 DEF WaitHolds, Orderly
<1>10. QED
  BY <1>3, <1>4, <1>5, <1>7, <1>9

LEMMA ReadAnswerHolds ==
  ASSUME IInv, NEW t \in Task, ReadAnswer(t)
  PROVE  IInv'
<1> USE CallAssumption DEF IInv
<1>1. /\ pc[t] = "read" /\ pc' = [pc EXCEPT ![t] = "idle"]
      /\ outcome' = [outcome EXCEPT ![mine[t]] = Answered(recFrame)]
      /\ UNCHANGED <<calls, codeOf, mine, cnt, sendBuf, sem, toBM, toLinux,
                     recvCode, recFrame, executed, mishap>>
  BY DEF ReadAnswer, Return, Goto, ring, answer
<1>2. Building' = Building
  BY <1>1 DEF Building, TypeOK
<1>3. TypeOK'
  <2>1. pc' \in [Task -> {"idle", "args", "tail", "lock", "send", "poll", "read"}]
    BY <1>1 DEF TypeOK
  <2>2. \A u \in Task : pc'[u] # "idle" => mine'[u] # None
    BY <1>1 DEF TypeOK
  <2>3. Answered(recFrame) \in [ret : {"open", "error", "void", "ok"}, from : Number]
    BY DEF Answered, TypeOK
  <2>4. outcome' \in [Call -> [ret : {"open", "error", "void", "ok"}, from : Number]]
    BY <1>1, <2>3 DEF TypeOK
  <2>5. QED
    BY <1>1, <1>2, <2>1, <2>2, <2>4 DEF TypeOK
<1>4. OneUser'
  BY <1>1 DEF OneUser, TypeOK
<1>5. BuildHolds'
  BY <1>1, <1>2 DEF BuildHolds, TypeOK, Building
<1>6. \A n : Asked(n)' <=> Asked(n)
  BY <1>1 DEF Asked
<1>7. AskedHolds' /\ OnceHolds' /\ ExecutedAsAsked'
  BY <1>1, <1>2, <1>6 DEF AskedHolds, OnceHolds, ExecutedAsAsked
<1>8. WaitHolds'
  <2> SUFFICES ASSUME mishap = {} PROVE Orderly'
    BY <1>1 DEF WaitHolds
  <2>1. Orderly
    BY DEF WaitHolds
  <2>2. \A u \in Task : /\ pc'[u] = "read" => pc[u] = "read"
                        /\ pc'[u] = "poll" <=> pc[u] = "poll"
    BY <1>1 DEF TypeOK
  <2>3. recFrame = mine[t] /\ Asked(mine[t])
    BY <1>1, <2>1 DEF Orderly
  <2>4. \A c \in Call : outcome'[c].ret = "ok" => outcome'[c].from = c /\ Asked(c)
    <3>1. \A c \in Call : c # mine[t] => outcome'[c] = outcome[c]
      BY <1>1 DEF TypeOK
    <3>2. mine[t] \in Call => outcome'[mine[t]] = [ret |-> "ok", from |-> recFrame]
      BY <1>1 DEF TypeOK, Answered
    <3>3. QED
      BY <2>1, <2>3, <3>1, <3>2 DEF Orderly
  <2>5. QED
    BY <1>1, <1>6, <2>1, <2>2, <2>4 DEF Orderly
<1>9. QED
  BY <1>3, <1>4, <1>5, <1>7, <1>8
-------------------------------------------------------------------------------
(* Sending, polling and the scan of core 1.                                *)

\* What the ring holds after a frame was put behind the others.
LEMMA AppendFacts ==
  ASSUME NEW S, NEW q \in Seq(S), NEW e \in S
  PROVE  /\ Append(q, e) \in Seq(S)
         /\ Len(Append(q, e)) = Len(q) + 1 /\ Len(q) \in Nat
         /\ \A i \in 1 .. Len(q) : Append(q, e)[i] = q[i]
         /\ Append(q, e)[Len(q) + 1] = e
BY AppendProperties

\* What it holds after the first was taken.
LEMMA TailFacts ==
  ASSUME NEW S, NEW q \in Seq(S), q # << >>
  PROVE  /\ Head(q) \in S /\ Head(q) = q[1] /\ Tail(q) \in Seq(S)
         /\ Len(Tail(q)) = Len(q) - 1 /\ Len(q) \in Nat /\ Len(q) > 0
         /\ \A i \in 1 .. Len(Tail(q)) : i + 1 \in 1 .. Len(q) /\ Tail(q)[i] = q[i + 1]
OBVIOUS

LEMMA TransmitHolds ==
  ASSUME IInv, NEW t \in Task, Transmit(t)
  PROVE  IInv'
<1> USE CallAssumption DEF IInv
<1> DEFINE sent == Len(toBM) < Capacity
           wait == sent /\ Waits(codeOf[mine[t]])
           result == IF Waits(codeOf[mine[t]]) THEN Error ELSE Void
<1>1. /\ pc[t] = "send"
      /\ toBM' = IF sent THEN Append(toBM, sendBuf) ELSE toBM
      /\ pc' = [pc EXCEPT ![t] = IF wait THEN "poll" ELSE "idle"]
      /\ sem' = IF wait THEN sem ELSE Free
      /\ outcome' = IF wait THEN outcome ELSE [outcome EXCEPT ![mine[t]] = result]
      /\ UNCHANGED <<calls, codeOf, mine, cnt, sendBuf, toLinux, recvCode,
                     recFrame, executed, mishap>>
  BY DEF Transmit, Return, answer
<1>2. /\ t \in Building /\ Building' = Building \ {t}
      /\ pc'[t] \in {"poll", "idle"} /\ sem = t
      /\ \A u \in Task : u # t => pc'[u] = pc[u] /\ pc[u] # "poll" /\ pc[u] # "send"
      /\ \A u \in Building' : u \in Building /\ pc'[u] = pc[u]
  BY <1>1 DEF Building, TypeOK, OneUser
<1>3. toBM \in Seq(Frame) /\ sendBuf \in Frame /\ sendBuf.head \in 1 .. calls
  BY <1>2 DEF TypeOK, Frame, Number, None
<1>4. CASE sent
  <2>1. /\ toBM' \in Seq(Frame) /\ Len(toBM') = Len(toBM) + 1 /\ Len(toBM) \in Nat
        /\ \A i \in 1 .. Len(toBM) : toBM'[i] = toBM[i]
        /\ toBM'[Len(toBM) + 1] = sendBuf
    BY <1>1, <1>3, <1>4, AppendFacts
  <2> DEFINE n == Len(toBM)
  <2>2. \A i \in 1 .. Len(toBM') : i \in 1 .. n \/ i = n + 1
    BY <2>1
  <2> HIDE DEF n, sent, wait
  <2>3. TypeOK'
    <3>1. \A i \in 1 .. Len(toBM') : toBM'[i].head \in 1 .. calls
      BY <1>3, <2>1, <2>2 DEF TypeOK, n
    <3>2. pc' \in [Task -> {"idle", "args", "tail", "lock", "send", "poll", "read"}]
      BY <1>1 DEF TypeOK
    <3>3. \A u \in Task : pc'[u] # "idle" => mine'[u] # None
      BY <1>1 DEF TypeOK
    <3>4. result \in [ret : {"open", "error", "void", "ok"}, from : Number]
      BY DEF Error, Void, Number, None
    <3>5. outcome' \in [Call -> [ret : {"open", "error", "void", "ok"}, from : Number]]
      <4> HIDE DEF result
      <4>1. QED
        BY <1>1, <3>4 DEF TypeOK
    <3>6. sem' \in Task \cup {Free}
      BY <1>1 DEF TypeOK
    <3>7. Building' # {} => sendBuf'.head # None
      BY <1>1, <1>2 DEF TypeOK
    <3>8. QED
      BY <1>1, <2>1, <3>1, <3>2, <3>3, <3>5, <3>6, <3>7 DEF TypeOK
  <2>4. OneUser'
    BY <1>1, <1>2 DEF OneUser, TypeOK, Free
  <2>5. BuildHolds'
    BY <1>1, <1>2 DEF BuildHolds
  <2>6. \A k : Asked(k)' <=> Asked(k)
    BY <1>1 DEF Asked
  <2>7. AskedHolds' /\ ExecutedAsAsked'
    BY <1>1, <2>6 DEF AskedHolds, ExecutedAsAsked
  <2>8. OnceHolds'
    <3> SUFFICES ASSUME "overlap" \notin mishap PROVE OnceHolds'
      BY <1>1 DEF OnceHolds
    <3>1. sendBuf.head = mine[t] /\ sendBuf.args = <<mine[t]>> /\ Building' = {}
      BY <1>1, <1>2 DEF BuildHolds
    <3>2. ~Asked(mine[t]) /\ \A i \in 1 .. n : toBM[i].head # mine[t]
      BY <1>2 DEF OnceHolds, n
    <3>3. /\ \A i \in 1 .. n : toBM[i].args = <<toBM[i].head>> /\ ~Asked(toBM[i].head)
          /\ \A i, j \in 1 .. n : i # j => toBM[i].head # toBM[j].head
      BY DEF OnceHolds, n
    <3>4. \A i \in 1 .. Len(toBM') :
            toBM'[i].args = <<toBM'[i].head>> /\ ~Asked(toBM'[i].head)
      BY <2>1, <2>2, <3>1, <3>2, <3>3 DEF n
    <3>5. \A i, j \in 1 .. Len(toBM') : i # j => toBM'[i].head # toBM'[j].head
      BY <2>1, <2>2, <3>1, <3>2, <3>3 DEF n
    <3>6. QED
      BY <2>6, <3>1, <3>4, <3>5 DEF OnceHolds
  <2>9. WaitHolds'
    <3> SUFFICES ASSUME mishap = {} PROVE Orderly'
      BY <1>1 DEF WaitHolds
    <3>1. Orderly
      BY DEF WaitHolds
    <3>2. sendBuf.head = mine[t]
      BY <1>2 DEF BuildHolds
    <3>3. \A u \in Task : pc[u] # "poll"
      BY <1>1, <1>2
    <3>4. toLinux = << >>
      BY <3>1, <3>3 DEF Orderly
    <3>5. \A i \in 1 .. n : ~Waits(codeOf[toBM[i].head])
      BY <3>1, <3>3 DEF Orderly, n
    <3>6. Waits(codeOf[mine[t]]) => pc'[t] = "poll"
      BY <1>1, <1>4 DEF wait, TypeOK
    <3>7. \A i \in 1 .. Len(toBM') :
            Waits(codeOf'[toBM'[i].head]) =>
              \E u \in Task : pc'[u] = "poll" /\ mine'[u] = toBM'[i].head
      BY <1>1, <2>1, <2>2, <3>2, <3>5, <3>6 DEF n
    <3>8. \A u \in Task : pc'[u] = "read" => pc[u] = "read"
      <4>1. pc'[t] # "read"
        BY <1>2
      <4>2. \A u \in Task : u # t => pc'[u] = pc[u]
        BY <1>2
      <4>3. QED
        BY <4>1, <4>2
    <3>9. \A c \in Call : outcome'[c].ret = "ok" => outcome'[c] = outcome[c]
      <4>1. result.ret # "ok"
        BY DEF Error, Void
      <4> HIDE DEF result
      <4>2. QED
        BY <1>1, <4>1 DEF TypeOK
    <3>10. QED
      BY <1>1, <2>6, <3>1, <3>4, <3>7, <3>8, <3>9 DEF Orderly
  <2>10. QED
    BY <2>3, <2>4, <2>5, <2>7, <2>8, <2>9
<1>5. CASE ~sent
  <2>1. toBM' = toBM /\ pc'[t] = "idle" /\ sem' = Free /\ ~wait
    BY <1>1, <1>5 DEF TypeOK
  <2>2. pc' = [pc EXCEPT ![t] = "idle"]
        /\ outcome' = [outcome EXCEPT ![mine[t]] = result]
    BY <1>1, <2>1
  <2> HIDE DEF sent, wait
  <2>3. TypeOK'
    <3>1. pc' \in [Task -> {"idle", "args", "tail", "lock", "send", "poll", "read"}]
      BY <2>2 DEF TypeOK
    <3>2. \A u \in Task : pc'[u] # "idle" => mine'[u] # None
      BY <1>1, <2>2 DEF TypeOK
    <3>3. result \in [ret : {"open", "error", "void", "ok"}, from : Number]
      BY DEF Error, Void, Number, None
    <3>4. outcome' \in [Call -> [ret : {"open", "error", "void", "ok"}, from : Number]]
      <4> HIDE DEF result
      <4>1. QED
        BY <2>2, <3>3 DEF TypeOK
    <3>5. Building' # {} => sendBuf'.head # None
      BY <1>1, <1>2 DEF TypeOK
    <3>6. QED
      BY <1>1, <2>1, <3>1, <3>2, <3>4, <3>5 DEF TypeOK
  <2>4. OneUser'
    BY <1>2, <2>1, <2>2 DEF OnceHolds, OneUser, TypeOK, Free
  <2>6. \A k : Asked(k)' <=> Asked(k)
    BY <1>1 DEF Asked
  <2>7. BuildHolds' /\ OnceHolds' /\ AskedHolds' /\ ExecutedAsAsked'
    BY <1>1, <1>2, <2>1, <2>6
       DEF BuildHolds, OnceHolds, AskedHolds, ExecutedAsAsked
  <2>8. WaitHolds'
    <3> SUFFICES ASSUME mishap = {} PROVE Orderly'
      BY <1>1 DEF WaitHolds
    <3>1. Orderly
      BY DEF WaitHolds
    <3>2. \A u \in Task : pc[u] # "poll"
      BY <1>1, <1>2
    <3>3. toLinux = << >>
      BY <3>1, <3>2 DEF Orderly
    <3>4. \A i \in 1 .. Len(toBM) : ~Waits(codeOf[toBM[i].head])
      BY <3>1, <3>2 DEF Orderly
    <3>5. \A u \in Task : pc'[u] = "read" => pc[u] = "read"
      <4>1. pc'[t] # "read"
        BY <1>2
      <4>2. \A u \in Task : u # t => pc'[u] = pc[u]
        BY <1>2
      <4>3. QED
        BY <4>1, <4>2
    <3>6. \A c \in Call : outcome'[c].ret = "ok" => outcome'[c] = outcome[c]
      <4>1. result.ret # "ok"
        BY DEF Error, Void
      <4> HIDE DEF result
      <4>2. QED
        BY <2>2, <4>1 DEF TypeOK
    <3>7. QED
      BY <1>1, <2>1, <2>6, <3>1, <3>3, <3>4, <3>5, <3>6 DEF Orderly
  <2>9. QED
    BY <2>3, <2>4, <2>7, <2>8
<1>6. QED
  BY <1>4, <1>5

LEMMA PollHolds ==
  ASSUME IInv, NEW t \in Task, Poll(t)
  PROVE  IInv'
<1> USE CallAssumption DEF IInv
<1> DEFINE got   == toLinux # << >>
           code  == IF got THEN Head(toLinux).code ELSE "none"
           from  == IF got THEN Head(toLinux).call ELSE recFrame
           last  == cnt[t] + 1 = Polls
           match == code \in Accepts(codeOf[mine[t]])
           reads == match /\ ~last /\ codeOf[mine[t]] \in Reads
           next  == IF reads THEN "read"
                    ELSE IF match \/ last THEN "idle" ELSE "poll"
           rival == \E u \in Task \ {t} : pc[u] = "read"
<1>1. /\ pc[t] = "poll"
      /\ toLinux' = IF got THEN Tail(toLinux) ELSE toLinux
      /\ recvCode' = code /\ recFrame' = from
      /\ cnt' = [cnt EXCEPT ![t] = @ + 1]
      /\ sem' = IF match \/ last THEN Free ELSE sem
      /\ pc' = [pc EXCEPT ![t] = next]
      /\ outcome' = IF last THEN [outcome EXCEPT ![mine[t]] = Error]
                    ELSE IF match /\ ~reads
                         THEN [outcome EXCEPT ![mine[t]] = Answered(from)]
                         ELSE outcome
      /\ mishap' = mishap \cup (IF last THEN {"late"} ELSE {})
                          \cup (IF got /\ rival THEN {"reread"} ELSE {})
      /\ UNCHANGED <<calls, codeOf, mine, sendBuf, toBM, executed>>
  BY DEF Poll, Return
<1>2. /\ sem = t /\ next \in {"read", "idle", "poll"}
      /\ next = "poll" <=> ~(match \/ last)
      /\ pc'[t] = next
      /\ \A u \in Task : u # t => pc'[u] = pc[u] /\ pc[u] # "poll" /\ pc[u] # "send"
      /\ Building' = Building /\ t \notin Building
      /\ \A u \in Building : pc'[u] = pc[u]
  <2>1. sem = t /\ \A u \in Task : u # t => pc[u] # "poll" /\ pc[u] # "send"
    BY <1>1 DEF OneUser
  <2>2. next \in {"read", "idle", "poll"} /\ (next = "poll" <=> ~(match \/ last))
    OBVIOUS
  <2> HIDE DEF next
  <2>3. pc'[t] = next /\ \A u \in Task : u # t => pc'[u] = pc[u]
    BY <1>1 DEF TypeOK
  <2>4. Building' = Building /\ t \notin Building
        /\ \A u \in Building : pc'[u] = pc[u]
    BY <1>1, <2>2, <2>3 DEF Building
  <2>5. QED
    BY <2>1, <2>2, <2>3, <2>4
<1>3. got => /\ Head(toLinux) \in Reply /\ Head(toLinux) = toLinux[1]
             /\ Tail(toLinux) \in Seq(Reply)
             /\ Len(Tail(toLinux)) = Len(toLinux) - 1
             /\ Len(toLinux) \in Nat /\ Len(toLinux) > 0
  BY TailFacts DEF TypeOK
<1>4. code \in {"none", "yk", "ack"} /\ from \in Number
  BY <1>3 DEF Reply, TypeOK
<1>5. TypeOK'
  <2>1. pc' \in [Task -> {"idle", "args", "tail", "lock", "send", "poll", "read"}]
    <3> HIDE DEF next
    <3>1. QED
      BY <1>1, <1>2 DEF TypeOK
  <2>2. \A u \in Task : pc'[u] # "idle" => mine'[u] # None
    BY <1>1, <1>2 DEF TypeOK
  <2>3. /\ Error \in [ret : {"open", "error", "void", "ok"}, from : Number]
        /\ Answered(from) \in [ret : {"open", "error", "void", "ok"}, from : Number]
    BY <1>4 DEF Error, Answered, None, Number
  <2>4. outcome' \in [Call -> [ret : {"open", "error", "void", "ok"}, from : Number]]
    <3> HIDE DEF from, last, match, reads
    <3>1. QED
      BY <1>1, <2>3 DEF TypeOK
  <2>5. sem' \in Task \cup {Free}
    BY <1>1 DEF TypeOK
  <2>6. toLinux' \in Seq(Reply)
    BY <1>1, <1>3 DEF TypeOK
  <2>7. cnt' \in [Task -> Nat]
    BY <1>1 DEF TypeOK
  <2>8. mishap' \subseteq {"overlap", "late", "reread"}
    BY <1>1 DEF TypeOK
  <2> HIDE DEF got, code, from, last, match, reads, next, rival
  <2>9. QED
    BY <1>1, <1>2, <1>4, <2>1, <2>2, <2>4, <2>5, <2>6, <2>7, <2>8 DEF TypeOK
<1> HIDE DEF last, match, next, rival
<1>6. OneUser'
  <2>1. sem' = t <=> pc'[t] = "poll"
    BY <1>1, <1>2 DEF Free
  <2>2. sem' \in {t, Free} /\ pc'[t] # "send"
    BY <1>1, <1>2
  <2>3. QED
    BY <1>2, <2>1, <2>2 DEF OneUser, Free
<1>7. ("overlap" \in mishap' <=> "overlap" \in mishap) /\ (mishap' = {} => mishap = {})
  BY <1>1
<1>8. \A k : Asked(k)' <=> Asked(k)
  BY <1>1 DEF Asked
<1>9. BuildHolds' /\ OnceHolds' /\ AskedHolds' /\ ExecutedAsAsked'
  BY <1>1, <1>2, <1>7, <1>8 DEF BuildHolds, OnceHolds, AskedHolds, ExecutedAsAsked
<1>10. WaitHolds'
  <2> SUFFICES ASSUME mishap' = {} PROVE Orderly'
    BY DEF WaitHolds
  <2>1. Orderly /\ mishap = {} /\ ~last /\ ~(got /\ rival)
    BY <1>1, <1>7 DEF WaitHolds
  <2>2. mine[t] \in 1 .. calls /\ codeOf[mine[t]] \in Code
    BY <1>1 DEF TypeOK, None
  <2>3. CASE ~got
    <3>1. code = "none" /\ from = recFrame
      BY <2>3
    <3>2. ~match
      BY <2>2, <3>1, Constants DEF match
    <3>3. next = "poll" /\ toLinux' = toLinux /\ recFrame' = recFrame
          /\ outcome' = outcome
      BY <1>1, <1>2, <2>1, <2>3, <3>1, <3>2
    <3>4. \A u \in Task : pc'[u] = pc[u]
      BY <1>1, <1>2, <3>3
    <3>5. QED
      BY <1>1, <1>8, <2>1, <3>3, <3>4 DEF Orderly
  <2>4. CASE got
    <3>1. /\ code = toLinux[1].code /\ from = toLinux[1].call
          /\ Len(toLinux) =< 1
          /\ Asked(toLinux[1].call)
          /\ toLinux[1].code = Answer(codeOf[toLinux[1].call])
      BY <1>3, <2>1, <2>4 DEF Orderly
    <3>2. from = mine[t]
      BY <1>2, <2>1, <2>4, <3>1 DEF Orderly
    <3>3. code # "none"
      <4>1. Head(toLinux) \in Reply
        BY <1>3, <2>4
      <4>2. QED
        BY <2>4, <4>1 DEF Reply
    <3>4. match
      BY <2>2, <3>1, <3>2, <3>3, Constants DEF match
    <3>5. Asked(mine[t]) /\ recFrame' = mine[t]
      BY <1>1, <3>1, <3>2
    <3>6. Len(toLinux') = 0 /\ toLinux' = << >>
      <4>1. toLinux' = Tail(toLinux) /\ Len(toLinux) = 1
        <5>1. toLinux' = Tail(toLinux)
          BY <1>1, <2>4
        <5>2. Len(toLinux) = 1
          <6>1. Len(toLinux) \in Nat /\ Len(toLinux) > 0
            BY <1>3, <2>4
          <6>2. Len(toLinux) =< 1
            BY <3>1
          <6>3. \A n \in Nat : n > 0 /\ n =< 1 => n = 1
            OBVIOUS
          <6>4. QED
            BY <6>1, <6>2, <6>3, Zenon
        <5>3. QED
          BY <5>1, <5>2
      <4>2. Len(toLinux') = 0 /\ toLinux' \in Seq(Reply)
        BY <1>3, <2>4, <4>1
      <4>3. QED
        BY <4>2, EmptySeq
    <3>7. \A i \in 1 .. Len(toBM) : ~Waits(codeOf[toBM[i].head])
      <4>1. \A i \in 1 .. Len(toBM) : ~Asked(toBM[i].head)
        BY <2>1 DEF OnceHolds
      <4>2. QED
        BY <1>2, <2>1, <3>5, <4>1 DEF Orderly
    <3>8. \A u \in Task : pc'[u] = "read" => recFrame' = mine[u] /\ Asked(mine[u])
      <4>1. \A u \in Task : u # t => pc[u] # "read"
        BY <2>1, <2>4 DEF rival
      <4>2. QED
        BY <1>2, <3>5, <4>1
    <3>9. \A c \in Call : outcome'[c].ret = "ok" => outcome'[c].from = c /\ Asked(c)
      <4>1. CASE outcome' = outcome
        BY <2>1, <4>1 DEF Orderly
      <4>2. CASE outcome' = [outcome EXCEPT ![mine[t]] = Answered(mine[t])]
        <5>1. \A c \in Call : c # mine[t] => outcome'[c] = outcome[c]
          BY <4>2 DEF TypeOK
        <5>2. mine[t] \in Call => outcome'[mine[t]].from = mine[t]
          BY <4>2 DEF TypeOK, Answered
        <5>3. QED
          BY <2>1, <3>5, <5>1, <5>2 DEF Orderly
      <4>3. QED
        BY <1>1, <2>1, <3>2, <4>1, <4>2
    <3>10. UNCHANGED <<codeOf, mine, toBM>>
      BY <1>1
    <3> HIDE DEF got, code, from, reads
    <3>11. QED
      BY <1>8, <3>6, <3>7, <3>8, <3>9, <3>10 DEF Orderly
  <2>5. QED
    BY <2>3, <2>4
<1>11. QED
  BY <1>5, <1>6, <1>9, <1>10

LEMMA BMScanHolds ==
  ASSUME IInv, BMScan
  PROVE  IInv'
<1> USE CallAssumption DEF IInv
<1> DEFINE f     == Head(toBM)
           valid == f.sum = <<f.head, f.args>> /\ f.args # << >>
           kind  == Answer(codeOf[f.head])
           done  == [of |-> f.head, with |-> Head(f.args)]
           reply == [code |-> kind, call |-> Head(f.args)]
           Now(k) == \E i \in 1 .. Len(executed') : executed'[i].of = k
           told  == valid /\ kind # "none" /\ Len(toLinux) < Capacity
<1>1. /\ toBM # << >> /\ toBM' = Tail(toBM)
      /\ executed' = IF valid THEN Append(executed, done) ELSE executed
      /\ toLinux' = IF told THEN Append(toLinux, reply) ELSE toLinux
      /\ UNCHANGED <<calls, codeOf, pc, mine, cnt, sendBuf, sem, recvCode,
                     recFrame, outcome, mishap>>
  BY DEF BMScan, task, answer
<1>2. /\ f \in Frame /\ f = toBM[1] /\ toBM' \in Seq(Frame)
      /\ Len(toBM') = Len(toBM) - 1 /\ Len(toBM) \in Nat /\ Len(toBM) > 0
      /\ \A i \in 1 .. Len(toBM') : i + 1 \in 1 .. Len(toBM) /\ toBM'[i] = toBM[i + 1]
  BY <1>1, TailFacts DEF TypeOK
<1>3. 1 \in 1 .. Len(toBM) /\ f.head \in 1 .. calls /\ codeOf[f.head] \in Code
      /\ calls \in Nat /\ f.head \in Number
  BY <1>2 DEF TypeOK, Number
<1>4. valid => /\ Head(f.args) \in Number
               /\ done \in [of : Number, with : Number]
  <2>1. f.args \in Seq(Number)
    BY <1>2 DEF Frame
  <2>2. f.args # << >> => Head(f.args) \in Number
    BY <2>1
  <2>3. QED
    BY <1>3, <2>2
<1>5. told => reply \in Reply
  <2>1. kind \in {"none", "yk", "ack"}
    BY DEF Answer
  <2>2. told => kind \in {"yk", "ack"} /\ Head(f.args) \in Number
    BY <1>4, <2>1
  <2>3. QED
    BY <2>2 DEF Reply
<1>6. Building' = Building
  BY <1>1 DEF Building
<1>7. /\ Len(executed) \in Nat /\ executed' \in Seq([of : Number, with : Number])
      /\ ~valid => executed' = executed
      /\ valid => /\ Len(executed') = Len(executed) + 1
                  /\ \A i \in 1 .. Len(executed) : executed'[i] = executed[i]
                  /\ executed'[Len(executed) + 1] = done
  <2> DEFINE R == [of : Number, with : Number]
  <2>1. executed \in Seq(R) /\ (valid => done \in R)
    BY <1>4 DEF TypeOK
  <2> HIDE DEF R, done, valid
  <2>2. executed' \in Seq(R) /\ Len(executed) \in Nat
    BY <1>1, <2>1
  <2>3. valid => /\ Len(executed') = Len(executed) + 1
                 /\ \A i \in 1 .. Len(executed) : executed'[i] = executed[i]
                 /\ executed'[Len(executed) + 1] = done
    BY <1>1, <2>1, AppendFacts
  <2>4. QED
    BY <1>1, <2>2, <2>3 DEF R
<1>8. done.of = f.head /\ done.with = Head(f.args)
  OBVIOUS
<1>9. /\ \A k : Asked(k) => Now(k)
      /\ \A k : Now(k) => Asked(k) \/ (valid /\ k = f.head)
      /\ valid => Now(f.head)
  <2> HIDE DEF done, f
  <2>1. CASE ~valid
    BY <1>7, <2>1 DEF Asked
  <2>2. CASE valid
    <3> DEFINE n == Len(executed)
    <3>1. n \in Nat /\ Len(executed') = n + 1
      BY <1>7, <2>2
    <3> HIDE DEF n
    <3>2. \A i \in 1 .. n + 1 : i \in 1 .. n \/ i = n + 1
      BY <3>1
    <3>3. n + 1 \in 1 .. n + 1 /\ \A i \in 1 .. n : i \in 1 .. n + 1
      BY <3>1
    <3>4. /\ \A i \in 1 .. n : executed'[i] = executed[i]
          /\ executed'[n + 1] = done
      BY <1>7, <2>2 DEF n
    <3> HIDE DEF valid
    <3>5. \A k : Asked(k) <=> \E i \in 1 .. n : executed[i].of = k
      BY DEF Asked, n
    <3>6. \A k : Now(k) <=> \E i \in 1 .. n + 1 : executed'[i].of = k
      BY <3>1
    <3> HIDE DEF Now
    <3>7. QED
      BY <1>8, <2>2, <3>2, <3>3, <3>4, <3>5, <3>6
  <2>3. QED
    BY <2>1, <2>2
<1>10. TypeOK'
  <2>1. toLinux' \in Seq(Reply)
    <3> HIDE DEF told, reply
    <3>1. QED
      BY <1>1, <1>5 DEF TypeOK
  <2>2. \A i \in 1 .. Len(toBM') : toBM'[i].head \in 1 .. calls
    BY <1>2 DEF TypeOK
  <2>3. QED
    BY <1>1, <1>2, <1>6, <1>7, <2>1, <2>2 DEF TypeOK
<1> HIDE DEF valid, told, done, Now
<1>11. OneUser' /\ BuildHolds'
  BY <1>1, <1>6 DEF OneUser, BuildHolds
<1>12. AskedHolds'
  <2>1. CASE ~valid
    BY <1>1, <1>7, <2>1 DEF AskedHolds
  <2>2. CASE valid
    <3>1. \A i \in 1 .. Len(executed') : i \in 1 .. Len(executed) \/ i = Len(executed) + 1
      BY <1>7, <2>2
    <3>2. done.of =< calls
      BY <1>3, <1>8
    <3>3. QED
      BY <1>1, <1>7, <2>2, <3>1, <3>2 DEF AskedHolds
  <2>3. QED
    BY <2>1, <2>2
<1>13. OnceHolds' /\ ExecutedAsAsked'
  <2> SUFFICES ASSUME "overlap" \notin mishap PROVE OnceHolds' /\ ExecutedAsAsked'
    BY <1>1 DEF OnceHolds, ExecutedAsAsked
  <2>1. /\ f.args = <<f.head>> /\ ~Asked(f.head)
        /\ \A i \in 2 .. Len(toBM) : toBM[i].head # f.head
        /\ \A t \in Building : mine[t] # f.head
    BY <1>2, <1>3 DEF OnceHolds
  <2>2. \A i \in 1 .. Len(toBM') : toBM'[i].args = <<toBM'[i].head>>
                                   /\ ~Now(toBM'[i].head)
    <3>1. \A i \in 1 .. Len(toBM') : toBM'[i].head # f.head
      <4>1. \A i \in 1 .. Len(toBM') : i + 1 \in 2 .. Len(toBM)
        BY <1>2
      <4>2. QED
        BY <1>2, <2>1, <4>1
    <3>2. \A i \in 1 .. Len(toBM') : ~Asked(toBM'[i].head)
      BY <1>2 DEF OnceHolds
    <3>3. QED
      BY <1>2, <1>9, <3>1, <3>2 DEF OnceHolds
  <2>3. \A i, j \in 1 .. Len(toBM') : i # j => toBM'[i].head # toBM'[j].head
    BY <1>2 DEF OnceHolds
  <2>4. \A t \in Building : /\ ~Now(mine[t])
                            /\ \A i \in 1 .. Len(toBM') : toBM'[i].head # mine[t]
    BY <1>2, <1>9, <2>1 DEF OnceHolds
  <2>5. OnceHolds'
    BY <1>1, <1>6, <2>2, <2>3, <2>4 DEF OnceHolds, Asked, Now
  <2>6. ExecutedAsAsked'
    <3>1. CASE ~valid
      BY <1>1, <1>7, <3>1 DEF ExecutedAsAsked
    <3>2. CASE valid
      <4> DEFINE n == Len(executed)
      <4>1. done.of = done.with
        <5>1. Head(<<f.head>>) = f.head
          OBVIOUS
        <5>2. QED
          BY <1>8, <2>1, <5>1
      <4>2. \A i \in 1 .. n : executed[i].of # done.of /\ executed'[i] = executed[i]
        BY <1>7, <1>8, <2>1, <3>2 DEF Asked
      <4>3. \A i \in 1 .. Len(executed') : i \in 1 .. n \/ i = n + 1
        BY <1>7, <3>2
      <4>4. executed'[n + 1] = done
        BY <1>7, <3>2
      <4>5. /\ \A i \in 1 .. n : executed[i].of = executed[i].with
            /\ \A i, j \in 1 .. n : i # j => executed[i].of # executed[j].of
        BY DEF ExecutedAsAsked
      <4> HIDE DEF n
      <4>6. QED
        BY <4>1, <4>2, <4>3, <4>4, <4>5 DEF ExecutedAsAsked
    <3>3. QED
      BY <3>1, <3>2
  <2>7. QED
    BY <2>5, <2>6
<1>14. WaitHolds'
  <2> SUFFICES ASSUME mishap = {} PROVE Orderly'
    BY <1>1 DEF WaitHolds
  <2>1. Orderly
    BY DEF WaitHolds
  <2>2. \A i \in 1 .. Len(toBM') :
          Waits(codeOf[toBM'[i].head]) =>
            \E t \in Task : pc[t] = "poll" /\ mine[t] = toBM'[i].head
    BY <1>2, <2>1 DEF Orderly
  <2>3. /\ \A t \in Task : pc[t] = "read" => recFrame = mine[t] /\ Now(mine[t])
        /\ \A c \in Call : outcome[c].ret = "ok" => outcome[c].from = c /\ Now(c)
    BY <1>9, <2>1 DEF Orderly
  <2>4. /\ Len(toLinux') =< 1
        /\ toLinux' # << >> =>
             /\ Now(toLinux'[1].call)
             /\ toLinux'[1].code = Answer(codeOf[toLinux'[1].call])
             /\ \E t \in Task : pc[t] = "poll" /\ mine[t] = toLinux'[1].call
    <3>1. CASE ~told
      BY <1>1, <1>9, <2>1, <3>1 DEF Orderly
    <3>2. CASE told
      <4>1. valid /\ Waits(codeOf[f.head])
        BY <1>3, <3>2, Constants DEF told
      <4>2. PICK t \in Task : pc[t] = "poll" /\ mine[t] = f.head
        BY <1>2, <1>3, <2>1, <4>1 DEF Orderly
      <4>3. f.args = <<f.head>> /\ ~Asked(f.head)
        BY <1>2, <1>3 DEF OnceHolds
      <4>4. reply.call = f.head /\ reply.code = Answer(codeOf[f.head])
        <5>1. Head(<<f.head>>) = f.head
          OBVIOUS
        <5>2. QED
          BY <4>3, <5>1
      <4>5. toLinux = << >>
        <5>1. \A u \in Task : pc[u] = "poll" => u = t
          BY <4>2 DEF OneUser
        <5>2. QED
          BY <2>1, <4>2, <4>3, <5>1 DEF Orderly
      <4> HIDE DEF reply
      <4>6. toLinux' = <<reply>>
        BY <1>1, <3>2, <4>5
      <4>7. Len(toLinux') = 1 /\ toLinux'[1] = reply
        BY <4>6
      <4>8. QED
        BY <1>9, <4>1, <4>2, <4>4, <4>7
    <3>3. QED
      BY <3>1, <3>2
  <2>5. QED
    BY <1>1, <2>2, <2>3, <2>4 DEF Orderly, Asked, Now
<1>15. QED
  BY <1>10, <1>11, <1>12, <1>13, <1>14

-------------------------------------------------------------------------------
(* The theorems.                                                           *)

LEMMA NextHolds == IInv /\ [Next]_vars => IInv'
<1> SUFFICES ASSUME IInv, [Next]_vars PROVE IInv'
  OBVIOUS
<1>1. ASSUME NEW t \in Task, Begin(t) PROVE IInv'
  BY <1>1, BeginHolds
<1>2. ASSUME NEW t \in Task, Step(t) PROVE IInv'
  <2>1. CASE PutArgs(t)
    BY <2>1, PutArgsHolds
  <2>2. CASE SendFrameTail(t)
    BY <2>2, SendFrameTailHolds
  <2>3. CASE TakeSem(t)
    BY <2>3, TakeSemHolds
  <2>4. CASE Transmit(t)
    BY <2>4, TransmitHolds
  <2>5. CASE Poll(t)
    BY <2>5, PollHolds
  <2>6. CASE ReadAnswer(t)
    BY <2>6, ReadAnswerHolds
  <2>7. QED
    BY <1>2, <2>1, <2>2, <2>3, <2>4, <2>5, <2>6 DEF Step
<1>3. CASE BMScan
  BY <1>3, BMScanHolds
<1>4. CASE UNCHANGED vars
  BY <1>4 DEF vars, task, ring, answer, IInv, TypeOK, OneUser, BuildHolds,
              OnceHolds, AskedHolds, ExecutedAsAsked, WaitHolds, Orderly, Asked,
              Building
<1>5. QED
  BY <1>1, <1>2, <1>3, <1>4 DEF Next

LEMMA Invariance == Spec => []IInv
BY InitHolds, NextHolds, PTL DEF Spec

\* Every variable stays in its type, and a frame in use names a call that was
\* begun.
THEOREM TypeCorrect == Spec => []TypeOK
<1>1. IInv => TypeOK
  BY DEF IInv
<1>2. QED
  BY <1>1, Invariance, PTL

\* The task that sends or polls is the one that holds the semaphore, so each
\* ring has one user on the Linux side (MAINT_Linux_To_BM).
THEOREM RingsHaveOneUser == Spec => []OneUser
<1>1. IInv => OneUser
  BY DEF IInv
<1>2. QED
  BY <1>1, Invariance, PTL

\* Core 1 executes each call once and with its own arguments, unless two tasks
\* were building frames at the same time.
THEOREM ExecutesAsAsked == Spec => []ExecutedAsAsked
<1>1. IInv => ExecutedAsAsked
  BY DEF IInv
<1>2. QED
  BY <1>1, Invariance, PTL

\* A call that returns an answer returns its own, and its command was executed,
\* unless frames overlapped, a caller gave up waiting or another task polled
\* between an answer and its reading.
THEOREM AnswersBelong == Spec => []AnswerIsMine
<1>1. IInv => AnswerIsMine
  BY CallAssumption DEF IInv, TypeOK, WaitHolds, Orderly, AnswerIsMine, Call, Asked
<1>2. QED
  BY <1>1, Invariance, PTL
===============================================================================
