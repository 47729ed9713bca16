---------------------------- MODULE DbPool_proofs ----------------------------
(***************************************************************************)
(* Proofs about the pools of the data base, for every size of a pool and   *)
(* every number of changes.                                                *)
(***************************************************************************)
EXTENDS DbPool, SequenceTheorems, TLAPS

\* The task has found that it may clear a bit of the kind it looks at, and has
\* not yet stored the word.
Looking == pc \in {"none_store", "store", "group_store"}

Typed ==
  /\ wp = [k \in Kind |-> wp[k]] /\ rp = [k \in Kind |-> rp[k]]
  /\ sem \in [Kind -> {"free", "writer", "task"}]
  /\ flag \in [Level -> SUBSET Kind]
  /\ wpc \in [Kind -> WPc] /\ pc \in Pc /\ at \in 1 .. Len(Order)
  /\ written \in [Kind -> Seq(Nat)]
  /\ wword \in [Kind -> SUBSET Kind] /\ word \subseteq Kind
  /\ raced \in [Kind -> BOOLEAN] /\ seen \in Int

\* A writer has the semaphore of its pool until it has sent the event, and the
\* task has it while it clears the bit of an empty pool.
SemHolds ==
  /\ \A k \in Kind : wpc[k] # "idle" <=> sem[k] = "writer"
  /\ pc = "none_store" => sem[k0] = "task"

\* A bit that a writer has set stays set unless it is lost in a race.
WriterHolds ==
  \A k \in Kind : ~raced[k] =>
    /\ wpc[k] \in {"eqp", "eqp_store", "event"} => k \in flag["group"]
    /\ wpc[k] = "event" => k \in flag["eqp"]

\* Changes that are unread, or are being sent, have their bits.
BitHolds ==
  \A k \in Kind :
    wpc[k] = "idle" /\ ~raced[k] /\ (Unread(k) > 0 \/ (pc = "advance" /\ k = k0)) =>
      \A l \in Level : k \in flag[l]

\* When the task is going to clear a bit, either there is still nothing unread,
\* or a writer has been at work since it looked.
LookHolds ==
  Looking =>
    /\ seen =< Len(written[k0])
    /\ wpc[k0] # "idle" => seen < Len(written[k0])
    /\ wpc[k0] = "idle" /\ seen = Len(written[k0]) /\ ~raced[k0] =>
         ~(Unread(k0) > 0)

IInv == Typed /\ SemHolds /\ WriterHolds /\ BitHolds /\ LookHolds

-------------------------------------------------------------------------------
LEMMA KindFacts ==
  /\ Len(Order) = 2 /\ Kind = {"scos", "dcos"}
  /\ \A i \in 1 .. Len(Order) : Order[i] \in Kind
<1>1. Len(Order) = 2 /\ Order[1] = "scos" /\ Order[2] = "dcos"
  BY DEF Order
<1>2. 1 .. 2 = {1, 2}
  OBVIOUS
<1>3. QED
  BY <1>1, <1>2 DEF Kind

LEMMA LenFacts ==
  ASSUME Typed
  PROVE  k0 \in Kind /\ \A k \in Kind : Len(written[k]) \in Nat
<1>1. k0 \in Kind
  BY KindFacts DEF Typed, k0
<1>2. \A k \in Kind : written[k] \in Seq(Nat)
  BY DEF Typed
<1>3. QED
  BY <1>1, <1>2, LenProperties

LEMMA InitHolds == Init => IInv
<1> SUFFICES ASSUME Init PROVE IInv
  OBVIOUS
<1> USE KindFacts DEF Init
<1>1. Typed
  <2>1. << >> \in Seq(Nat)
    OBVIOUS
  <2>2. QED
    BY <2>1 DEF Typed, WPc, Pc
<1>2. \A k \in Kind : Unread(k) = 0
  <2>1. (0 - 0) % Size = 0
    BY PoolAssumption, SMT
  <2>2. QED
    BY <2>1 DEF Unread
<1>3. SemHolds /\ WriterHolds /\ BitHolds /\ LookHolds
  BY <1>2 DEF SemHolds, WriterHolds, BitHolds, LookHolds, Looking
<1>4. QED
  BY <1>1, <1>3 DEF IInv

-------------------------------------------------------------------------------
(* The writers.                                                            *)

LEMMA WriteSlotHolds ==
  ASSUME IInv, NEW k \in Kind, WriteSlot(k)
  PROVE  IInv'
<1> USE DEF IInv
<1> DEFINE n == Len(written[k]) + 1
<1>1. /\ wpc[k] = "idle" /\ sem[k] = "free"
      /\ sem' = [sem EXCEPT ![k] = "writer"]
      /\ wp' = [wp EXCEPT ![k] = (@ + 1) % Size]
      /\ written' = [written EXCEPT ![k] = Append(@, n)]
      /\ wpc' = [wpc EXCEPT ![k] = "group"]
      /\ raced' = [raced EXCEPT ![k] = FALSE]
      /\ UNCHANGED <<rp, flag, wword, pc, at, word, seen>>
  BY DEF WriteSlot, task
<1>2. k0' = k0 /\ k0 \in Kind /\ Len(written[k]) \in Nat
  BY <1>1, LenFacts DEF k0
<1>3. \A j \in Kind \ {k} :
        /\ Unread(j)' = Unread(j) /\ wpc'[j] = wpc[j] /\ sem'[j] = sem[j]
        /\ written'[j] = written[j] /\ raced'[j] = raced[j]
  BY <1>1 DEF Unread, Typed
<1>4. /\ wpc'[k] = "group" /\ sem'[k] = "writer" /\ raced'[k] = FALSE
      /\ written'[k] = Append(written[k], n)
  BY <1>1 DEF Typed
<1>5. Append(written[k], n) \in Seq(Nat) /\ Len(Append(written[k], n)) = n
  BY <1>2, AppendProperties DEF Typed
<1>6. Typed'
  <2>2. wp' = [j \in Kind |-> wp'[j]]
    BY <1>1 DEF Typed
  <2>3. written' \in [Kind -> Seq(Nat)]
    BY <1>1, <1>5 DEF Typed
  <2>4. raced' \in [Kind -> BOOLEAN]
    BY <1>1 DEF Typed
  <2>5. QED
    BY <1>1, <2>2, <2>3, <2>4 DEF Typed, WPc
<1>7. SemHolds'
  <2>1. \A j \in Kind : j # k => wpc'[j] = wpc[j] /\ sem'[j] = sem[j]
    BY <1>3
  <2>2. pc' = "none_store" => k0 # k
    BY <1>1 DEF SemHolds
  <2>3. QED
    BY <1>1, <1>2, <1>4, <2>1, <2>2 DEF SemHolds
<1>8. WriterHolds'
  BY <1>1, <1>3, <1>4 DEF WriterHolds
<1>9. BitHolds'
  BY <1>1, <1>2, <1>3, <1>4 DEF BitHolds
<1>10. LookHolds'
  <2> HIDE DEF n
  <2>1. CASE k0 # k
    BY <1>1, <1>2, <1>3, <2>1 DEF LookHolds, Looking
  <2>2. CASE k0 = k
    <3>1. Looking => seen =< Len(written[k]) /\ seen \in Int
      BY <2>2 DEF LookHolds, Typed
    <3>2. Looking => seen < n
      BY <1>2, <3>1 DEF n
    <3>3. Looking' => Looking /\ seen' = seen
      BY <1>1 DEF Looking
    <3>4. n \in Nat /\ Len(written'[k]) = n
      BY <1>2, <1>4, <1>5 DEF n
    <3>5. QED
      BY <1>2, <1>4, <2>2, <3>1, <3>2, <3>3, <3>4 DEF LookHolds
  <2>3. QED
    BY <2>1, <2>2
<1>11. QED
  BY <1>6, <1>7, <1>8, <1>9, <1>10

LEMMA FlagTestHolds ==
  ASSUME IInv, NEW k \in Kind, NEW l \in Level, FlagTest(k, l)
  PROVE  IInv'
<1> USE DEF IInv
<1>1. /\ wpc[k] = l
      /\ \/ k \in flag[l] /\ wpc' = [wpc EXCEPT ![k] = After(l)] /\ wword' = wword
         \/ wpc' = [wpc EXCEPT ![k] = Store(l)]
            /\ wword' = [wword EXCEPT ![k] = flag[l]]
      /\ UNCHANGED <<wp, rp, sem, flag, written, raced, pc, at, word, seen>>
  BY DEF FlagTest, pools, task, races
<1>2. /\ k0' = k0 /\ k0 \in Kind /\ Unread(k0)' = Unread(k0)
      /\ \A j \in Kind : Unread(j)' = Unread(j)
  BY <1>1, LenFacts DEF k0, Unread
<1>3. /\ l = "group" \/ l = "eqp"
      /\ After(l) \in {"eqp", "event"} /\ Store(l) \in {"group_store", "eqp_store"}
      /\ l = "group" => After(l) = "eqp" /\ Store(l) = "group_store"
      /\ l = "eqp" => After(l) = "event" /\ Store(l) = "eqp_store"
  BY DEF Level, After, Store
<1>4. /\ wpc[k] # "idle" /\ wpc'[k] # "idle"
      /\ \A j \in Kind : j # k => wpc'[j] = wpc[j]
      /\ wpc'[k] = After(l) => k \in flag[l]
      /\ wpc'[k] \in {After(l), Store(l)}
  BY <1>1, <1>3 DEF Typed
<1>5. Typed'
  <2>1. wword' \in [Kind -> SUBSET Kind]
    BY <1>1 DEF Typed
  <2>2. wpc' \in [Kind -> WPc]
    BY <1>1, <1>3 DEF Typed, WPc
  <2>3. QED
    BY <1>1, <2>1, <2>2 DEF Typed
<1>6. SemHolds'
  BY <1>1, <1>2, <1>4 DEF SemHolds
<1>7. WriterHolds'
  <2>1. ASSUME ~raced[k]
        PROVE  /\ wpc'[k] \in {"eqp", "eqp_store", "event"} => k \in flag["group"]
               /\ wpc'[k] = "event" => k \in flag["eqp"]
    BY <1>1, <1>3, <1>4, <2>1 DEF WriterHolds
  <2>2. QED
    BY <1>1, <1>4, <2>1 DEF WriterHolds
<1>8. BitHolds'
  BY <1>1, <1>2, <1>4 DEF BitHolds
<1>9. LookHolds'
  BY <1>1, <1>2, <1>4 DEF LookHolds, Looking
<1>10. QED
  BY <1>5, <1>6, <1>7, <1>8, <1>9

LEMMA FlagSetHolds ==
  ASSUME IInv, NEW k \in Kind, NEW l \in Level, FlagSet(k, l)
  PROVE  IInv'
<1> USE DEF IInv
<1>1. /\ wpc[k] = Store(l)
      /\ flag' = [flag EXCEPT ![l] = wword[k] \cup {k}]
      /\ raced' = [j \in Kind |-> raced[j] \/ j \in flag[l] \ flag'[l]]
      /\ wpc' = [wpc EXCEPT ![k] = After(l)]
      /\ wword' = [wword EXCEPT ![k] = {}]
      /\ UNCHANGED <<wp, rp, sem, written, pc, at, word, seen>>
  BY DEF FlagSet, pools, task
<1>2. /\ k0' = k0 /\ k0 \in Kind /\ Unread(k0)' = Unread(k0)
      /\ \A j \in Kind : Unread(j)' = Unread(j)
  BY <1>1, LenFacts DEF k0, Unread
<1>3. /\ l = "group" \/ l = "eqp"
      /\ l = "group" => After(l) = "eqp" /\ Store(l) = "group_store"
      /\ l = "eqp" => After(l) = "event" /\ Store(l) = "eqp_store"
  BY DEF Level, After, Store
<1>4. /\ wpc[k] # "idle" /\ wpc'[k] # "idle" /\ wpc'[k] = After(l)
      /\ \A j \in Kind : j # k => wpc'[j] = wpc[j]
  BY <1>1, <1>3 DEF Typed
<1>5. flag'[l] = wword[k] \cup {k} /\ \A m \in Level : m # l => flag'[m] = flag[m]
  BY <1>1 DEF Typed
<1>6. \A j \in Kind : ~raced'[j] =>
        ~raced[j] /\ \A m \in Level : j \in flag[m] => j \in flag'[m]
  BY <1>1, <1>5
<1>7. Typed'
  <2>1. raced' \in [Kind -> BOOLEAN]
    BY <1>1 DEF Typed
  <2>2. flag' \in [Level -> SUBSET Kind]
    BY <1>1 DEF Typed
  <2>3. QED
    BY <1>1, <1>3, <2>1, <2>2 DEF Typed, WPc
<1>8. SemHolds'
  BY <1>1, <1>2, <1>4 DEF SemHolds
<1>9. WriterHolds'
  <2>1. ASSUME ~raced'[k]
        PROVE  /\ wpc'[k] \in {"eqp", "eqp_store", "event"} => k \in flag'["group"]
               /\ wpc'[k] = "event" => k \in flag'["eqp"]
    <3>1. l = "eqp" => k \in flag["group"]
      BY <1>1, <1>3, <1>6, <2>1 DEF WriterHolds
    <3>2. k \in flag'[l] /\ "group" \in Level /\ "eqp" \in Level
      BY <1>5 DEF Level
    <3>3. QED
      BY <1>3, <1>4, <1>6, <2>1, <3>1, <3>2
  <2>2. ASSUME NEW j \in Kind, j # k, ~raced'[j]
        PROVE  /\ wpc'[j] \in {"eqp", "eqp_store", "event"} => j \in flag'["group"]
               /\ wpc'[j] = "event" => j \in flag'["eqp"]
    <3>1. "group" \in Level /\ "eqp" \in Level
      BY DEF Level
    <3>2. QED
      BY <1>4, <1>6, <2>2, <3>1 DEF WriterHolds
  <2>3. QED
    BY <2>1, <2>2 DEF WriterHolds
<1>10. BitHolds'
  BY <1>1, <1>2, <1>4, <1>6 DEF BitHolds
<1>11. LookHolds'
  BY <1>1, <1>2, <1>4, <1>6, LenFacts DEF LookHolds, Looking
<1>12. QED
  BY <1>7, <1>8, <1>9, <1>10, <1>11

LEMMA EvSendHolds ==
  ASSUME IInv, NEW k \in Kind, EvSend(k)
  PROVE  IInv'
<1> USE DEF IInv
<1>1. /\ wpc[k] = "event"
      /\ sem' = [sem EXCEPT ![k] = "free"]
      /\ wpc' = [wpc EXCEPT ![k] = "idle"]
      /\ UNCHANGED <<wp, rp, flag, written, raced, wword, pc, at, word, seen>>
  BY DEF EvSend, task, races
<1>2. /\ k0' = k0 /\ k0 \in Kind /\ Unread(k0)' = Unread(k0)
      /\ \A j \in Kind : Unread(j)' = Unread(j)
  BY <1>1, LenFacts DEF k0, Unread
<1>3. Typed'
  BY <1>1 DEF Typed, WPc
<1>4. /\ wpc'[k] = "idle" /\ sem'[k] = "free" /\ sem[k] = "writer"
      /\ \A j \in Kind : j # k => wpc'[j] = wpc[j] /\ sem'[j] = sem[j]
  BY <1>1 DEF Typed, SemHolds
<1>5. SemHolds'
  <2>1. pc' = "none_store" => k0 # k
    BY <1>1, <1>4 DEF SemHolds
  <2>2. QED
    BY <1>1, <1>2, <1>4, <2>1 DEF SemHolds
<1>6. WriterHolds'
  BY <1>1, <1>4 DEF WriterHolds
<1>7. ~raced[k] => \A l \in Level : k \in flag[l]
  BY <1>1 DEF WriterHolds, Level
<1>8. BitHolds'
  BY <1>1, <1>2, <1>4, <1>7 DEF BitHolds
<1>9. LookHolds'
  <2>1. k0 = k => (Looking => seen < Len(written[k0]))
    BY <1>1 DEF LookHolds
  <2>2. seen \in Int /\ Len(written[k0]) \in Nat
    BY LenFacts DEF Typed
  <2>3. CASE k0 = k
    <3> SUFFICES ASSUME Looking PROVE LookHolds'
      BY <1>1 DEF LookHolds, Looking
    <3>1. seen < Len(written[k0])
      BY <2>1, <2>3
    <3>2. seen =< Len(written[k0]) /\ seen # Len(written[k0])
      BY <2>2, <3>1
    <3>3. QED
      BY <1>1, <1>2, <3>1, <3>2 DEF LookHolds
  <2>4. CASE k0 # k
    BY <1>1, <1>2, <1>4, <2>4 DEF LookHolds, Looking
  <2>5. QED
    BY <2>3, <2>4
<1>10. QED
  BY <1>3, <1>5, <1>6, <1>8, <1>9

-------------------------------------------------------------------------------
(* The task.                                                               *)

\* A step that leaves indices, flags and writers alone, and goes on to a place
\* where nothing is copied or about to be cleared.
LEMMA Kept ==
  ASSUME IInv, UNCHANGED <<wp, rp, sem, flag, wpc, wword, word, written, raced, seen>>,
         \/ pc' = pc /\ at' = at
         \/ /\ pc' \in Pc \ {"none_store", "store", "group_store", "advance"}
            /\ at' \in 1 .. Len(Order)
  PROVE  IInv'
<1> USE DEF IInv
<1>1. \A k \in Kind : Unread(k)' = Unread(k)
  BY DEF Unread
<1>2. CASE pc' = pc /\ at' = at
  <2>1. k0' = k0 /\ Unread(k0)' = Unread(k0)
    BY <1>2 DEF k0, Unread
  <2>2. QED
    BY <1>1, <1>2, <2>1
       DEF Typed, SemHolds, WriterHolds, BitHolds, LookHolds, Looking
<1>3. CASE /\ pc' \in Pc \ {"none_store", "store", "group_store", "advance"}
           /\ at' \in 1 .. Len(Order)
  <2>1. ~Looking' /\ pc' # "none_store" /\ pc' # "advance"
    BY <1>3 DEF Looking
  <2>2. Typed'
    BY <1>3 DEF Typed
  <2>3. SemHolds' /\ WriterHolds' /\ LookHolds'
    BY <2>1 DEF SemHolds, WriterHolds, LookHolds
  <2>4. BitHolds'
    BY <1>1, <2>1 DEF BitHolds
  <2>5. QED
    BY <2>2, <2>3, <2>4
<1>4. QED
  BY <1>2, <1>3

LEMMA OnwardFacts ==
  ASSUME Typed, Onward(at)
  PROVE  /\ pc' \in Pc \ {"none_store", "store", "group_store", "advance"}
         /\ at' \in 1 .. Len(Order)
<1>1. CASE at < Len(Order)
  <2>1. at + 1 \in 1 .. Len(Order)
    BY <1>1, KindFacts DEF Typed
  <2>2. QED
    BY <1>1, <2>1 DEF Onward, Pc
<1>2. CASE ~(at < Len(Order))
  <2>1. 1 \in 1 .. Len(Order)
    BY KindFacts
  <2>2. QED
    BY <1>2, <2>1 DEF Onward, Pc
<1>3. QED
  BY <1>1, <1>2

\* The steps that only read.
LEMMA QuietHolds ==
  ASSUME IInv,
         Tick \/ Open \/ Receive \/ Clear \/ TestGroup \/ TestEqp \/ Refused
         \/ Retest \/ TimeOut
  PROVE  IInv'
<1> USE DEF IInv
<1>1. UNCHANGED <<wp, rp, sem, flag, wpc, wword, word, written, raced, seen>>
  BY DEF Tick, Open, Receive, Clear, TestGroup, TestEqp, Refused, Retest, TimeOut,
         pools, writer, task, races, Onward, Unwind
<1>2. \/ pc' = pc /\ at' = at
      \/ /\ pc' \in Pc \ {"none_store", "store", "group_store", "advance"}
         /\ at' \in 1 .. Len(Order)
  <2>1. CASE Tick \/ Open
    BY <2>1 DEF Tick, Open, task
  <2>2. CASE Receive
    BY <2>2 DEF Receive, Typed, Pc
  <2>3. CASE Clear
    BY <2>3, KindFacts DEF Clear, Typed, Pc
  <2>4. CASE TestGroup
    <3>1. CASE Onward(at)
      BY <3>1, OnwardFacts
    <3>2. CASE pc' = "eqp" /\ at' = at
      BY <3>2 DEF Typed, Pc
    <3>3. QED
      BY <2>4, <3>1, <3>2 DEF TestGroup
  <2>5. CASE TestEqp
    BY <2>5 DEF TestEqp, Typed, Pc
  <2>6. CASE Refused
    BY <2>6 DEF Refused, Unwind, Typed, Pc
  <2>7. CASE Retest
    BY <2>7 DEF Retest, Unwind, Typed, Pc
  <2>8. CASE TimeOut
    BY <2>8 DEF TimeOut, Typed, Pc
  <2>9. QED
    BY <2>1, <2>2, <2>3, <2>4, <2>5, <2>6, <2>7, <2>8
<1>3. QED
  BY <1>1, <1>2, Kept

LEMMA ReadSomeHolds ==
  ASSUME IInv, ReadSome
  PROVE  IInv'
<1> USE DEF IInv
<1>1. /\ sem[k0] = "free" /\ Unread(k0) > 0 /\ pc' = "advance"
      /\ UNCHANGED <<wp, rp, sem, flag, wpc, wword, written, raced, at, word, seen>>
  BY DEF ReadSome, pools, writer, races
<1>2. /\ k0' = k0 /\ k0 \in Kind
      /\ \A k \in Kind : Unread(k)' = Unread(k)
  BY <1>1, LenFacts DEF k0, Unread
<1>3. Typed' /\ SemHolds' /\ WriterHolds' /\ LookHolds'
  BY <1>1 DEF Typed, SemHolds, WriterHolds, LookHolds, Looking, Pc
<1>4. BitHolds'
  BY <1>1, <1>2 DEF BitHolds
<1>5. QED
  BY <1>3, <1>4

LEMMA AdvanceHolds ==
  ASSUME IInv, Advance
  PROVE  IInv'
<1> USE DEF IInv
<1>1. /\ pc = "advance" /\ pc' = "check"
      /\ rp' = [rp EXCEPT ![k0] = (@ + Len(copy)) % Size]
      /\ UNCHANGED <<wp, sem, flag, wpc, wword, written, raced, at, word, seen>>
  BY DEF Advance, writer, races
<1>2. /\ k0' = k0 /\ k0 \in Kind
      /\ \A k \in Kind : k # k0 => Unread(k)' = Unread(k)
  BY <1>1, LenFacts DEF k0, Unread, Typed
<1>3. Typed'
  BY <1>1 DEF Typed, Pc
<1>4. SemHolds' /\ WriterHolds' /\ LookHolds'
  BY <1>1 DEF SemHolds, WriterHolds, LookHolds, Looking
<1>5. BitHolds'
  BY <1>1, <1>2 DEF BitHolds
<1>6. QED
  BY <1>3, <1>4, <1>5

LEMMA Arithmetic ==
  \A n \in Nat : /\ n - 0 = n /\ n \in Int /\ n - 1 \in Int
                 /\ n =< n /\ n - 1 =< n /\ n - 1 < n
OBVIOUS

LEMMA Between ==
  \A n \in Nat, m \in Int : m =< n /\ ~(n > m) => m = n /\ ~(m < n)
OBVIOUS

LEMMA NoneUnread == ~(0 > 0)
OBVIOUS

\* The changes whose writer is done are all changes if no writer is at work.
LEMMA LookStepHolds ==
  ASSUME IInv, NEW l \in Level, Look(l), at' = at,
         pc' \in {"none_store", "store", "group_store"},
         UNCHANGED <<wp, rp, flag, wpc, wword, written, raced>>,
         wpc[k0] = "idle" /\ ~raced[k0] => ~(Unread(k0) > 0),
         \/ sem' = sem /\ pc' # "none_store"
         \/ sem[k0] = "free" /\ sem' = [sem EXCEPT ![k0] = "task"]
  PROVE  IInv'
<1> USE DEF IInv
<1>1. /\ k0' = k0 /\ k0 \in Kind /\ Unread(k0)' = Unread(k0)
      /\ \A k \in Kind : Unread(k)' = Unread(k)
  BY LenFacts DEF k0, Unread
<1> DEFINE n == Len(written[k0])
<1>2. /\ n \in Nat
      /\ wpc[k0] = "idle" => seen' = n
      /\ wpc[k0] # "idle" => seen' = n - 1
      /\ word' = flag[l]
  <2>1. n \in Nat
    BY LenFacts
  <2>2. seen' = n - (IF wpc[k0] = "idle" THEN 0 ELSE 1) /\ word' = flag[l]
    BY DEF Look, Finished
  <2> HIDE DEF n
  <2>3. CASE wpc[k0] = "idle"
    BY <2>1, <2>2, <2>3, Arithmetic, Zenon
  <2>4. CASE wpc[k0] # "idle"
    BY <2>1, <2>2, <2>4, Zenon
  <2>5. QED
    BY <2>1, <2>2, <2>3, <2>4
<1>3. /\ pc' \in Pc /\ pc' # "advance" /\ Looking'
      /\ word' \subseteq Kind
      /\ sem' \in [Kind -> {"free", "writer", "task"}]
  BY <1>2 DEF Typed, Pc, Looking
<1>4. seen' \in Int
  <2> HIDE DEF n
  <2>1. QED
    BY <1>2, Arithmetic, Zenon
<1>5. SemHolds'
  BY <1>1 DEF SemHolds, Typed
<1>6. WriterHolds'
  BY DEF WriterHolds
<1>7. BitHolds'
  BY <1>1, <1>3 DEF BitHolds
<1>8. LookHolds'
  <2>1. /\ seen' =< n
        /\ wpc[k0] # "idle" => seen' < n
    <3> HIDE DEF n
    <3>1. QED
      BY <1>2, Arithmetic, Zenon
  <2>2. Len(written'[k0']) = n
    BY <1>1
  <2> HIDE DEF n
  <2>3. QED
    BY <1>1, <2>1, <2>2 DEF LookHolds
<1>9. Typed'
  BY <1>3, <1>4 DEF Typed
<1>10. QED
  BY <1>5, <1>6, <1>7, <1>8, <1>9

\* The task keeps the semaphore as it is, or gives it back.
GivesBack ==
  \/ sem' = sem
  \/ sem[k0] = "task" /\ sem' = [sem EXCEPT ![k0] = "free"]

\* A bit is cleared: if that was right there is nothing unread, else the race
\* is recorded.
LEMMA ClearStepHolds ==
  ASSUME IInv, NEW l \in Level, ClearBit(l), Looking,
         pc' \in Pc \ {"none_store", "store", "group_store", "advance"},
         at' \in 1 .. Len(Order),
         UNCHANGED <<wp, rp, wpc, wword, written>>,
         GivesBack
  PROVE  IInv'
<1> USE DEF IInv
<1>1. k0 \in Kind /\ \A k \in Kind : Unread(k)' = Unread(k)
  BY LenFacts DEF Unread
<1>2. /\ flag' = [flag EXCEPT ![l] = word \ {k0}]
      /\ raced' = [j \in Kind |-> \/ raced[j]
                                  \/ IF j = k0 THEN Len(written[j]) > seen
                                     ELSE j \in flag[l] \ word]
      /\ word' = {} /\ seen' = 0
  BY DEF ClearBit
<1>3. \A j \in Kind : j # k0 /\ ~raced'[j] =>
        ~raced[j] /\ \A m \in Level : j \in flag[m] => j \in flag'[m]
  BY <1>2 DEF Typed
<1>4. ~raced'[k0] => wpc[k0] = "idle" /\ ~(Unread(k0) > 0)
  <2> SUFFICES ASSUME ~raced'[k0] PROVE wpc[k0] = "idle" /\ ~(Unread(k0) > 0)
    OBVIOUS
  <2>1. ~raced[k0] /\ ~(Len(written[k0]) > seen)
    BY <1>1, <1>2
  <2>2. seen =< Len(written[k0]) /\ seen \in Int /\ Len(written[k0]) \in Nat
    BY LenFacts DEF LookHolds, Typed
  <2>3. seen = Len(written[k0]) /\ ~(seen < Len(written[k0]))
    BY <2>1, <2>2, Between, Zenon
  <2>4. QED
    BY <2>1, <2>3 DEF LookHolds
<1>5. pc' # "none_store" /\ pc' # "advance" /\ ~Looking'
  BY DEF Looking
<1>6. Typed'
  <2>1. raced' \in [Kind -> BOOLEAN]
    <3>1. \A j \in Kind : (\/ raced[j]
                           \/ IF j = k0 THEN Len(written[j]) > seen
                              ELSE j \in flag[l] \ word) \in BOOLEAN
      OBVIOUS
    <3>2. QED
      BY <1>2, <3>1, Zenon
  <2>2. flag' \in [Level -> SUBSET Kind]
    BY <1>2 DEF Typed
  <2>3. sem' \in [Kind -> {"free", "writer", "task"}]
    BY DEF Typed, GivesBack
  <2>4. pc' \in Pc /\ word' \subseteq Kind /\ seen' \in Int
    BY <1>2
  <2>5. QED
    BY <1>2, <2>1, <2>2, <2>3, <2>4 DEF Typed
<1>7. SemHolds'
  BY <1>1, <1>5 DEF SemHolds, Typed, GivesBack
<1>8. WriterHolds'
  <2>1. "group" \in Level /\ "eqp" \in Level
    BY DEF Level
  <2>2. \A k \in Kind : k # k0 /\ ~raced'[k] =>
          /\ wpc'[k] \in {"eqp", "eqp_store", "event"} => k \in flag'["group"]
          /\ wpc'[k] = "event" => k \in flag'["eqp"]
    BY <1>3, <2>1 DEF WriterHolds
  <2>3. ~raced'[k0] => wpc'[k0] = "idle"
    BY <1>4
  <2>4. QED
    BY <2>2, <2>3 DEF WriterHolds
<1>9. BitHolds'
  BY <1>1, <1>3, <1>4, <1>5 DEF BitHolds
<1>10. LookHolds'
  BY <1>5 DEF LookHolds
<1>11. QED
  BY <1>6, <1>7, <1>8, <1>9, <1>10

LEMMA SendHolds ==
  ASSUME IInv, ReadNone \/ ClearNone \/ CheckEmpty \/ ClearEqp
  PROVE  IInv'
<1> USE DEF IInv
<1>1. "eqp" \in Level
  BY DEF Level
<1>2. CASE ReadNone
  <2>1. /\ sem[k0] = "free" /\ sem' = [sem EXCEPT ![k0] = "task"]
        /\ Look("eqp") /\ pc' = "none_store" /\ at' = at /\ Unread(k0) = 0
        /\ UNCHANGED <<wp, rp, flag, wpc, wword, written, raced>>
    BY <1>2 DEF ReadNone, writer
  <2>2. QED
    BY <1>1, <2>1, NoneUnread, LookStepHolds
<1>3. CASE ClearNone
  <2>1. /\ Looking /\ sem[k0] = "task" /\ sem' = [sem EXCEPT ![k0] = "free"]
        /\ ClearBit("eqp") /\ at' = at
        /\ UNCHANGED <<wp, rp, wpc, wword, written>>
    BY <1>3 DEF ClearNone, writer, Looking, SemHolds
  <2>2. pc' \in Pc \ {"none_store", "store", "group_store", "advance"}
    BY <1>3 DEF ClearNone, Unwind, Pc
  <2>3. at' \in 1 .. Len(Order)
    BY <2>1 DEF Typed
  <2>4. QED
    BY <1>1, <2>1, <2>2, <2>3, ClearStepHolds DEF GivesBack
<1>4. CASE CheckEmpty
  <2>1. CASE Unread(k0) = 0
    <3>1. /\ Look("eqp") /\ pc' = "store" /\ at' = at
          /\ UNCHANGED <<wp, rp, sem, flag, wpc, wword, written, raced>>
      BY <1>4, <2>1 DEF CheckEmpty, pools, writer
    <3>2. QED
      BY <1>1, <2>1, <3>1, NoneUnread, LookStepHolds
  <2>2. CASE Unread(k0) # 0
    <3>1. /\ pc' = "retest" /\ at' = at
          /\ UNCHANGED <<wp, rp, sem, flag, wpc, wword, word, written, raced, seen>>
      BY <1>4, <2>2 DEF CheckEmpty, pools, writer
    <3>2. /\ pc' \in Pc \ {"none_store", "store", "group_store", "advance"}
          /\ at' \in 1 .. Len(Order)
      BY <3>1 DEF Pc, Typed
    <3>3. QED
      BY <3>1, <3>2, Kept
  <2>3. QED
    BY <2>1, <2>2
<1>5. CASE ClearEqp
  <2>1. /\ Looking /\ sem' = sem /\ ClearBit("eqp") /\ at' = at /\ pc' = "retest"
        /\ UNCHANGED <<wp, rp, wpc, wword, written>>
    BY <1>5 DEF ClearEqp, pools, writer, Looking
  <2>2. /\ pc' \in Pc \ {"none_store", "store", "group_store", "advance"}
        /\ at' \in 1 .. Len(Order)
    BY <2>1 DEF Pc, Typed
  <2>3. QED
    BY <1>1, <2>1, <2>2, ClearStepHolds DEF GivesBack
<1>6. QED
  BY <1>2, <1>3, <1>4, <1>5

LEMMA GroupHolds ==
  ASSUME IInv, TestAgain \/ ClearGroup
  PROVE  IInv'
<1> USE DEF IInv
<1>1. "group" \in Level /\ "eqp" \in Level
  BY DEF Level
<1>2. CASE TestAgain
  <2>1. CASE k0 \in flag["eqp"]
    <3>1. /\ Onward(at)
          /\ UNCHANGED <<wp, rp, sem, flag, wpc, wword, word, written, raced, seen>>
      BY <1>2, <2>1 DEF TestAgain, pools, writer
    <3>2. QED
      BY <3>1, OnwardFacts, Kept
  <2>2. CASE k0 \notin flag["eqp"]
    <3>1. /\ pc = "regroup" /\ Look("group") /\ pc' = "group_store" /\ at' = at
          /\ UNCHANGED <<wp, rp, sem, flag, wpc, wword, written, raced>>
      BY <1>2, <2>2 DEF TestAgain, pools, writer
    <3>2. wpc[k0] = "idle" /\ ~raced[k0] => ~(Unread(k0) > 0)
      BY <1>1, <2>2, LenFacts DEF BitHolds
    <3>3. QED
      BY <1>1, <3>1, <3>2, LookStepHolds
  <2>3. QED
    BY <2>1, <2>2
<1>3. CASE ClearGroup
  <2>1. /\ Looking /\ sem' = sem /\ ClearBit("group") /\ Onward(at)
        /\ UNCHANGED <<wp, rp, wpc, wword, written>>
    BY <1>3 DEF ClearGroup, pools, writer, Looking
  <2>2. QED
    BY <1>1, <2>1, OnwardFacts, ClearStepHolds DEF GivesBack
<1>4. QED
  BY <1>2, <1>3

-------------------------------------------------------------------------------
LEMMA NextHolds == IInv /\ [Next]_vars => IInv'
<1> SUFFICES ASSUME IInv, [Next]_vars PROVE IInv'
  OBVIOUS
<1>1. ASSUME NEW k \in Kind, Write(k) PROVE IInv'
  BY <1>1, WriteSlotHolds, FlagTestHolds, FlagSetHolds, EvSendHolds DEF Write
<1>2. CASE Tick \/ Open \/ Receive \/ Clear \/ TestGroup \/ TestEqp \/ Refused
           \/ Retest \/ TimeOut
  BY <1>2, QuietHolds
<1>3. CASE ReadSome
  BY <1>3, ReadSomeHolds
<1>4. CASE Advance
  BY <1>4, AdvanceHolds
<1>5. CASE ReadNone \/ ClearNone \/ CheckEmpty \/ ClearEqp
  BY <1>5, SendHolds
<1>6. CASE TestAgain \/ ClearGroup
  BY <1>6, GroupHolds
<1>7. CASE UNCHANGED vars
  <2>1. UNCHANGED <<wp, rp, sem, flag, wpc, wword, word, written, raced, seen, pc, at>>
    BY <1>7 DEF vars, pools, writer, task, races
  <2>2. QED
    BY <2>1, Kept
<1>8. QED
  BY <1>1, <1>2, <1>3, <1>4, <1>5, <1>6, <1>7 DEF Next, Task, Urgency, Send

LEMMA Invariance == Spec => []IInv
BY InitHolds, NextHolds, PTL DEF Spec

\* A change that is unread has its bit set for the group and the equipment when
\* its writer is done, unless the bit was lost between the load of a word by
\* one task and its store (writeFlag, ClearFlag, DoUrgency).
THEOREM ChangesAnnounced == Spec => []Announced
<1>1. IInv => Announced
  BY DEF IInv, BitHolds, Announced
<1>2. QED
  BY <1>1, Invariance, PTL

\* One task at a time uses a pool: a writer that has begun has its semaphore.
THEOREM PoolGuarded == Spec => [](\A k \in Kind : wpc[k] # "idle" <=> sem[k] = "writer")
<1>1. IInv => \A k \in Kind : wpc[k] # "idle" <=> sem[k] = "writer"
  BY DEF IInv, SemHolds
<1>2. QED
  BY <1>1, Invariance, PTL

-------------------------------------------------------------------------------
(* What is sent: the pool, the buffer and the sequence of changes.         *)

Shaped ==
  /\ wp \in [Kind -> Slot] /\ rp \in [Kind -> Slot]
  /\ pool \in [Kind -> [Slot -> Nat]]
  /\ written \in [Kind -> Seq(Nat)] /\ sent \in [Kind -> Seq(Nat)]
  /\ copy \in Seq(Nat) /\ frame \in Seq(Nat)
  /\ nested \in Nat /\ empty \in [Kind -> Nat] /\ lapped \in [Kind -> BOOLEAN]
  /\ at \in 1 .. Len(Order)

\* The changes written, and those of them that are not in the pool any more.
Number(k) == Len(written[k])
Read(k)   == Number(k) - Unread(k)

\* Changes are numbered as they are written, and the slots behind the write
\* index hold the newest of them.
PoolHolds ==
  \A k \in Kind :
    /\ \A i \in 1 .. Number(k) : written[k][i] = i
    /\ Unread(k) =< Number(k)
    /\ \A d \in Slot : d < Number(k) =>
         pool[k][(wp[k] - 1 - d) % Size] = Number(k) - d

\* Only SendDCOS leaves a frame in the buffer, until it returns.
FrameHolds ==
  /\ nested = 0 <=> frame = << >>
  /\ frame # << >> =>
       /\ k0 = "dcos"
       /\ pc \in {"read", "none_store", "advance", "check", "store", "retest"}

\* What has been sent or is in the buffer.
Sends(k) == sent[k] \o (IF k = k0 THEN frame ELSE << >>)

\* Between the copy and the freeing: freeing does not bring back what was
\* copied, however many changes are written meanwhile.
Newest == copy[Len(copy)]
NextRead(k) == (rp[k] + Len(copy)) % Size
CopyHolds ==
  pc = "advance" =>
    /\ Len(copy) \in 1 .. Size - 1
    /\ Number(k0) - ((wp[k0] - NextRead(k0)) % Size) >= Newest
    /\ ~lapped[k0] => /\ Len(copy) =< Unread(k0)
                      /\ Newest = Read(k0) + Len(copy)

\* The last change that may have been sent.
Reach(k) == IF pc = "advance" /\ k = k0 THEN Newest ELSE Read(k)

Ascends(s, top) ==
  /\ \A i, j \in 1 .. Len(s) : i < j => s[i] < s[j]
  /\ \A i \in 1 .. Len(s) : s[i] =< top

\* What has been sent ascends; it is all changes up to the last one, unless the
\* pool was lapped or a frame was lost.
SentHolds ==
  \A k \in Kind :
    /\ Ascends(Sends(k), Reach(k))
    /\ ~lapped[k] /\ ~FrameLost(k) =>
         /\ Len(Sends(k)) = Reach(k)
         /\ \A i \in 1 .. Len(Sends(k)) : Sends(k)[i] = i

SendInv == Shaped /\ PoolHolds /\ FrameHolds /\ CopyHolds /\ SentHolds

\* Indices of a pool, within one turn of it.
LEMMA Turn ==
  ASSUME NEW x \in Int, -Size =< x, x < 2 * Size
  PROVE  /\ x % Size \in Slot
         /\ x % Size = IF x < 0 THEN x + Size ELSE IF x < Size THEN x ELSE x - Size
<1> DEFINE q == x \div Size
           m == x % Size
<1>1. Size \in Nat /\ Size > 1
  BY PoolAssumption
<1>2. x = q * Size + m /\ q \in Int /\ m \in 0 .. Size - 1
  BY <1>1, SMT
<1> HIDE DEF q, m
<1>3. q \in {-1, 0, 1}
  <2>1. q >= 2 => q * Size >= 2 * Size
    BY <1>1, <1>2, SMT
  <2>2. q =< -2 => q * Size =< -2 * Size
    BY <1>1, <1>2, SMT
  <2>3. m < Size /\ m >= 0 /\ m \in Int
    BY <1>1, <1>2
  <2>4. QED
    BY <1>1, <1>2, <2>1, <2>2, <2>3
<1>4. m = IF x < 0 THEN x + Size ELSE IF x < Size THEN x ELSE x - Size
  <2>1. CASE q = -1
    BY <1>1, <1>2, <2>1
  <2>2. CASE q = 0
    BY <1>1, <1>2, <2>2
  <2>3. CASE q = 1
    BY <1>1, <1>2, <2>3
  <2>4. QED
    BY <1>3, <2>1, <2>2, <2>3
<1>5. QED
  BY <1>2, <1>4 DEF m, Slot

LEMMA UnreadFacts ==
  ASSUME Shaped, NEW k \in Kind
  PROVE  /\ wp[k] \in Slot /\ rp[k] \in Slot /\ Unread(k) \in Slot
         /\ Unread(k) = IF wp[k] >= rp[k] THEN wp[k] - rp[k] ELSE wp[k] - rp[k] + Size
         /\ Number(k) \in Nat /\ Read(k) \in Int
         /\ Size \in Nat /\ Size > 1
<1>1. wp[k] \in Slot /\ rp[k] \in Slot /\ Size \in Nat /\ Size > 1
  BY PoolAssumption DEF Shaped
<1>2. wp[k] - rp[k] \in Int /\ -Size =< wp[k] - rp[k] /\ wp[k] - rp[k] < Size
  BY <1>1 DEF Slot
<1>3. /\ Unread(k) \in Slot
      /\ Unread(k) = IF wp[k] >= rp[k] THEN wp[k] - rp[k] ELSE wp[k] - rp[k] + Size
  BY <1>1, <1>2, Turn DEF Unread, Slot
<1>4. written[k] \in Seq(Nat)
  BY DEF Shaped
<1>5. Number(k) \in Nat
  BY <1>4, LenProperties DEF Number
<1>6. QED
  BY <1>1, <1>3, <1>5 DEF Read, Slot

\* Two sequences that ascend, the second above the first.
LEMMA AscendsOn ==
  ASSUME NEW s \in Seq(Nat), NEW t \in Seq(Nat), NEW b \in Int, NEW c \in Int,
         Ascends(s, b), Ascends(t, c), b =< c, \A i \in 1 .. Len(t) : b < t[i]
  PROVE  Ascends(s \o t, c)
<1>1. Len(s) \in Nat /\ Len(t) \in Nat
  BY LenProperties
<1>2. /\ Len(s \o t) = Len(s) + Len(t)
      /\ \A i \in 1 .. Len(s) + Len(t) :
           (s \o t)[i] = IF i <= Len(s) THEN s[i] ELSE t[i - Len(s)]
  BY ConcatProperties
<1>3. /\ \A i \in 1 .. Len(s) : s[i] \in Nat
      /\ \A i \in 1 .. Len(t) : t[i] \in Nat
  BY ElementOfSeq
<1>4. ASSUME NEW i \in 1 .. Len(s \o t)
      PROVE  (s \o t)[i] =< c
  <2>1. CASE i <= Len(s)
    BY <1>1, <1>2, <1>3, <2>1 DEF Ascends
  <2>2. CASE i > Len(s)
    BY <1>1, <1>2, <1>3, <2>2 DEF Ascends
  <2>3. QED
    BY <1>1, <1>2, <2>1, <2>2
<1>5. ASSUME NEW i \in 1 .. Len(s \o t), NEW j \in 1 .. Len(s \o t), i < j
      PROVE  (s \o t)[i] < (s \o t)[j]
  <2>1. CASE j <= Len(s)
    BY <1>1, <1>2, <1>5, <2>1 DEF Ascends
  <2>2. CASE i <= Len(s) /\ j > Len(s)
    <3>1. j - Len(s) \in 1 .. Len(t) /\ i \in 1 .. Len(s)
      BY <1>1, <1>2, <2>2
    <3>2. s[i] =< b /\ b < t[j - Len(s)]
      BY <3>1 DEF Ascends
    <3>3. s[i] < t[j - Len(s)]
      BY <1>3, <3>1, <3>2
    <3>4. QED
      BY <1>1, <1>2, <2>2, <3>3
  <2>3. CASE i > Len(s)
    <3>1. j - Len(s) \in 1 .. Len(t) /\ i - Len(s) \in 1 .. Len(t) /\ i - Len(s) < j - Len(s)
      BY <1>1, <1>2, <1>5, <2>3
    <3>2. t[i - Len(s)] < t[j - Len(s)]
      BY <3>1 DEF Ascends
    <3>3. QED
      BY <1>1, <1>2, <1>5, <2>3, <3>2
  <2>4. QED
    BY <1>1, <1>2, <2>1, <2>2, <2>3
<1>6. QED
  BY <1>4, <1>5 DEF Ascends

LEMMA AscendsBefore ==
  ASSUME NEW s \in Seq(Nat), NEW t \in Seq(Nat), NEW b, Ascends(s \o t, b)
  PROVE  Ascends(s, b)
<1>1. Len(s) \in Nat /\ Len(t) \in Nat
  BY LenProperties
<1>2. /\ Len(s \o t) = Len(s) + Len(t)
      /\ \A i \in 1 .. Len(s) + Len(t) :
           (s \o t)[i] = IF i <= Len(s) THEN s[i] ELSE t[i - Len(s)]
  BY ConcatProperties
<1>3. \A i \in 1 .. Len(s) : i \in 1 .. Len(s \o t) /\ (s \o t)[i] = s[i]
  BY <1>1, <1>2
<1>4. QED
  BY <1>3 DEF Ascends

LEMMA AscendsHigher ==
  ASSUME NEW s \in Seq(Nat), NEW b \in Int, NEW c \in Int, b =< c, Ascends(s, b)
  PROVE  Ascends(s, c)
<1>1. \A i \in 1 .. Len(s) : s[i] \in Nat
  BY ElementOfSeq
<1>2. QED
  BY <1>1 DEF Ascends

LEMMA SendsFacts ==
  ASSUME Shaped, NEW k \in Kind
  PROVE  /\ Sends(k) \in Seq(Nat) /\ sent[k] \in Seq(Nat) /\ k0 \in Kind
         /\ frame = << >> => Sends(k) = sent[k]
<1>1. sent[k] \in Seq(Nat) /\ frame \in Seq(Nat) /\ << >> \in Seq(Nat) /\ k0 \in Kind
  BY KindFacts DEF Shaped, k0
<1>2. sent[k] \o << >> = sent[k]
  BY <1>1, ConcatEmptySeq
<1>3. sent[k] \o frame \in Seq(Nat)
  BY <1>1, ConcatProperties
<1>4. QED
  BY <1>1, <1>2, <1>3 DEF Sends

LEMMA ReachFacts ==
  ASSUME SendInv, NEW k \in Kind
  PROVE  Reach(k) \in Int
<1>1. Read(k) \in Int
  BY UnreadFacts DEF SendInv
<1>2. pc = "advance" => Newest \in Nat
  <2>1. pc = "advance" => Len(copy) \in 1 .. Len(copy)
    BY PoolAssumption DEF SendInv, CopyHolds
  <2>2. QED
    BY <2>1, ElementOfSeq DEF Newest, SendInv, Shaped
<1>3. QED
  BY <1>1, <1>2 DEF Reach

LEMMA SendInit == Init => SendInv
<1> SUFFICES ASSUME Init PROVE SendInv
  OBVIOUS
<1> USE KindFacts, PoolAssumption DEF Init
<1>1. << >> \in Seq(Nat) /\ Len(<< >>) = 0
  BY EmptySeq
<1>2. Shaped
  BY <1>1 DEF Shaped, Slot
<1>3. \A k \in Kind : Unread(k) = 0 /\ Number(k) = 0 /\ Read(k) = 0
  <2>1. \A k \in Kind : Number(k) = 0 /\ wp[k] = 0 /\ rp[k] = 0
    BY <1>1 DEF Number
  <2>2. QED
    BY <1>2, <2>1, UnreadFacts DEF Read
<1>4. PoolHolds
  BY <1>3 DEF PoolHolds, Slot
<1>5. FrameHolds /\ CopyHolds
  BY DEF FrameHolds, CopyHolds
<1>6. \A k \in Kind : Sends(k) = << >> /\ Reach(k) = 0
  BY <1>2, <1>3, SendsFacts DEF Reach
<1>7. SentHolds
  BY <1>1, <1>6 DEF SentHolds, Ascends
<1>8. QED
  BY <1>2, <1>4, <1>5, <1>7 DEF SendInv

-------------------------------------------------------------------------------
(* Steps that do not touch the pools.                                      *)

\* Neither the pools nor what is sent and in the buffer change.
LEMMA SameSends ==
  ASSUME SendInv, UNCHANGED <<pool, wp, rp, written, lapped>>, Shaped', FrameHolds',
         pc # "advance", pc' # "advance",
         \A k \in Kind : Sends(k)' = Sends(k) /\ (FrameLost(k) => FrameLost(k)')
  PROVE  SendInv'
<1> USE DEF SendInv
<1>1. \A k \in Kind : Unread(k)' = Unread(k) /\ Number(k)' = Number(k)
                      /\ Read(k)' = Read(k)
  BY DEF Unread, Number, Read
<1>2. \A k \in Kind : Reach(k)' = Reach(k)
  BY <1>1 DEF Reach
<1>3. PoolHolds'
  BY <1>1 DEF PoolHolds
<1>4. CopyHolds'
  BY DEF CopyHolds
<1>5. SentHolds'
  <2> SUFFICES ASSUME NEW k \in Kind
               PROVE /\ Ascends(Sends(k)', Reach(k)')
                     /\ ~lapped'[k] /\ ~FrameLost(k)' =>
                          /\ Len(Sends(k)') = Reach(k)'
                          /\ \A i \in 1 .. Len(Sends(k)') : Sends(k)'[i] = i
    BY DEF SentHolds, Ascends
  <2>1. QED
    BY <1>2 DEF SentHolds
<1>6. QED
  BY <1>3, <1>4, <1>5

LEMMA NothingMoves ==
  ASSUME SendInv,
         UNCHANGED <<pool, wp, rp, written, lapped, sent, frame, nested, empty, copy,
                     at, pc>>
  PROVE  SendInv'
<1> USE DEF SendInv
<1>1. k0' = k0 /\ Newest' = Newest /\ k0 \in Kind
  BY SendsFacts, KindFacts DEF k0, Newest
<1>2. \A k \in Kind : /\ Unread(k)' = Unread(k) /\ Number(k)' = Number(k)
                      /\ Read(k)' = Read(k)
                      /\ Sends(k)' = Sends(k) /\ FrameLost(k)' = FrameLost(k)
  BY <1>1 DEF Unread, Number, Read, Sends, FrameLost
<1>3. \A k \in Kind : Reach(k)' = Reach(k) /\ NextRead(k)' = NextRead(k)
  BY <1>1, <1>2 DEF Reach, NextRead
<1>4. Shaped' /\ FrameHolds'
  BY <1>1 DEF Shaped, FrameHolds
<1>5. PoolHolds'
  BY <1>2 DEF PoolHolds
<1>6. CopyHolds'
  BY <1>1, <1>2, <1>3 DEF CopyHolds
<1>7. SentHolds'
  BY <1>2, <1>3 DEF SentHolds, Ascends
<1>8. QED
  BY <1>4, <1>5, <1>6, <1>7

\* The task goes on with the buffer as it is.
LEMMA MovesOn ==
  ASSUME SendInv,
         UNCHANGED <<pool, wp, rp, written, lapped, sent, frame, nested, empty, copy>>,
         pc # "advance", pc' # "advance",
         \/ /\ at' = at
            /\ \/ frame = << >>
               \/ pc' \in {"read", "none_store", "check", "store", "retest"}
         \/ at' \in 1 .. Len(Order) /\ frame = << >>
  PROVE  SendInv'
<1>1. Shaped'
  BY DEF SendInv, Shaped
<1>2. FrameHolds'
  BY DEF SendInv, FrameHolds, k0
<1>3. \A k \in Kind : Sends(k)' = Sends(k) /\ FrameLost(k)' = FrameLost(k)
  <2>1. CASE at' = at
    BY <2>1 DEF Sends, FrameLost, k0
  <2>2. CASE frame = << >>
    BY <2>2 DEF Sends, FrameLost
  <2>3. QED
    BY <2>1, <2>2
<1>4. QED
  BY <1>1, <1>2, <1>3, SameSends

\* The buffer is sent: it was counted with what was sent.
LEMMA Unwinds ==
  ASSUME SendInv, Unwind, UNCHANGED <<pool, wp, rp, written, lapped, copy, at>>,
         pc # "advance"
  PROVE  SendInv'
<1> USE DEF SendInv
<1>1. k0' = k0 /\ k0 \in Kind
  BY SendsFacts, KindFacts DEF k0
<1>2. /\ sent' = [sent EXCEPT ![k0] = @ \o frame]
      /\ empty' = [empty EXCEPT ![k0] = @ + IF nested > 1 THEN nested - 1 ELSE 0]
      /\ frame' = << >> /\ nested' = 0 /\ pc' = "regroup"
  BY DEF Unwind
<1>3. sent[k0] \o frame \in Seq(Nat)
  BY <1>1, ConcatProperties DEF Shaped
<1>4. Shaped'
  <2>1. sent' \in [Kind -> Seq(Nat)] /\ << >> \in Seq(Nat)
    BY <1>1, <1>2, <1>3 DEF Shaped
  <2>2. (IF nested > 1 THEN nested - 1 ELSE 0) \in Nat
    BY DEF Shaped
  <2>3. empty' \in [Kind -> Nat]
    BY <1>1, <1>2, <2>2 DEF Shaped
  <2>4. QED
    BY <1>2, <2>1, <2>3 DEF Shaped
<1>5. FrameHolds'
  BY <1>2 DEF FrameHolds
<1>6. ASSUME NEW k \in Kind PROVE Sends(k)' = Sends(k)
  <2>1. Sends(k)' = sent'[k]
    <3>1. sent'[k] \in Seq(Nat)
      BY <1>4 DEF Shaped
    <3>2. sent'[k] \o << >> = sent'[k]
      BY <3>1, ConcatEmptySeq
    <3>3. QED
      BY <1>2, <3>2 DEF Sends
  <2>2. CASE k = k0
    BY <1>1, <1>2, <2>1, <2>2 DEF Sends, Shaped
  <2>3. CASE k # k0
    <3>1. sent'[k] = sent[k] /\ sent[k] \in Seq(Nat)
      BY <1>2, <2>3 DEF Shaped
    <3>2. sent[k] \o << >> = sent[k]
      BY <3>1, ConcatEmptySeq
    <3>3. QED
      BY <2>1, <2>3, <3>1, <3>2 DEF Sends
  <2>4. QED
    BY <2>2, <2>3
<1>7. ASSUME NEW k \in Kind, FrameLost(k) PROVE FrameLost(k)'
  <2>1. k = "dcos" /\ (empty[k] > 0 \/ nested > 1) /\ empty[k] \in Nat
    BY <1>7 DEF FrameLost, Shaped
  <2>2. nested > 1 => k0 = k
    <3>1. nested > 1 => nested # 0
      OBVIOUS
    <3>2. QED
      BY <2>1, <3>1 DEF FrameHolds
  <2>3. QED
    BY <1>1, <1>2, <2>1, <2>2 DEF FrameLost, Shaped
<1>8. QED
  BY <1>2, <1>4, <1>5, <1>6, <1>7, SameSends

-------------------------------------------------------------------------------
(* A change is written.                                                    *)

LEMMA WriteNumbers ==
  ASSUME SendInv, NEW k \in Kind, WriteSlot(k)
  PROVE  /\ Number(k)' = Number(k) + 1
         /\ wp'[k] \in Slot /\ wp'[k] = IF wp[k] + 1 < Size THEN wp[k] + 1 ELSE 0
         /\ Unread(k)' = IF Unread(k) = Size - 1 THEN 0 ELSE Unread(k) + 1
         /\ \A i \in 1 .. Number(k)' : written'[k][i] = i
         /\ Shaped'
         /\ \A j \in Kind \ {k} : /\ Number(j)' = Number(j) /\ Unread(j)' = Unread(j)
                                  /\ written'[j] = written[j] /\ wp'[j] = wp[j]
                                  /\ pool'[j] = pool[j] /\ lapped'[j] = lapped[j]
         /\ pool'[k] = [pool[k] EXCEPT ![wp[k]] = Number(k) + 1]
         /\ lapped'[k] = (lapped[k] \/ Unread(k) = Size - 1)
<1> USE DEF SendInv
<1> DEFINE n == Number(k) + 1
<1>1. /\ pool' = [pool EXCEPT ![k][wp[k]] = n]
      /\ wp' = [wp EXCEPT ![k] = (@ + 1) % Size]
      /\ written' = [written EXCEPT ![k] = Append(@, n)]
      /\ lapped' = [lapped EXCEPT ![k] = @ \/ Unread(k) = Size - 1]
      /\ UNCHANGED <<rp, sent, copy, frame, nested, empty, at>>
  BY DEF WriteSlot, Number, task, output
<1>2. /\ wp[k] \in Slot /\ rp[k] \in Slot /\ Number(k) \in Nat /\ n \in Nat
      /\ Size \in Nat /\ Size > 1 /\ written[k] \in Seq(Nat)
  BY UnreadFacts DEF Shaped
<1>3. (wp[k] + 1) % Size \in Slot
      /\ (wp[k] + 1) % Size = IF wp[k] + 1 < Size THEN wp[k] + 1 ELSE 0
  <2> DEFINE p == wp[k] + 1
  <2>1. /\ p \in Int /\ -Size =< p /\ p < 2 * Size /\ p =< Size /\ 0 =< p
        /\ Size \in Nat /\ Size > 1
    BY <1>2 DEF Slot
  <2> HIDE DEF p
  <2>2. p % Size = IF p < 0 THEN p + Size ELSE IF p < Size THEN p ELSE p - Size
    BY <2>1, Turn
  <2>3. p % Size = IF p < Size THEN p ELSE 0
    BY <2>1, <2>2
  <2>4. p % Size \in Slot
    BY <2>1, <2>3 DEF Slot
  <2>5. QED
    BY <2>3, <2>4 DEF p
<1>4. /\ Append(written[k], n) \in Seq(Nat) /\ Len(Append(written[k], n)) = n
      /\ \A i \in 1 .. Number(k) : Append(written[k], n)[i] = written[k][i]
      /\ Append(written[k], n)[n] = n
  BY <1>2, AppendProperties DEF Number
<1>5. /\ wp'[k] = (wp[k] + 1) % Size /\ written'[k] = Append(written[k], n)
      /\ lapped'[k] = (lapped[k] \/ Unread(k) = Size - 1)
      /\ pool'[k] = [pool[k] EXCEPT ![wp[k]] = n]
  BY <1>1 DEF Shaped
<1>6. Number(k)' = n
  BY <1>4, <1>5 DEF Number
<1>7. \A i \in 1 .. n : written'[k][i] = i
  <2>1. \A i \in 1 .. Number(k) : written[k][i] = i
    BY DEF PoolHolds
  <2>2. \A i \in 1 .. n : i = n \/ i \in 1 .. Number(k)
    BY <1>2
  <2>3. QED
    BY <1>4, <1>5, <2>1, <2>2
<1>8. \A j \in Kind \ {k} : /\ Number(j)' = Number(j) /\ Unread(j)' = Unread(j)
                            /\ written'[j] = written[j] /\ wp'[j] = wp[j]
                            /\ pool'[j] = pool[j] /\ lapped'[j] = lapped[j]
  BY <1>1 DEF Shaped, Number, Unread
<1>9. Shaped'
  <2>1. wp' \in [Kind -> Slot]
    BY <1>1, <1>3 DEF Shaped
  <2>2. written' \in [Kind -> Seq(Nat)]
    BY <1>1, <1>4 DEF Shaped
  <2>3. pool' \in [Kind -> [Slot -> Nat]]
    BY <1>1, <1>2 DEF Shaped
  <2>4. lapped' \in [Kind -> BOOLEAN]
    BY <1>1 DEF Shaped
  <2>5. QED
    BY <1>1, <2>1, <2>2, <2>3, <2>4 DEF Shaped
<1>10. Unread(k)' = IF Unread(k) = Size - 1 THEN 0 ELSE Unread(k) + 1
  <2>1. Unread(k)' = (((wp[k] + 1) % Size) - rp[k]) % Size
    BY <1>1, <1>5 DEF Unread
  <2> DEFINE w == (wp[k] + 1) % Size
  <2>2. w \in Slot /\ w = IF wp[k] + 1 < Size THEN wp[k] + 1 ELSE 0
    BY <1>3
  <2> HIDE DEF w
  <2>3. w - rp[k] \in Int /\ -Size =< w - rp[k] /\ w - rp[k] < 2 * Size /\ w - rp[k] < Size
    BY <1>2, <2>2 DEF Slot
  <2>4. Unread(k)' = (w - rp[k]) % Size
    BY <2>1 DEF w
  <2>5. Unread(k)' = IF w - rp[k] < 0 THEN w - rp[k] + Size ELSE w - rp[k]
    BY <2>3, <2>4, Turn
  <2>6. Unread(k) = IF wp[k] >= rp[k] THEN wp[k] - rp[k] ELSE wp[k] - rp[k] + Size
    BY UnreadFacts
  <2> DEFINE u == Unread(k)
             v == Unread(k)'
             a == wp[k]
             r == rp[k]
  <2>7. /\ a \in 0 .. Size - 1 /\ r \in 0 .. Size - 1
        /\ u = IF a >= r THEN a - r ELSE a - r + Size
        /\ v = IF w - r < 0 THEN w - r + Size ELSE w - r
        /\ w = IF a + 1 < Size THEN a + 1 ELSE 0
    BY <1>2, <2>2, <2>5, <2>6 DEF Slot
  <2> HIDE DEF u, v, a, r
  <2>8. v = IF u = Size - 1 THEN 0 ELSE u + 1
    BY <1>2, <2>7
  <2>9. QED
    BY <2>8 DEF u, v
<1>11. QED
  BY <1>3, <1>5, <1>6, <1>7, <1>8, <1>9, <1>10

\* The slots behind the write index hold the newest changes.
LEMMA WritePool ==
  ASSUME SendInv, NEW k \in Kind, WriteSlot(k)
  PROVE  PoolHolds'
<1> USE DEF SendInv
<1>1. /\ wp[k] \in Slot /\ Number(k) \in Nat /\ Size \in Nat /\ Size > 1
      /\ Unread(k) \in Slot
  BY UnreadFacts
<1>2. ASSUME NEW d \in Slot, d < Number(k)'
      PROVE  pool'[k][(wp'[k] - 1 - d) % Size] = Number(k)' - d
  <2> DEFINE w == wp'[k]
             x == (w - 1 - d) % Size
  <2>1. w \in Slot /\ w = IF wp[k] + 1 < Size THEN wp[k] + 1 ELSE 0
    BY WriteNumbers
  <2> HIDE DEF w
  <2>2. x \in Slot /\ x = IF w - 1 - d < 0 THEN w - 1 - d + Size ELSE w - 1 - d
    <3>1. w - 1 - d \in Int /\ -Size =< w - 1 - d /\ w - 1 - d < 2 * Size /\ w - 1 - d < Size
      BY <1>1, <1>2, <2>1 DEF Slot
    <3>2. QED
      BY <1>1, <3>1, Turn DEF x
  <2> HIDE DEF x
  <2>3. pool'[k] = [pool[k] EXCEPT ![wp[k]] = Number(k) + 1] /\ Number(k)' = Number(k) + 1
    BY WriteNumbers
  <2>4. pool[k] \in [Slot -> Nat]
    BY DEF Shaped
  <2>5. CASE d = 0
    <3>1. x = wp[k]
      BY <1>1, <2>1, <2>2, <2>5 DEF Slot
    <3>2. pool'[k][x] = Number(k) + 1
      BY <2>2, <2>3, <2>4, <3>1
    <3>3. QED
      BY <1>1, <2>3, <2>5, <3>2 DEF x, w
  <2>6. CASE d # 0
    <3>1. x # wp[k] /\ d - 1 \in Slot /\ d - 1 < Number(k)
      BY <1>1, <1>2, <2>1, <2>2, <2>3, <2>6 DEF Slot
    <3>2. (wp[k] - 1 - (d - 1)) % Size = x
      <4>1. /\ wp[k] - 1 - (d - 1) \in Int /\ -Size =< wp[k] - 1 - (d - 1)
            /\ wp[k] - 1 - (d - 1) < 2 * Size
        BY <1>1, <1>2 DEF Slot
      <4> DEFINE y == (wp[k] - 1 - (d - 1)) % Size
      <4>2. y = IF wp[k] - d < 0 THEN wp[k] - d + Size ELSE wp[k] - d
        BY <1>1, <1>2, <4>1, Turn DEF Slot
      <4> HIDE DEF y
      <4>3. y = x
        BY <1>1, <1>2, <2>1, <2>2, <2>6, <4>2 DEF Slot
      <4>4. QED
        BY <4>3 DEF y
    <3>3. pool[k][x] = Number(k) - (d - 1)
      BY <3>1, <3>2 DEF PoolHolds
    <3>4. pool'[k][x] = Number(k) - (d - 1)
      BY <2>2, <2>3, <2>4, <3>1, <3>3
    <3>5. QED
      BY <1>1, <1>2, <2>3, <3>4 DEF x, w, Slot
  <2>7. QED
    BY <2>5, <2>6
<1>3. \A i \in 1 .. Number(k)' : written'[k][i] = i
  BY WriteNumbers
<1>4. Unread(k)' =< Number(k)'
  <2>1. /\ Unread(k) \in 0 .. Size - 1 /\ Unread(k) =< Number(k)
        /\ Number(k)' = Number(k) + 1
        /\ Unread(k)' = 0 \/ Unread(k)' = Unread(k) + 1
    BY <1>1, WriteNumbers DEF PoolHolds, Slot
  <2>2. QED
    BY <1>1, <2>1
<1>5. ASSUME NEW j \in Kind, j # k
      PROVE  /\ \A i \in 1 .. Number(j)' : written'[j][i] = i
             /\ Unread(j)' =< Number(j)'
             /\ \A d \in Slot : d < Number(j)' =>
                  pool'[j][(wp'[j] - 1 - d) % Size] = Number(j)' - d
  <2>1. /\ Number(j)' = Number(j) /\ Unread(j)' = Unread(j) /\ written'[j] = written[j]
        /\ wp'[j] = wp[j] /\ pool'[j] = pool[j]
    BY <1>5, WriteNumbers
  <2>2. QED
    BY <2>1 DEF PoolHolds
<1>6. QED
  BY <1>2, <1>3, <1>4, <1>5 DEF PoolHolds

LEMMA WriteSends ==
  ASSUME SendInv, NEW k \in Kind, WriteSlot(k)
  PROVE  SendInv'
<1> USE DEF SendInv
<1>1. UNCHANGED <<rp, sent, copy, frame, nested, empty, at, pc>>
  BY DEF WriteSlot, task, output
<1>2. /\ k0' = k0 /\ k0 \in Kind /\ Newest' = Newest
      /\ \A j \in Kind : Sends(j)' = Sends(j) /\ FrameLost(j)' = FrameLost(j)
                         /\ NextRead(j)' = NextRead(j)
  BY <1>1, SendsFacts, KindFacts DEF k0, Newest, Sends, FrameLost, NextRead
<1>3. /\ wp[k] \in Slot /\ rp[k] \in Slot /\ Number(k) \in Nat /\ Size \in Nat /\ Size > 1
      /\ Unread(k) \in Slot /\ Read(k) = Number(k) - Unread(k)
  BY UnreadFacts DEF Read
<1>4. /\ Number(k)' = Number(k) + 1
      /\ Unread(k)' = IF Unread(k) = Size - 1 THEN 0 ELSE Unread(k) + 1
      /\ Read(k)' = Number(k)' - Unread(k)'
  BY WriteNumbers DEF Read
<1>5. /\ Read(k) =< Read(k)' /\ Read(k)' \in Int
      /\ ~lapped'[k] => Read(k)' = Read(k) /\ Unread(k)' = Unread(k) + 1 /\ ~lapped[k]
  <2>1. ~lapped'[k] => ~lapped[k] /\ Unread(k) # Size - 1
    BY WriteNumbers
  <2>2. Unread(k) \in 0 .. Size - 1
    BY <1>3 DEF Slot
  <2> DEFINE n == Number(k)
             u == Unread(k)
             v == Unread(k)'
  <2>3. /\ n \in Nat /\ u \in 0 .. Size - 1 /\ v = IF u = Size - 1 THEN 0 ELSE u + 1
        /\ Read(k) = n - u /\ Read(k)' = n + 1 - v
    BY <1>3, <1>4, <2>2
  <2> HIDE DEF n, u, v
  <2>4. /\ Read(k) =< Read(k)' /\ Read(k)' \in Int
        /\ u # Size - 1 => Read(k)' = Read(k) /\ v = u + 1
    BY <1>3, <2>3
  <2>5. QED
    BY <2>1, <2>4 DEF u, v
<1>6. \A j \in Kind \ {k} : /\ Read(j)' = Read(j) /\ Unread(j)' = Unread(j)
                            /\ lapped'[j] = lapped[j]
                            /\ Number(j)' = Number(j) /\ wp'[j] = wp[j]
  BY WriteNumbers DEF Read
<1>7. Shaped'
  BY WriteNumbers
<1>8. FrameHolds'
  BY <1>1, <1>2 DEF FrameHolds
<1>9. CopyHolds'
  <2> SUFFICES ASSUME pc = "advance" PROVE CopyHolds'
    BY <1>1 DEF CopyHolds
  <2>1. /\ Len(copy) \in 1 .. Size - 1 /\ Newest \in Nat
        /\ Number(k0) - ((wp[k0] - NextRead(k0)) % Size) >= Newest
        /\ ~lapped[k0] => Len(copy) =< Unread(k0) /\ Newest = Read(k0) + Len(copy)
    <3>1. Len(copy) \in 1 .. Size - 1 /\ Len(copy) \in 1 .. Len(copy)
      BY PoolAssumption DEF CopyHolds
    <3>2. QED
      BY <3>1, ElementOfSeq DEF CopyHolds, Newest, Shaped
  <2>2. CASE k0 # k
    BY <1>1, <1>2, <1>6, <2>1, <2>2 DEF CopyHolds
  <2>3. CASE k0 = k
    <3> DEFINE r == NextRead(k)
               u == (wp[k] - r) % Size
               v == (wp'[k] - r) % Size
    <3>1. r \in Slot
      <4>1. rp[k] + Len(copy) \in Int /\ -Size =< rp[k] + Len(copy) /\ rp[k] + Len(copy) < 2 * Size
        BY <1>3, <2>1 DEF Slot
      <4>2. QED
        BY <4>1, Turn DEF NextRead
    <3>2. wp'[k] \in Slot /\ wp'[k] = IF wp[k] + 1 < Size THEN wp[k] + 1 ELSE 0
      BY WriteNumbers
    <3> HIDE DEF r
    <3>3. u \in Slot /\ u = IF wp[k] - r < 0 THEN wp[k] - r + Size ELSE wp[k] - r
      <4>1. wp[k] - r \in Int /\ -Size =< wp[k] - r /\ wp[k] - r < 2 * Size /\ wp[k] - r < Size
        BY <1>3, <3>1 DEF Slot
      <4>2. QED
        BY <1>3, <4>1, Turn
    <3>4. v \in Slot /\ v = IF wp'[k] - r < 0 THEN wp'[k] - r + Size ELSE wp'[k] - r
      <4>1. /\ wp'[k] - r \in Int /\ -Size =< wp'[k] - r /\ wp'[k] - r < 2 * Size
            /\ wp'[k] - r < Size
        BY <1>3, <3>1, <3>2 DEF Slot
      <4>2. QED
        BY <1>3, <4>1, Turn
    <3> HIDE DEF u, v
    <3>5. v =< u + 1 /\ u \in Int /\ v \in Int
      BY <1>3, <3>1, <3>2, <3>3, <3>4 DEF Slot
    <3>6. Number(k) - u >= Newest
      BY <2>1, <2>3 DEF r, u
    <3>7. Number(k)' - v >= Newest
      BY <1>3, <1>4, <2>1, <3>5, <3>6
    <3>8. Number(k0)' - ((wp[k0]' - NextRead(k0)') % Size) >= Newest'
      <4>1. Number(k0)' = Number(k)' /\ wp[k0]' = wp'[k]
        BY <1>2, <2>3 DEF Number
      <4>2. NextRead(k0)' = r
        BY <1>1, <1>2, <2>3 DEF r, NextRead
      <4>3. QED
        BY <1>2, <3>7, <4>1, <4>2 DEF v
    <3>9. ~lapped'[k] => Len(copy) =< Unread(k)' /\ Newest = Read(k)' + Len(copy)
      <4> SUFFICES ASSUME ~lapped'[k] PROVE Len(copy) =< Unread(k)' /\ Newest = Read(k)' + Len(copy)
        OBVIOUS
      <4>1. /\ Len(copy) =< Unread(k) /\ Newest = Read(k) + Len(copy)
            /\ Read(k)' = Read(k) /\ Unread(k)' = Unread(k) + 1
        BY <1>5, <2>1, <2>3
      <4>2. Unread(k) \in Int /\ Len(copy) \in Int
        BY <1>3, <2>1 DEF Slot
      <4>3. QED
        BY <4>1, <4>2
    <3>10. lapped[k0]' = lapped'[k] /\ Unread(k0)' = Unread(k)' /\ Read(k0)' = Read(k)'
      BY <1>2, <2>3 DEF Unread, Read, Number
    <3>11. QED
      BY <1>1, <1>2, <2>1, <3>8, <3>9, <3>10 DEF CopyHolds
  <2>4. QED
    BY <2>2, <2>3
<1>10. SentHolds'
  <2> SUFFICES ASSUME NEW j \in Kind
               PROVE /\ Ascends(Sends(j), Reach(j)')
                     /\ ~lapped'[j] /\ ~FrameLost(j) =>
                          /\ Len(Sends(j)) = Reach(j)'
                          /\ \A i \in 1 .. Len(Sends(j)) : Sends(j)[i] = i
    BY <1>2 DEF SentHolds, Ascends
  <2>1. CASE j # k
    <3>1. Reach(j)' = Reach(j) /\ lapped'[j] = lapped[j]
      BY <1>1, <1>2, <1>6, <2>1 DEF Reach
    <3>2. QED
      BY <3>1 DEF SentHolds
  <2>2. CASE j = k /\ pc = "advance" /\ k = k0
    <3>1. Reach(j)' = Reach(j) /\ (~lapped'[j] => ~lapped[j])
      BY <1>1, <1>2, <1>5, <2>2 DEF Reach
    <3>2. QED
      BY <3>1 DEF SentHolds
  <2>3. CASE j = k /\ ~(pc = "advance" /\ k = k0)
    <3>1. Reach(j)' = Read(k)' /\ Reach(j) = Read(k)
      BY <1>1, <1>2, <2>3 DEF Reach
    <3>2. Ascends(Sends(j), Read(k)')
      <4>1. Ascends(Sends(j), Read(k)) /\ Sends(j) \in Seq(Nat) /\ Read(k) \in Int
        BY <1>3, <3>1, SendsFacts, UnreadFacts DEF SentHolds
      <4>2. QED
        BY <1>5, <4>1, AscendsHigher
    <3>3. QED
      BY <1>5, <2>3, <3>1, <3>2 DEF SentHolds
  <2>4. QED
    BY <2>1, <2>2, <2>3
<1>11. QED
  BY <1>7, <1>8, <1>9, <1>10, WritePool

-------------------------------------------------------------------------------
(* Changes are copied, sent and freed.                                     *)

\* What is copied are the unread changes in order.
LEMMA CopyFacts ==
  ASSUME SendInv, ReadSome
  PROVE  /\ copy' \in Seq(Nat) /\ Len(copy') = Unread(k0) /\ Len(copy') > 0
         /\ \A i \in 1 .. Len(copy') : copy'[i] = Read(k0) + i
         /\ Newest' = Number(k0)
<1> USE DEF SendInv
<1>1. k0 \in Kind /\ Unread(k0) > 0
      /\ copy' = [i \in 1 .. Unread(k0) |-> pool[k0][(rp[k0] + i - 1) % Size]]
  BY SendsFacts, KindFacts DEF ReadSome
<1>2. /\ wp[k0] \in Slot /\ rp[k0] \in Slot /\ Unread(k0) \in Slot
      /\ Unread(k0) = IF wp[k0] >= rp[k0] THEN wp[k0] - rp[k0] ELSE wp[k0] - rp[k0] + Size
      /\ Number(k0) \in Nat /\ Size \in Nat /\ Size > 1 /\ Unread(k0) =< Number(k0)
  BY <1>1, UnreadFacts DEF PoolHolds
<1> DEFINE u == Unread(k0)
           n == Number(k0)
<1>3. ASSUME NEW i \in 1 .. u
      PROVE  pool[k0][(rp[k0] + i - 1) % Size] = n - u + i
  <2> DEFINE p == rp[k0] + i - 1
             x == p % Size
             y == (wp[k0] - 1 - (u - i)) % Size
  <2>1. x = IF p < Size THEN p ELSE p - Size
    <3>1. p \in Int /\ -Size =< p /\ p < 2 * Size /\ ~(p < 0)
      BY <1>2, <1>3 DEF Slot
    <3> HIDE DEF p
    <3>2. QED
      BY <3>1, Turn
  <2>2. u - i \in Slot /\ u - i < n
    BY <1>2, <1>3 DEF Slot
  <2>3. y = IF wp[k0] - 1 - (u - i) < 0 THEN wp[k0] - 1 - (u - i) + Size
            ELSE wp[k0] - 1 - (u - i)
    <3>1. /\ wp[k0] - 1 - (u - i) \in Int /\ -Size =< wp[k0] - 1 - (u - i)
          /\ wp[k0] - 1 - (u - i) < 2 * Size /\ wp[k0] - 1 - (u - i) < Size
      BY <1>2, <1>3 DEF Slot
    <3>2. QED
      BY <3>1, Turn
  <2>4. pool[k0][y] = n - (u - i)
    BY <1>1, <2>2 DEF PoolHolds
  <2> HIDE DEF x, y, u, n, p
  <2>5. u = IF wp[k0] >= rp[k0] THEN wp[k0] - rp[k0] ELSE wp[k0] - rp[k0] + Size
    BY <1>2 DEF u
  <2>6. x = y
    BY <1>2, <1>3, <2>1, <2>3, <2>5 DEF Slot, p
  <2>7. n \in Int /\ u \in Int
    BY <1>2 DEF n, u, Slot
  <2>8. n - (u - i) = n - u + i
    BY <1>3, <2>7
  <2>9. QED
    BY <2>4, <2>6, <2>8 DEF x, p
<1> HIDE DEF u, n
<1>4. u \in Nat /\ u > 0 /\ n \in Nat /\ u =< n /\ Read(k0) = n - u
  BY <1>1, <1>2 DEF u, n, Slot, Read
<1>5. copy' = [i \in 1 .. u |-> n - u + i]
  BY <1>1, <1>3 DEF u
<1>6. \A i \in 1 .. u : n - u + i \in Nat
  BY <1>4
<1>7. copy' \in Seq(Nat) /\ Len(copy') = u
  BY <1>4, <1>5, <1>6
<1>8. \A i \in 1 .. u : copy'[i] = Read(k0) + i
  BY <1>4, <1>5
<1>9. copy'[Len(copy')] = n
  BY <1>4, <1>5, <1>7
<1>10. QED
  BY <1>4, <1>7, <1>8, <1>9 DEF u, n, Newest

\* What is copied goes on where what was sent before ended.
LEMMA SendMore ==
  ASSUME NEW s \in Seq(Nat), NEW t \in Seq(Nat), NEW r \in Int, NEW n \in Int,
         Ascends(s, r), n = r + Len(t),
         \A i \in 1 .. Len(t) : t[i] = r + i
  PROVE  /\ Ascends(s \o t, n)
         /\ Len(s) = r /\ (\A i \in 1 .. Len(s) : s[i] = i) =>
              Len(s \o t) = n /\ \A i \in 1 .. Len(s \o t) : (s \o t)[i] = i
<1>1. Len(s) \in Nat /\ Len(t) \in Nat
  BY LenProperties
<1>2. Ascends(t, n) /\ (\A i \in 1 .. Len(t) : r < t[i]) /\ r =< n
  BY <1>1 DEF Ascends
<1>3. Ascends(s \o t, n)
  BY <1>2, AscendsOn
<1>4. /\ Len(s \o t) = Len(s) + Len(t)
      /\ \A i \in 1 .. Len(s) + Len(t) :
           (s \o t)[i] = IF i <= Len(s) THEN s[i] ELSE t[i - Len(s)]
  BY ConcatProperties
<1>5. ASSUME Len(s) = r, \A i \in 1 .. Len(s) : s[i] = i
      PROVE  Len(s \o t) = n /\ \A i \in 1 .. Len(s \o t) : (s \o t)[i] = i
  <2> SUFFICES ASSUME NEW i \in 1 .. Len(s) + Len(t) PROVE (s \o t)[i] = i
    BY <1>4, <1>5
  <2>1. CASE i <= Len(s)
    BY <1>1, <1>4, <1>5, <2>1
  <2>2. CASE i > Len(s)
    <3>1. i - Len(s) \in 1 .. Len(t)
      BY <1>1, <2>2
    <3>2. t[i - Len(s)] = r + (i - Len(s))
      BY <3>1
    <3>3. QED
      BY <1>1, <1>4, <1>5, <2>2, <3>2
  <2>3. QED
    BY <1>1, <2>1, <2>2
<1>6. QED
  BY <1>3, <1>5

LEMMA ReadSends ==
  ASSUME SendInv, ReadSome
  PROVE  SendInv'
<1> USE DEF SendInv
<1>1. /\ pc = "read" /\ pc' = "advance" /\ Unread(k0) > 0
      /\ UNCHANGED <<pool, wp, rp, written, lapped, empty, at>>
      /\ IF k0 = "dcos"
         THEN frame' = copy' /\ nested' = nested + 1 /\ UNCHANGED sent
         ELSE sent' = [sent EXCEPT ![k0] = @ \o copy'] /\ UNCHANGED <<frame, nested>>
  BY DEF ReadSome, pools
<1>2. /\ k0' = k0 /\ k0 \in Kind /\ (k0 # "dcos" => frame = << >>)
      /\ sent[k0] \in Seq(Nat) /\ frame \in Seq(Nat) /\ Sends(k0) \in Seq(Nat)
  BY <1>1, SendsFacts, KindFacts DEF k0, FrameHolds, Shaped
<1>3. /\ copy' \in Seq(Nat) /\ Len(copy') = Unread(k0) /\ Len(copy') > 0
      /\ \A i \in 1 .. Len(copy') : copy'[i] = Read(k0) + i
      /\ Newest' = Number(k0)
  BY CopyFacts
<1>4. \A k \in Kind : Unread(k)' = Unread(k) /\ Number(k)' = Number(k) /\ Read(k)' = Read(k)
  BY <1>1 DEF Unread, Number, Read
<1>5. /\ wp[k0] \in Slot /\ rp[k0] \in Slot /\ Unread(k0) \in Slot
      /\ Unread(k0) = IF wp[k0] >= rp[k0] THEN wp[k0] - rp[k0] ELSE wp[k0] - rp[k0] + Size
      /\ Number(k0) \in Nat /\ Size \in Nat /\ Size > 1
      /\ Read(k0) = Number(k0) - Unread(k0)
  BY <1>2, UnreadFacts DEF Read
<1>6. sent[k0] \o copy' \in Seq(Nat)
  BY <1>2, <1>3, ConcatProperties
<1>7. Shaped'
  <2>1. CASE k0 = "dcos"
    BY <1>1, <1>3, <2>1 DEF Shaped
  <2>2. CASE k0 # "dcos"
    <3>1. sent' \in [Kind -> Seq(Nat)]
      BY <1>1, <1>2, <1>6, <2>2 DEF Shaped
    <3>2. QED
      BY <1>1, <1>3, <2>2, <3>1 DEF Shaped
  <2>3. QED
    BY <2>1, <2>2
<1>8. FrameHolds'
  <2>1. CASE k0 = "dcos"
    <3>1. frame' # << >>
      BY <1>1, <1>3, <2>1, EmptySeq
    <3>2. nested' # 0
      BY <1>1, <2>1 DEF Shaped
    <3>3. QED
      BY <1>1, <1>2, <2>1, <3>1, <3>2 DEF FrameHolds
  <2>2. CASE k0 # "dcos"
    BY <1>1, <1>2, <2>2 DEF FrameHolds
  <2>3. QED
    BY <2>1, <2>2
<1>9. PoolHolds'
  BY <1>1, <1>4 DEF PoolHolds
<1>10. CopyHolds'
  <2> DEFINE p == rp[k0] + Len(copy')
             x == p % Size
  <2>1. p = IF wp[k0] >= rp[k0] THEN wp[k0] ELSE wp[k0] + Size
    BY <1>3, <1>5 DEF Slot
  <2>2. p \in Int /\ -Size =< p /\ p < 2 * Size /\ ~(p < 0)
    BY <1>5, <2>1 DEF Slot
  <2> HIDE DEF p
  <2>3. x = wp[k0]
    <3>1. x = IF p < Size THEN p ELSE p - Size
      BY <2>2, Turn
    <3> HIDE DEF x
    <3>2. QED
      BY <1>5, <2>1, <3>1 DEF Slot
  <2> HIDE DEF x
  <2> DEFINE z == (wp[k0] - wp[k0]) % Size
  <2>4. z = 0
    <3>1. wp[k0] - wp[k0] = 0
      BY <1>5 DEF Slot
    <3>2. 0 % Size = 0
      BY <1>5, Turn
    <3>3. QED
      BY <3>1, <3>2
  <2> HIDE DEF z
  <2>5. NextRead(k0)' = x
    BY <1>1, <1>2 DEF NextRead, x, p
  <2>6. (wp[k0]' - NextRead(k0)') % Size = z
    BY <1>1, <1>2, <2>3, <2>5 DEF z
  <2>7. /\ Number(k0)' = Number(k0) /\ Read(k0)' = Read(k0) /\ Unread(k0)' = Unread(k0)
    BY <1>1, <1>2 DEF Number, Read, Unread
  <2>8. Len(copy') \in 1 .. Size - 1
    BY <1>3, <1>5 DEF Slot
  <2>9. Number(k0)' - ((wp[k0]' - NextRead(k0)') % Size) >= Newest'
    BY <1>3, <1>5, <2>4, <2>6, <2>7
  <2>10. Len(copy') =< Unread(k0)' /\ Newest' = Read(k0)' + Len(copy')
    <3>1. Unread(k0) \in Int
      BY <1>5 DEF Slot
    <3>2. QED
      BY <1>3, <1>5, <2>7, <3>1
  <2>11. QED
    BY <2>8, <2>9, <2>10 DEF CopyHolds
<1>11. SentHolds'
  <2>1. ASSUME NEW k \in Kind, k # k0
        PROVE /\ Ascends(Sends(k)', Reach(k)')
              /\ ~lapped'[k] /\ ~FrameLost(k)' =>
                   /\ Len(Sends(k)') = Reach(k)'
                   /\ \A i \in 1 .. Len(Sends(k)') : Sends(k)'[i] = i
    <3>1. sent'[k] = sent[k]
      BY <1>1, <2>1 DEF Shaped
    <3>2. Sends(k)' = Sends(k) /\ Reach(k)' = Reach(k)
      BY <1>1, <1>2, <1>4, <2>1, <3>1 DEF Sends, Reach
    <3>3. FrameLost(k) => FrameLost(k)'
      BY <1>1, <1>2, <2>1 DEF FrameLost, FrameHolds, Shaped
    <3>4. QED
      BY <1>1, <3>2, <3>3 DEF SentHolds
  <2>2. Reach(k0) = Read(k0) /\ Read(k0) \in Int
    BY <1>1, <1>2, UnreadFacts DEF Reach
  <2>3. Ascends(Sends(k0), Read(k0))
    BY <1>2, <2>2 DEF SentHolds
  <2>4. Ascends(sent[k0], Read(k0))
    <3>1. CASE frame = << >>
      BY <1>2, <2>3, <3>1, SendsFacts
    <3>2. CASE frame # << >>
      BY <1>2, <2>3, AscendsBefore DEF Sends
    <3>3. QED
      BY <3>1, <3>2
  <2> DEFINE new == sent[k0] \o copy'
  <2>5. Number(k0) = Read(k0) + Len(copy')
    <3>1. Unread(k0) \in Int
      BY <1>5 DEF Slot
    <3>2. QED
      BY <1>3, <1>5, <3>1
  <2>6. /\ Ascends(new, Number(k0))
        /\ Len(sent[k0]) = Read(k0) /\ (\A i \in 1 .. Len(sent[k0]) : sent[k0][i] = i) =>
             Len(new) = Number(k0) /\ \A i \in 1 .. Len(new) : new[i] = i
    <3>1. Number(k0) \in Int /\ sent[k0] \in Seq(Nat) /\ copy' \in Seq(Nat)
      BY <1>2, <1>3, <1>5
    <3>2. \A i \in 1 .. Len(copy') : copy'[i] = Read(k0) + i
      BY <1>3
    <3>3. QED
      BY <2>2, <2>4, <2>5, <3>1, <3>2, SendMore
  <2>7. Sends(k0)' = new
    <3>1. CASE k0 = "dcos"
      BY <1>1, <1>2, <3>1 DEF Sends
    <3>2. CASE k0 # "dcos"
      <4>1. sent'[k0] = new /\ frame' = << >>
        BY <1>1, <1>2, <3>2 DEF Shaped
      <4>2. new \o << >> = new
        BY <1>6, ConcatEmptySeq
      <4>3. Sends(k0)' = sent'[k0] \o << >>
        BY <1>2, <4>1 DEF Sends
      <4>4. QED
        BY <4>1, <4>2, <4>3
    <3>3. QED
      BY <3>1, <3>2
  <2> HIDE DEF new
  <2>8. ~lapped[k0] /\ ~FrameLost(k0)' =>
          Len(sent[k0]) = Read(k0) /\ \A i \in 1 .. Len(sent[k0]) : sent[k0][i] = i
    <3> SUFFICES ASSUME ~lapped[k0], ~FrameLost(k0)'
                 PROVE  Len(sent[k0]) = Read(k0) /\ \A i \in 1 .. Len(sent[k0]) : sent[k0][i] = i
      OBVIOUS
    <3>1. frame = << >>
      <4>1. CASE k0 # "dcos"
        BY <1>2, <4>1
      <4>2. CASE k0 = "dcos"
        <5>1. nested' = nested + 1 /\ ~(nested' > 1) /\ nested \in Nat
          BY <1>1, <1>2, <4>2 DEF FrameLost, Shaped
        <5>2. nested = 0
          BY <5>1
        <5>3. QED
          BY <5>2 DEF FrameHolds
      <4>3. QED
        BY <4>1, <4>2
    <3>2. ~FrameLost(k0)
      <4>1. ~(nested > 1)
        <5>1. nested = 0
          BY <3>1 DEF FrameHolds
        <5>2. QED
          BY <5>1
      <4>2. QED
        BY <1>1, <1>2, <4>1 DEF FrameLost
    <3>3. Sends(k0) = sent[k0]
      BY <1>2, <3>1, SendsFacts
    <3>4. QED
      BY <1>2, <2>2, <3>2, <3>3 DEF SentHolds
  <2>9. Reach(k0)' = Number(k0)
    BY <1>1, <1>2, <1>3 DEF Reach
  <2>10. /\ Ascends(Sends(k0)', Reach(k0)')
         /\ ~lapped'[k0] /\ ~FrameLost(k0)' =>
              /\ Len(Sends(k0)') = Reach(k0)'
              /\ \A i \in 1 .. Len(Sends(k0)') : Sends(k0)'[i] = i
    BY <1>1, <2>6, <2>7, <2>8, <2>9
  <2>11. \A k \in Kind :
           /\ Ascends(Sends(k)', Reach(k)')
           /\ ~lapped'[k] /\ ~FrameLost(k)' =>
                /\ Len(Sends(k)') = Reach(k)'
                /\ \A i \in 1 .. Len(Sends(k)') : Sends(k)'[i] = i
    <3>1. SUFFICES ASSUME NEW k \in Kind
                   PROVE  /\ Ascends(Sends(k)', Reach(k)')
                          /\ ~lapped'[k] /\ ~FrameLost(k)' =>
                               /\ Len(Sends(k)') = Reach(k)'
                               /\ \A i \in 1 .. Len(Sends(k)') : Sends(k)'[i] = i
      OBVIOUS
    <3>2. CASE k # k0
      BY <2>1, <3>2
    <3>3. CASE k = k0
      <4>1. Sends(k)' = Sends(k0)' /\ Reach(k)' = Reach(k0)' /\ FrameLost(k)' = FrameLost(k0)'
        BY <1>2, <3>3 DEF Sends, Reach, FrameLost, Read, Number, Unread
      <4>2. QED
        BY <2>10, <3>3, <4>1
    <3>4. QED
      BY <3>2, <3>3
  <2>12. QED
    BY <2>11 DEF SentHolds, Ascends
<1>12. QED
  BY <1>7, <1>8, <1>9, <1>10, <1>11

LEMMA AdvanceSends ==
  ASSUME SendInv, Advance
  PROVE  SendInv'
<1> USE DEF SendInv
<1>1. /\ pc = "advance" /\ pc' = "check" /\ copy' = << >>
      /\ rp' = [rp EXCEPT ![k0] = (@ + Len(copy)) % Size]
      /\ UNCHANGED <<pool, wp, written, lapped, sent, empty, frame, nested, at>>
  BY DEF Advance, output
<1>2. k0' = k0 /\ k0 \in Kind /\ << >> \in Seq(Nat)
  BY <1>1, SendsFacts, KindFacts, EmptySeq DEF k0
<1>3. /\ wp[k0] \in Slot /\ rp[k0] \in Slot /\ Unread(k0) \in Slot
      /\ Unread(k0) = IF wp[k0] >= rp[k0] THEN wp[k0] - rp[k0] ELSE wp[k0] - rp[k0] + Size
      /\ Number(k0) \in Nat /\ Size \in Nat /\ Size > 1
      /\ Read(k0) = Number(k0) - Unread(k0)
  BY <1>2, UnreadFacts DEF Read
<1>4. /\ Len(copy) \in 1 .. Size - 1 /\ Newest \in Nat
      /\ Number(k0) - ((wp[k0] - NextRead(k0)) % Size) >= Newest
      /\ ~lapped[k0] => Len(copy) =< Unread(k0) /\ Newest = Read(k0) + Len(copy)
  <2>1. Len(copy) \in 1 .. Size - 1 /\ Len(copy) \in 1 .. Len(copy)
    BY <1>1, PoolAssumption DEF CopyHolds
  <2>2. QED
    BY <1>1, <2>1, ElementOfSeq DEF CopyHolds, Newest, Shaped
<1> DEFINE p == rp[k0] + Len(copy)
           r == p % Size
           u == (wp[k0] - r) % Size
<1>5. p \in Int /\ p = rp[k0] + Len(copy) /\ -Size =< p /\ p < 2 * Size /\ ~(p < 0)
  BY <1>3, <1>4 DEF Slot
<1> HIDE DEF p
<1>6. r \in Slot /\ r = IF p < Size THEN p ELSE p - Size
  BY <1>5, Turn
<1>7. NextRead(k0) = r
  BY DEF NextRead, p
<1>8. rp'[k0] = r /\ \A k \in Kind : k # k0 => rp'[k] = rp[k]
  BY <1>1, <1>2 DEF Shaped, p
<1> HIDE DEF r
<1>9. u \in Slot /\ u = IF wp[k0] - r < 0 THEN wp[k0] - r + Size ELSE wp[k0] - r
  <2>1. wp[k0] - r \in Int /\ -Size =< wp[k0] - r /\ wp[k0] - r < 2 * Size /\ wp[k0] - r < Size
    BY <1>3, <1>6 DEF Slot
  <2>2. QED
    BY <1>3, <2>1, Turn
<1>10. Unread(k0)' = u /\ Number(k0)' = Number(k0)
  BY <1>1, <1>2, <1>8 DEF Unread, Number
<1>11. Number(k0) - u >= Newest
  BY <1>4, <1>7
<1> HIDE DEF u
<1>12. /\ Read(k0)' = Number(k0) - u /\ Read(k0)' \in Int /\ Newest =< Read(k0)'
       /\ Unread(k0)' =< Number(k0)'
  <2>1. u \in Int
    BY <1>3, <1>9 DEF Slot
  <2>2. Read(k0)' = Number(k0)' - Unread(k0)'
    BY <1>2 DEF Read
  <2>3. QED
    BY <1>3, <1>4, <1>10, <1>11, <2>1, <2>2
<1>13. ~lapped[k0] => Read(k0)' = Newest
  <2> SUFFICES ASSUME ~lapped[k0] PROVE Read(k0)' = Newest
    OBVIOUS
  <2>1. /\ Len(copy) =< Unread(k0) /\ Newest = Number(k0) - Unread(k0) + Len(copy)
        /\ Len(copy) \in 1 .. Size - 1
    BY <1>3, <1>4
  <2>2. u = Unread(k0) - Len(copy)
    <3> DEFINE a == wp[k0]
               b == rp[k0]
               c == Len(copy)
               d == Unread(k0)
    <3>1. /\ a \in 0 .. Size - 1 /\ b \in 0 .. Size - 1
      BY <1>3 DEF Slot
    <3>2. c \in 1 .. Size - 1 /\ c =< d
      BY <2>1
    <3>3. d = IF a >= b THEN a - b ELSE a - b + Size
      BY <1>3
    <3>4. p = b + c
      BY <1>5
    <3>5. u = IF a - r < 0 THEN a - r + Size ELSE a - r
      BY <1>9
    <3> HIDE DEF a, b, c, d
    <3>6. u = d - c
      BY <1>3, <1>6, <3>1, <3>2, <3>3, <3>4, <3>5
    <3>7. QED
      BY <3>6 DEF c, d
  <2>3. QED
    BY <1>3, <1>12, <2>1, <2>2 DEF Slot
<1>14. \A k \in Kind : k # k0 =>
         Unread(k)' = Unread(k) /\ Number(k)' = Number(k) /\ Read(k)' = Read(k)
  BY <1>1, <1>8 DEF Unread, Number, Read
<1>15. Shaped'
  <2>1. rp' \in [Kind -> Slot]
    BY <1>1, <1>6, <1>8 DEF Shaped
  <2>2. QED
    BY <1>1, <1>2, <2>1 DEF Shaped
<1>16. FrameHolds'
  BY <1>1, <1>2 DEF FrameHolds
<1>17. CopyHolds'
  BY <1>1 DEF CopyHolds
<1>18. PoolHolds'
  <2> SUFFICES ASSUME NEW k \in Kind
               PROVE  /\ \A i \in 1 .. Number(k)' : written'[k][i] = i
                      /\ Unread(k)' =< Number(k)'
                      /\ \A d \in Slot : d < Number(k)' =>
                           pool'[k][(wp'[k] - 1 - d) % Size] = Number(k)' - d
    BY DEF PoolHolds
  <2>1. Number(k)' = Number(k)
    BY <1>1 DEF Number
  <2>2. Unread(k)' =< Number(k)'
    <3>1. CASE k = k0
      <4>1. Unread(k)' = Unread(k0)' /\ Number(k)' = Number(k0)'
        BY <1>2, <3>1 DEF Unread, Number
      <4>2. QED
        BY <1>12, <4>1
    <3>2. CASE k # k0
      BY <1>14, <3>2 DEF PoolHolds
    <3>3. QED
      BY <3>1, <3>2
  <2>3. QED
    BY <1>1, <2>1, <2>2 DEF PoolHolds
<1>19. SentHolds'
  <2> SUFFICES ASSUME NEW k \in Kind
               PROVE /\ Ascends(Sends(k)', Reach(k)')
                     /\ ~lapped'[k] /\ ~FrameLost(k)' =>
                          /\ Len(Sends(k)') = Reach(k)'
                          /\ \A i \in 1 .. Len(Sends(k)') : Sends(k)'[i] = i
    BY DEF SentHolds, Ascends
  <2>1. Sends(k)' = Sends(k) /\ FrameLost(k)' = FrameLost(k) /\ lapped'[k] = lapped[k]
    BY <1>1, <1>2 DEF Sends, FrameLost
  <2>2. CASE k # k0
    <3>1. Reach(k)' = Reach(k)
      BY <1>1, <1>14, <2>2 DEF Reach
    <3>2. QED
      BY <2>1, <3>1 DEF SentHolds
  <2>3. CASE k = k0
    <3>1. Reach(k)' = Read(k0)' /\ Reach(k) = Newest
      BY <1>1, <1>2, <2>3 DEF Reach, Read, Number, Unread
    <3>2. Ascends(Sends(k), Newest) /\ Sends(k) \in Seq(Nat) /\ Newest \in Int
      BY <1>4, <3>1, SendsFacts DEF SentHolds
    <3>3. Ascends(Sends(k), Read(k0)')
      BY <1>12, <3>2, AscendsHigher
    <3>4. QED
      BY <1>13, <2>1, <2>3, <3>1, <3>3 DEF SentHolds
  <2>4. QED
    BY <2>2, <2>3
<1>20. QED
  BY <1>15, <1>16, <1>17, <1>18, <1>19

-------------------------------------------------------------------------------
\* The other steps leave the pools as they are, and the buffer too, unless they
\* send it.
LEMMA OtherSends ==
  ASSUME SendInv,
         \/ \E k \in Kind, l \in Level : FlagTest(k, l) \/ FlagSet(k, l)
         \/ \E k \in Kind : EvSend(k)
         \/ Tick \/ Open \/ Receive \/ Clear \/ Urgency \/ Refused \/ ReadNone
         \/ ClearNone \/ CheckEmpty \/ ClearEqp \/ Retest \/ TimeOut
         \/ UNCHANGED vars
  PROVE  SendInv'
<1> USE DEF pools, task, output
<1>1. \A l \in Level : l = "group" \/ l = "eqp"
  BY DEF Level
<1>2. CASE \/ \E k \in Kind, l \in Level : FlagTest(k, l) \/ FlagSet(k, l)
           \/ \E k \in Kind : EvSend(k)
           \/ Tick \/ Open \/ UNCHANGED vars
  <2>1. UNCHANGED <<pool, wp, rp, written, lapped, sent, frame, nested, empty, copy, at, pc>>
    BY <1>2 DEF FlagTest, FlagSet, EvSend, Tick, Open, vars
  <2>2. QED
    BY <2>1, NothingMoves
<1>3. CASE Receive \/ Clear \/ TimeOut
  <2>1. /\ UNCHANGED <<pool, wp, rp, written, lapped, sent, frame, nested, empty, copy>>
        /\ pc \in {"wait", "clear", "timer"} /\ pc' \in {"clear", "group", "timer", "wait"}
        /\ at' = at \/ at' = 1
    BY <1>3 DEF Receive, Clear, TimeOut
  <2>2. frame = << >> /\ at \in 1 .. Len(Order) /\ 1 \in 1 .. Len(Order)
    BY <2>1, KindFacts DEF SendInv, FrameHolds, Shaped
  <2>3. QED
    BY <2>1, <2>2, MovesOn
<1>4. CASE Urgency
  <2>1. /\ UNCHANGED <<pool, wp, rp, written, lapped, sent, frame, nested, empty, copy>>
        /\ pc \in {"group", "eqp", "regroup", "group_store"}
        /\ \/ at' = at /\ pc' \in {"eqp", "read", "regroup", "group_store"}
           \/ Onward(at)
    BY <1>4 DEF Urgency, TestGroup, TestEqp, TestAgain, ClearGroup
  <2>2. frame = << >> /\ at \in 1 .. Len(Order)
    BY <2>1 DEF SendInv, FrameHolds, Shaped
  <2>3. Onward(at) => at' \in 1 .. Len(Order) /\ pc' # "advance"
    <3>1. 1 \in 1 .. Len(Order) /\ (at < Len(Order) => at + 1 \in 1 .. Len(Order))
      BY <2>2, KindFacts
    <3>2. QED
      BY <3>1 DEF Onward
  <2>4. QED
    BY <2>1, <2>2, <2>3, MovesOn
<1>5. CASE ReadNone \/ CheckEmpty \/ ClearEqp \/ (Retest /\ k0 \in flag["eqp"])
  <2>1. /\ UNCHANGED <<pool, wp, rp, written, lapped, sent, frame, nested, empty, copy, at>>
        /\ pc \in {"read", "check", "store", "retest"}
        /\ pc' \in {"none_store", "store", "retest", "read"}
    BY <1>5 DEF ReadNone, CheckEmpty, ClearEqp, Retest
  <2>2. QED
    BY <2>1, MovesOn
<1>6. CASE Refused \/ ClearNone \/ (Retest /\ k0 \notin flag["eqp"])
  <2>1. /\ Unwind /\ UNCHANGED <<pool, wp, rp, written, lapped, copy, at>>
        /\ pc # "advance"
    BY <1>6 DEF Refused, ClearNone, Retest
  <2>2. QED
    BY <2>1, Unwinds
<1>7. QED
  BY <1>2, <1>3, <1>4, <1>5, <1>6

LEMMA SendNext == SendInv /\ [Next]_vars => SendInv'
<1> SUFFICES ASSUME SendInv, [Next]_vars PROVE SendInv'
  OBVIOUS
<1>1. ASSUME NEW k \in Kind, WriteSlot(k) PROVE SendInv'
  BY <1>1, WriteSends
<1>2. CASE ReadSome
  BY <1>2, ReadSends
<1>3. CASE Advance
  BY <1>3, AdvanceSends
<1>4. QED
  BY <1>1, <1>2, <1>3, OtherSends DEF Next, Write, Task, Send

LEMMA SendInvariance == Spec => []SendInv
BY SendInit, SendNext, PTL DEF Spec

\* What is sent of a kind ascends: no change is sent twice and none after a
\* newer one, even if the writers lap the task or SendDCOS calls itself.
THEOREM SentOnce == Spec => []NeverTwice
<1>1. SendInv => NeverTwice
  <2> SUFFICES ASSUME SendInv, NEW k \in Kind PROVE Ascends(sent[k], Reach(k))
    BY DEF NeverTwice, Ascends
  <2>1. Ascends(Sends(k), Reach(k)) /\ Shaped
    BY DEF SendInv, SentHolds
  <2>2. sent[k] \in Seq(Nat) /\ frame \in Seq(Nat)
    BY <2>1 DEF Shaped
  <2>3. CASE k = k0
    BY <2>1, <2>2, <2>3, AscendsBefore DEF Sends
  <2>4. CASE k # k0
    <3>1. sent[k] \o << >> = sent[k]
      BY <2>2, ConcatEmptySeq
    <3>2. QED
      BY <2>1, <2>4, <3>1 DEF Sends
  <2>5. QED
    BY <2>3, <2>4
<1>2. QED
  BY <1>1, SendInvariance, PTL

\* Unless the pool was lapped or a frame was lost in the buffer, what was freed
\* in the pool is what was sent, and nothing is left out.
THEOREM SendsWhatItFrees == Spec => []SentIsFreed
<1>1. SendInv => SentIsFreed
  <2> SUFFICES ASSUME SendInv, NEW k \in Kind, ~lapped[k], ~FrameLost(k)
               PROVE  /\ IsPrefix(sent[k], written[k])
                      /\ pc = "wait" => Len(sent[k]) + Unread(k) = Len(written[k])
    BY DEF SentIsFreed
  <2>1. /\ Len(Sends(k)) = Reach(k) /\ Shaped
        /\ \A i \in 1 .. Len(Sends(k)) : Sends(k)[i] = i
    BY DEF SendInv, SentHolds
  <2>2. /\ sent[k] \in Seq(Nat) /\ frame \in Seq(Nat) /\ written[k] \in Seq(Nat)
        /\ Len(sent[k]) \in Nat /\ Len(frame) \in Nat
    BY <2>1, LenProperties DEF Shaped
  <2> DEFINE s == sent[k]
  <2>3. /\ Len(s) =< Len(Sends(k)) /\ \A i \in 1 .. Len(s) : s[i] = i
        /\ frame = << >> => Len(s) = Len(Sends(k))
    <3>1. CASE k = k0
      <4>1. /\ Len(s \o frame) = Len(s) + Len(frame)
            /\ \A i \in 1 .. Len(s) : (s \o frame)[i] = s[i]
        BY <2>2, ConcatProperties
      <4>2. \A i \in 1 .. Len(s) : i \in 1 .. Len(s \o frame)
        BY <2>2, <4>1
      <4>3. frame = << >> => Len(frame) = 0
        BY EmptySeq
      <4>4. Sends(k) = s \o frame
        BY <3>1 DEF Sends
      <4>5. QED
        BY <2>1, <2>2, <4>1, <4>2, <4>3, <4>4
    <3>2. CASE k # k0
      <4>1. Sends(k) = s
        BY <2>2, <3>2, ConcatEmptySeq DEF Sends
      <4>2. QED
        BY <2>1, <2>2, <4>1
    <3>3. QED
      BY <3>1, <3>2
  <2>4. /\ Number(k) \in Nat /\ Unread(k) \in Nat /\ Read(k) = Number(k) - Unread(k)
        /\ \A i \in 1 .. Number(k) : written[k][i] = i
    BY <2>1, UnreadFacts DEF Slot, Read, SendInv, PoolHolds
  <2>5. Reach(k) =< Number(k)
    <3>1. CASE pc = "advance" /\ k = k0
      <4>1. Newest = Read(k) + Len(copy) /\ Len(copy) =< Unread(k) /\ Len(copy) \in Int
        BY <3>1, PoolAssumption DEF SendInv, CopyHolds
      <4>2. QED
        BY <2>4, <3>1, <4>1 DEF Reach
    <3>2. CASE ~(pc = "advance" /\ k = k0)
      BY <2>4, <3>2 DEF Reach
    <3>3. QED
      BY <3>1, <3>2
  <2>6. Len(s) =< Number(k)
    <3>1. Reach(k) \in Int
      BY ReachFacts
    <3>2. QED
      BY <2>1, <2>2, <2>3, <2>4, <2>5, <3>1
  <2>7. IsPrefix(s, written[k])
    <3>1. \A i \in 1 .. Len(s) : s[i] = i /\ written[k][i] = i
      BY <2>2, <2>3, <2>4, <2>6
    <3> HIDE DEF s
    <3>2. /\ Len(SubSeq(s, 1, Len(s))) = Len(s) /\ SubSeq(s, 1, Len(s)) \in Seq(Nat)
          /\ \A i \in 1 .. Len(s) : SubSeq(s, 1, Len(s))[i] = i
      <4>1. Len(s) \in Nat /\ \A i \in 1 .. Len(s) : s[i] \in Nat
        BY <2>2, <3>1 DEF s
      <4>2. QED
        BY <3>1, <4>1, SubSeqProperties
    <3>3. /\ Len(SubSeq(written[k], 1, Len(s))) = Len(s)
          /\ SubSeq(written[k], 1, Len(s)) \in Seq(Nat)
          /\ \A i \in 1 .. Len(s) : SubSeq(written[k], 1, Len(s))[i] = i
      <4>1. Len(s) \in Nat /\ \A i \in 1 .. Len(s) : written[k][i] \in Nat
        BY <2>2, <3>1 DEF s
      <4>2. QED
        BY <3>1, <4>1, SubSeqProperties
    <3>4. SubSeq(s, 1, Len(s)) = SubSeq(written[k], 1, Len(s))
      BY <3>2, <3>3, SeqEqual
    <3>5. QED
      BY <2>6, <3>4 DEF IsPrefix, Number
  <2>8. pc = "wait" => Len(s) + Unread(k) = Len(written[k])
    <3> SUFFICES ASSUME pc = "wait" PROVE Len(s) + Unread(k) = Len(written[k])
      OBVIOUS
    <3>1. frame = << >> /\ Reach(k) = Read(k)
      BY DEF SendInv, FrameHolds, Reach
    <3>2. Len(s) = Number(k) - Unread(k)
      BY <2>1, <2>3, <2>4, <3>1
    <3>3. Len(s) + Unread(k) = Number(k)
      BY <2>2, <2>4, <3>2
    <3>4. QED
      BY <3>3 DEF Number
  <2>9. QED
    BY <2>7, <2>8
<1>2. QED
  BY <1>1, SendInvariance, PTL
===============================================================================
