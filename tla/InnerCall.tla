------------------------------ MODULE InnerCall ------------------------------
(***************************************************************************)
(* Remote calls from the tasks of the Linux program to core 1 over the two *)
(* packet rings.  A caller builds a frame in the one buffer all tasks      *)
(* share, takes the semaphore, sends the frame, polls for an answer a      *)
(* bounded number of times, gives the semaphore back and then reads the    *)
(* answer from the one receive frame all tasks share.  Core 1 takes one    *)
(* packet per scan, executes the command and, for most commands, answers.  *)
(*                                                                         *)
(* A frame carries no number of its call: an answer is recognised by its   *)
(* command code alone.  The model gives every call a number to say whose   *)
(* arguments and whose answer a frame carries; no guard looks at it.       *)
(* The rings are queues as PacketQueue promises them while none overran.   *)
(***************************************************************************)
EXTENDS Naturals, Sequences, FiniteSets

CONSTANTS
  Task,      \* the tasks of the Linux program that call core 1
  MaxCall,   \* bound: calls made
  Polls,     \* how often a caller looks for an answer, 100 in the code
  Capacity   \* packets a ring takes before a send is refused

ASSUME CallAssumption ==
  /\ MaxCall \in Nat
  /\ Polls \in Nat /\ Polls > 1
  /\ Capacity \in Nat /\ Capacity > 0
  /\ "free" \notin Task

\* yk_BM is answered under its own code, SetBMClock and the other settings
\* by the common acknowledgement, BMSetYkYb is not answered and its caller
\* does not wait; ReadIO waits for an answer that core 1 never gives.
Code == {"yk", "setclk", "yb", "getio"}
Waits(c) == c # "yb"
Reads == {"yk", "getio"}     \* the caller goes on to read the answer
Answer(c) == IF c = "yk" THEN "yk" ELSE IF c = "setclk" THEN "ack" ELSE "none"

\* Mutant of Accepts: a poll that read nothing passes for an answer.
AcceptsNothing(c) == {Answer(c), "ack", "none"}

\* The codes MAINT_Linux_To_BM accepts when it waits for a command's answer.
Accepts(c) == {Answer(c), "ack"} \ {"none"}

Call == 1 .. MaxCall
None == 0
Free == "free"

VARIABLES
  calls,     \* the number of calls begun
  codeOf,    \* the command each call asks for
  pc, mine,  \* per task: where it is, the call it makes
  cnt,       \* per task: polls made
  sendBuf,   \* the shared frame: command of call head, arguments of the
             \* calls args, checksum computed over the frame sum
  sem,       \* the task that holds g_InnerSem
  toBM, toLinux,        \* the two rings
  recvCode, recFrame,   \* code of the last answer polled, its call
  executed,  \* what core 1 executed, in order: command of, arguments of
  outcome,   \* per call: what it returned, and whose answer it got
  mishap     \* what has gone wrong in the calling discipline so far

task   == <<pc, mine, cnt>>
ring   == <<toBM, toLinux>>
answer == <<recvCode, recFrame>>
vars   == <<calls, codeOf, task, sendBuf, sem, ring, answer, executed, outcome,
            mishap>>

Open == [ret |-> "open", from |-> None]
Error == [ret |-> "error", from |-> None]
Void == [ret |-> "void", from |-> None]
Answered(c) == [ret |-> "ok", from |-> c]

Empty == [head |-> None, args |-> << >>, sum |-> <<None, << >>>>]

Init ==
  /\ calls = 0 /\ codeOf = << >>
  /\ pc = [t \in Task |-> "idle"] /\ mine = [t \in Task |-> None]
  /\ cnt = [t \in Task |-> 0]
  /\ sendBuf = Empty /\ sem = Free
  /\ toBM = << >> /\ toLinux = << >>
  /\ recvCode = "none" /\ recFrame = None
  /\ executed = << >> /\ outcome = [c \in Call |-> Open]
  /\ mishap = {}

------------------------------------------------------------------------------
(* Building the frame, without the semaphore.                              *)

Goto(t, from, to) == pc[t] = from /\ pc' = [pc EXCEPT ![t] = to]

\* A task is using the shared buffer from its SendFrameHead until the ring
\* has its frame.
Building == {t \in Task : pc[t] \in {"args", "tail", "lock", "send"}}

Begin(t) ==
  /\ Goto(t, "idle", "args")
  /\ calls < MaxCall
  /\ calls' = calls + 1
  /\ \E c \in Code : codeOf' = Append(codeOf, c)
  /\ mine' = [mine EXCEPT ![t] = calls + 1]
  /\ cnt' = [cnt EXCEPT ![t] = 0]
  /\ sendBuf' = [sendBuf EXCEPT !.head = calls + 1, !.args = << >>]
  /\ mishap' = mishap \cup (IF Building # {} THEN {"overlap"} ELSE {})
  /\ UNCHANGED <<sem, ring, answer, executed, outcome>>

PutArgs(t) ==
  /\ Goto(t, "args", "tail")
  /\ sendBuf' = [sendBuf EXCEPT !.args = Append(@, mine[t])]
  /\ UNCHANGED <<calls, codeOf, mine, cnt, sem, ring, answer, executed,
                 outcome, mishap>>

SendFrameTail(t) ==
  /\ Goto(t, "tail", "lock")
  /\ sendBuf' = [sendBuf EXCEPT !.sum = <<sendBuf.head, sendBuf.args>>]
  /\ UNCHANGED <<calls, codeOf, mine, cnt, sem, ring, answer, executed,
                 outcome, mishap>>

------------------------------------------------------------------------------
(* MAINT_Linux_To_BM and SendBMFrame.                                      *)

\* Mutant of TakeSem: the semaphore is taken whoever holds it.
TakeSemAnyway(t) ==
  /\ Goto(t, "lock", "send")
  /\ sem' = t
  /\ UNCHANGED <<calls, codeOf, mine, cnt, sendBuf, ring, answer, executed,
                 outcome, mishap>>

TakeSem(t) ==
  /\ Goto(t, "lock", "send")
  /\ sem = Free /\ sem' = t
  /\ UNCHANGED <<calls, codeOf, mine, cnt, sendBuf, ring, answer, executed,
                 outcome, mishap>>

\* The call returns with this result to its caller.
Return(t, result) == outcome' = [outcome EXCEPT ![mine[t]] = result]

\* A refused send ends the call: MAINT_Linux_To_BM returns ERROR, and
\* SendBMFrame only prints.  A command that is not waited for is done.
Transmit(t) ==
  /\ pc[t] = "send"
  /\ LET sent == Len(toBM) < Capacity
         wait == sent /\ Waits(codeOf[mine[t]])
     IN /\ toBM' = IF sent THEN Append(toBM, sendBuf) ELSE toBM
        /\ pc' = [pc EXCEPT ![t] = IF wait THEN "poll" ELSE "idle"]
        /\ sem' = IF wait THEN sem ELSE Free
        /\ IF wait THEN UNCHANGED outcome
           ELSE Return(t, IF Waits(codeOf[mine[t]]) THEN Error ELSE Void)
  /\ UNCHANGED <<calls, codeOf, mine, cnt, sendBuf, toLinux, answer,
                 executed, mishap>>

\* Mutant of Poll: a caller waits for as long as there is nothing to read.
PollWaits(t) ==
  /\ pc[t] = "poll" /\ toLinux # << >>
  /\ toLinux' = Tail(toLinux)
  /\ recvCode' = Head(toLinux).code /\ recFrame' = Head(toLinux).call
  /\ sem' = Free
  /\ pc' = [pc EXCEPT ![t] = "idle"]
  /\ Return(t, Answered(Head(toLinux).call))
  /\ UNCHANGED <<calls, codeOf, mine, cnt, sendBuf, toBM, executed, mishap>>

\* Sleep 5 ms, read at most one packet, compare its code.  Leaving the loop
\* on the last poll counts as a timeout even when that poll found an answer.
Poll(t) ==
  /\ pc[t] = "poll"
  /\ LET got   == toLinux # << >>
         code  == IF got THEN Head(toLinux).code ELSE "none"
         from  == IF got THEN Head(toLinux).call ELSE recFrame
         last  == cnt[t] + 1 = Polls
         match == code \in Accepts(codeOf[mine[t]])
         reads == match /\ ~last /\ codeOf[mine[t]] \in Reads
     IN /\ toLinux' = IF got THEN Tail(toLinux) ELSE toLinux
        /\ recvCode' = code /\ recFrame' = from
        /\ cnt' = [cnt EXCEPT ![t] = @ + 1]
        /\ sem' = IF match \/ last THEN Free ELSE sem
        /\ pc' = [pc EXCEPT ![t] = IF reads THEN "read"
                                   ELSE IF match \/ last THEN "idle" ELSE "poll"]
        /\ IF last THEN Return(t, Error)
           ELSE IF match /\ ~reads THEN Return(t, Answered(from))
           ELSE UNCHANGED outcome
        /\ mishap' = mishap
             \cup (IF last THEN {"late"} ELSE {})
             \cup (IF got /\ \E u \in Task \ {t} : pc[u] = "read"
                   THEN {"reread"} ELSE {})
  /\ UNCHANGED <<calls, codeOf, mine, sendBuf, toBM, executed>>

\* The caller reads RecFrame, after the semaphore was given back.
ReadAnswer(t) ==
  /\ Goto(t, "read", "idle")
  /\ Return(t, Answered(recFrame))
  /\ UNCHANGED <<calls, codeOf, mine, cnt, sendBuf, sem, ring, answer,
                 executed, mishap>>

------------------------------------------------------------------------------
(* Core 1: scan_maint, once every 10 ms.                                   *)

\* Mutant of BMScan: a command stays in the ring until it can be answered.
BMScanKeeps ==
  /\ toBM # << >>
  /\ LET f     == Head(toBM)
         valid == f.sum = <<f.head, f.args>> /\ f.args # << >>
         full  == Len(toLinux) >= Capacity
         reply == [code |-> Answer(codeOf[f.head]), call |-> Head(f.args)]
     IN /\ toBM' = IF valid /\ full THEN toBM ELSE Tail(toBM)
        /\ executed' = IF valid
                       THEN Append(executed, [of |-> f.head, with |-> Head(f.args)])
                       ELSE executed
        /\ toLinux' = IF valid /\ reply.code # "none" /\ ~full
                      THEN Append(toLinux, reply) ELSE toLinux
  /\ UNCHANGED <<calls, codeOf, task, sendBuf, sem, answer, outcome, mishap>>

\* A frame whose checksum does not fit its contents is skipped.
BMScan ==
  /\ toBM # << >>
  /\ toBM' = Tail(toBM)
  /\ LET f     == Head(toBM)
         valid == f.sum = <<f.head, f.args>> /\ f.args # << >>
         code  == codeOf[f.head]
         reply == [code |-> Answer(code), call |-> Head(f.args)]
     IN /\ executed' = IF valid
                       THEN Append(executed, [of |-> f.head, with |-> Head(f.args)])
                       ELSE executed
        /\ toLinux' = IF valid /\ Answer(code) # "none" /\ Len(toLinux) < Capacity
                      THEN Append(toLinux, reply) ELSE toLinux
  /\ UNCHANGED <<calls, codeOf, task, sendBuf, sem, answer, outcome, mishap>>

Step(t) == \/ PutArgs(t) \/ SendFrameTail(t) \/ TakeSem(t)
           \/ Transmit(t) \/ Poll(t) \/ ReadAnswer(t)

Next == (\E t \in Task : Begin(t) \/ Step(t)) \/ BMScan

Spec == Init /\ [][Next]_vars

\* The Linux scheduler runs every task and the mutex passes to a task that
\* keeps asking for it.  Core 1 may stall for ever.
FairSpec == Spec /\ \A t \in Task : WF_vars(Step(t)) /\ SF_vars(TakeSem(t))

------------------------------------------------------------------------------
(* Properties.                                                             *)

Number == 0 .. MaxCall
Frame  == [head : Number, args : Seq(Number), sum : Number \X Seq(Number)]
Reply  == [code : {"yk", "ack"}, call : Number]

\* A frame in use names a call that was begun.
TypeOK ==
  /\ calls \in 0 .. MaxCall
  /\ codeOf \in Seq(Code) /\ Len(codeOf) = calls
  /\ pc \in [Task -> {"idle", "args", "tail", "lock", "send", "poll", "read"}]
  /\ mine \in [Task -> 0 .. calls] /\ cnt \in [Task -> Nat]
  /\ \A t \in Task : pc[t] # "idle" => mine[t] # None
  /\ sendBuf \in Frame /\ sendBuf.head =< calls
  /\ Building # {} => sendBuf.head # None
  /\ sem \in Task \cup {Free}
  /\ toBM \in Seq(Frame) /\ toLinux \in Seq(Reply)
  /\ \A i \in 1 .. Len(toBM) : toBM[i].head \in 1 .. calls
  /\ recvCode \in {"none", "yk", "ack"} /\ recFrame \in Number
  /\ executed \in Seq([of : Number, with : Number])
  /\ outcome \in [Call -> [ret : {"open", "error", "void", "ok"}, from : Number]]
  /\ mishap \subseteq {"overlap", "late", "reread"}

\* The rings have one sender and one receiver on the Linux side.
OneUser ==
  \A t \in Task : pc[t] \in {"send", "poll"} <=> sem = t

\* Core 1 executes what a task asked for, with the arguments of that call,
\* and no call twice, unless a task began a frame while another task's frame
\* was still in the shared buffer.
ExecutedAsAsked ==
  "overlap" \in mishap \/
    /\ \A i \in 1 .. Len(executed) : executed[i].of = executed[i].with
    /\ \A i, j \in 1 .. Len(executed) :
         i # j => executed[i].of # executed[j].of

\* A call that returns an answer got its own answer, to a command that was
\* executed, unless frames overlapped, an earlier call gave up waiting, or
\* another task polled before the caller read the shared receive frame.
AnswerIsMine ==
  mishap # {} \/
    \A c \in 1 .. calls : outcome[c].ret = "ok" =>
      /\ outcome[c].from = c
      /\ \E i \in 1 .. Len(executed) : executed[i].of = c

\* Every call returns, whatever core 1 does.
CallsReturn == \A t \in Task : pc[t] # "idle" ~> pc[t] = "idle"
==============================================================================
