------------------------------ MODULE YkRelay ------------------------------
(***************************************************************************)
(* Remote control of one switch on core 1: select before operate on the    *)
(* close relay (hz), the trip relay (fz) and the start relay they share.   *)
(* In the DTU tables (do.c) every switch has three relays of its own, the  *)
(* start relay reports back whether it closed, and no relay has an enable  *)
(* port.  A switch has a plate that must be in for it to be operated: a    *)
(* soft one, a bit that protection does not ask for, or a hard one, a      *)
(* digital input that protection must find at 1 like everybody else.  It   *)
(* may be put in or taken out at any time; a switch without a plate is one *)
(* whose plate is never taken out.                                         *)
(*                                                                         *)
(* Three priority levels run this code (hd_isr.c, irq_config).  Commands   *)
(* from Linux are served in the idle loop; protection runs every 4 ms in   *)
(* slowTsk and preempts them; the 500 us timer counts the closing times    *)
(* down and preempts both.  A preempted level resumes where it stopped.    *)
(* One action is the code between two accesses that another level can see. *)
(***************************************************************************)
EXTENDS Integers, Sequences

CONSTANTS
  Source,    \* protocols of the Linux program that send commands
  Yz,        \* ticks a selection lasts
  Exec,      \* ticks an output stays closed
  MaxCall,   \* bound: commands from Linux
  MaxTrip    \* bound: operations by protection

ASSUME YkAssumption ==
  /\ Source \subseteq Nat
  /\ Yz \in Nat /\ Yz > 1 /\ Exec \in Nat /\ Exec > 1
  /\ MaxCall \in Nat /\ MaxTrip \in Nat

Out   == {"hz", "fz"}
Relay == Out \cup {"start"}
Level == {"remote", "prot"}
Any   == -1     \* the source of protection and of local operations
None  == << >>

Pair(r) == IF r = "hz" THEN "fz" ELSE "hz"

VARIABLES
  closed,         \* the relays whose output is on
  dtime,          \* ticks each relay still stays closed
  select, thid,   \* of the start relay: selected output, by which source
  frame,          \* per level: the call it executes
  calls, trips,   \* commands and operations begun
  hard,           \* the plate is a digital input
  grant,          \* history: the selection that has not been used or ended
  torn,           \* history: a tick fell inside an ykOperate
  preempted       \* history: protection preempted a command

relays  == <<closed, dtime, select, thid>>
history == <<torn, preempted>>
vars    == <<relays, frame, calls, trips, grant, hard, history>>

\* stage counts the calls of prSKgDo; had is the grant seen by ykOperate.
Idle == [pc |-> "idle", op |-> "none", src |-> Any, self |-> "hz",
         want |-> "hz", todo |-> << >>, stage |-> 0, ret |-> 0, had |-> None]

Init ==
  /\ closed = {} /\ dtime = [r \in Relay |-> 0]
  /\ select = "none" /\ thid = Any
  /\ frame = [l \in Level |-> Idle]
  /\ calls = 0 /\ trips = 0
  /\ hard \in BOOLEAN
  /\ grant = None /\ torn = FALSE /\ preempted = FALSE

------------------------------------------------------------------------------
(* Calls and returns.                                                      *)

Command(f, op, self) == [f EXCEPT !.op = op, !.self = self, !.pc = "check"]

\* yk_BM serves one command.
Begin ==
  /\ frame["remote"].pc = "idle" /\ frame["prot"].pc = "idle"
  /\ calls < MaxCall /\ calls' = calls + 1
  /\ \E s \in Source, op \in {"select", "operate", "cancel"}, self \in Out :
       frame' = [frame EXCEPT !["remote"] =
                   Command([Idle EXCEPT !.src = s], op, self)]
  /\ UNCHANGED <<relays, trips, grant, hard, history>>

\* prSKgDo operates a switch: ykOutput (stages 1 and 2), and if that finds
\* the switch busy, ykCancel of both outputs (3, 4) and ykOutput again.
Trip ==
  /\ frame["prot"].pc = "idle"
  /\ trips < MaxTrip /\ trips' = trips + 1
  /\ \E want \in Out :
       frame' = [frame EXCEPT !["prot"] =
                   Command([Idle EXCEPT !.want = want, !.stage = 1],
                           "select", want)]
  /\ preempted' = (preempted \/ frame["remote"].pc # "idle")
  /\ UNCHANGED <<relays, calls, grant, hard, torn>>

NextStage(stage, ret) ==
  IF stage \in {3, 4} \/ (stage \in {1, 5} /\ ret = 0) THEN stage + 1
  ELSE IF stage \in {1, 2} /\ ret = 2 THEN 3
  ELSE 0

\* The call and the output of a stage.
StageOp(stage) == IF stage \in {1, 5} THEN "select"
                  ELSE IF stage \in {2, 6} THEN "operate" ELSE "cancel"
StageOut(stage, want) == IF stage = 3 THEN "hz" ELSE IF stage = 4 THEN "fz" ELSE want

\* The frame of a level after its call returned ret.
Returned(f, ret) ==
  LET stage == NextStage(f.stage, ret)
  IN IF stage = 0 THEN [f EXCEPT !.pc = "idle", !.ret = ret, !.stage = 0]
     ELSE Command([f EXCEPT !.stage = stage], StageOp(stage),
                  StageOut(stage, f.want))

Return(l, ret) == frame' = [frame EXCEPT ![l] = Returned(@, ret)]
Goto(l, pc)    == frame' = [frame EXCEPT ![l].pc = pc]

\* relayOutput(r, 0, 0) of each of these relays in turn.
Release(l, todo) ==
  frame' = [frame EXCEPT ![l].pc = "off", ![l].todo = todo]

\* A level executes its call at pc unless a higher level is active.
At(l, pc) ==
  /\ frame[l].pc = pc
  /\ l = "remote" => frame["prot"].pc = "idle"

------------------------------------------------------------------------------
(* ykSelect, ykOperate, ykCancel.                                          *)

\* Mutant of Busy: only the relay itself is looked at, not its pair.
BusySelfOnly(f) == dtime[f.self] # 0

Busy(f) == dtime[f.self] # 0 \/ dtime[Pair(f.self)] # 0

\* Mutant of Held: another source's selection does not matter.
HeldNever(f) == dtime["start"] = 0 /\ f.src = Any /\ thid # Any

\* The start relay is held by a selection of another source.
Held(f) == /\ dtime["start"] # 0
           /\ f.src # Any /\ thid # Any /\ thid # f.src

\* Mutant of Barred: a soft plate that is out bars protection as well.
BarredForAll(l) == l \in Level

\* A plate that is out bars the call of this level (ybno, PRYK).
Barred(l) == hard \/ l # "prot"

\* At each test the plate may be in or out.
SelectCheck(l) ==
  /\ At(l, "check") /\ frame[l].op = "select"
  /\ LET refused == Busy(frame[l]) \/ Held(frame[l])
     IN \/ Barred(l) /\ Return(l, 4)
        \/ refused /\ Return(l, 2)
        \/ /\ ~refused
           /\ IF dtime["start"] # 0 THEN Release(l, <<"start">>)
              ELSE Goto(l, "mark")
  /\ UNCHANGED <<relays, calls, trips, grant, hard, history>>

\* Mutant of Mark: the start relay is taken for closed already.
MarkSkips(l) ==
  /\ At(l, "mark")
  /\ select' = frame[l].self /\ thid' = frame[l].src
  /\ Goto(l, "hold")
  /\ UNCHANGED <<closed, dtime, calls, trips, grant, hard, history>>

Mark(l) ==
  /\ At(l, "mark")
  /\ select' = frame[l].self /\ thid' = frame[l].src
  /\ Goto(l, "energise")
  /\ UNCHANGED <<closed, dtime, calls, trips, grant, hard, history>>

\* relayOutput(start, 1, Yz) waits up to 15 ms for the start relay to
\* report that it closed.
Energise(l) ==
  /\ At(l, "energise")
  /\ closed' = closed \cup {"start"}
  /\ Goto(l, "feedback")
  /\ UNCHANGED <<dtime, select, thid, calls, trips, grant, hard, history>>

FeedbackOk(l) ==
  /\ At(l, "feedback")
  /\ Goto(l, "hold")
  /\ UNCHANGED <<relays, calls, trips, grant, hard, history>>

\* Mutant of FeedbackFails: the output is left closed.
FeedbackFailsClosed(l) ==
  /\ At(l, "feedback")
  /\ grant' = None
  /\ Return(l, 3)
  /\ UNCHANGED <<relays, calls, trips, hard, history>>

\* The output is put back to open and nothing else is undone.
FeedbackFails(l) ==
  /\ At(l, "feedback")
  /\ closed' = closed \ {"start"}
  /\ grant' = None
  /\ Return(l, 3)
  /\ UNCHANGED <<dtime, select, thid, calls, trips, hard, history>>

Hold(l) ==
  /\ At(l, "hold")
  /\ dtime' = [dtime EXCEPT !["start"] = Yz]
  /\ grant' = <<frame[l].src, frame[l].self>>
  /\ Return(l, 0)
  /\ UNCHANGED <<closed, select, thid, calls, trips, hard, history>>

OperateCheck(l) ==
  /\ At(l, "check") /\ frame[l].op = "operate"
  /\ LET refused  == Busy(frame[l]) \/ Held(frame[l])
         selected == dtime["start"] # 0
     IN \/ Barred(l) /\ Return(l, 4)
        \/ refused /\ Return(l, 2)
        \/ ~refused /\ ~selected /\ Return(l, 1)
        \/ /\ ~refused /\ selected /\ select # frame[l].self
           /\ Release(l, <<"start">>)
        \/ /\ ~refused /\ selected /\ select = frame[l].self
           /\ frame' = [frame EXCEPT ![l].pc = "close", ![l].had = grant]
  /\ UNCHANGED <<relays, calls, trips, grant, hard, history>>

CloseOut(l) ==
  /\ At(l, "close")
  /\ closed' = closed \cup {frame[l].self}
  /\ grant' = None
  /\ Goto(l, "timeself")
  /\ UNCHANGED <<dtime, select, thid, calls, trips, hard, history>>

TimeSelf(l) ==
  /\ At(l, "timeself")
  /\ dtime' = [dtime EXCEPT ![frame[l].self] = Exec]
  /\ Goto(l, "timestart")
  /\ UNCHANGED <<closed, select, thid, calls, trips, grant, hard, history>>

TimeStart(l) ==
  /\ At(l, "timestart")
  /\ dtime' = [dtime EXCEPT !["start"] = Exec]
  /\ Return(l, 0)
  /\ UNCHANGED <<closed, select, thid, calls, trips, grant, hard, history>>

CancelCheck(l) ==
  /\ At(l, "check") /\ frame[l].op = "cancel"
  /\ IF Held(frame[l]) THEN Return(l, 2)
     ELSE Release(l, <<frame[l].self, "start">>)
  /\ UNCHANGED <<relays, calls, trips, grant, hard, history>>

\* relayOutput(r, 0, 0): the output, then its time.
Off(l) ==
  /\ At(l, "off")
  /\ LET r == Head(frame[l].todo)
     IN /\ closed' = closed \ {r}
        /\ grant' = IF r = "start" THEN None ELSE grant
  /\ Goto(l, "zero")
  /\ UNCHANGED <<dtime, select, thid, calls, trips, hard, history>>

Zero(l) ==
  /\ At(l, "zero")
  /\ LET f    == frame[l]
         rest == [f EXCEPT !.todo = Tail(@)]
     IN /\ dtime' = [dtime EXCEPT ![Head(f.todo)] = 0]
        /\ frame' = [frame EXCEPT ![l] =
             IF rest.todo # << >> THEN [rest EXCEPT !.pc = "off"]
             ELSE IF f.op = "select" THEN [rest EXCEPT !.pc = "mark"]
             ELSE Returned(rest, IF f.op = "operate" THEN 1 ELSE 0)]
  /\ UNCHANGED <<closed, select, thid, calls, trips, grant, hard, history>>

Step(l) ==
  \/ SelectCheck(l) \/ Mark(l) \/ Energise(l) \/ FeedbackOk(l)
  \/ FeedbackFails(l) \/ Hold(l)
  \/ OperateCheck(l) \/ CloseOut(l) \/ TimeSelf(l) \/ TimeStart(l)
  \/ CancelCheck(l) \/ Off(l) \/ Zero(l)

------------------------------------------------------------------------------
(* The timer: ykScanOnTimer.                                               *)

Expiring == {r \in Relay : dtime[r] = 1}

Operating(l) == frame[l].pc \in {"close", "timeself", "timestart"}

\* A selection lasts 5 s or more, and protection uses the one it made within
\* the same interrupt: it does not end before that.
SelectionOutlastsCall ==
  "start" \in Expiring => frame["prot"].op # "operate" \/ frame["prot"].pc = "idle"

\* Mutant of Tick: the timer counts down and opens nothing.
TickOnlyCounts ==
  /\ \E r \in Relay : dtime[r] > 0
  /\ dtime' = [r \in Relay |-> IF dtime[r] > 0 THEN dtime[r] - 1 ELSE 0]
  /\ UNCHANGED <<closed, select, thid, frame, calls, trips, grant>>
  /\ UNCHANGED <<hard, history>>

Tick ==
  /\ \E r \in Relay : dtime[r] > 0
  /\ SelectionOutlastsCall
  /\ dtime' = [r \in Relay |-> IF dtime[r] > 0 THEN dtime[r] - 1 ELSE 0]
  /\ closed' = closed \ Expiring
  /\ grant' = IF "start" \in Expiring THEN None ELSE grant
  /\ torn' = (torn \/ \E l \in Level : Operating(l))
  /\ UNCHANGED <<select, thid, frame, calls, trips, hard, preempted>>

Next == Begin \/ Trip \/ Tick \/ \E l \in Level : Step(l)

Spec == Init /\ [][Next]_vars

\* The timer interrupt keeps coming and a call that was begun is finished.
FairSpec == Spec /\ WF_vars(Tick) /\ \A l \in Level : WF_vars(Step(l))

------------------------------------------------------------------------------
(* Properties.                                                             *)

TypeOK ==
  /\ closed \subseteq Relay
  /\ dtime \in [Relay -> Int] /\ \A o \in Out : dtime[o] \in 0 .. Exec
  /\ dtime["start"] \in 0 .. (IF Yz > Exec THEN Yz ELSE Exec)
  /\ select \in Out \cup {"none"} /\ thid \in Source \cup {Any}
  /\ grant \in (((Source \cup {Any}) \X Out) \cup {None})
  /\ hard \in BOOLEAN /\ torn \in BOOLEAN /\ preempted \in BOOLEAN
  /\ \A l \in Level :
       /\ frame[l].stage \in 0 .. 6 /\ frame[l].ret \in 0 .. 4
       /\ frame[l].self \in Out
       /\ frame[l].pc \in {"off", "zero"} => frame[l].todo # << >>

\* The close relay and the trip relay of a switch are never closed together.
PairExclusive == ~(Out \subseteq closed)

\* They are not, as long as protection never preempts a command halfway.
ExclusiveUnlessPreempted == preempted \/ PairExclusive

\* A relay that is closed while no call is handling the switch has a time
\* after which the timer opens it, unless protection preempted a command.
ClosedIsTimed ==
  (\A l \in Level : frame[l].pc = "idle") =>
    preempted \/ \A r \in closed : dtime[r] > 0

\* An output is operated only by the source that selected it, while that
\* selection stands, and once per selection, unless a tick fell inside an
\* ykOperate (then the start relay outlives the output's time and a repeated
\* command finds the switch still selected) or protection preempted a command.
\* Protection may select and then be refused by a hard plate taken out within
\* the wait for the start relay: any source can operate what it left selected.
OncePerSelection ==
  torn \/ preempted \/
    \A l \in Level : frame[l].pc = "close" =>
      \/ frame[l].had = <<frame[l].src, frame[l].self>>
      \/ hard /\ frame[l].had = <<Any, frame[l].self>>

\* What protection starts ends with the output operated or with a start relay
\* that did not report back, whatever a command it preempted was doing and even
\* if a soft plate is out.  Only a hard plate may refuse it, whose refusal (4)
\* is not tried again; a busy switch and a selection that is gone never do.
ProtectionDecides ==
  frame["prot"].pc = "idle" =>
    frame["prot"].ret \in {0, 3} \/ (hard /\ frame["prot"].ret = 4)

\* When protection closes its output the start relay is closed, whatever a
\* command it preempted was doing.
ProtectionOperates ==
  frame["prot"].pc = "timeself" => {frame["prot"].self, "start"} \subseteq closed

\* A relay that was closed opens again, whether it was operated, cancelled,
\* failed or was abandoned, unless protection preempted a command (a late store
\* of 0 then takes the time of a relay that protection has closed).
OpensAgain == \A r \in Relay : r \in closed ~> r \notin closed \/ preempted
==============================================================================
