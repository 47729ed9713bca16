--------------------------- MODULE YkRelay_proofs ---------------------------
(***************************************************************************)
(* Proofs about the remote control of a switch, for every set of sources,  *)
(* every duration of a selection and of an output, and every number of     *)
(* commands and operations.                                                *)
(***************************************************************************)
EXTENDS YkRelay, SequenceTheorems, TLAPS

Places == {"idle", "check", "mark", "energise", "feedback", "hold", "close",
           "timeself", "timestart", "off", "zero"}
Grant == ((Source \cup {Any}) \X Out) \cup {None}
Frame == [pc : Places, op : {"none", "select", "operate", "cancel"},
          src : Source \cup {Any}, self : Out, want : Out, todo : Seq(Relay),
          stage : 0 .. 6, ret : 0 .. 4, had : Grant]

Longest == IF Yz > Exec THEN Yz ELSE Exec

Typed == frame \in [Level -> Frame]

\* A level is about to set the time of a relay it has closed.
Closing(l, r) ==
  IF r = "start" THEN frame[l].pc \in {"feedback", "hold"}
  ELSE frame[l].pc = "timeself" /\ frame[l].self = r

\* As long as protection has not preempted a command, one level at a time is
\* active; what is closed has a time, or will be given one by that level; the
\* level that closes an output has found both open, and the one that takes a
\* relay's time has opened it.
Orderly ==
  /\ frame["remote"].pc = "idle" \/ frame["prot"].pc = "idle"
  /\ \A r \in closed : dtime[r] > 0 \/ \E l \in Level : Closing(l, r)
  /\ \A l \in Level :
       /\ frame[l].pc \in {"close", "timeself"} =>
            dtime["hz"] = 0 /\ dtime["fz"] = 0
       /\ frame[l].pc = "zero" => Head(frame[l].todo) \notin closed
  /\ PairExclusive

OrderHolds == preempted \/ Orderly

IInv == TypeOK /\ Typed /\ OrderHolds
-------------------------------------------------------------------------------
(* Frames.                                                                 *)

LEMMA Constants ==
  /\ Out = {"hz", "fz"} /\ Relay = {"hz", "fz", "start"}
  /\ Level = {"remote", "prot"}
  /\ Pair("hz") = "fz" /\ Pair("fz") = "hz"
  /\ Yz \in Nat /\ Yz > 0 /\ Exec \in Nat /\ Exec > 0
  /\ Longest \in Nat /\ Yz =< Longest /\ Exec =< Longest
BY YkAssumption DEF Out, Relay, Level, Pair, Longest

LEMMA FrameFields ==
  ASSUME NEW f \in Frame
  PROVE  /\ f.pc \in Places /\ f.self \in Out /\ f.want \in Out
         /\ f.todo \in Seq(Relay) /\ f.stage \in 0 .. 6 /\ f.ret \in 0 .. 4
         /\ f.src \in Source \cup {Any} /\ f.had \in Grant
         /\ f.op \in {"none", "select", "operate", "cancel"}
BY DEF Frame

\* A frame that only moves on.
LEMMA Moved ==
  ASSUME NEW f \in Frame, NEW p \in Places
  PROVE  /\ [f EXCEPT !.pc = p] \in Frame
         /\ [f EXCEPT !.pc = p].pc = p
         /\ [f EXCEPT !.pc = p].self = f.self /\ [f EXCEPT !.pc = p].todo = f.todo
BY DEF Frame

LEMMA CommandFrame ==
  ASSUME NEW f \in Frame, NEW op \in {"select", "operate", "cancel"}, NEW o \in Out
  PROVE  Command(f, op, o) \in Frame /\ Command(f, op, o).pc = "check"
BY DEF Frame, Command, Places

LEMMA ReturnedFrame ==
  ASSUME NEW f \in Frame, NEW ret \in 0 .. 4
  PROVE  Returned(f, ret) \in Frame /\ Returned(f, ret).pc \in {"idle", "check"}
<1> DEFINE stage == NextStage(f.stage, ret)
           g == [f EXCEPT !.stage = stage]
<1>1. stage \in 0 .. 6
  BY FrameFields DEF NextStage
<1> HIDE DEF stage
<1>2. CASE stage = 0
  <2>1. Returned(f, ret) = [f EXCEPT !.pc = "idle", !.ret = ret, !.stage = 0]
    BY <1>2 DEF Returned, stage
  <2>2. [f EXCEPT !.pc = "idle", !.ret = ret, !.stage = 0] \in Frame
        /\ [f EXCEPT !.pc = "idle", !.ret = ret, !.stage = 0].pc = "idle"
    <3> DEFINE a == [f EXCEPT !.pc = "idle"]
               b == [a EXCEPT !.ret = ret]
               c == [b EXCEPT !.stage = 0]
    <3>1. a \in Frame /\ a.pc = "idle"
      BY Moved DEF Places
    <3> HIDE DEF a
    <3>2. b \in Frame /\ b.pc = "idle"
      BY <3>1 DEF Frame
    <3> HIDE DEF b
    <3>3. c \in Frame /\ c.pc = "idle"
      BY <3>2 DEF Frame
    <3>4. [f EXCEPT !.pc = "idle", !.ret = ret, !.stage = 0] = c
      BY DEF a, b
    <3>5. QED
      BY <3>3, <3>4
  <2>3. QED
    BY <2>1, <2>2
<1>3. CASE stage # 0
  <2>1. g \in Frame
    BY <1>1 DEF Frame
  <2>2. StageOp(stage) \in {"select", "operate", "cancel"}
    BY DEF StageOp
  <2>3. StageOut(stage, f.want) \in Out
    BY FrameFields, Constants DEF StageOut
  <2>4. Returned(f, ret) = Command(g, StageOp(stage), StageOut(stage, f.want))
    BY <1>3 DEF Returned, stage
  <2> HIDE DEF g
  <2>5. QED
    BY <2>1, <2>2, <2>3, <2>4, CommandFrame
<1>4. QED
  BY <1>2, <1>3

\* How a level moves on, returns, and begins to release relays.
LEMMA GotoFacts ==
  ASSUME Typed, NEW l \in Level, NEW p \in Places, Goto(l, p)
  PROVE  /\ Typed' /\ frame'[l].pc = p
         /\ frame'[l].self = frame[l].self /\ frame'[l].todo = frame[l].todo
         /\ \A m \in Level : m # l => frame'[m] = frame[m]
<1>1. frame[l] \in Frame
  BY DEF Typed
<1>2. frame' = [frame EXCEPT ![l] = [frame[l] EXCEPT !.pc = p]]
  BY DEF Goto, Typed
<1>3. QED
  BY <1>1, <1>2, Moved DEF Typed

LEMMA ReturnFacts ==
  ASSUME Typed, NEW l \in Level, NEW ret \in 0 .. 4, Return(l, ret)
  PROVE  /\ Typed' /\ frame'[l].pc \in {"idle", "check"}
         /\ \A m \in Level : m # l => frame'[m] = frame[m]
<1>1. frame[l] \in Frame
  BY DEF Typed
<1>2. frame' = [frame EXCEPT ![l] = Returned(frame[l], ret)]
  BY DEF Return
<1>3. QED
  BY <1>1, <1>2, ReturnedFrame DEF Typed

LEMMA ReleaseFacts ==
  ASSUME Typed, NEW l \in Level, NEW todo \in Seq(Relay), Release(l, todo)
  PROVE  /\ Typed' /\ frame'[l].pc = "off" /\ frame'[l].todo = todo
         /\ \A m \in Level : m # l => frame'[m] = frame[m]
<1>1. frame[l] \in Frame
  BY DEF Typed
<1> DEFINE g == [frame[l] EXCEPT !.pc = "off", !.todo = todo]
<1>2. frame' = [frame EXCEPT ![l] = g]
  BY DEF Release, Typed
<1>3. g \in Frame /\ g.pc = "off" /\ g.todo = todo
  BY <1>1 DEF Frame, Places
<1> HIDE DEF g
<1>4. QED
  BY <1>2, <1>3 DEF Typed

\* What TypeOK asks of frames follows from their type.
LEMMA TypeOfFrames ==
  ASSUME Typed, \A l \in Level : frame[l].pc \in {"off", "zero"} => frame[l].todo # << >>
  PROVE  \A l \in Level :
           /\ frame[l].stage \in 0 .. 6 /\ frame[l].ret \in 0 .. 4
           /\ frame[l].self \in Out
           /\ frame[l].pc \in {"off", "zero"} => frame[l].todo # << >>
BY FrameFields DEF Typed

LEMMA Times ==
  ASSUME TypeOK
  PROVE  /\ closed \subseteq Relay /\ dtime \in [Relay -> Nat]
         /\ \A o \in Out : dtime[o] =< Exec
         /\ dtime["start"] =< Longest
BY Constants DEF TypeOK, Longest

LEMMA TimesType ==
  ASSUME NEW d \in [Relay -> Nat], \A o \in Out : d[o] =< Exec, d["start"] =< Longest
  PROVE  /\ d \in [Relay -> Int] /\ \A o \in Out : d[o] \in 0 .. Exec
         /\ d["start"] \in 0 .. (IF Yz > Exec THEN Yz ELSE Exec)
BY Constants DEF Longest

\* While one level is active and protection has preempted no command, the
\* other is not.
LEMMA OthersIdle ==
  ASSUME Orderly, NEW l \in Level, frame[l].pc # "idle"
  PROVE  \A m \in Level : m # l => frame[m].pc = "idle"
BY Constants DEF Orderly

LEMMA InitHolds == Init => IInv
<1> SUFFICES ASSUME Init PROVE IInv
  OBVIOUS
<1> USE DEF Init
<1>1. Idle \in Frame /\ Idle.pc = "idle"
  <2>1. << >> \in Seq(Relay) /\ None \in Grant /\ Any \in Source \cup {Any}
    BY DEF Grant
  <2>2. QED
    BY <2>1, Constants DEF Idle, Frame, Places
<1>2. Typed
  BY <1>1 DEF Typed
<1>3. \A l \in Level : frame[l].pc = "idle"
  BY <1>1
<1>4. TypeOK
  <2>1. dtime \in [Relay -> Nat] /\ (\A o \in Out : dtime[o] =< Exec)
        /\ dtime["start"] =< Longest
    BY Constants
  <2>2. grant \in Grant /\ select \in Out \cup {"none"} /\ thid \in Source \cup {Any}
    BY DEF Grant
  <2>3. /\ hard \in BOOLEAN /\ torn \in BOOLEAN /\ preempted \in BOOLEAN
        /\ closed \subseteq Relay
    OBVIOUS
  <2>4. QED
    BY <1>2, <1>3, <2>1, <2>2, <2>3, TimesType, TypeOfFrames DEF TypeOK, Grant
<1>5. OrderHolds
  BY <1>3, Constants DEF OrderHolds, Orderly, PairExclusive
<1>6. QED
  BY <1>2, <1>4, <1>5 DEF IInv

LEMMA TypeStep ==
  ASSUME Typed', closed' \subseteq Relay, dtime' \in [Relay -> Nat],
         \A o \in Out : dtime'[o] =< Exec, dtime'["start"] =< Longest,
         select' \in Out \cup {"none"}, thid' \in Source \cup {Any},
         grant' \in Grant, hard' \in BOOLEAN,
         torn' \in BOOLEAN, preempted' \in BOOLEAN,
         \A l \in Level : frame'[l].pc \in {"off", "zero"} => frame'[l].todo # << >>
  PROVE  TypeOK'
<1>1. /\ dtime' \in [Relay -> Int] /\ \A o \in Out : dtime'[o] \in 0 .. Exec
      /\ dtime'["start"] \in 0 .. (IF Yz > Exec THEN Yz ELSE Exec)
  BY TimesType
<1>2. \A l \in Level : frame'[l] \in Frame
  BY DEF Typed
<1>3. \A l \in Level :
        /\ frame'[l].stage \in 0 .. 6 /\ frame'[l].ret \in 0 .. 4
        /\ frame'[l].self \in Out
  BY <1>2, FrameFields
<1>4. QED
  BY <1>1, <1>3 DEF TypeOK, Grant

\* What TypeOK says besides.
LEMMA Others ==
  ASSUME TypeOK
  PROVE  /\ select \in Out \cup {"none"} /\ thid \in Source \cup {Any}
         /\ grant \in Grant /\ hard \in BOOLEAN
         /\ torn \in BOOLEAN /\ preempted \in BOOLEAN
         /\ \A l \in Level : frame[l].pc \in {"off", "zero"} => frame[l].todo # << >>
BY DEF TypeOK, Grant

-------------------------------------------------------------------------------
(* The steps of a call.                                                    *)

\* A level moves on without touching a relay, from a place where it owes none a
\* time to one where it owes none and has found nothing.
LEMMA FrameStep ==
  ASSUME IInv, NEW l \in Level, Typed',
         \A m \in Level : m # l => frame'[m] = frame[m],
         UNCHANGED <<closed, dtime, hard, torn>>,
         select' \in Out \cup {"none"}, thid' \in Source \cup {Any}, grant' \in Grant,
         preempted' \in BOOLEAN, preempted => preempted',
         ~preempted' => \A m \in Level : m # l => frame[m].pc = "idle",
         frame[l].pc \notin {"feedback", "hold", "timeself"},
         frame'[l].pc \in {"idle", "check", "mark", "energise", "off"},
         frame'[l].pc = "off" => frame'[l].todo # << >>
  PROVE  IInv'
<1> USE DEF IInv
<1>1. TypeOK'
  <2>1. \A m \in Level : frame'[m].pc \in {"off", "zero"} => frame'[m].todo # << >>
    BY Others
  <2>2. /\ closed' \subseteq Relay /\ dtime' \in [Relay -> Nat]
        /\ (\A o \in Out : dtime'[o] =< Exec) /\ dtime'["start"] =< Longest
        /\ hard' \in BOOLEAN /\ torn' \in BOOLEAN
    BY Times, Others
  <2>3. QED
    BY <2>1, <2>2, TypeStep
<1>2. OrderHolds'
  <2> SUFFICES ASSUME ~preempted' PROVE Orderly'
    BY DEF OrderHolds
  <2>1. Orderly /\ \A m \in Level : m # l => frame'[m].pc = "idle"
    BY DEF OrderHolds
  <2>2. \A r \in closed, m \in Level : ~Closing(m, r)
    <3>1. \A m \in Level : frame[m].pc \notin {"feedback", "hold", "timeself"}
      BY <2>1
    <3>2. QED
      BY <3>1 DEF Closing
  <2>3. \A r \in closed : dtime[r] > 0
    BY <2>1, <2>2 DEF Orderly
  <2>4. QED
    BY <2>1, <2>3, Constants DEF Orderly, PairExclusive
<1>3. QED
  BY <1>1, <1>2

LEMMA CheckHolds ==
  ASSUME IInv, NEW l \in Level, SelectCheck(l) \/ CancelCheck(l) \/ OperateCheck(l)
  PROVE  IInv'
<1> USE DEF IInv
<1>1. /\ frame[l].pc = "check"
      /\ UNCHANGED <<closed, dtime, select, thid, grant, hard, torn, preempted>>
  BY DEF SelectCheck, CancelCheck, OperateCheck, At, relays, history
<1>2. ~preempted => Orderly /\ \A m \in Level : m # l => frame[m].pc = "idle"
  BY <1>1, OthersIdle DEF OrderHolds
<1>3. /\ select' \in Out \cup {"none"} /\ thid' \in Source \cup {Any}
      /\ grant' \in Grant /\ preempted' \in BOOLEAN
  BY <1>1, Others
<1>4. ASSUME NEW ret \in 0 .. 4, Return(l, ret) PROVE IInv'
  <2>1. /\ Typed' /\ frame'[l].pc \in {"idle", "check"}
        /\ \A m \in Level : m # l => frame'[m] = frame[m]
    BY <1>4, ReturnFacts
  <2>2. QED
    BY <1>1, <1>2, <1>3, <2>1, FrameStep
<1>5. ASSUME Goto(l, "mark") PROVE IInv'
  <2>1. "mark" \in Places
    BY DEF Places
  <2>2. /\ Typed' /\ frame'[l].pc = "mark"
        /\ \A m \in Level : m # l => frame'[m] = frame[m]
    BY <1>5, <2>1, GotoFacts
  <2>3. QED
    BY <1>1, <1>2, <1>3, <2>2, FrameStep
<1>6. ASSUME NEW todo \in Seq(Relay), todo # << >>, Release(l, todo) PROVE IInv'
  <2>1. /\ Typed' /\ frame'[l].pc = "off" /\ frame'[l].todo = todo
        /\ \A m \in Level : m # l => frame'[m] = frame[m]
    BY <1>6, ReleaseFacts
  <2>2. QED
    BY <1>1, <1>2, <1>3, <1>6, <2>1, FrameStep
<1>7. frame[l].self \in Out /\ frame[l] \in Frame
  BY FrameFields DEF Typed
<1>8. CASE SelectCheck(l)
  <2>1. <<"start">> \in Seq(Relay) /\ <<"start">> # << >>
    BY Constants
  <2>2. Return(l, 4) \/ Return(l, 2) \/ Release(l, <<"start">>) \/ Goto(l, "mark")
    BY <1>8, Zenon DEF SelectCheck
  <2> HIDE DEF IInv
  <2>3. CASE Return(l, 4) \/ Return(l, 2)
    BY <1>4, <2>3
  <2>4. CASE Release(l, <<"start">>)
    BY <1>6, <2>1, <2>4
  <2>5. QED
    BY <1>5, <2>2, <2>3, <2>4
<1>9. CASE CancelCheck(l)
  <2>1. <<frame[l].self, "start">> \in Seq(Relay) /\ <<frame[l].self, "start">> # << >>
    BY <1>7, Constants
  <2>2. Return(l, 2) \/ Release(l, <<frame[l].self, "start">>)
    BY <1>9, Zenon DEF CancelCheck
  <2> HIDE DEF IInv
  <2>3. CASE Return(l, 2)
    BY <1>4, <2>3
  <2>4. CASE Release(l, <<frame[l].self, "start">>)
    BY <1>6, <2>1, <2>4
  <2>5. QED
    BY <2>2, <2>3, <2>4
<1>10. CASE OperateCheck(l)
  <2>1. <<"start">> \in Seq(Relay) /\ <<"start">> # << >>
    BY Constants
  <2>2. CASE /\ ~Busy(frame[l])
             /\ frame' = [frame EXCEPT ![l].pc = "close", ![l].had = grant]
    <3> DEFINE g == [frame[l] EXCEPT !.pc = "close", !.had = grant]
    <3>1. frame' = [frame EXCEPT ![l] = g]
      BY <2>2 DEF Typed
    <3>2. grant \in Grant
      BY Others
    <3>3. g \in Frame /\ g.pc = "close"
      <4> DEFINE a == [frame[l] EXCEPT !.pc = "close"]
      <4>1. a \in Frame /\ a.pc = "close"
        BY <1>7, Moved DEF Places
      <4> HIDE DEF a
      <4>2. [a EXCEPT !.had = grant] \in Frame /\ [a EXCEPT !.had = grant].pc = "close"
        BY <3>2, <4>1 DEF Frame
      <4>3. g = [a EXCEPT !.had = grant]
        BY <1>7 DEF a, Frame
      <4>4. QED
        BY <4>2, <4>3
    <3> HIDE DEF g
    <3>4. /\ Typed' /\ frame'[l].pc = "close"
          /\ \A m \in Level : m # l => frame'[m] = frame[m]
      BY <3>1, <3>3 DEF Typed
    <3>5. dtime["hz"] = 0 /\ dtime["fz"] = 0
      BY <1>7, <2>2, Constants DEF Busy
    <3>6. TypeOK'
      <4>1. \A m \in Level : frame'[m].pc \in {"off", "zero"} => frame'[m].todo # << >>
        BY <3>4, Others
      <4>2. QED
        BY <1>1, <3>4, <4>1, Times, Others, TypeStep
    <3>7. OrderHolds'
      <4> SUFFICES ASSUME ~preempted PROVE Orderly'
        BY <1>1 DEF OrderHolds
      <4>1. \A r \in closed, m \in Level : ~Closing(m, r)
        BY <1>1, <1>2 DEF Closing
      <4>2. \A r \in closed : dtime[r] > 0
        BY <1>2, <4>1 DEF Orderly
      <4>3. \A m \in Level : m # l => frame'[m].pc = "idle"
        BY <1>2, <3>4
      <4>4. QED
        BY <1>1, <1>2, <3>4, <3>5, <4>2, <4>3, Constants DEF Orderly, PairExclusive
    <3>8. QED
      BY <3>4, <3>6, <3>7
  <2>3. \/ Return(l, 4) \/ Return(l, 2) \/ Return(l, 1) \/ Release(l, <<"start">>)
        \/ /\ ~Busy(frame[l])
           /\ frame' = [frame EXCEPT ![l].pc = "close", ![l].had = grant]
    BY <1>10, Zenon DEF OperateCheck
  <2> HIDE DEF IInv
  <2>4. CASE Return(l, 4) \/ Return(l, 2)
    BY <1>4, <2>4
  <2>5. CASE Return(l, 1)
    BY <1>4, <2>5
  <2>6. CASE Release(l, <<"start">>)
    BY <1>6, <2>1, <2>6
  <2>7. QED
    BY <2>2, <2>3, <2>4, <2>5, <2>6
<1>11. QED
  BY <1>8, <1>9, <1>10

\* What the orderly conduct asks of one level.
Sound(l) ==
  /\ \A r \in closed : dtime[r] > 0 \/ Closing(l, r)
  /\ frame[l].pc \in {"close", "timeself"} => dtime["hz"] = 0 /\ dtime["fz"] = 0
  /\ frame[l].pc = "zero" => Head(frame[l].todo) \notin closed
  /\ PairExclusive

LEMMA Alone ==
  ASSUME IInv, NEW l \in Level, frame[l].pc # "idle"
  PROVE  preempted \/ (Sound(l) /\ \A m \in Level : m # l => frame[m].pc = "idle")
<1> SUFFICES ASSUME ~preempted
             PROVE  Sound(l) /\ \A m \in Level : m # l => frame[m].pc = "idle"
  BY Others DEF IInv
<1>1. Orderly
  BY DEF IInv, OrderHolds
<1>2. \A m \in Level : m # l => frame[m].pc = "idle"
  BY <1>1, OthersIdle
<1>3. \A m \in Level : m # l => \A r : ~Closing(m, r)
  BY <1>2 DEF Closing
<1>4. QED
  BY <1>1, <1>2, <1>3 DEF Orderly, Sound

\* A level at work takes a step that leaves it sound.
LEMMA ActiveStep ==
  ASSUME IInv, NEW l \in Level, frame[l].pc # "idle", Typed',
         \A m \in Level : m # l => frame'[m] = frame[m],
         UNCHANGED <<hard, torn, preempted>>,
         select' \in Out \cup {"none"}, thid' \in Source \cup {Any}, grant' \in Grant,
         closed' \subseteq Relay, dtime' \in [Relay -> Nat],
         \A o \in Out : dtime'[o] =< Exec, dtime'["start"] =< Longest,
         frame'[l].pc \in {"off", "zero"} => frame'[l].todo # << >>,
         preempted \/ Sound(l)'
  PROVE  IInv'
<1>1. TypeOK /\ Typed
  BY DEF IInv
<1>2. TypeOK'
  <2>1. \A m \in Level : frame'[m].pc \in {"off", "zero"} => frame'[m].todo # << >>
    BY <1>1, Others
  <2>2. hard' \in BOOLEAN /\ torn' \in BOOLEAN /\ preempted' \in BOOLEAN
    BY <1>1, Others
  <2>3. QED
    BY <2>1, <2>2, TypeStep
<1>3. OrderHolds'
  <2> SUFFICES ASSUME ~preempted PROVE Orderly'
    BY DEF OrderHolds
  <2>1. \A m \in Level : m # l => frame'[m].pc = "idle"
    BY Alone
  <2>2. Sound(l)'
    OBVIOUS
  <2>3. QED
    BY <2>1, <2>2, Constants DEF Orderly, Sound
<1>4. QED
  BY <1>2, <1>3 DEF IInv

LEMMA MarkHolds == ASSUME IInv, NEW l \in Level, Mark(l) PROVE IInv'
<1>1. /\ frame[l].pc = "mark" /\ Goto(l, "energise") /\ TypeOK /\ Typed
      /\ select' = frame[l].self /\ thid' = frame[l].src
      /\ UNCHANGED <<closed, dtime, grant, hard, torn, preempted>>
  BY DEF Mark, At, IInv, history
<1>2. select' \in Out \cup {"none"} /\ thid' \in Source \cup {Any}
  BY <1>1, FrameFields DEF Typed
<1>3. "energise" \in Places
  BY DEF Places
<1>4. /\ Typed' /\ frame'[l].pc = "energise"
      /\ \A m \in Level : m # l => frame'[m] = frame[m]
  BY <1>1, <1>3, GotoFacts
<1>5. preempted \/ \A m \in Level : m # l => frame[m].pc = "idle"
  BY <1>1, Alone
<1>6. grant' \in Grant /\ preempted' \in BOOLEAN
  BY <1>1, Others
<1>7. QED
  BY <1>1, <1>2, <1>4, <1>5, <1>6, FrameStep

LEMMA EnergiseHolds ==
  ASSUME IInv, NEW l \in Level, Energise(l) \/ FeedbackOk(l)
  PROVE  IInv'
<1>1. /\ TypeOK /\ Typed
      /\ UNCHANGED <<dtime, select, thid, grant, hard, torn, preempted>>
      /\ \/ /\ frame[l].pc = "energise" /\ Goto(l, "feedback")
            /\ closed' = closed \cup {"start"}
         \/ /\ frame[l].pc = "feedback" /\ Goto(l, "hold") /\ closed' = closed
  BY DEF Energise, FeedbackOk, At, IInv, history, relays
<1>2. /\ "feedback" \in Places /\ "hold" \in Places
  BY DEF Places
<1>3. /\ Typed' /\ frame'[l].pc \in {"feedback", "hold"}
      /\ \A m \in Level : m # l => frame'[m] = frame[m]
  BY <1>1, <1>2, GotoFacts
<1>4. closed' \subseteq closed \cup {"start"} /\ closed' \subseteq Relay
  BY <1>1, Times, Constants
<1>5. ASSUME ~preempted PROVE Sound(l)'
  <2>1. Sound(l)
    BY <1>1, <1>5, Alone
  <2>2. \A r \in closed' : dtime'[r] > 0 \/ Closing(l, r)'
    BY <1>1, <1>3, <1>4, <2>1 DEF Sound, Closing
  <2>3. PairExclusive'
    BY <1>4, <2>1, Constants DEF Sound, PairExclusive
  <2>4. QED
    BY <1>3, <2>2, <2>3 DEF Sound
<1>6. frame[l].pc # "idle"
  BY <1>1
<1>7. /\ select' \in Out \cup {"none"} /\ thid' \in Source \cup {Any}
      /\ grant' \in Grant /\ dtime' \in [Relay -> Nat]
      /\ (\A o \in Out : dtime'[o] =< Exec) /\ dtime'["start"] =< Longest
  BY <1>1, Times, Others
<1>8. UNCHANGED <<hard, torn, preempted>>
  BY <1>1
<1>9. frame'[l].pc \in {"off", "zero"} => frame'[l].todo # << >>
  BY <1>3
<1>10. QED
  BY <1>3, <1>4, <1>5, <1>6, <1>7, <1>8, <1>9, ActiveStep

LEMMA FeedbackFailsHolds ==
  ASSUME IInv, NEW l \in Level, FeedbackFails(l)
  PROVE  IInv'
<1>1. /\ TypeOK /\ Typed /\ frame[l].pc = "feedback" /\ Return(l, 3)
      /\ closed' = closed \ {"start"} /\ grant' = None
      /\ UNCHANGED <<dtime, select, thid, hard, torn, preempted>>
  BY DEF FeedbackFails, At, IInv, history
<1>2. 3 \in 0 .. 4
  OBVIOUS
<1>3. /\ Typed' /\ frame'[l].pc \in {"idle", "check"}
      /\ \A m \in Level : m # l => frame'[m] = frame[m]
  BY <1>1, <1>2, ReturnFacts
<1>4. ASSUME ~preempted PROVE Sound(l)'
  <2>1. Sound(l)
    BY <1>1, <1>4, Alone
  <2>2. \A r \in closed' : dtime'[r] > 0
    BY <1>1, <2>1 DEF Sound, Closing
  <2>3. PairExclusive'
    BY <1>1, <2>1 DEF Sound, PairExclusive
  <2>4. QED
    BY <1>3, <2>2, <2>3 DEF Sound
<1>5. frame[l].pc # "idle"
  BY <1>1
<1>6. /\ select' \in Out \cup {"none"} /\ thid' \in Source \cup {Any}
      /\ grant' \in Grant /\ dtime' \in [Relay -> Nat] /\ closed' \subseteq Relay
      /\ (\A o \in Out : dtime'[o] =< Exec) /\ dtime'["start"] =< Longest
  BY <1>1, Times, Others DEF Grant
<1>7. UNCHANGED <<hard, torn, preempted>>
  BY <1>1
<1>8. frame'[l].pc \in {"off", "zero"} => frame'[l].todo # << >>
  BY <1>3
<1>9. QED
  BY <1>3, <1>4, <1>5, <1>6, <1>7, <1>8, ActiveStep

\* One relay gets a time it may have.
LEMMA Timed ==
  ASSUME TypeOK, NEW r \in Relay, NEW t \in Nat,
         t =< IF r = "start" THEN Longest ELSE Exec,
         dtime' = [dtime EXCEPT ![r] = t]
  PROVE  /\ dtime' \in [Relay -> Nat] /\ dtime'[r] = t
         /\ \A o \in Out : dtime'[o] =< Exec
         /\ dtime'["start"] =< Longest
         /\ \A q \in Relay : q # r => dtime'[q] = dtime[q]
<1>1. dtime \in [Relay -> Nat] /\ (\A o \in Out : dtime[o] =< Exec)
      /\ dtime["start"] =< Longest
  BY Times
<1>2. "start" \notin Out /\ Out \subseteq Relay /\ "start" \in Relay
  BY Constants
<1>3. QED
  BY <1>1, <1>2

LEMMA HoldHolds ==
  ASSUME IInv, NEW l \in Level, Hold(l) \/ TimeStart(l)
  PROVE  IInv'
<1>1. /\ TypeOK /\ Typed /\ frame[l].pc \in {"hold", "timestart"} /\ Return(l, 0)
      /\ grant' = grant \/ grant' = <<frame[l].src, frame[l].self>>
      /\ UNCHANGED <<closed, select, thid, hard, torn, preempted>>
  BY DEF Hold, TimeStart, At, IInv, history
<1>2. PICK t \in {Yz, Exec} : dtime' = [dtime EXCEPT !["start"] = t]
  BY DEF Hold, TimeStart
<1>3. 0 \in 0 .. 4 /\ t \in Nat /\ t > 0 /\ t =< Longest /\ "start" \in Relay
  BY Constants
<1>4. /\ dtime' \in [Relay -> Nat] /\ dtime'["start"] = t
      /\ (\A o \in Out : dtime'[o] =< Exec) /\ dtime'["start"] =< Longest
      /\ \A q \in Relay : q # "start" => dtime'[q] = dtime[q]
  BY <1>1, <1>2, <1>3, Timed
<1>5. /\ Typed' /\ frame'[l].pc \in {"idle", "check"}
      /\ \A m \in Level : m # l => frame'[m] = frame[m]
  BY <1>1, <1>3, ReturnFacts
<1>6. grant' \in Grant
  <2>1. frame[l].src \in Source \cup {Any} /\ frame[l].self \in Out
    BY <1>1, FrameFields DEF Typed
  <2>2. QED
    BY <1>1, <2>1, Others DEF Grant
<1>7. ASSUME ~preempted PROVE Sound(l)'
  <2>1. Sound(l) /\ closed \subseteq Relay
    BY <1>1, <1>7, Alone, Times
  <2>2. \A r \in closed' : dtime'[r] > 0
    BY <1>1, <1>3, <1>4, <2>1 DEF Sound, Closing
  <2>3. PairExclusive'
    BY <1>1, <2>1 DEF Sound, PairExclusive
  <2>4. QED
    BY <1>5, <2>2, <2>3 DEF Sound
<1>8. frame[l].pc # "idle"
  BY <1>1
<1>9. /\ select' \in Out \cup {"none"} /\ thid' \in Source \cup {Any}
      /\ closed' \subseteq Relay
  BY <1>1, Times, Others
<1>10. UNCHANGED <<hard, torn, preempted>>
  BY <1>1
<1>11. frame'[l].pc \in {"off", "zero"} => frame'[l].todo # << >>
  BY <1>5
<1>12. QED
  BY <1>4, <1>5, <1>6, <1>7, <1>8, <1>9, <1>10, <1>11, ActiveStep

LEMMA CloseOutHolds ==
  ASSUME IInv, NEW l \in Level, CloseOut(l)
  PROVE  IInv'
<1>1. /\ TypeOK /\ Typed /\ frame[l].pc = "close" /\ Goto(l, "timeself")
      /\ closed' = closed \cup {frame[l].self} /\ grant' = None
      /\ UNCHANGED <<dtime, select, thid, hard, torn, preempted>>
  BY DEF CloseOut, At, IInv, history
<1>2. "timeself" \in Places
  BY DEF Places
<1>3. /\ Typed' /\ frame'[l].pc = "timeself" /\ frame'[l].self = frame[l].self
      /\ \A m \in Level : m # l => frame'[m] = frame[m]
  BY <1>1, <1>2, GotoFacts
<1>4. frame[l].self \in Out
  BY <1>1, FrameFields DEF Typed
<1>5. ASSUME ~preempted PROVE Sound(l)'
  <2>1. Sound(l)
    BY <1>1, <1>5, Alone
  <2>2. dtime["hz"] = 0 /\ dtime["fz"] = 0
    BY <1>1, <2>1 DEF Sound
  <2>3. \A r \in closed : dtime[r] > 0
    BY <1>1, <2>1 DEF Sound, Closing
  <2>4. closed \cap Out = {}
    BY <2>2, <2>3, Constants
  <2>5. Closing(l, frame[l].self)'
    <3>1. frame[l].self # "start"
      BY <1>4, Constants
    <3>2. QED
      BY <1>3, <3>1 DEF Closing
  <2>6. \A r \in closed' : dtime'[r] > 0 \/ Closing(l, r)'
    BY <1>1, <1>3, <2>3, <2>5 DEF Closing
  <2>7. PairExclusive'
    BY <1>1, <1>4, <2>4, Constants DEF PairExclusive
  <2>8. QED
    BY <1>1, <1>3, <2>2, <2>6, <2>7 DEF Sound
<1>6. frame[l].pc # "idle"
  BY <1>1
<1>7. /\ select' \in Out \cup {"none"} /\ thid' \in Source \cup {Any}
      /\ grant' \in Grant /\ dtime' \in [Relay -> Nat] /\ closed' \subseteq Relay
      /\ (\A o \in Out : dtime'[o] =< Exec) /\ dtime'["start"] =< Longest
  BY <1>1, <1>4, Times, Others, Constants DEF Grant
<1>8. UNCHANGED <<hard, torn, preempted>>
  BY <1>1
<1>9. frame'[l].pc \in {"off", "zero"} => frame'[l].todo # << >>
  BY <1>3
<1>10. QED
  BY <1>3, <1>5, <1>6, <1>7, <1>8, <1>9, ActiveStep

LEMMA TimeSelfHolds ==
  ASSUME IInv, NEW l \in Level, TimeSelf(l)
  PROVE  IInv'
<1>1. /\ TypeOK /\ Typed /\ frame[l].pc = "timeself" /\ Goto(l, "timestart")
      /\ dtime' = [dtime EXCEPT ![frame[l].self] = Exec]
      /\ UNCHANGED <<closed, select, thid, grant, hard, torn, preempted>>
  BY DEF TimeSelf, At, IInv, history
<1>2. "timestart" \in Places
  BY DEF Places
<1>3. /\ Typed' /\ frame'[l].pc = "timestart"
      /\ \A m \in Level : m # l => frame'[m] = frame[m]
  BY <1>1, <1>2, GotoFacts
<1>4. frame[l].self \in Out
  BY <1>1, FrameFields DEF Typed
<1>5. frame[l].self \in Relay /\ frame[l].self # "start" /\ Exec \in Nat
  BY <1>4, Constants
<1>6. /\ dtime' \in [Relay -> Nat] /\ dtime'[frame[l].self] = Exec
      /\ (\A o \in Out : dtime'[o] =< Exec) /\ dtime'["start"] =< Longest
      /\ \A q \in Relay : q # frame[l].self => dtime'[q] = dtime[q]
  <2>1. Exec =< IF frame[l].self = "start" THEN Longest ELSE Exec
    BY <1>5
  <2>2. QED
    BY <1>1, <1>5, <2>1, Timed
<1>7. ASSUME ~preempted PROVE Sound(l)'
  <2>1. Sound(l) /\ closed \subseteq Relay
    BY <1>1, <1>7, Alone, Times
  <2>2. \A r \in closed' : dtime'[r] > 0
    <3>1. \A r \in closed : dtime[r] > 0 \/ r = frame[l].self
      BY <1>1, <2>1 DEF Sound, Closing
    <3>2. QED
      BY <1>1, <1>6, <2>1, <3>1, Constants
  <2>3. PairExclusive'
    BY <1>1, <2>1 DEF Sound, PairExclusive
  <2>4. QED
    BY <1>3, <2>2, <2>3 DEF Sound
<1>8. frame[l].pc # "idle"
  BY <1>1
<1>9. /\ select' \in Out \cup {"none"} /\ thid' \in Source \cup {Any}
      /\ grant' \in Grant /\ closed' \subseteq Relay
  BY <1>1, Times, Others
<1>10. UNCHANGED <<hard, torn, preempted>>
  BY <1>1
<1>11. frame'[l].pc \in {"off", "zero"} => frame'[l].todo # << >>
  BY <1>3
<1>12. QED
  BY <1>3, <1>6, <1>7, <1>8, <1>9, <1>10, <1>11, ActiveStep

LEMMA OffHolds ==
  ASSUME IInv, NEW l \in Level, Off(l)
  PROVE  IInv'
<1>1. /\ TypeOK /\ Typed /\ frame[l].pc = "off" /\ Goto(l, "zero")
      /\ closed' = closed \ {Head(frame[l].todo)}
      /\ grant' = grant \/ grant' = None
      /\ UNCHANGED <<dtime, select, thid, hard, torn, preempted>>
  BY DEF Off, At, IInv, history
<1>2. "zero" \in Places
  BY DEF Places
<1>3. /\ Typed' /\ frame'[l].pc = "zero" /\ frame'[l].todo = frame[l].todo
      /\ \A m \in Level : m # l => frame'[m] = frame[m]
  BY <1>1, <1>2, GotoFacts
<1>4. ASSUME ~preempted PROVE Sound(l)'
  <2>1. Sound(l)
    BY <1>1, <1>4, Alone
  <2>2. \A r \in closed' : dtime'[r] > 0
    BY <1>1, <2>1 DEF Sound, Closing
  <2>3. PairExclusive'
    BY <1>1, <2>1 DEF Sound, PairExclusive
  <2>4. Head(frame'[l].todo) \notin closed'
    BY <1>1, <1>3
  <2>5. QED
    BY <1>3, <2>2, <2>3, <2>4 DEF Sound
<1>5. frame[l].pc # "idle"
  BY <1>1
<1>6. /\ select' \in Out \cup {"none"} /\ thid' \in Source \cup {Any}
      /\ grant' \in Grant /\ dtime' \in [Relay -> Nat] /\ closed' \subseteq Relay
      /\ (\A o \in Out : dtime'[o] =< Exec) /\ dtime'["start"] =< Longest
  BY <1>1, Times, Others DEF Grant
<1>7. UNCHANGED <<hard, torn, preempted>>
  BY <1>1
<1>8. frame'[l].pc \in {"off", "zero"} => frame'[l].todo # << >>
  BY <1>1, <1>3, Others
<1>9. QED
  BY <1>3, <1>4, <1>5, <1>6, <1>7, <1>8, ActiveStep

LEMMA ZeroHolds ==
  ASSUME IInv, NEW l \in Level, Zero(l)
  PROVE  IInv'
<1> DEFINE f == frame[l]
           r == Head(f.todo)
           rest == [f EXCEPT !.todo = Tail(@)]
           g == IF rest.todo # << >> THEN [rest EXCEPT !.pc = "off"]
                ELSE IF f.op = "select" THEN [rest EXCEPT !.pc = "mark"]
                ELSE Returned(rest, IF f.op = "operate" THEN 1 ELSE 0)
<1>1. /\ TypeOK /\ Typed /\ frame[l].pc = "zero"
      /\ dtime' = [dtime EXCEPT ![r] = 0] /\ frame' = [frame EXCEPT ![l] = g]
      /\ UNCHANGED <<closed, select, thid, grant, hard, torn, preempted>>
  BY DEF Zero, At, IInv, history
<1>2. f \in Frame /\ f.todo \in Seq(Relay) /\ f.todo # << >>
  BY <1>1, FrameFields, Others DEF Typed
<1>3. r \in Relay /\ Tail(f.todo) \in Seq(Relay)
  BY <1>2
<1> HIDE DEF r
<1>4. rest \in Frame
  BY <1>2, <1>3 DEF Frame
<1>5. /\ g \in Frame /\ g.pc \in {"idle", "check", "mark", "off"}
      /\ g.pc = "off" => g.todo # << >>
  <2> HIDE DEF rest
  <2>1. "off" \in Places /\ "mark" \in Places
    BY DEF Places
  <2>2. CASE rest.todo # << >>
    BY <1>4, <2>1, <2>2, Moved
  <2>3. CASE rest.todo = << >> /\ f.op = "select"
    BY <1>4, <2>1, <2>3, Moved
  <2>4. CASE rest.todo = << >> /\ f.op # "select"
    BY <1>4, <2>4, ReturnedFrame
  <2>5. QED
    BY <2>2, <2>3, <2>4
<1> HIDE DEF g
<1>6. /\ Typed' /\ frame'[l] = g /\ \A m \in Level : m # l => frame'[m] = frame[m]
  BY <1>1, <1>5 DEF Typed
<1>7. /\ dtime' \in [Relay -> Nat]
      /\ (\A o \in Out : dtime'[o] =< Exec) /\ dtime'["start"] =< Longest
      /\ \A q \in Relay : q # r => dtime'[q] = dtime[q]
  <2>1. 0 =< IF r = "start" THEN Longest ELSE Exec
    BY Constants
  <2>2. QED
    BY <1>1, <1>3, <2>1, Timed
<1>8. ASSUME ~preempted PROVE Sound(l)'
  <2>1. Sound(l) /\ closed \subseteq Relay
    BY <1>1, <1>8, Alone, Times
  <2>2. r \notin closed
    BY <1>1, <2>1 DEF Sound, r
  <2>3. \A q \in closed' : dtime'[q] > 0
    <3>1. \A q \in closed : dtime[q] > 0
      BY <1>1, <2>1 DEF Sound, Closing
    <3>2. QED
      BY <1>1, <1>7, <2>1, <2>2, <3>1
  <2>4. PairExclusive'
    BY <1>1, <2>1 DEF Sound, PairExclusive
  <2>5. QED
    BY <1>5, <1>6, <2>3, <2>4 DEF Sound
<1>9. frame[l].pc # "idle"
  BY <1>1
<1>10. /\ select' \in Out \cup {"none"} /\ thid' \in Source \cup {Any}
       /\ grant' \in Grant /\ closed' \subseteq Relay
  BY <1>1, Times, Others
<1>11. UNCHANGED <<hard, torn, preempted>>
  BY <1>1
<1>12. frame'[l].pc \in {"off", "zero"} => frame'[l].todo # << >>
  BY <1>5, <1>6
<1>13. QED
  BY <1>6, <1>7, <1>8, <1>9, <1>10, <1>11, <1>12, ActiveStep

-------------------------------------------------------------------------------
(* New calls and the timer.                                                *)

LEMMA BeginHolds == ASSUME IInv, Begin \/ Trip PROVE IInv'
<1>1. PICK l \in Level : frame[l].pc = "idle" /\ frame'[l] \in Frame
                         /\ frame'[l].pc = "check"
                         /\ frame' = [frame EXCEPT ![l] = frame'[l]]
                         /\ UNCHANGED <<relays, grant, hard, torn>>
                         /\ \/ /\ preempted' = preempted
                               /\ \A m \in Level : m # l => frame[m].pc = "idle"
                            \/ /\ preempted' = (preempted \/ frame["remote"].pc # "idle")
                               /\ l = "prot"
  <2>1. Typed /\ Idle \in Frame
    <3>1. << >> \in Seq(Relay) /\ None \in Grant /\ Any \in Source \cup {Any}
      BY DEF Grant
    <3>2. QED
      BY <3>1, Constants DEF Idle, Frame, Places, IInv
  <2>2. CASE Begin
    <3>1. PICK s \in Source, op \in {"select", "operate", "cancel"}, self \in Out :
            frame' = [frame EXCEPT !["remote"] =
                        Command([Idle EXCEPT !.src = s], op, self)]
      BY <2>2 DEF Begin
    <3>2. [Idle EXCEPT !.src = s] \in Frame
      BY <2>1 DEF Frame
    <3> DEFINE c == Command([Idle EXCEPT !.src = s], op, self)
    <3>3. c \in Frame /\ c.pc = "check"
      BY <3>2, CommandFrame
    <3> HIDE DEF c
    <3>4. frame' = [frame EXCEPT !["remote"] = c] /\ frame'["remote"] = c
          /\ "remote" \in Level
      BY <2>1, <3>1, Constants DEF Typed, c
    <3>5. /\ frame["remote"].pc = "idle" /\ frame["prot"].pc = "idle"
          /\ UNCHANGED <<relays, grant, hard, torn>> /\ preempted' = preempted
      BY <2>2 DEF Begin, history
    <3>6. QED
      BY <3>3, <3>4, <3>5, Constants
  <2>3. CASE Trip
    <3>1. PICK want \in Out :
            frame' = [frame EXCEPT !["prot"] =
                        Command([Idle EXCEPT !.want = want, !.stage = 1],
                                "select", want)]
      BY <2>3 DEF Trip
    <3> DEFINE a == [Idle EXCEPT !.want = want]
               b == [a EXCEPT !.stage = 1]
               c == Command([Idle EXCEPT !.want = want, !.stage = 1], "select", want)
    <3>2. a \in Frame
      BY <2>1 DEF Frame
    <3>3. [Idle EXCEPT !.want = want, !.stage = 1] = b
      OBVIOUS
    <3> HIDE DEF a
    <3>4. b \in Frame
      BY <3>2 DEF Frame
    <3>5. c \in Frame /\ c.pc = "check"
      BY <3>3, <3>4, CommandFrame
    <3> HIDE DEF b, c
    <3>6. frame' = [frame EXCEPT !["prot"] = c] /\ frame'["prot"] = c
          /\ "prot" \in Level
      BY <2>1, <3>1, Constants DEF Typed, c
    <3>7. /\ frame["prot"].pc = "idle" /\ UNCHANGED <<relays, grant, hard, torn>>
          /\ preempted' = (preempted \/ frame["remote"].pc # "idle")
      BY <2>3 DEF Trip
    <3>8. QED
      BY <3>5, <3>6, <3>7
  <2>4. QED
    BY <2>2, <2>3
<1>2. TypeOK /\ Typed
  BY DEF IInv
<1>3. Typed' /\ \A m \in Level : m # l => frame'[m] = frame[m]
  BY <1>1, <1>2 DEF Typed
<1>4. UNCHANGED <<closed, dtime, hard, torn, select, thid, grant>>
  BY <1>1 DEF relays
<1>5. /\ select' \in Out \cup {"none"} /\ thid' \in Source \cup {Any} /\ grant' \in Grant
      /\ preempted \in BOOLEAN
  BY <1>2, <1>4, Others
<1>6. preempted' \in BOOLEAN /\ (preempted => preempted')
  BY <1>1, <1>5
<1>7. ~preempted' => \A m \in Level : m # l => frame[m].pc = "idle"
  BY <1>1, Constants
<1>8. QED
  BY <1>1, <1>3, <1>4, <1>5, <1>6, <1>7, FrameStep

LEMMA TickHolds == ASSUME IInv, Tick PROVE IInv'
<1>1. /\ TypeOK /\ Typed
      /\ dtime' = [r \in Relay |-> IF dtime[r] > 0 THEN dtime[r] - 1 ELSE 0]
      /\ closed' = closed \ Expiring
      /\ grant' = grant \/ grant' = None
      /\ UNCHANGED <<select, thid, frame, hard, preempted>>
  BY DEF Tick, IInv
<1>2. hard' \in BOOLEAN /\ torn' \in BOOLEAN
  BY <1>1, Others DEF Tick
<1>3. /\ closed \subseteq Relay /\ dtime \in [Relay -> Nat]
      /\ (\A o \in Out : dtime[o] =< Exec) /\ dtime["start"] =< Longest
  BY <1>1, Times
<1>4. /\ dtime' \in [Relay -> Nat]
      /\ (\A o \in Out : dtime'[o] =< Exec) /\ dtime'["start"] =< Longest
  BY <1>1, <1>3, Constants
<1>5. TypeOK'
  <2>1. grant' \in Grant
    BY <1>1, Others DEF Grant
  <2>2. Typed'
    BY <1>1 DEF Typed
  <2>3. /\ select' \in Out \cup {"none"} /\ thid' \in Source \cup {Any}
        /\ preempted' \in BOOLEAN /\ closed' \subseteq Relay
        /\ \A l \in Level : frame'[l].pc \in {"off", "zero"} => frame'[l].todo # << >>
    BY <1>1, <1>3, Others
  <2>4. QED
    BY <1>2, <1>4, <2>1, <2>2, <2>3, TypeStep
<1>6. OrderHolds'
  <2> SUFFICES ASSUME ~preempted PROVE Orderly'
    BY <1>1 DEF OrderHolds
  <2>1. Orderly
    BY DEF IInv, OrderHolds
  <2>2. \A r \in closed' : dtime'[r] > 0 \/ \E l \in Level : Closing(l, r)'
    <3> SUFFICES ASSUME NEW r \in closed' PROVE dtime'[r] > 0 \/ \E l \in Level : Closing(l, r)'
      OBVIOUS
    <3>1. r \in closed /\ r \in Relay /\ dtime[r] # 1
      BY <1>1, <1>3 DEF Expiring
    <3>2. CASE dtime[r] > 0
      BY <1>1, <1>3, <3>1, <3>2
    <3>3. CASE \E l \in Level : Closing(l, r)
      BY <1>1, <3>3 DEF Closing
    <3>4. QED
      BY <2>1, <3>1, <3>2, <3>3 DEF Orderly
  <2>3. \A l \in Level : frame'[l].pc \in {"close", "timeself"} =>
          dtime'["hz"] = 0 /\ dtime'["fz"] = 0
    BY <1>1, <2>1, Constants DEF Orderly
  <2>4. \A l \in Level : frame'[l].pc = "zero" => Head(frame'[l].todo) \notin closed'
    BY <1>1, <2>1 DEF Orderly
  <2>5. PairExclusive' /\ (frame'["remote"].pc = "idle" \/ frame'["prot"].pc = "idle")
    BY <1>1, <2>1 DEF Orderly, PairExclusive
  <2>6. QED
    BY <2>2, <2>3, <2>4, <2>5 DEF Orderly
<1>7. Typed'
  BY <1>1 DEF Typed
<1>8. QED
  BY <1>5, <1>6, <1>7 DEF IInv

LEMMA NextHolds == IInv /\ [Next]_vars => IInv'
<1> SUFFICES ASSUME IInv, [Next]_vars PROVE IInv'
  OBVIOUS
<1>1. CASE Begin \/ Trip
  BY <1>1, BeginHolds
<1>2. CASE Tick
  BY <1>2, TickHolds
<1>3. ASSUME NEW l \in Level, Step(l) PROVE IInv'
  <2>1. CASE SelectCheck(l) \/ OperateCheck(l) \/ CancelCheck(l)
    BY <2>1, CheckHolds
  <2>2. CASE Mark(l)
    BY <2>2, MarkHolds
  <2>3. CASE Energise(l) \/ FeedbackOk(l)
    BY <2>3, EnergiseHolds
  <2>4. CASE FeedbackFails(l)
    BY <2>4, FeedbackFailsHolds
  <2>5. CASE Hold(l) \/ TimeStart(l)
    BY <2>5, HoldHolds
  <2>6. CASE CloseOut(l)
    BY <2>6, CloseOutHolds
  <2>7. CASE TimeSelf(l)
    BY <2>7, TimeSelfHolds
  <2>8. CASE Off(l)
    BY <2>8, OffHolds
  <2>9. CASE Zero(l)
    BY <2>9, ZeroHolds
  <2>10. QED
    BY <1>3, <2>1, <2>2, <2>3, <2>4, <2>5, <2>6, <2>7, <2>8, <2>9 DEF Step
<1>4. CASE UNCHANGED vars
  BY <1>4 DEF vars, relays, history, IInv, TypeOK, Typed, OrderHolds, Orderly,
              Closing, PairExclusive
<1>5. QED
  BY <1>1, <1>2, <1>3, <1>4 DEF Next

LEMMA Invariance == Spec => []IInv
<1>1. QED
  BY InitHolds, NextHolds, PTL DEF Spec

-------------------------------------------------------------------------------
(* The theorems.                                                           *)

\* The output of every relay, its time and the calls of the two levels have
\* their types: no time exceeds the longer of a selection and an output, and a
\* call that is to release relays has one to release (relay table and frames of
\* ykSelect, ykOperate, ykCancel).
THEOREM TypeCorrect == Spec => []TypeOK
<1>1. IInv => TypeOK
  BY DEF IInv
<1>2. QED
  BY <1>1, Invariance, PTL

\* The close relay and the trip relay of a switch are never closed together
\* unless protection has preempted a command halfway (ykOperate: the level that
\* closes one has found the time of both to be 0, and what is closed has a time).
THEOREM PairNeverBoth == Spec => []ExclusiveUnlessPreempted
<1>1. IInv => ExclusiveUnlessPreempted
  BY DEF IInv, OrderHolds, Orderly, ExclusiveUnlessPreempted
<1>2. QED
  BY <1>1, Invariance, PTL

\* What is closed while no call handles the switch has a time after which the
\* timer opens it (relayOutput closes first and sets the time then; the failed
\* feedback puts the output back).
THEOREM ClosedTimed == Spec => []ClosedIsTimed
<1>1. IInv => ClosedIsTimed
  <2> SUFFICES ASSUME IInv, \A l \in Level : frame[l].pc = "idle", ~preempted,
                      NEW r \in closed
               PROVE  dtime[r] > 0
    BY Others DEF ClosedIsTimed, IInv
  <2>1. \A l \in Level : ~Closing(l, r)
    BY DEF Closing
  <2>2. QED
    BY <2>1 DEF IInv, OrderHolds, Orderly
<1>2. QED
  BY <1>1, Invariance, PTL
-------------------------------------------------------------------------------
(* Protection, whatever a command it preempted was doing.                  *)

P == frame["prot"]

\* Protection does not end with a refusal, except that of a hard plate.
Decided == P.pc = "idle" => P.ret \in {0, 3} \/ (hard /\ P.ret = 4)

\* The call of the stage, where it can be, and what it still has to release.
StageHolds ==
  /\ P.src = Any /\ P.stage \in 1 .. 6
  /\ P.op = StageOp(P.stage) /\ P.self = StageOut(P.stage, P.want)
  /\ P.op = "select" =>
       P.pc \in {"check", "off", "zero", "mark", "energise", "feedback", "hold"}
  /\ P.op = "operate" => P.pc \in {"check", "close", "timeself", "timestart"}
  /\ P.op = "cancel" => P.pc \in {"check", "off", "zero"}
  /\ P.op = "select" /\ P.pc \in {"off", "zero"} => P.todo = <<"start">>
  /\ P.op = "cancel" /\ P.pc \in {"off", "zero"} =>
       P.todo = <<P.self, "start">> \/ (P.todo = <<"start">> /\ dtime[P.self] = 0)

\* The two cancels leave no output its time.
CancelHolds ==
  /\ P.stage >= 4 /\ P.pc # "timestart" => dtime["hz"] = 0
  /\ P.stage >= 5 /\ P.pc # "timestart" => dtime["fz"] = 0

\* The selection protection makes is there when it operates.
SelectHolds ==
  /\ P.pc \in {"mark", "energise", "feedback", "hold"} => dtime["start"] = 0
  /\ P.pc \in {"energise", "feedback", "hold"} => select = P.self
  /\ P.pc \in {"feedback", "hold"} => "start" \in closed
  /\ P.op = "operate" /\ P.pc # "timestart" =>
       dtime["start"] > 0 /\ "start" \in closed /\ select = P.self
  /\ P.pc \in {"close", "timeself"} => dtime[P.self] = 0
  /\ P.pc = "timeself" => P.self \in closed

ProtHolds ==
  Decided /\ (P.pc # "idle" => StageHolds /\ CancelHolds /\ SelectHolds)

\* What a call returns and what protection does next.
LEMMA ReturnedCall ==
  ASSUME NEW f \in Frame, NEW ret \in 0 .. 4
  PROVE  LET g == Returned(f, ret)
             stage == NextStage(f.stage, ret)
         IN /\ stage = 0 => g.pc = "idle" /\ g.ret = ret
            /\ stage # 0 => /\ g.pc = "check" /\ g.stage = stage
                            /\ g.op = StageOp(stage) /\ g.src = f.src
                            /\ g.want = f.want /\ g.self = StageOut(stage, f.want)
<1> DEFINE stage == NextStage(f.stage, ret)
<1>1. CASE stage = 0
  <2> DEFINE a == [f EXCEPT !.pc = "idle"]
             b == [a EXCEPT !.ret = ret]
             c == [b EXCEPT !.stage = 0]
  <2>1. a \in Frame /\ a.pc = "idle"
    BY Moved DEF Places
  <2> HIDE DEF a
  <2>2. b \in Frame /\ b.pc = "idle" /\ b.ret = ret
    BY <2>1 DEF Frame
  <2> HIDE DEF b
  <2>3. c.pc = "idle" /\ c.ret = ret
    BY <2>2 DEF Frame
  <2>4. Returned(f, ret) = c
    BY <1>1 DEF Returned, a, b
  <2> QED BY <1>1, <2>3, <2>4
<1>2. CASE stage # 0
  <2> DEFINE a == [f EXCEPT !.stage = stage]
             b == [a EXCEPT !.op = StageOp(stage)]
             c == [b EXCEPT !.self = StageOut(stage, f.want)]
             d == [c EXCEPT !.pc = "check"]
  <2>0. /\ stage \in 0 .. 6 /\ StageOp(stage) \in {"select", "operate", "cancel"}
        /\ StageOut(stage, f.want) \in Out
    BY FrameFields, Constants DEF NextStage, StageOp, StageOut
  <2>1. Returned(f, ret) = Command(a, StageOp(stage), StageOut(stage, f.want))
    BY <1>2 DEF Returned
  <2> HIDE DEF stage
  <2>2. a \in Frame /\ a.stage = stage /\ a.src = f.src /\ a.want = f.want
    BY <2>0 DEF Frame
  <2>3. Returned(f, ret) = d
    BY <2>1 DEF Command
  <2> HIDE DEF a
  <2>4. /\ b \in Frame /\ b.stage = stage /\ b.src = f.src /\ b.want = f.want
        /\ b.op = StageOp(stage)
    BY <2>0, <2>2 DEF Frame
  <2> HIDE DEF b
  <2>5. /\ c \in Frame /\ c.stage = stage /\ c.src = f.src /\ c.want = f.want
        /\ c.op = StageOp(stage) /\ c.self = StageOut(stage, f.want)
    BY <2>0, <2>4 DEF Frame
  <2> HIDE DEF c
  <2>6. /\ d.stage = stage /\ d.src = f.src /\ d.want = f.want
        /\ d.op = StageOp(stage) /\ d.self = StageOut(stage, f.want)
        /\ d.pc = "check"
    BY <2>5 DEF Frame
  <2> QED BY <1>2, <2>3, <2>6 DEF stage
<1> QED BY <1>1, <1>2

\* The types of what protection works with.
LEMMA ProtTypes ==
  ASSUME IInv
  PROVE  /\ Typed /\ TypeOK /\ "prot" \in Level /\ P \in Frame
         /\ P.self \in Out /\ P.want \in Out /\ P.stage \in 0 .. 6
         /\ P.ret \in 0 .. 4
         /\ dtime \in [Relay -> Nat] /\ closed \subseteq Relay
<1>1. Typed /\ TypeOK /\ "prot" \in Level /\ P \in Frame
  BY Constants DEF IInv, Typed, P
<1> QED BY <1>1, FrameFields, Times

\* Protection is not active when a command moves, and the command leaves it so.
LEMMA CommandKeeps ==
  ASSUME IInv, ProtHolds, Begin \/ Step("remote")
  PROVE  ProtHolds'
<1>1. P.pc = "idle"
  BY Constants DEF Begin, Step, SelectCheck, Mark, Energise, FeedbackOk, FeedbackFails,
     Hold, OperateCheck, CloseOut, TimeSelf, TimeStart, CancelCheck, Off, Zero, At, P
<1>2. P' = P /\ hard' = hard
  <2>1. \E g : frame' = [frame EXCEPT !["remote"] = g]
    BY DEF Begin, Step, SelectCheck, Mark, Energise, FeedbackOk, FeedbackFails,
       Hold, OperateCheck, CloseOut, TimeSelf, TimeStart, CancelCheck, Off, Zero,
       Goto, Return, Release
  <2>2. hard' = hard
    BY DEF Begin, Step, SelectCheck, Mark, Energise, FeedbackOk, FeedbackFails,
       Hold, OperateCheck, CloseOut, TimeSelf, TimeStart, CancelCheck, Off, Zero
  <2> QED BY <2>1, <2>2, ProtTypes DEF Typed, P
<1> QED BY <1>1, <1>2 DEF ProtHolds, Decided

\* The timer takes nothing that protection relies on.
LEMMA TickKeeps ==
  ASSUME IInv, ProtHolds, Tick
  PROVE  ProtHolds'
<1>1. /\ dtime' = [r \in Relay |-> IF dtime[r] > 0 THEN dtime[r] - 1 ELSE 0]
      /\ closed' = closed \ Expiring
      /\ P' = P /\ select' = select /\ hard' = hard
      /\ dtime["start"] = 1 => P.op # "operate" \/ P.pc = "idle"
  BY Constants DEF Tick, P, SelectionOutlastsCall, Expiring
<1>2. \A r \in Relay : /\ dtime[r] = 0 => dtime'[r] = 0 /\ (r \in closed => r \in closed')
                       /\ dtime[r] > 1 => dtime'[r] > 0 /\ (r \in closed => r \in closed')
  BY <1>1, ProtTypes DEF Expiring
<1>3. CASE P.pc = "idle"
  BY <1>1, <1>3 DEF ProtHolds, Decided
<1>4. CASE P.pc # "idle"
  <2>1. StageHolds /\ CancelHolds /\ SelectHolds /\ P.self \in Relay /\ "start" \in Relay
        /\ "hz" \in Relay /\ "fz" \in Relay
    BY <1>4, ProtTypes, Constants DEF ProtHolds
  <2>2. StageHolds'
    BY <1>1, <1>2, <2>1 DEF StageHolds
  <2>3. CancelHolds'
    BY <1>1, <1>2, <2>1 DEF CancelHolds
  <2>4. P.op = "operate" /\ P.pc # "timestart" => dtime["start"] > 1
    BY <1>1, <1>4, <2>1, ProtTypes DEF SelectHolds
  <2>5. SelectHolds'
    BY <1>1, <1>2, <2>1, <2>4 DEF SelectHolds
  <2> QED BY <1>1, <1>4, <2>2, <2>3, <2>5 DEF ProtHolds, Decided
<1> QED BY <1>3, <1>4

\* Protection begins.
LEMMA TripKeeps ==
  ASSUME IInv, ProtHolds, Trip
  PROVE  ProtHolds'
<1>1. PICK want \in Out :
        frame' = [frame EXCEPT !["prot"] =
                    Command([Idle EXCEPT !.want = want, !.stage = 1], "select", want)]
  BY DEF Trip
<1>2. P' = Command([Idle EXCEPT !.want = want, !.stage = 1], "select", want)
  BY <1>1, ProtTypes DEF P, Typed
<1>3. /\ P'.pc = "check" /\ P'.op = "select" /\ P'.self = want /\ P'.want = want
      /\ P'.stage = 1 /\ P'.src = Any
  BY <1>2 DEF Command, Idle
<1> QED BY <1>3 DEF ProtHolds, Decided, StageHolds, CancelHolds, SelectHolds,
                    StageOp, StageOut

\* How protection's call moves on.
LEMMA ProtGoto ==
  ASSUME IInv, NEW pc \in Places, Goto("prot", pc)
  PROVE  /\ P'.pc = pc /\ P'.op = P.op /\ P'.src = P.src /\ P'.self = P.self
         /\ P'.want = P.want /\ P'.todo = P.todo /\ P'.stage = P.stage
<1>1. P' = [P EXCEPT !.pc = pc]
  BY ProtTypes DEF Goto, P, Typed
<1> QED BY <1>1, ProtTypes DEF Frame

LEMMA ProtReturn ==
  ASSUME IInv, NEW ret \in 0 .. 4, Return("prot", ret)
  PROVE  LET stage == NextStage(P.stage, ret)
         IN /\ stage = 0 => P'.pc = "idle" /\ P'.ret = ret
            /\ stage # 0 => /\ P'.pc = "check" /\ P'.stage = stage
                            /\ P'.op = StageOp(stage) /\ P'.src = P.src
                            /\ P'.want = P.want /\ P'.self = StageOut(stage, P.want)
<1>1. P' = Returned(P, ret)
  BY ProtTypes DEF Return, P, Typed
<1> QED BY <1>1, ProtTypes, ReturnedCall

LEMMA ProtRelease ==
  ASSUME IInv, NEW todo \in Seq(Relay), Release("prot", todo)
  PROVE  /\ P'.pc = "off" /\ P'.op = P.op /\ P'.src = P.src /\ P'.self = P.self
         /\ P'.want = P.want /\ P'.todo = todo /\ P'.stage = P.stage
<1> DEFINE a == [P EXCEPT !.pc = "off"]
           b == [a EXCEPT !.todo = todo]
<1>1. P' = b
  BY ProtTypes DEF Release, P, Typed
<1>2. a \in Frame /\ a.pc = "off" /\ a.op = P.op /\ a.src = P.src /\ a.self = P.self
      /\ a.want = P.want /\ a.stage = P.stage
  BY ProtTypes DEF Frame, Places
<1> HIDE DEF a
<1>3. QED
  BY <1>1, <1>2 DEF Frame

\* A call that ends well, or a select that found the relay failed.
LEMMA ProtEnds ==
  ASSUME IInv, ProtHolds, NEW ret \in 0 .. 4, Return("prot", ret), P.pc # "idle",
         \/ ret = 3 /\ P.op = "select"
         \/ ret = 0 /\ P.op = "operate"
         \/ ret = 0 /\ P.op = "select" /\ dtime'["start"] > 0 /\ "start" \in closed'
            /\ select' = P.self
            /\ dtime'["hz"] = dtime["hz"] /\ dtime'["fz"] = dtime["fz"]
         \/ ret = 0 /\ P.op = "cancel" /\ dtime'[P.self] = 0
            /\ \A o \in Out : dtime[o] = 0 => dtime'[o] = 0
         \/ ret = 2 /\ P.op # "cancel" /\ P.stage \in {1, 2}
         \/ ret = 4 /\ P.op # "cancel" /\ hard,
         hard' = hard
  PROVE  ProtHolds'
<1>1. /\ P.src = Any /\ P.stage \in 1 .. 6 /\ P.op = StageOp(P.stage)
      /\ P.self = StageOut(P.stage, P.want) /\ CancelHolds
      /\ P.op # "operate" => P.pc # "timestart"
  BY DEF ProtHolds, StageHolds, StageOp
<1> DEFINE stage == NextStage(P.stage, ret)
<1>2. /\ stage = 0 => P'.pc = "idle" /\ P'.ret = ret
      /\ stage # 0 => /\ P'.pc = "check" /\ P'.stage = stage
                      /\ P'.op = StageOp(stage) /\ P'.src = P.src
                      /\ P'.want = P.want /\ P'.self = StageOut(stage, P.want)
  BY ProtReturn
<1>3. \/ stage = 0 /\ (ret \in {0, 3} \/ (hard /\ ret = 4))
      \/ stage = 3 /\ ret = 2
      \/ stage = P.stage + 1 /\ ret = 0 /\ P.op # "operate"
  BY <1>1 DEF NextStage, StageOp
<1> HIDE DEF stage
<1>4. CASE stage = 0
  BY <1>2, <1>3, <1>4 DEF ProtHolds, Decided
<1>5. CASE stage = 3
  <2>1. StageHolds' /\ CancelHolds' /\ SelectHolds'
    BY <1>1, <1>2, <1>5 DEF StageHolds, CancelHolds, SelectHolds, StageOp
  <2> QED BY <1>2, <1>5, <2>1 DEF ProtHolds, Decided
<1>6. CASE stage # 0 /\ stage # 3
  <2>1. stage = P.stage + 1 /\ ret = 0 /\ P.op # "operate" /\ stage \in {2, 4, 5, 6}
    BY <1>1, <1>3, <1>6 DEF StageOp
  <2>2. StageHolds'
    BY <1>1, <1>2, <2>1 DEF StageHolds, StageOp
  <2>3. CancelHolds'
    <3>1. P.stage \in {3, 4} => /\ dtime'[P.self] = 0
                                /\ \A o \in Out : dtime[o] = 0 => dtime'[o] = 0
      BY <1>1, <2>1 DEF StageOp
    <3>2. /\ P.stage = 3 => P.self = "hz"
          /\ P.stage = 4 => P.self = "fz" /\ dtime["hz"] = 0
          /\ P.stage = 5 => dtime'["hz"] = 0 /\ dtime'["fz"] = 0
      BY <1>1, <2>1 DEF StageOut, StageOp, CancelHolds
    <3>3. P'.stage = P.stage + 1 /\ P.stage \in {1, 3, 4, 5} /\ "hz" \in Out
      BY <1>2, <2>1, <1>1, Constants
    <3> QED BY <3>1, <3>2, <3>3 DEF CancelHolds
  <2>4. SelectHolds'
    <3>1. CASE P.op = "select"
      <4>1. /\ dtime'["start"] > 0 /\ "start" \in closed' /\ select' = P.self
            /\ P'.self = P.self
        BY <1>1, <1>2, <2>1, <3>1 DEF StageOp, StageOut
      <4> QED BY <1>2, <1>6, <4>1 DEF SelectHolds
    <3>2. CASE P.op = "cancel"
      <4>1. P'.op # "operate"
        BY <1>1, <1>2, <2>1, <3>2 DEF StageOp
      <4> QED BY <1>2, <1>6, <4>1 DEF SelectHolds
    <3> QED BY <1>1, <2>1, <3>1, <3>2 DEF StageOp
  <2> QED BY <1>2, <1>6, <2>2, <2>3, <2>4 DEF ProtHolds, Decided
<1> QED BY <1>4, <1>5, <1>6

\* The call is tested: it goes on, releases what stands in its way, or ends.
LEMMA ProtChecks ==
  ASSUME IInv, ProtHolds,
         SelectCheck("prot") \/ OperateCheck("prot") \/ CancelCheck("prot")
  PROVE  ProtHolds'
<1>1. /\ P.pc = "check" /\ frame["prot"] = P
      /\ UNCHANGED <<closed, dtime, select, hard>> /\ P.src = Any
  BY DEF SelectCheck, OperateCheck, CancelCheck, At, relays, P, ProtHolds, StageHolds
<1>2. StageHolds /\ CancelHolds /\ SelectHolds /\ P.pc # "idle" /\ ~Held(P)
  BY <1>1 DEF ProtHolds, Held
<1>3. <<"start">> \in Seq(Relay) /\ <<P.self, "start">> \in Seq(Relay)
  BY ProtTypes, Constants
<1>4. P.stage >= 5 => ~Busy(P)
  BY <1>1, <1>2, ProtTypes, Constants DEF CancelHolds, Busy
<1>5. CASE SelectCheck("prot")
  <2>1. P.op = "select" /\ P.stage \in {1, 5}
    BY <1>1, <1>2, <1>5 DEF SelectCheck, StageHolds, StageOp
  <2>2. CASE Return("prot", 2) /\ Busy(P)
    <3>1. P.stage = 1
      BY <1>4, <2>1, <2>2
    <3> QED BY <1>1, <2>1, <2>2, <3>1, ProtEnds
  <2>3. CASE Release("prot", <<"start">>)
    <3>1. /\ P'.pc = "off" /\ P'.op = P.op /\ P'.src = P.src /\ P'.self = P.self
          /\ P'.want = P.want /\ P'.todo = <<"start">> /\ P'.stage = P.stage
      BY <1>3, <2>3, ProtRelease
    <3> QED BY <1>1, <1>2, <2>1, <3>1 DEF ProtHolds, Decided, StageHolds,
               CancelHolds, SelectHolds
  <2>4. CASE Goto("prot", "mark") /\ dtime["start"] = 0
    <3>1. /\ P'.pc = "mark" /\ P'.op = P.op /\ P'.src = P.src /\ P'.self = P.self
          /\ P'.want = P.want /\ P'.todo = P.todo /\ P'.stage = P.stage
      BY <2>4, ProtGoto DEF Places
    <3> QED BY <1>1, <1>2, <2>1, <2>4, <3>1 DEF ProtHolds, Decided, StageHolds,
               CancelHolds, SelectHolds
  <2>5. CASE Return("prot", 4) /\ Barred("prot")
    BY <1>1, <2>1, <2>5, ProtEnds DEF Barred
  <2> QED BY <1>1, <1>2, <1>5, <2>2, <2>3, <2>4, <2>5 DEF SelectCheck
<1>6. CASE OperateCheck("prot")
  <2>1. /\ P.op = "operate" /\ P.stage \in {2, 6}
        /\ dtime["start"] > 0 /\ "start" \in closed /\ select = P.self
    BY <1>1, <1>2, <1>6 DEF OperateCheck, StageHolds, StageOp, SelectHolds
  <2>2. CASE Return("prot", 2) /\ Busy(P)
    <3>1. P.stage = 2
      BY <1>4, <2>1, <2>2
    <3> QED BY <1>1, <2>1, <2>2, <3>1, ProtEnds
  <2>3. CASE /\ ~Busy(P)
             /\ frame' = [frame EXCEPT !["prot"].pc = "close", !["prot"].had = grant]
    <3> DEFINE a == [P EXCEPT !.pc = "close"]
               b == [a EXCEPT !.had = grant]
    <3>1. P' = b
      BY <2>3, ProtTypes DEF Typed, P
    <3>2. a \in Frame /\ a.pc = "close" /\ a.op = P.op /\ a.src = P.src
          /\ a.self = P.self /\ a.want = P.want /\ a.stage = P.stage
      BY ProtTypes DEF Frame, Places
    <3> HIDE DEF a
    <3>3. /\ P'.pc = "close" /\ P'.op = P.op /\ P'.src = P.src
          /\ P'.self = P.self /\ P'.want = P.want /\ P'.stage = P.stage
      BY <3>1, <3>2 DEF Frame
    <3>4. dtime[P.self] = 0
      BY <2>3 DEF Busy
    <3> QED BY <1>1, <1>2, <2>1, <3>3, <3>4 DEF ProtHolds, Decided, StageHolds,
               CancelHolds, SelectHolds
  <2>4. dtime["start"] # 0
    BY <2>1
  <2>5. CASE Return("prot", 4) /\ Barred("prot")
    BY <1>1, <2>1, <2>5, ProtEnds DEF Barred
  <2> QED BY <1>1, <1>2, <1>6, <2>1, <2>2, <2>3, <2>4, <2>5 DEF OperateCheck
<1>7. CASE CancelCheck("prot")
  <2>1. P.op = "cancel" /\ Release("prot", <<P.self, "start">>)
    BY <1>1, <1>2, <1>7 DEF CancelCheck
  <2>2. /\ P'.pc = "off" /\ P'.op = P.op /\ P'.src = P.src /\ P'.self = P.self
        /\ P'.want = P.want /\ P'.todo = <<P.self, "start">> /\ P'.stage = P.stage
    BY <1>3, <2>1, ProtRelease
  <2> QED BY <1>1, <1>2, <2>1, <2>2 DEF ProtHolds, Decided, StageHolds,
             CancelHolds, SelectHolds
<1> QED BY <1>5, <1>6, <1>7

\* The selection is made.
LEMMA ProtSelects ==
  ASSUME IInv, ProtHolds,
         Mark("prot") \/ Energise("prot") \/ FeedbackOk("prot") \/ FeedbackFails("prot")
         \/ Hold("prot")
  PROVE  ProtHolds'
<1>1. /\ P.pc \in {"mark", "energise", "feedback", "hold"} /\ frame["prot"] = P
      /\ hard' = hard
  BY DEF Mark, Energise, FeedbackOk, FeedbackFails, Hold, At, P
<1>2. StageHolds /\ CancelHolds /\ SelectHolds /\ P.op = "select"
  BY <1>1 DEF ProtHolds, StageHolds, StageOp
<1>3. CASE Mark("prot") \/ Energise("prot") \/ FeedbackOk("prot")
  <2>1. PICK pc \in {"energise", "feedback", "hold"} :
          /\ Goto("prot", pc) /\ dtime' = dtime
          /\ pc = "energise" => select' = P.self /\ closed' = closed
          /\ pc = "feedback" => P.pc = "energise" /\ select' = select /\ "start" \in closed'
          /\ pc = "hold" => P.pc = "feedback" /\ select' = select /\ closed' = closed
    <3>1. CASE Mark("prot")
      BY <1>1, <3>1 DEF Mark
    <3>2. CASE Energise("prot")
      BY <1>1, <3>2 DEF Energise, At
    <3>3. CASE FeedbackOk("prot")
      BY <1>1, <3>3 DEF FeedbackOk, At, relays
    <3> QED BY <1>3, <3>1, <3>2, <3>3
  <2>2. pc \in Places
    BY DEF Places
  <2>3. /\ P'.pc = pc /\ P'.op = P.op /\ P'.src = P.src /\ P'.self = P.self
        /\ P'.want = P.want /\ P'.todo = P.todo /\ P'.stage = P.stage
    BY <2>1, <2>2, ProtGoto
  <2>4. SelectHolds'
    BY <1>1, <1>2, <2>1, <2>3 DEF SelectHolds
  <2> QED BY <1>1, <1>2, <2>1, <2>3, <2>4 DEF ProtHolds, Decided, StageHolds, CancelHolds
<1>4. CASE FeedbackFails("prot")
  <2>1. Return("prot", 3)
    BY <1>4 DEF FeedbackFails
  <2> QED BY <1>1, <1>2, <2>1, ProtEnds
<1>5. CASE Hold("prot")
  <2>1. /\ P.pc = "hold" /\ Return("prot", 0) /\ dtime' = [dtime EXCEPT !["start"] = Yz]
        /\ UNCHANGED <<closed, select>>
    BY <1>1, <1>5 DEF Hold, At
  <2>2. dtime'["start"] > 0 /\ dtime'["hz"] = dtime["hz"] /\ dtime'["fz"] = dtime["fz"]
    BY <2>1, ProtTypes, Constants
  <2>3. "start" \in closed' /\ select' = P.self
    BY <1>2, <2>1 DEF SelectHolds
  <2> QED BY <1>1, <1>2, <2>1, <2>2, <2>3, ProtEnds
<1> QED BY <1>3, <1>4, <1>5

\* The output is operated.
LEMMA ProtCloses ==
  ASSUME IInv, ProtHolds, CloseOut("prot") \/ TimeSelf("prot") \/ TimeStart("prot")
  PROVE  ProtHolds'
<1>1. P.pc \in {"close", "timeself", "timestart"} /\ frame["prot"] = P /\ hard' = hard
  BY DEF CloseOut, TimeSelf, TimeStart, At, P
<1>2. StageHolds /\ CancelHolds /\ SelectHolds /\ P.op = "operate"
  BY <1>1 DEF ProtHolds, StageHolds, StageOp
<1>3. CASE CloseOut("prot")
  <2>1. /\ P.pc = "close" /\ Goto("prot", "timeself") /\ closed' = closed \cup {P.self}
        /\ UNCHANGED <<dtime, select>>
    BY <1>1, <1>3 DEF CloseOut, At
  <2>2. /\ P'.pc = "timeself" /\ P'.op = P.op /\ P'.src = P.src /\ P'.self = P.self
        /\ P'.want = P.want /\ P'.todo = P.todo /\ P'.stage = P.stage
    BY <2>1, ProtGoto DEF Places
  <2> QED BY <1>2, <2>1, <2>2 DEF ProtHolds, Decided, StageHolds, CancelHolds, SelectHolds
<1>4. CASE TimeSelf("prot")
  <2>1. Goto("prot", "timestart")
    BY <1>4 DEF TimeSelf
  <2>2. /\ P'.pc = "timestart" /\ P'.op = P.op /\ P'.src = P.src /\ P'.self = P.self
        /\ P'.want = P.want /\ P'.todo = P.todo /\ P'.stage = P.stage
    BY <2>1, ProtGoto DEF Places
  <2> QED BY <1>2, <2>2 DEF ProtHolds, Decided, StageHolds, CancelHolds, SelectHolds
<1>5. CASE TimeStart("prot")
  <2>1. Return("prot", 0)
    BY <1>5 DEF TimeStart
  <2> QED BY <1>1, <1>2, <2>1, ProtEnds
<1> QED BY <1>3, <1>4, <1>5

\* A relay is released.
LEMMA ProtReleases ==
  ASSUME IInv, ProtHolds, Off("prot") \/ Zero("prot")
  PROVE  ProtHolds'
<1>1. P.pc \in {"off", "zero"} /\ frame["prot"] = P /\ hard' = hard
  BY DEF Off, Zero, At, P
<1>2. /\ StageHolds /\ CancelHolds /\ SelectHolds /\ P.op \in {"select", "cancel"}
      /\ P.pc # "idle"
  BY <1>1 DEF ProtHolds, StageHolds, StageOp
<1>3. CASE Off("prot")
  <2>1. Goto("prot", "zero") /\ dtime' = dtime
    BY <1>3 DEF Off
  <2>2. /\ P'.pc = "zero" /\ P'.op = P.op /\ P'.src = P.src /\ P'.self = P.self
        /\ P'.want = P.want /\ P'.todo = P.todo /\ P'.stage = P.stage
    BY <2>1, ProtGoto DEF Places
  <2> QED BY <1>1, <1>2, <2>1, <2>2 DEF ProtHolds, Decided, StageHolds, CancelHolds,
             SelectHolds
<1>4. CASE Zero("prot")
  <2> DEFINE rest == [P EXCEPT !.todo = Tail(@)]
  <2>1. /\ dtime' = [dtime EXCEPT ![Head(P.todo)] = 0] /\ UNCHANGED <<closed, select>>
        /\ P' = IF rest.todo # << >> THEN [rest EXCEPT !.pc = "off"]
                ELSE IF P.op = "select" THEN [rest EXCEPT !.pc = "mark"]
                ELSE Returned(rest, IF P.op = "operate" THEN 1 ELSE 0)
    BY <1>1, <1>4, ProtTypes DEF Zero, Typed, P
  <2>2. P.todo # << >> /\ Tail(P.todo) \in Seq(Relay) /\ P.todo \in Seq(Relay)
    <3>1. P.todo # << >>
      BY <1>1, ProtTypes, Others
    <3>2. P.todo \in Seq(Relay)
      BY ProtTypes, FrameFields
    <3> QED BY <3>1, <3>2
  <2>3. /\ rest \in Frame /\ rest.todo = Tail(P.todo) /\ rest.op = P.op
        /\ rest.src = P.src /\ rest.self = P.self /\ rest.want = P.want
        /\ rest.stage = P.stage
    BY <2>2, ProtTypes DEF Frame
  <2> HIDE DEF rest
  <2>4. CASE P.todo = <<P.self, "start">>
    <3>1. P' = [rest EXCEPT !.pc = "off"] /\ rest.todo = <<"start">> /\ Head(P.todo) = P.self
      BY <2>1, <2>3, <2>4
    <3>2. /\ P'.pc = "off" /\ P'.op = P.op /\ P'.src = P.src /\ P'.self = P.self
          /\ P'.want = P.want /\ P'.todo = <<"start">> /\ P'.stage = P.stage
      BY <2>3, <3>1, ProtTypes DEF Frame
    <3>3. dtime'[P.self] = 0 /\ \A r \in Relay : dtime[r] = 0 => dtime'[r] = 0
      BY <2>1, <3>1, ProtTypes, Constants
    <3>4. "hz" \in Relay /\ "fz" \in Relay
      BY Constants
    <3> QED BY <1>1, <1>2, <3>2, <3>3, <3>4 DEF ProtHolds, Decided, StageHolds,
               CancelHolds, SelectHolds
  <2>5. CASE P.todo = <<"start">>
    <3>1. rest.todo = << >> /\ Head(P.todo) = "start"
      BY <2>3, <2>5
    <3>2. /\ dtime'["start"] = 0 /\ dtime'["hz"] = dtime["hz"] /\ dtime'["fz"] = dtime["fz"]
          /\ dtime'[P.self] = dtime[P.self]
      BY <2>1, <3>1, ProtTypes, Constants
    <3>3. CASE P.op = "select"
      <4>1. P' = [rest EXCEPT !.pc = "mark"]
        BY <2>1, <3>1, <3>3
      <4>2. /\ P'.pc = "mark" /\ P'.op = P.op /\ P'.src = P.src /\ P'.self = P.self
            /\ P'.want = P.want /\ P'.stage = P.stage
        BY <2>3, <4>1 DEF Frame
      <4> QED BY <1>1, <1>2, <3>2, <3>3, <4>2 DEF ProtHolds, Decided, StageHolds,
                 CancelHolds, SelectHolds
    <3>4. CASE P.op = "cancel"
      <4>1. dtime[P.self] = 0 /\ P.stage \in {3, 4} /\ P.src = Any
            /\ P.self = StageOut(P.stage, P.want) /\ CancelHolds
        <5>1. <<"start">> # <<P.self, "start">>
          <6>1. Len(<<"start">>) = 1 /\ Len(<<P.self, "start">>) = 2
            OBVIOUS
          <6> QED BY <6>1
        <5> QED BY <1>1, <1>2, <2>5, <3>4, <5>1 DEF StageHolds, StageOp
      <4>2. P' = Returned(rest, 0) /\ NextStage(rest.stage, 0) = P.stage + 1
        BY <2>1, <2>3, <3>1, <3>4, <4>1 DEF NextStage
      <4>3. /\ P'.pc = "check" /\ P'.stage = P.stage + 1
            /\ P'.op = StageOp(P.stage + 1) /\ P'.src = Any
            /\ P'.want = P.want /\ P'.self = StageOut(P.stage + 1, P.want)
        BY <2>3, <4>1, <4>2, ReturnedCall
      <4>4. StageHolds'
        BY <4>1, <4>3 DEF StageHolds, StageOp
      <4>5. /\ P.stage = 3 => P.self = "hz"
            /\ P.stage = 4 => P.self = "fz" /\ dtime["hz"] = 0
        BY <1>1, <4>1 DEF StageOut, CancelHolds
      <4>6. CancelHolds'
        BY <3>2, <4>1, <4>3, <4>5 DEF CancelHolds
      <4>7. SelectHolds'
        BY <4>1, <4>3 DEF SelectHolds, StageOp
      <4> QED BY <4>3, <4>4, <4>6, <4>7 DEF ProtHolds, Decided
    <3> QED BY <1>2, <3>3, <3>4
  <2> QED BY <1>1, <1>2, <2>4, <2>5 DEF StageHolds
<1> QED BY <1>3, <1>4

LEMMA ProtInvariance == Spec => []ProtHolds
<1>1. Init => ProtHolds
  BY Constants DEF Init, Idle, P, ProtHolds, Decided
<1>2. IInv /\ ProtHolds /\ [Next]_vars => ProtHolds'
  <2> SUFFICES ASSUME IInv, ProtHolds, [Next]_vars PROVE ProtHolds'
    OBVIOUS
  <2>1. CASE Begin \/ Step("remote")
    BY <2>1, CommandKeeps
  <2>2. CASE Trip
    BY <2>2, TripKeeps
  <2>3. CASE Tick
    BY <2>3, TickKeeps
  <2>4. CASE Step("prot")
    BY <2>4, ProtChecks, ProtSelects, ProtCloses, ProtReleases DEF Step
  <2>5. CASE UNCHANGED vars
    BY <2>5 DEF vars, relays, P, ProtHolds, Decided, StageHolds, CancelHolds, SelectHolds
  <2> QED BY <2>1, <2>2, <2>3, <2>4, <2>5, Constants DEF Next
<1> QED BY <1>1, <1>2, Invariance, PTL DEF Spec

\* Protection ends with its output operated or with a start relay that did not
\* report back, whatever a command it preempted was doing: a busy switch is
\* cancelled on both outputs and selected again (prSKgDo), no selection is gone
\* when it operates, and a soft plate does not stop it.  Only a hard plate
\* (ykSelect, ykOperate: GetDiValue) can refuse it.
THEOREM OnlyHardPlateRefuses == Spec => []ProtectionDecides
<1>1. ProtHolds => ProtectionDecides
  BY DEF ProtHolds, Decided, ProtectionDecides, P
<1> QED BY <1>1, ProtInvariance, PTL

\* When protection closes its output the start relay is closed too, whatever a
\* command it preempted was doing.
THEOREM ProtectionGetsThrough == Spec => []ProtectionOperates
<1>1. ProtHolds => ProtectionOperates
  BY DEF ProtHolds, StageHolds, SelectHolds, ProtectionOperates, P, StageOp
<1> QED BY <1>1, ProtInvariance, PTL

-------------------------------------------------------------------------------
(* One output per selection.                                               *)

\* What a call relies on when it makes, uses or ends a selection.
CallHolds(f) ==
  /\ f.pc = "close" => \/ f.had = <<f.src, f.self>>
                       \/ hard /\ f.had = <<Any, f.self>>
  /\ f.pc \in {"mark", "energise", "feedback", "hold"} => dtime["start"] = 0
  /\ f.pc \in {"energise", "feedback", "hold"} => thid = f.src /\ select = f.self
  /\ f.pc \in {"close", "timeself", "timestart"} => select = f.self
  /\ f.pc = "timestart" => dtime[f.self] = Exec
  /\ f.pc \in {"off", "zero"} =>
       f.todo = <<"start">> \/ \E o \in Out : f.todo = <<o, "start">>

\* While the start relay has a time and no call is using it or releasing it,
\* either the selection is unused and of the source that is noted, and
\* protection's outlives its operation only if a hard plate refused it, or it
\* was used and the output
\* that was operated keeps its time at least as long.
SelectionHolds ==
  dtime["start"] # 0
  /\ (\A l \in Level : frame[l].pc \notin {"off", "zero", "timeself", "timestart"}) =>
    /\ select \in Out
    /\ \/ dtime[select] >= dtime["start"]
       \/ grant = <<thid, select>> /\ (thid = Any => hard \/ P.pc # "idle")

GrantHolds ==
  /\ \A l \in Level : CallHolds(frame[l])
  /\ frame["remote"].pc # "idle" => frame["remote"].src # Any
  /\ P.op = "operate" /\ P.pc = "check" => thid = Any
  /\ SelectionHolds

Granted == torn \/ preempted \/ GrantHolds

\* How a call moves on.
LEMMA CallGoto ==
  ASSUME IInv, NEW l \in Level, NEW pc \in Places, Goto(l, pc)
  PROVE  /\ frame'[l].pc = pc /\ frame'[l].op = frame[l].op
         /\ frame'[l].src = frame[l].src /\ frame'[l].self = frame[l].self
         /\ frame'[l].todo = frame[l].todo /\ frame'[l].had = frame[l].had
         /\ \A m \in Level : m # l => frame'[m] = frame[m]
<1>1. Typed /\ frame[l] \in Frame
  BY DEF IInv, Typed
<1>2. /\ frame'[l] = [frame[l] EXCEPT !.pc = pc]
      /\ \A m \in Level : m # l => frame'[m] = frame[m]
  BY <1>1 DEF Goto, Typed
<1> QED BY <1>1, <1>2 DEF Frame

LEMMA CallReturn ==
  ASSUME IInv, NEW l \in Level, NEW ret \in 0 .. 4, Return(l, ret)
  PROVE  /\ frame'[l].pc \in {"idle", "check"}
         /\ frame'[l].pc # "idle" => frame'[l].src = frame[l].src
         /\ \A m \in Level : m # l => frame'[m] = frame[m]
<1>1. Typed /\ frame[l] \in Frame
  BY DEF IInv, Typed
<1>2. /\ frame'[l] = Returned(frame[l], ret)
      /\ \A m \in Level : m # l => frame'[m] = frame[m]
  BY <1>1 DEF Return, Typed
<1> QED BY <1>1, <1>2, ReturnedCall

\* The step of a level, unless a tick fell inside an operation or protection
\* preempted a command: the other level is idle.
LEMMA CallBegins ==
  ASSUME IInv, ProtHolds, Granted, ~torn, ~preempted, NEW l \in Level,
         frame[l].pc # "idle"
  PROVE  /\ GrantHolds /\ CallHolds(frame[l])
         /\ \A m \in Level : m # l => frame[m].pc = "idle"
         /\ l = "prot" => StageHolds /\ SelectHolds /\ P = frame[l]
         /\ l # "prot" => P.pc = "idle" /\ frame[l].src # Any /\ l = "remote"
         /\ /\ dtime["start"] # 0
            /\ frame[l].pc \notin {"off", "zero", "timeself", "timestart"}
            => /\ select \in Out
               /\ \/ dtime[select] >= dtime["start"]
                  \/ grant = <<thid, select>> /\ (thid = Any => hard \/ P.pc # "idle")
<1>1. GrantHolds /\ Orderly
  BY DEF Granted, IInv, OrderHolds
<1>2. \A m \in Level : m # l => frame[m].pc = "idle"
  BY <1>1, OthersIdle
<1>3. /\ l = "prot" => StageHolds /\ SelectHolds /\ P = frame[l]
      /\ l # "prot" => P.pc = "idle" /\ frame[l].src # Any /\ l = "remote"
  BY <1>1, <1>2, Constants DEF ProtHolds, P, GrantHolds
<1> QED BY <1>1, <1>2, <1>3 DEF GrantHolds, SelectionHolds

LEMMA CallKeeps ==
  ASSUME IInv, ProtHolds, Granted, NEW l \in Level, frame[l].pc # "idle",
         UNCHANGED <<hard, torn, preempted>>,
         \A m \in Level : m # l => frame'[m] = frame[m],
         ~torn /\ ~preempted =>
           /\ CallHolds(frame[l])'
           /\ frame'[l].pc # "idle" => frame'[l].src = frame[l].src
           /\ l = "prot" /\ P'.op = "operate" /\ P'.pc = "check" => thid' = Any
           /\ /\ dtime'["start"] # 0
              /\ frame'[l].pc \notin {"off", "zero", "timeself", "timestart"}
              => /\ select' \in Out
                 /\ \/ dtime'[select'] >= dtime'["start"]
                    \/ grant' = <<thid', select'>> /\ (thid' = Any => hard \/ P'.pc # "idle")
  PROVE  Granted'
<1> SUFFICES ASSUME ~torn, ~preempted PROVE GrantHolds'
  BY DEF Granted
<1>1. /\ \A m \in Level : m # l => frame'[m].pc = "idle"
      /\ l # "prot" => P'.pc = "idle" /\ frame[l].src # Any /\ l = "remote"
  BY CallBegins, Constants DEF P
<1>2. \A m \in Level : CallHolds(frame[m])'
  BY <1>1 DEF CallHolds
<1>3. frame'["remote"].pc # "idle" => frame'["remote"].src # Any
  BY <1>1, Constants
<1>4. P'.op = "operate" /\ P'.pc = "check" => thid' = Any
  BY <1>1
<1>5. SelectionHolds'
  BY <1>1 DEF SelectionHolds
<1> QED BY <1>2, <1>3, <1>4, <1>5 DEF GrantHolds

\* A call that returns leaves the selection as it is, or there is none.
LEMMA ReturnGrants ==
  ASSUME IInv, ProtHolds, Granted, ProtHolds', NEW l \in Level, frame[l].pc # "idle",
         NEW ret \in 0 .. 4, Return(l, ret), UNCHANGED <<hard, torn, preempted>>,
         \/ /\ ret \in {1, 2} \/ (ret = 4 /\ Barred(l))
            /\ frame[l].pc = "check" /\ UNCHANGED <<dtime, select, thid, grant>>
         \/ ret \in {0, 3} /\ dtime'["start"] = 0
  PROVE  Granted'
<1>1. /\ frame'[l].pc \in {"idle", "check"}
      /\ frame'[l].pc # "idle" => frame'[l].src = frame[l].src
      /\ \A m \in Level : m # l => frame'[m] = frame[m]
  BY CallReturn
<1>2. CallHolds(frame[l])'
  BY <1>1 DEF CallHolds
<1>3. l = "prot" /\ P'.op = "operate" /\ P'.pc = "check" => dtime'["start"] > 0
  BY DEF ProtHolds, SelectHolds
<1>4. l = "prot" /\ ret \in {1, 2} =>
        P'.pc # "idle" /\ (P'.pc = "check" => P'.op # "operate")
  <2> SUFFICES ASSUME l = "prot", ret \in {1, 2}
               PROVE  P'.pc # "idle" /\ (P'.pc = "check" => P'.op # "operate")
    OBVIOUS
  <2> DEFINE stage == NextStage(P.stage, ret)
  <2>1. /\ stage = 0 => P'.pc = "idle" /\ P'.ret = ret
        /\ stage # 0 => P'.pc = "check" /\ P'.op = StageOp(stage)
    BY ProtReturn
  <2>2. stage \in {0, 3, 4, 5}
    BY DEF NextStage
  <2> HIDE DEF stage
  <2>3. stage # 0
    BY <2>1 DEF ProtHolds, Decided
  <2> QED BY <2>1, <2>2, <2>3 DEF StageOp
<1>5. l = "prot" /\ ret = 4 /\ P'.pc = "check" => P'.op # "operate"
  <2> SUFFICES ASSUME l = "prot", ret = 4, P'.pc = "check" PROVE P'.op # "operate"
    OBVIOUS
  <2> DEFINE stage == NextStage(P.stage, ret)
  <2>1. /\ stage = 0 => P'.pc = "idle" /\ P'.ret = ret
        /\ stage # 0 => P'.pc = "check" /\ P'.op = StageOp(stage)
    BY ProtReturn
  <2>2. stage \in {0, 4, 5}
    BY DEF NextStage
  <2> HIDE DEF stage
  <2> QED BY <2>1, <2>2 DEF StageOp
<1>6. l = "prot" /\ ret = 4 => hard \/ dtime'["start"] = 0
  BY DEF Barred
<1> QED BY <1>1, <1>2, <1>3, <1>4, <1>5, <1>6, CallBegins, CallKeeps

\* The call is tested.
LEMMA GrantChecks ==
  ASSUME IInv, ProtHolds, Granted, ProtHolds', NEW l \in Level,
         SelectCheck(l) \/ OperateCheck(l) \/ CancelCheck(l)
  PROVE  Granted'
<1>1. /\ frame[l].pc = "check" /\ frame[l].pc # "idle"
      /\ UNCHANGED <<closed, dtime, select, thid, grant, hard, torn, preempted>>
  BY DEF SelectCheck, OperateCheck, CancelCheck, At, relays, history
<1>2. ASSUME NEW ret \in {1, 2, 4}, Return(l, ret), ret = 4 => Barred(l) PROVE Granted'
  BY <1>1, <1>2, ReturnGrants
<1>3. ASSUME NEW o \in Out, \/ Release(l, <<"start">>) \/ Release(l, <<o, "start">>)
      PROVE  Granted'
  <2>1. <<"start">> \in Seq(Relay) /\ <<o, "start">> \in Seq(Relay)
    BY Constants
  <2>2. PICK todo \in {<<"start">>, <<o, "start">>} : Release(l, todo)
    BY <1>3
  <2>3. /\ frame'[l].pc = "off" /\ frame'[l].todo = todo /\ frame'[l].src = frame[l].src
        /\ \A m \in Level : m # l => frame'[m] = frame[m]
    <3>1. Typed /\ frame[l] \in Frame
      BY DEF IInv, Typed
    <3> DEFINE a == [frame[l] EXCEPT !.pc = "off"]
               b == [a EXCEPT !.todo = todo]
    <3>2. frame' = [frame EXCEPT ![l] = b]
      BY <2>2, <3>1 DEF Release, Typed
    <3>3. a \in Frame /\ a.pc = "off" /\ a.src = frame[l].src
      BY <3>1, Moved DEF Frame, Places
    <3> HIDE DEF a
    <3>4. b.pc = "off" /\ b.todo = todo /\ b.src = frame[l].src
      BY <2>1, <2>2, <3>3 DEF Frame
    <3> HIDE DEF b
    <3> QED BY <3>1, <3>2, <3>4 DEF Typed
  <2>4. CallHolds(frame[l])'
    BY <2>2, <2>3 DEF CallHolds
  <2>5. l = "prot" => P'.pc = "off"
    BY <2>3 DEF P
  <2> QED BY <1>1, <2>3, <2>4, <2>5, CallKeeps
<1>4. ASSUME Goto(l, "mark"), dtime["start"] = 0 PROVE Granted'
  <2>1. /\ frame'[l].pc = "mark" /\ frame'[l].src = frame[l].src
        /\ \A m \in Level : m # l => frame'[m] = frame[m]
    BY <1>4, CallGoto DEF Places
  <2>2. CallHolds(frame[l])'
    BY <1>1, <1>4, <2>1 DEF CallHolds
  <2>3. l = "prot" => P'.pc = "mark"
    BY <2>1 DEF P
  <2> QED BY <1>1, <1>4, <2>1, <2>2, <2>3, CallKeeps
<1>5. frame[l].self \in Out
  BY FrameFields DEF IInv, Typed
<1>6. CASE SelectCheck(l)
  <2>1. \/ Return(l, 4) /\ Barred(l)
        \/ Return(l, 2)
        \/ Release(l, <<"start">>)
        \/ Goto(l, "mark") /\ dtime["start"] = 0
    BY <1>6, Zenon DEF SelectCheck
  <2>2. CASE Return(l, 4) /\ Barred(l)
    BY <1>2, <2>2
  <2>3. CASE Return(l, 2)
    BY <1>2, <2>3
  <2> QED BY <1>3, <1>4, <1>5, <2>1, <2>2, <2>3
<1>7. CASE CancelCheck(l)
  <2>1. Return(l, 2) \/ Release(l, <<frame[l].self, "start">>)
    BY <1>7, Zenon DEF CancelCheck
  <2> QED BY <1>2, <1>3, <1>5, <2>1
<1>8. CASE OperateCheck(l)
  <2>1. CASE /\ ~Busy(frame[l]) /\ ~Held(frame[l]) /\ dtime["start"] # 0
             /\ select = frame[l].self
             /\ frame' = [frame EXCEPT ![l].pc = "close", ![l].had = grant]
    <3> DEFINE a == [frame[l] EXCEPT !.pc = "close"]
               b == [a EXCEPT !.had = grant]
    <3>1. Typed /\ frame[l] \in Frame /\ grant \in Grant /\ dtime \in [Relay -> Nat]
      BY Others, Times DEF IInv, Typed
    <3>2. frame' = [frame EXCEPT ![l] = b]
      BY <2>1, <3>1 DEF Typed
    <3>3. /\ a \in Frame /\ a.pc = "close" /\ a.src = frame[l].src
          /\ a.self = frame[l].self
      BY <3>1, Moved DEF Frame, Places
    <3> HIDE DEF a
    <3>4. b.pc = "close" /\ b.src = frame[l].src /\ b.self = frame[l].self /\ b.had = grant
      BY <3>1, <3>3 DEF Frame
    <3> HIDE DEF b
    <3>5. /\ frame'[l].pc = "close" /\ frame'[l].src = frame[l].src
          /\ frame'[l].self = frame[l].self /\ frame'[l].had = grant
          /\ \A m \in Level : m # l => frame'[m] = frame[m]
      BY <3>1, <3>2, <3>4 DEF Typed
    <3>6. ASSUME ~torn, ~preempted
          PROVE  \/ grant = <<frame[l].src, frame[l].self>>
                 \/ hard /\ grant = <<Any, frame[l].self>>
      <4>1. /\ select \in Out
            /\ \/ dtime[select] >= dtime["start"]
               \/ grant = <<thid, select>> /\ (thid = Any => hard \/ P.pc # "idle")
        BY <1>1, <2>1, <3>6, CallBegins
      <4>2. dtime[select] = 0 /\ dtime["start"] \in Nat
        BY <2>1, <3>1, Constants DEF Busy
      <4>3. grant = <<thid, select>> /\ (thid = Any => hard \/ P.pc # "idle")
        BY <2>1, <4>1, <4>2
      <4>4. CASE l = "prot"
        <5>1. P = frame[l] /\ P.op = "operate" /\ P.pc = "check"
          BY <1>1, <1>8, <4>4 DEF OperateCheck, P
        <5>2. thid = Any
          BY <3>6, <5>1 DEF Granted, GrantHolds
        <5>3. P.src = Any
          BY <5>1 DEF ProtHolds, StageHolds
        <5> QED BY <2>1, <4>3, <5>1, <5>2, <5>3
      <4>5. CASE l # "prot"
        <5>1. P.pc = "idle" /\ frame[l].src # Any
          BY <1>1, <3>6, <4>5, CallBegins
        <5>2. thid = frame[l].src \/ (hard /\ thid = Any)
          BY <2>1, <4>3, <5>1 DEF Held
        <5> QED BY <2>1, <4>3, <5>2
      <4> QED BY <4>4, <4>5
    <3>7. ~torn /\ ~preempted => CallHolds(frame[l])'
      BY <1>1, <2>1, <3>5, <3>6 DEF CallHolds
    <3>8. l = "prot" => P'.pc = "close"
      BY <3>5 DEF P
    <3>9. ~torn /\ ~preempted =>
            /\ dtime["start"] # 0 => /\ select \in Out
               /\ \/ dtime[select] >= dtime["start"]
                  \/ grant = <<thid, select>> /\ (thid = Any => hard \/ P'.pc # "idle")
      <4> SUFFICES ASSUME ~torn, ~preempted, dtime["start"] # 0
                   PROVE  /\ select \in Out
                          /\ \/ dtime[select] >= dtime["start"]
                             \/ grant = <<thid, select>> /\ (thid = Any => hard \/ P'.pc # "idle")
        OBVIOUS
      <4>1. select \in Out
        BY <1>5, <2>1
      <4>2. /\ select \in Out
            /\ \/ dtime[select] >= dtime["start"]
               \/ grant = <<thid, select>> /\ (thid = Any => hard \/ P.pc # "idle")
        BY <1>1, CallBegins
      <4>3. thid = Any /\ P.pc # "idle" => P'.pc # "idle"
        <5>1. CASE l = "prot"
          BY <3>8, <5>1
        <5>2. CASE l # "prot"
          BY <1>1, <5>2, CallBegins
        <5> QED BY <5>1, <5>2
      <4> QED BY <4>2, <4>3
    <3> QED BY <1>1, <3>5, <3>7, <3>8, <3>9, CallKeeps
  <2>2. \/ Return(l, 4) /\ Barred(l)
        \/ Return(l, 2) \/ Return(l, 1)
        \/ Release(l, <<"start">>)
        \/ /\ ~Busy(frame[l]) /\ ~Held(frame[l]) /\ dtime["start"] # 0
           /\ select = frame[l].self
           /\ frame' = [frame EXCEPT ![l].pc = "close", ![l].had = grant]
    BY <1>8, Zenon DEF OperateCheck
  <2>3. CASE Return(l, 4) /\ Barred(l)
    BY <1>2, <2>3
  <2>4. CASE Return(l, 2) \/ Return(l, 1)
    BY <1>2, <2>4
  <2> QED BY <1>3, <1>5, <2>1, <2>2, <2>3, <2>4
<1> QED BY <1>6, <1>7, <1>8

\* The selection is made.
LEMMA GrantSelects ==
  ASSUME IInv, ProtHolds, Granted, ProtHolds', NEW l \in Level,
         Mark(l) \/ Energise(l) \/ FeedbackOk(l) \/ FeedbackFails(l) \/ Hold(l)
  PROVE  Granted'
<1>1. /\ frame[l].pc \in {"mark", "energise", "feedback", "hold"}
      /\ UNCHANGED <<hard, torn, preempted>>
  BY DEF Mark, Energise, FeedbackOk, FeedbackFails, Hold, At, history
<1>2. ~torn /\ ~preempted => CallHolds(frame[l])
  BY <1>1, CallBegins
<1>3. ASSUME NEW pc \in {"energise", "feedback", "hold"}, Goto(l, pc), dtime' = dtime,
             \/ select' = frame[l].self /\ thid' = frame[l].src
             \/ frame[l].pc # "mark" /\ UNCHANGED <<select, thid>>
      PROVE  Granted'
  <2>1. pc \in Places
    BY DEF Places
  <2>2. /\ frame'[l].pc = pc /\ frame'[l].src = frame[l].src
        /\ frame'[l].self = frame[l].self
        /\ \A m \in Level : m # l => frame'[m] = frame[m]
    BY <1>3, <2>1, CallGoto
  <2>3. ~torn /\ ~preempted => CallHolds(frame[l])' /\ dtime'["start"] = 0
    BY <1>1, <1>2, <1>3, <2>2 DEF CallHolds
  <2>4. l = "prot" => P'.pc = pc
    BY <2>2 DEF P
  <2> QED BY <1>1, <2>2, <2>3, <2>4, CallKeeps
<1>4. CASE Mark(l)
  BY <1>3, <1>4 DEF Mark
<1>5. CASE Energise(l)
  BY <1>3, <1>5 DEF Energise, At
<1>6. CASE FeedbackOk(l)
  BY <1>3, <1>6 DEF FeedbackOk, At, relays
<1>7. CASE FeedbackFails(l)
  <2>1. Return(l, 3) /\ dtime' = dtime
    BY <1>7 DEF FeedbackFails
  <2>2. ~torn /\ ~preempted => dtime'["start"] = 0
    BY <1>1, <1>2, <2>1 DEF CallHolds
  <2>3. torn \/ preempted => Granted'
    BY <1>1 DEF Granted
  <2> QED BY <1>1, <2>1, <2>2, <2>3, ReturnGrants
<1>8. CASE Hold(l)
  <2>1. /\ frame[l].pc = "hold" /\ Return(l, 0)
        /\ dtime' = [dtime EXCEPT !["start"] = Yz]
        /\ grant' = <<frame[l].src, frame[l].self>> /\ UNCHANGED <<select, thid>>
    BY <1>8 DEF Hold, At
  <2>2. /\ frame'[l].pc \in {"idle", "check"}
        /\ frame'[l].pc # "idle" => frame'[l].src = frame[l].src
        /\ \A m \in Level : m # l => frame'[m] = frame[m]
    BY <2>1, CallReturn
  <2>3. CallHolds(frame[l])'
    BY <2>2 DEF CallHolds
  <2>4. ASSUME ~torn, ~preempted
        PROVE  /\ grant' = <<thid', select'>> /\ select' \in Out
               /\ l = "prot" => thid' = Any
    <3>1. thid = frame[l].src /\ select = frame[l].self
      BY <1>2, <2>1, <2>4 DEF CallHolds
    <3>2. frame[l].self \in Out
      BY FrameFields DEF IInv, Typed
    <3>3. l = "prot" => frame[l].src = Any
      BY <2>1, <2>4, CallBegins DEF StageHolds
    <3> QED BY <2>1, <3>1, <3>2, <3>3
  <2>5. ASSUME ~torn, ~preempted
        PROVE  thid' = Any => hard \/ P'.pc # "idle"
    <3>1. CASE l = "prot"
      <4>1. P.op = "select" /\ P.stage \in {1, 5}
        BY <2>1, <2>5, <3>1, CallBegins DEF StageHolds, StageOp
      <4>2. NextStage(P.stage, 0) # 0
        BY <4>1 DEF NextStage
      <4>3. P'.pc = "check"
        BY <2>1, <3>1, <4>2, ProtReturn
      <4> QED BY <4>3
    <3>2. CASE l # "prot"
      <4>1. frame[l].src # Any
        BY <2>1, <2>5, <3>2, CallBegins
      <4> QED BY <1>2, <2>1, <2>5, <4>1 DEF CallHolds
    <3> QED BY <3>1, <3>2
  <2>6. frame[l].pc # "idle"
    BY <2>1
  <2> QED BY <1>1, <2>2, <2>3, <2>4, <2>5, <2>6, CallKeeps
<1> QED BY <1>4, <1>5, <1>6, <1>7, <1>8

\* The output is operated.
LEMMA GrantCloses ==
  ASSUME IInv, ProtHolds, Granted, ProtHolds', NEW l \in Level,
         CloseOut(l) \/ TimeSelf(l) \/ TimeStart(l)
  PROVE  Granted'
<1>1. /\ frame[l].pc \in {"close", "timeself", "timestart"}
      /\ UNCHANGED <<select, thid, hard, torn, preempted>>
  BY DEF CloseOut, TimeSelf, TimeStart, At, history
<1>2. ~torn /\ ~preempted => CallHolds(frame[l])
  BY <1>1, CallBegins
<1>3. /\ frame[l].self \in Out /\ frame[l].self \in Relay /\ frame[l].self # "start"
      /\ "start" \in Relay /\ dtime \in [Relay -> Nat]
  BY FrameFields, Times, Constants DEF IInv, Typed
<1>4. CASE CloseOut(l) \/ TimeSelf(l)
  <2>1. PICK pc \in {"timeself", "timestart"} :
          Goto(l, pc) /\ (pc = "timestart" => dtime' = [dtime EXCEPT ![frame[l].self] = Exec])
    BY <1>4 DEF CloseOut, TimeSelf
  <2>2. pc \in Places
    BY DEF Places
  <2>3. /\ frame'[l].pc = pc /\ frame'[l].src = frame[l].src
        /\ frame'[l].self = frame[l].self
        /\ \A m \in Level : m # l => frame'[m] = frame[m]
    BY <2>1, <2>2, CallGoto
  <2>4. ~torn /\ ~preempted => CallHolds(frame[l])'
    BY <1>1, <1>2, <1>3, <2>1, <2>3 DEF CallHolds
  <2>5. l = "prot" => P'.pc = pc
    BY <2>3 DEF P
  <2> QED BY <1>1, <2>3, <2>4, <2>5, CallKeeps
<1>5. CASE TimeStart(l)
  <2>1. /\ frame[l].pc = "timestart" /\ Return(l, 0)
        /\ dtime' = [dtime EXCEPT !["start"] = Exec]
    BY <1>5 DEF TimeStart, At
  <2>2. /\ frame'[l].pc \in {"idle", "check"}
        /\ frame'[l].pc # "idle" => frame'[l].src = frame[l].src
        /\ \A m \in Level : m # l => frame'[m] = frame[m]
    BY <2>1, CallReturn
  <2>3. CallHolds(frame[l])'
    BY <2>2 DEF CallHolds
  <2>4. ASSUME ~torn, ~preempted
        PROVE  select' \in Out /\ dtime'[select'] >= dtime'["start"]
    <3>1. select = frame[l].self /\ dtime[frame[l].self] = Exec
      BY <1>2, <2>1, <2>4 DEF CallHolds
    <3> QED BY <1>1, <1>3, <2>1, <3>1, Constants
  <2>5. ASSUME ~torn, ~preempted, l = "prot"
        PROVE  P'.pc = "idle"
    <3>1. P.op = "operate" /\ P.stage \in {2, 6}
      BY <2>1, <2>5, CallBegins DEF StageHolds, StageOp
    <3>2. NextStage(P.stage, 0) = 0
      BY <3>1 DEF NextStage
    <3> QED BY <2>1, <2>5, <3>2, ProtReturn
  <2>6. frame[l].pc # "idle"
    BY <2>1
  <2> QED BY <1>1, <2>2, <2>3, <2>4, <2>5, <2>6, CallKeeps
<1> QED BY <1>4, <1>5

\* A relay is released, the start relay last.
LEMMA GrantReleases ==
  ASSUME IInv, ProtHolds, Granted, ProtHolds', NEW l \in Level, Off(l) \/ Zero(l)
  PROVE  Granted'
<1>1. /\ frame[l].pc \in {"off", "zero"} /\ frame[l].pc # "idle"
      /\ UNCHANGED <<select, thid, hard, torn, preempted>>
  BY DEF Off, Zero, At, history
<1>2. ~torn /\ ~preempted => CallHolds(frame[l])
  BY <1>1, CallBegins
<1>3. CASE Off(l)
  <2>1. Goto(l, "zero")
    BY <1>3 DEF Off
  <2>2. /\ frame'[l].pc = "zero" /\ frame'[l].src = frame[l].src
        /\ frame'[l].todo = frame[l].todo
        /\ \A m \in Level : m # l => frame'[m] = frame[m]
    BY <2>1, CallGoto DEF Places
  <2>3. ~torn /\ ~preempted => CallHolds(frame[l])'
    BY <1>1, <1>2, <2>2 DEF CallHolds
  <2>4. l = "prot" => P'.pc = "zero"
    BY <2>2 DEF P
  <2> QED BY <1>1, <2>2, <2>3, <2>4, CallKeeps
<1>4. CASE Zero(l)
  <2> DEFINE f == frame[l]
             rest == [f EXCEPT !.todo = Tail(@)]
  <2>0. Typed /\ f \in Frame /\ f.todo \in Seq(Relay) /\ f.todo # << >>
        /\ dtime \in [Relay -> Nat] /\ "start" \in Relay
    BY <1>1, FrameFields, Others, Times, Constants DEF IInv, Typed
  <2>7. Tail(f.todo) \in Seq(Relay)
    BY <2>0
  <2>1. /\ dtime' = [dtime EXCEPT ![Head(f.todo)] = 0]
        /\ frame'[l] = IF rest.todo # << >> THEN [rest EXCEPT !.pc = "off"]
                       ELSE IF f.op = "select" THEN [rest EXCEPT !.pc = "mark"]
                       ELSE Returned(rest, IF f.op = "operate" THEN 1 ELSE 0)
        /\ \A m \in Level : m # l => frame'[m] = frame[m]
    BY <1>4, <2>0 DEF Zero, Typed
  <2>2. rest \in Frame /\ rest.todo = Tail(f.todo) /\ rest.src = f.src /\ rest.op = f.op
    BY <2>0, <2>7 DEF Frame
  <2> HIDE DEF rest, f
  <2> SUFFICES ASSUME ~torn, ~preempted PROVE Granted'
    BY <1>1 DEF Granted
  <2>3. CASE \E o \in Out : f.todo = <<o, "start">>
    <3>1. rest.todo = <<"start">>
      BY <2>2, <2>3
    <3>2. frame'[l] = [rest EXCEPT !.pc = "off"]
      BY <2>1, <3>1
    <3>3. /\ frame'[l].pc = "off" /\ frame'[l].todo = <<"start">>
          /\ frame'[l].src = frame[l].src
      BY <2>2, <3>1, <3>2 DEF Frame, f
    <3>4. CallHolds(frame[l])'
      BY <3>3 DEF CallHolds
    <3>5. l = "prot" => P'.pc = "off"
      BY <3>3 DEF P
    <3> QED BY <1>1, <2>1, <3>3, <3>4, <3>5, CallKeeps
  <2>4. CASE f.todo = <<"start">>
    <3>1. rest.todo = << >> /\ Head(f.todo) = "start"
      BY <2>2, <2>4
    <3>2. dtime'["start"] = 0
      BY <2>0, <2>1, <3>1
    <3>3. /\ frame'[l].pc \in {"idle", "check", "mark"}
          /\ frame'[l].pc # "idle" => frame'[l].src = frame[l].src
      <4>1. CASE f.op = "select"
        <5>1. frame'[l] = [rest EXCEPT !.pc = "mark"]
          BY <2>1, <3>1, <4>1
        <5> QED BY <2>2, <5>1 DEF Frame, f
      <4>2. CASE f.op # "select"
        <5>1. PICK ret \in 0 .. 4 : frame'[l] = Returned(rest, ret)
          BY <2>1, <3>1, <4>2
        <5> QED BY <2>2, <5>1, ReturnedCall DEF f
      <4> QED BY <4>1, <4>2
    <3>4. CallHolds(frame[l])'
      BY <3>2, <3>3 DEF CallHolds
    <3>5. P'.pc = "check" => P'.op # "operate"
      BY <3>2 DEF ProtHolds, SelectHolds
    <3> QED BY <1>1, <2>1, <3>2, <3>3, <3>4, <3>5, CallKeeps
  <2> QED BY <1>1, <1>2, <2>3, <2>4 DEF CallHolds, f
<1> QED BY <1>3, <1>4

\* A new call changes no selection.
LEMMA GrantBegins ==
  ASSUME IInv, ProtHolds, Granted, Begin \/ Trip
  PROVE  Granted'
<1> SUFFICES ASSUME ~torn', ~preempted' PROVE GrantHolds'
  BY DEF Granted
<1>1. /\ ~torn /\ ~preempted /\ UNCHANGED <<closed, dtime, select, thid, grant, hard>>
      /\ frame["remote"].pc = "idle" /\ frame["prot"].pc = "idle"
  <2>1. CASE Begin
    BY <2>1 DEF Begin, history, relays
  <2>2. CASE Trip
    BY <2>2 DEF Trip, relays
  <2> QED BY <2>1, <2>2
<1>2. GrantHolds /\ Typed
  BY <1>1 DEF Granted, IInv
<1>3. PICK l \in Level :
        /\ frame'[l].pc = "check"
        /\ \A m \in Level : m # l => frame'[m] = frame[m]
        /\ l = "remote" => frame'[l].src # Any
        /\ l = "prot" => frame'[l].op = "select"
  <2>1. CASE Begin
    <3>1. PICK s \in Source, op \in {"select", "operate", "cancel"}, self \in Out :
            frame' = [frame EXCEPT !["remote"] =
                        Command([Idle EXCEPT !.src = s], op, self)]
      BY <2>1 DEF Begin
    <3>2. frame'["remote"].pc = "check" /\ frame'["remote"].src = s
      BY <1>2, <3>1, Constants DEF Typed, Command, Idle
    <3>3. s # Any
      BY YkAssumption DEF Any
    <3>4. \A m \in Level : m # "remote" => frame'[m] = frame[m]
      BY <1>2, <3>1 DEF Typed
    <3> QED BY <3>2, <3>3, <3>4, Constants
  <2>2. CASE Trip
    <3>1. PICK want \in Out :
            frame' = [frame EXCEPT !["prot"] =
                        Command([Idle EXCEPT !.want = want, !.stage = 1],
                                "select", want)]
      BY <2>2 DEF Trip
    <3>2. frame'["prot"].pc = "check" /\ frame'["prot"].op = "select"
      BY <1>2, <3>1, Constants DEF Typed, Command, Idle
    <3>3. \A m \in Level : m # "prot" => frame'[m] = frame[m]
      BY <1>2, <3>1 DEF Typed
    <3> QED BY <3>2, <3>3, Constants
  <2> QED BY <2>1, <2>2
<1>4. \A m \in Level : frame[m].pc = "idle" /\ frame'[m].pc \in {"idle", "check"}
  BY <1>1, <1>3, Constants
<1>5. \A m \in Level : CallHolds(frame[m])'
  BY <1>4 DEF CallHolds
<1>6. SelectionHolds'
  BY <1>1, <1>2, <1>4 DEF GrantHolds, SelectionHolds, P
<1>7. frame'["remote"].pc # "idle" => frame'["remote"].src # Any
  BY <1>1, <1>3, Constants
<1>8. P'.op = "operate" /\ P'.pc = "check" => thid' = Any
  BY <1>1, <1>3, Constants DEF P
<1> QED BY <1>5, <1>6, <1>7, <1>8 DEF GrantHolds

\* The timer ends a selection no later than the output that used it.
LEMMA GrantTick ==
  ASSUME IInv, ProtHolds, Granted, Tick
  PROVE  Granted'
<1> SUFFICES ASSUME ~torn', ~preempted' PROVE GrantHolds'
  BY DEF Granted
<1>1. /\ ~torn /\ ~preempted /\ UNCHANGED <<select, thid, frame, hard>>
      /\ dtime' = [r \in Relay |-> IF dtime[r] > 0 THEN dtime[r] - 1 ELSE 0]
      /\ dtime["start"] # 1 => grant' = grant
      /\ \A l \in Level : frame[l].pc \notin {"close", "timeself", "timestart"}
  BY DEF Tick, Expiring, Operating
<1>2. GrantHolds /\ dtime \in [Relay -> Nat] /\ "start" \in Relay /\ Out \subseteq Relay
  BY <1>1, Times, Constants DEF Granted, IInv
<1>3. dtime["start"] = 0 => dtime'["start"] = 0
  BY <1>1, <1>2
<1>4. \A l \in Level : CallHolds(frame[l])'
  BY <1>1, <1>2, <1>3 DEF GrantHolds, CallHolds
<1>5. SelectionHolds'
  <2> SUFFICES ASSUME dtime'["start"] # 0,
                 \A l \in Level : frame[l].pc \notin {"off", "zero", "timeself", "timestart"}
               PROVE  /\ select \in Out
                      /\ \/ dtime'[select] >= dtime'["start"]
                         \/ grant' = <<thid, select>> /\ (thid = Any => hard \/ P.pc # "idle")
    BY <1>1 DEF SelectionHolds, P
  <2>1. dtime["start"] > 1 /\ dtime'["start"] = dtime["start"] - 1 /\ grant' = grant
    BY <1>1, <1>2
  <2>2. /\ select \in Out
        /\ \/ dtime[select] >= dtime["start"]
           \/ grant = <<thid, select>> /\ (thid = Any => hard \/ P.pc # "idle")
    BY <1>2, <2>1 DEF GrantHolds, SelectionHolds
  <2>3. dtime[select] >= dtime["start"] => dtime'[select] >= dtime'["start"]
    BY <1>1, <1>2, <2>1, <2>2
  <2> QED BY <2>1, <2>2, <2>3
<1> QED BY <1>1, <1>2, <1>4, <1>5 DEF GrantHolds, P

LEMMA GrantInvariance == Spec => []Granted
<1>1. Init => Granted
  <2> SUFFICES ASSUME Init PROVE GrantHolds
    BY DEF Granted
  <2>1. \A l \in Level : frame[l].pc = "idle"
    BY DEF Init, Idle
  <2>2. dtime["start"] = 0
    BY Constants DEF Init
  <2> QED BY <2>1, <2>2, Constants DEF GrantHolds, CallHolds, SelectionHolds, P
<1>2. IInv /\ ProtHolds /\ ProtHolds' /\ Granted /\ [Next]_vars => Granted'
  <2> SUFFICES ASSUME IInv, ProtHolds, ProtHolds', Granted, [Next]_vars PROVE Granted'
    OBVIOUS
  <2>1. CASE Begin \/ Trip
    BY <2>1, GrantBegins
  <2>2. CASE Tick
    BY <2>2, GrantTick
  <2>3. ASSUME NEW l \in Level, Step(l) PROVE Granted'
    BY <2>3, GrantChecks, GrantSelects, GrantCloses, GrantReleases DEF Step
  <2>4. CASE UNCHANGED vars
    BY <2>4 DEF vars, relays, history, P, Granted, GrantHolds, CallHolds, SelectionHolds
  <2> QED BY <2>1, <2>2, <2>3, <2>4 DEF Next
<1> QED BY <1>1, <1>2, Invariance, ProtInvariance, PTL DEF Spec

\* An output is operated by the source that selected it, while the selection
\* stands and once per selection, unless a tick fell inside an ykOperate or
\* protection preempted a command.  Only a selection that protection left when
\* a hard plate refused it can be used by another source.
THEOREM OncePerSelect == Spec => []OncePerSelection
<1>1. Granted => OncePerSelection
  BY DEF Granted, GrantHolds, CallHolds, OncePerSelection
<1> QED BY <1>1, GrantInvariance, PTL

===============================================================================
