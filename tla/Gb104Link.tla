----------------------------- MODULE Gb104Link -----------------------------
(***************************************************************************)
(* The controlled station of the telecontrol protocol IEC 60870-5-104     *)
(* (gb104s.cpp): sequence numbers, window, timers, double events and what  *)
(* becomes of them when a connection breaks, on top of the sockets of      *)
(* tcp.c, whose buffers outlive a connection.                              *)
(*                                                                         *)
(* One action per handler of the task; a handler runs to its end before    *)
(* the next.  The controlling station is not in the repository: it follows *)
(* the protocol, and breaks the connection when a sequence number is wrong.*)
(***************************************************************************)
EXTENDS Integers, Sequences, FiniteSets

CONSTANTS
  M,            \* MAX_FRAME_COUNTER + 1: the sequence numbers
  K, W,         \* m_PARA_K, m_PARA_W: the window, when to acknowledge
  Orders,       \* the commands the controlling station gives
  MaxEvent,     \* bound: double events written to the data base
  MaxConnect,   \* bound: connections
  MaxLeft,      \* bound: frames a broken connection leaves in the buffer
  MaxEffort,    \* bound: connections, commands, times timer 3 runs off and
                \*   writes that find no room in the buffer, together
  MaxUp         \* bound: frames of the controlling station on their way

ASSUME LinkAssumption ==
  /\ {M, K, W, MaxEvent, MaxConnect, MaxLeft, MaxEffort, MaxUp} \subseteq Nat
  /\ K > 1 /\ W > 0 /\ M > K + 1 /\ M > W
  /\ Orders \subseteq {"bad", "ask", "quiet", "testfr act", "stopdt act"}

Num == 0 .. M - 1

\* Frames.  A command is answered always ("bad": an error), if the window
\* allows ("ask"), or not at all ("quiet").
I(ns, ev)      == [type |-> "I", ns |-> ns, ev |-> ev]
U(fn)          == [type |-> "U", fn |-> fn]
S              == [type |-> "S"]
Command(ns, nr, op) == [type |-> "I", ns |-> ns, nr |-> nr, op |-> op]
Ack(nr)        == [type |-> "S", nr |-> nr]

VARIABLES
  sn, rn, ack, ackrn,    \* m_wSendNum, m_wRecvNum, m_wAckNum, m_wAckRecvNum
  dt, cont,              \* m_bDTEnable, m_bContinueSend
  timer,                 \* the timers 1, 2, 3 that run
  buf, retx,             \* the frame left in m_SendBuf, m_retxdflag
  made, freed, held,     \* events written, freed (read pointer), wSendDSOENum
  open, status,          \* the socket; EV_COMM_STATUS is pending
  down, up,              \* frames to and from the controlling station,
                         \*   buffers of the socket included
  mvr, macked, msn,      \* controlling station: V(R), acknowledged, V(S)
  ready,                 \* it has had STARTDT_CON
  conns, effort,         \* connections, and with what else MaxEffort bounds
  got, last,             \* history: events received; the last one received
                         \*   on this connection
  skewed,                \* history: why the numbers on this connection may
                         \*   be wrong
  begun, unasked, lap    \* history, of this connection: STARTDT_ACT was
                         \*   handled, replies sent whatever the window
                         \*   allowed, sn has wrapped

numbers == <<sn, rn, ack, ackrn>>
enable  == <<dt, cont>>
output  == <<buf, retx, down, effort, skewed>>
events  == <<made, freed, held>>
master  == <<mvr, macked, msn, ready, got, last>>
socket  == <<open, status, up, conns>>
history == <<begun, unasked, lap>>
vars == <<numbers, enable, timer, output, events, master, socket, history>>

Spare == effort < MaxEffort

\* The places of the I frames, the ones that carry an event, their events.
Numbered(s) == {i \in DOMAIN s : s[i].type = "I"}
Carriers(s) == {i \in Numbered(s) : s[i].ev > 0}
Events(s)   == {s[i].ev : i \in Carriers(s)}

Init ==
  /\ sn = 0 /\ rn = 0 /\ ack = 0 /\ ackrn = 0
  /\ dt = FALSE /\ cont = TRUE /\ timer = {}
  /\ buf = << >> /\ retx = FALSE
  /\ made = 0 /\ freed = 0 /\ held = 0
  /\ open = FALSE /\ status = FALSE /\ down = << >> /\ up = << >>
  /\ mvr = 0 /\ macked = 0 /\ msn = 0 /\ ready = FALSE
  /\ conns = 0 /\ effort = 0
  /\ got = {} /\ last = 0 /\ skewed = {}
  /\ begun = FALSE /\ unasked = 0 /\ lap = FALSE

------------------------------------------------------------------------------
(* Sending.                                                                *)

\* Mutant of Succ: it wraps one number too late.
SuccLate(n) == (n + 1) % (M + 1)

Succ(n) == (n + 1) % M

\* The frames on their way that wRet counts, the one with number n included.
\* It adds MAX_FRAME_COUNTER after the wrap-around, one too few.
InFlight(n, a) == IF n + 1 > a THEN n + 1 - a ELSE n + 1 + (M - 1) - a

\* Mutant of CanSendIFrame: the window is not asked.
CanSendAlways == dt

CanSendIFrame == dt /\ cont

\* SendFrameHead empties the buffer; SendFrameTail writes to the socket.  A
\* frame that finds no room, or no socket, stays in the buffer for a second
\* try; the frames before it, or what was left there, are gone.
PutFor(cost, frames) ==
  \E n \in 0 .. Len(frames) :
    LET dropped == IF frames = << >> THEN buf
                   ELSE buf \o SubSeq(frames, n + 1, Len(frames) - 1) IN
    /\ ~open => n = 0
    /\ open /\ n < Len(frames) => effort + cost < MaxEffort
    /\ effort' = effort + cost + IF open /\ n < Len(frames) THEN 1 ELSE 0
    /\ down' = down \o SubSeq(frames, 1, n)
    /\ buf' = IF n < Len(frames) THEN <<frames[Len(frames)]>> ELSE << >>
    /\ retx' = (retx \/ n < Len(frames))
    /\ skewed' = IF Numbered(dropped) = {} THEN skewed
                 ELSE skewed \cup {"dropped"}

Put(frames) == PutFor(0, frames)

\* SendDSoe: the first event that is not on its way, one to a frame.
SendDSoe ==
  LET unread == made - freed
      before == IF held > unread THEN 0 ELSE held IN
  /\ CanSendIFrame /\ unread > before
  /\ held' = before + 1
  /\ cont' = (InFlight(sn, ack) < K)
  /\ sn' = Succ(sn) /\ rn' = rn % M /\ ackrn' = rn % M
  /\ timer' = (timer \cup {1}) \ {2}
  /\ lap' = (lap \/ sn' = 0)
  /\ Put(<<I(sn, freed + before + 1)>>)
  /\ UNCHANGED <<ack, dt, made, freed, master, socket, begun, unasked>>

\* DoCommSendIdle: the second try.  The flag is cleared whatever comes of it.
Idle ==
  /\ retx /\ retx' = FALSE
  /\ \/ open /\ down' = down \o buf /\ buf' = << >> /\ UNCHANGED effort
     \/ open /\ buf # << >> /\ Spare /\ effort' = effort + 1
        /\ UNCHANGED <<down, buf>>
     \/ ~open /\ UNCHANGED <<down, buf, effort>>
  /\ UNCHANGED <<numbers, enable, timer, skewed, events, master, socket,
                 history>>

------------------------------------------------------------------------------
(* Receiving: DoReceive.                                                   *)

\* Mutant of FreeEvents: the read pointer stays.
FreeNothing == held' = 0 /\ UNCHANGED <<made, freed>>

\* Any frame frees the events that were sent.  (The count is never above 16,
\* which would only forget it: ReadDSOE returns no more.)
FreeEvents == freed' = freed + held /\ held' = 0 /\ UNCHANGED made

\* Mutant of Heard: timer 3 does not start again.
HeardStopped == timer \ {1}

\* Timer 1 stops, timer 3 starts again, whatever the frame is.
Heard == (timer \ {1}) \cup {3}

\* DoIFrame.  The number of the frame is not checked.
DoIFrame(f) ==
  LET r      == f.ns + 1
      sframe == r - ackrn >= W
      reply  == f.op = "bad" \/ (f.op = "ask" /\ CanSendIFrame)
      sent   == sframe \/ reply
      frames == (IF sframe THEN <<S>> ELSE << >>)
                \o (IF reply THEN <<I(sn, 0)>> ELSE << >>) IN
  /\ ack' = f.nr
  /\ rn' = IF sent THEN r % M ELSE r
  /\ ackrn' = IF sent THEN r % M ELSE ackrn
  /\ sn' = IF reply THEN Succ(sn) ELSE sn
  /\ timer' = (IF sent THEN Heard \ {2} ELSE Heard \cup {2})
              \cup (IF reply THEN {1} ELSE {})
  /\ lap' = (lap \/ (reply /\ sn' = 0))
  /\ unasked' = IF f.op = "bad" THEN unasked + 1 ELSE unasked
  /\ Put(frames)
  /\ UNCHANGED <<dt, begun>>

DoSFrame(f) ==
  /\ ack' = f.nr /\ timer' = Heard
  /\ Put(<< >>)
  /\ UNCHANGED <<sn, rn, ackrn, dt, history>>

\* STARTDT_ACT: SendInitFinish follows the confirmation, whatever the window.
StartDt ==
  /\ dt' = TRUE
  /\ sn' = 1 /\ rn' = 0 /\ ack' = 0 /\ ackrn' = 0
  /\ timer' = (Heard \cup {1}) \ {2}
  /\ begun' = TRUE /\ lap' = FALSE /\ unasked' = 0
  /\ Put(<<U("startdt con"), I(0, 0)>>)

StopDt ==
  /\ dt' = FALSE /\ timer' = {}
  /\ Put(<<U("stopdt con")>>)
  /\ UNCHANGED <<numbers, history>>

\* TESTFR_ACT is not answered while the window is closed.
TestFr(f) ==
  /\ timer' = Heard
  /\ Put(IF f.fn = "testfr act" /\ CanSendIFrame THEN <<U("testfr con")>>
         ELSE << >>)
  /\ UNCHANGED <<numbers, dt, history>>

\* Mutant of DoReceive: the window is not reckoned anew.
DoReceiveClosed ==
  /\ up # << >>
  /\ LET f == Head(up) IN
     \/ f.type = "I" /\ DoIFrame(f)
     \/ f.type = "S" /\ DoSFrame(f)
     \/ f.type = "U" /\ f.fn = "startdt act" /\ StartDt
     \/ f.type = "U" /\ f.fn = "stopdt act" /\ StopDt
     \/ f.type = "U" /\ f.fn \in {"testfr act", "testfr con"} /\ TestFr(f)
  /\ FreeEvents
  /\ UNCHANGED cont
  /\ up' = Tail(up)
  /\ UNCHANGED <<master, open, status, conns>>

\* When the frame is handled, the window is reckoned anew, more strictly than
\* before a frame is sent.
DoReceive ==
  /\ up # << >>
  /\ LET f == Head(up) IN
     \/ f.type = "I" /\ DoIFrame(f)
     \/ f.type = "S" /\ DoSFrame(f)
     \/ f.type = "U" /\ f.fn = "startdt act" /\ StartDt
     \/ f.type = "U" /\ f.fn = "stopdt act" /\ StopDt
     \/ f.type = "U" /\ f.fn \in {"testfr act", "testfr con"} /\ TestFr(f)
  /\ FreeEvents
  /\ cont' = (InFlight(sn', ack') < K)
  /\ up' = Tail(up)
  /\ UNCHANGED <<master, open, status, conns>>

------------------------------------------------------------------------------
(* Connections and timers.                                                 *)

\* DelConnect: frames in the network are lost, at least the first ones; those
\* still in the buffers of the socket stay there.
Break(first) ==
  /\ \E i \in first .. Len(down), j \in 0 .. Len(up) :
       /\ Len(down) - i =< MaxLeft
       /\ down' = SubSeq(down, i + 1, Len(down)) /\ up' = SubSeq(up, 1, j)
  /\ open' = FALSE /\ status' = TRUE

\* Timer 1: CloseTcp.
T1Out ==
  /\ 1 \in timer /\ timer' = {}
  /\ dt' = FALSE
  /\ sn' = 0 /\ rn' = 0 /\ ack' = 0 /\ ackrn' = 0
  /\ IF open THEN Break(0)
     ELSE UNCHANGED <<open, status, down, up>>
  /\ UNCHANGED <<cont, buf, retx, effort, skewed, events, master, conns,
                 history>>

\* Mutant of T2Out: nothing is sent, the timer stops.
T2OutSilent ==
  /\ 2 \in timer /\ timer' = timer \ {2}
  /\ Put(<< >>)
  /\ UNCHANGED <<numbers, enable, events, master, socket, history>>

\* Timer 2: SendSFrame.
T2Out ==
  /\ 2 \in timer /\ timer' = timer \ {2}
  /\ rn' = rn % M /\ ackrn' = rn % M
  /\ Put(<<S>>)
  /\ UNCHANGED <<sn, ack, enable, events, master, socket, history>>

\* Timer 3: no test while the window is closed.
T3Out ==
  /\ 3 \in timer /\ CanSendIFrame /\ Spare
  /\ timer' = (timer \ {3}) \cup {1}
  /\ PutFor(1, <<U("testfr act")>>)
  /\ UNCHANGED <<numbers, enable, events, master, socket, history>>

\* Mutant of DoCommState: the number of events sent is kept.
DoCommStateHolding ==
  /\ status /\ status' = FALSE
  /\ timer' = {}
  /\ IF open
     THEN /\ sn' = 0 /\ rn' = 0 /\ ack' = 0 /\ ackrn' = 0
          /\ skewed' = IF begun THEN skewed \cup {"late"} ELSE skewed
          /\ UNCHANGED dt
     ELSE dt' = FALSE /\ UNCHANGED <<numbers, skewed>>
  /\ UNCHANGED <<cont, buf, retx, down, effort, events, master,
                 open, up, conns, history>>

\* DoCommState reads the state of the socket now: if the connection broke and
\* was made again since, it does not see the break.
DoCommState ==
  /\ status /\ status' = FALSE
  /\ timer' = {} /\ held' = 0
  /\ IF open
     THEN /\ sn' = 0 /\ rn' = 0 /\ ack' = 0 /\ ackrn' = 0
          /\ skewed' = IF begun THEN skewed \cup {"late"} ELSE skewed
          /\ UNCHANGED dt
     ELSE dt' = FALSE /\ UNCHANGED <<numbers, skewed>>
  /\ UNCHANGED <<cont, buf, retx, down, effort, made, freed, master,
                 open, up, conns, history>>

------------------------------------------------------------------------------
(* The environment: events, the network, the controlling station.          *)

WriteEvent ==
  /\ made < MaxEvent /\ made' = made + 1
  /\ UNCHANGED <<numbers, enable, timer, output, freed, held, master, socket,
                 history>>

\* AddConnect.  A new connection takes the place of one that is still open.
\* The buffers of the socket are not emptied.
Connect ==
  /\ conns < MaxConnect /\ conns' = conns + 1
  /\ Spare /\ effort' = effort + 1
  /\ open' = TRUE /\ status' = TRUE
  /\ \E i \in 0 .. Len(down), j \in 0 .. Len(up) :
       /\ ~open => i = 0 /\ j = Len(up)
       /\ Len(down) - i =< MaxLeft
       /\ down' = SubSeq(down, i + 1, Len(down))
       /\ up' = Append(SubSeq(up, 1, j), U("startdt act"))
       /\ skewed' = (IF dt THEN {"break not seen"} ELSE {})
                    \cup (IF j > 0 \/ i < Len(down) \/ buf # << >>
                          THEN {"left over"} ELSE {})
  /\ mvr' = 0 /\ macked' = 0 /\ msn' = 0 /\ ready' = FALSE /\ last' = 0
  /\ begun' = FALSE /\ unasked' = 0 /\ lap' = FALSE
  /\ UNCHANGED <<numbers, enable, timer, buf, retx, events, got>>

Disconnect ==
  /\ open
  /\ Break(0)
  /\ UNCHANGED <<numbers, enable, timer, buf, retx, effort, skewed, events,
                 master, conns, history>>

MasterSends(f) ==
  /\ open /\ Len(up) < MaxUp
  /\ up' = Append(up, f)
  /\ UNCHANGED <<numbers, enable, timer, buf, retx, down, skewed, events, open,
                 status, conns, history>>

MasterAcks ==
  /\ mvr # macked /\ macked' = mvr
  /\ MasterSends(Ack(mvr)) /\ UNCHANGED effort
  /\ UNCHANGED <<mvr, msn, ready, got, last>>

\* A command carries an acknowledgement too.
MasterCommands ==
  /\ ready /\ Spare /\ effort' = effort + 1
  /\ \/ \E op \in Orders \cap {"bad", "ask", "quiet"} :
          /\ MasterSends(Command(msn, mvr, op))
          /\ msn' = (msn + 1) % M /\ macked' = mvr
     \/ \E fn \in Orders \cap {"testfr act", "stopdt act"} :
          MasterSends(U(fn)) /\ UNCHANGED <<msn, macked>>
  /\ UNCHANGED <<mvr, ready, got, last>>

\* The next frame; one with a wrong number ends the connection.
MasterReceives ==
  /\ open /\ down # << >>
  /\ LET f == Head(down) IN
     IF f.type = "I" /\ f.ns # mvr
     THEN /\ Break(1)
          /\ UNCHANGED <<mvr, ready, got, last>>
     ELSE /\ down' = Tail(down)
          /\ IF f = U("testfr act")
             THEN Len(up) < MaxUp /\ up' = Append(up, U("testfr con"))
             ELSE UNCHANGED up
          /\ ready' = (ready \/ f = U("startdt con"))
          /\ IF f.type = "I" /\ f.ev > 0
             THEN got' = got \cup {f.ev} /\ last' = f.ev
             ELSE UNCHANGED <<got, last>>
          /\ mvr' = IF f.type = "I" THEN (mvr + 1) % M ELSE mvr
          /\ UNCHANGED <<open, status>>
  /\ UNCHANGED <<numbers, enable, timer, buf, retx, effort, skewed, events,
                 macked, msn, conns, history>>

Station == \/ SendDSoe \/ Idle \/ DoReceive
           \/ T1Out \/ T2Out \/ T3Out \/ DoCommState
Environment == \/ WriteEvent \/ Connect \/ Disconnect
               \/ MasterAcks \/ MasterCommands \/ MasterReceives

Next == Station \/ Environment

Spec == Init /\ [][Next]_vars

\* The task gets round to what is pending; the controlling station reads and
\* acknowledges; timer 1 runs off if nothing stops it.
FairSpec ==
  /\ Spec
  /\ WF_vars(SendDSoe) /\ WF_vars(DoReceive \/ DoCommState \/ T1Out)
  /\ WF_vars(MasterReceives \/ MasterAcks)

------------------------------------------------------------------------------
(* Properties.                                                             *)

\* Nothing has happened that may upset the numbers of this connection, and
\* the station knows of it.
Sound == open /\ ~status /\ skewed = {}

Frame == [type : {"I"}, ns : Num, ev : 0 .. MaxEvent] \cup [type : {"S"}]
         \cup [type : {"U"}, fn : {"startdt con", "stopdt con", "testfr act",
                                  "testfr con"}]

\* Counters stay below the modulus (V(R) reaches it until it is next sent),
\* no more is freed and held than was written.
TypeOK ==
  /\ {sn, ack, ackrn, mvr, macked, msn} \subseteq Num /\ rn \in 0 .. M
  /\ {dt, cont, retx, open, status, ready, begun, lap} \subseteq BOOLEAN
  /\ timer \subseteq {1, 2, 3}
  /\ made \in 0 .. MaxEvent /\ held \in Nat /\ freed \in 0 .. made
  /\ down \in Seq(Frame) /\ buf \in Seq(Frame) /\ Len(buf) =< 1
  /\ got \subseteq 1 .. made
  /\ conns \in 0 .. MaxConnect /\ effort \in 0 .. MaxEffort

\* The controlling station sees the numbers of I frames without a gap or a
\* repetition, and none before STARTDT, unless a break was not seen, frames of
\* an earlier connection were left in a buffer, COMM_STATUS was handled after
\* STARTDT, or a frame was dropped after a failed write.
InSequence ==
  LET line == down \o buf
      N    == Numbered(line) IN
  open /\ skewed = {} =>
    /\ \A i \in N : (\A j \in N : i =< j) => line[i].ns = mvr
    /\ \A i, j \in N : i < j /\ ~(\E k \in N : i < k /\ k < j) =>
         line[j].ns = (line[i].ns + 1) % M
    /\ N # {} => begun
    /\ \A i \in N : (\A j \in N : j =< i) => sn = (line[i].ns + 1) % M
    /\ begun /\ N = {} => sn = mvr

\* The controlling station never has more than K I frames to acknowledge, one
\* more once the counter has wrapped, and those sent without asking: the end
\* of initialisation is one of the K, errors are not.  (Until errors alone
\* have gone round the numbers: then a full window looks empty.)
WindowKept ==
  open /\ skewed = {} =>
    Cardinality(Numbered(down)) + ((mvr - macked) % M)
      =< K + unasked + (IF lap THEN 1 ELSE 0)

\* An event is freed only when the controlling station has received it or its
\* frame is on its way, unless a break has not been handled yet or a frame was
\* dropped after a failed write.  (Any frame frees it, even one that was sent
\* before the event arrived.)
FreedWhenSafe ==
  [][\A e \in freed + 1 .. freed' :
       \/ e \in got \cup Events(down \o buf)
       \/ status \/ "dropped" \in skewed]_vars

\* On a connection without such mishaps events arrive in order and none twice,
\* in whatever order frees, sends and window interleave.
OncePerConnection ==
  LET line == down \o buf IN
  open /\ skewed = {} =>
    \A i \in Carriers(line) :
      /\ line[i].ev > last
      /\ \A j \in Carriers(line) : i < j => line[i].ev < line[j].ev

\* Commands are acknowledged in time: timer 2 runs while an acknowledgement is
\* owed, and W of them are never owed, unless the counter has just wrapped.
AcksInTime ==
  dt =>
    /\ rn % M # ackrn => 2 \in timer
    /\ rn - ackrn < W

\* While the window is open a silent controlling station is noticed: timer 1
\* or timer 3 runs.  (When it is closed, timer 3 does nothing and timer 1 may
\* have been stopped by a frame that acknowledged too little.)
SilenceNoticed == Sound /\ CanSendIFrame => timer \cap {1, 3} # {}

\* If the connection lasts every event is sent and freed in the end: a closed
\* window opens again, and what was on its way when a connection broke is sent
\* again.
EventsArrive == <>[](open /\ dt /\ skewed = {} => freed = made)
==============================================================================
