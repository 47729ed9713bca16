# Verification of the two-core DTU firmware

The repository holds the firmware of a distribution terminal on a Zynq with two
ARM cores. Core 0 runs Linux and the program `ipacs5612` (telecontrol protocols,
data base, configuration, maintenance). Core 1 runs the bare-metal program
`zynqBM` (sampling, protection, digital inputs, relays). They share no operating
system and no lock: everything between them goes through one area of memory.
Sources are below `src/Zynq/`; paths in this file leave that prefix out.

The modules here model the parts where two cores, several tasks or several
interrupt levels meet, because that is where the correctness of this firmware
is decided and where no test in the repository reaches. There are no automated
tests in the repository for any of it.

## 1. The system

### 1.1 Programs and levels

| where | what runs | how it is scheduled |
|---|---|---|
| core 0 | Linux program `ipacs5612`, about 20 tasks (`os_linux.c` maps them to threads) | preemptive, mutexes (`smMTake`) |
| core 1, idle loop | `tRun` (`os.c`): one function per task whose event bits are set; `scan_maint` every 10 ms | cooperative |
| core 1, `slowTsk` | protection (`protect`, `prDrv`), every 4 ms | interrupt, priority 8 |
| core 1, `ttcInt` | the tick, `evSend` of task timers | interrupt, priority 2 |
| core 1, `timerInt` | `scantime500us`: input filter, relay timer | interrupt, priority 1 |
| core 1, `fpgaInt` | sampling | interrupt, priority 1 |

The priorities are in `libdrv/src/c_drv/hd_isr.c` (`irq_config`); a level
preempts those with larger numbers and runs to its end before they resume.

### 1.2 Components

State, operations, and what is hard about each. "M" marks the modelled ones.

* **Inter-core packet ring** (M; `libbm/.../plt_mc_inner_comm.c`,
  `ipacs5612/.../bmlinux/mu_inner_comm.c`). One ring of 64 slots per direction in
  shared memory: `nBegin`, `nEnd`, and per slot `len` and `data`. Send, receive,
  full and empty tests, reset at start of Linux. Hard: two cores in parallel
  without a lock, wrap-around, reset of the indices under a running reader.
  Correct if no accepted packet is lost, mixed, repeated or reordered.
* **Remote calls** (M; the rest of `mu_inner_comm.c`, `zynqBM/.../pcol.c`,
  `maint.c`). State: one send buffer, one receive frame, one semaphore, the last
  answer's code. A call builds a frame, sends it, polls 100 times. Hard: all tasks
  share the buffers, answers carry no call number, late answers. Correct if core 1
  executes what was asked, once, and a caller gets its own answer.
* **Remote control of switches** (M; `zynqBM/.../yk/yk.c`, tables in `do.c`).
  Per relay: output, `dtime`; per start relay: `select`, `select_thid`. Select,
  operate, cancel, timer. Hard: three interrupt levels run the same code without
  masking each other. Correct if close and trip are never closed together, an
  output needs a selection by the same source, and every relay opens again.
* **Event ring and image of the inputs** (M; core 1 side `zynqBM/.../bm_linux.c`
  339-381, core 0 side `ipacs5612/.../yx.c`, `bmlinux/app_bmrun.c`). The ring of
  SOE and the value of every point. Write index moved by core 1, read index by
  core 0; the writer never looks at the read index. Hard: overrun, events read
  while they are written, the image copied while older events are unread. Correct
  if the data base ends up with what the inputs are, and files every event once.
* **Wave records** (M; `zynqBM/.../record.c`, `bm_linux.c` 383-415, core 0 side
  `app_bmrun.c` 583-616 and `ipacs5612/.../record.c`). Per line: segments with state,
  points counted and points needed, one buffer of points with a count of those in use; a
  ring of 8 slots to Linux. Start, lengthen, sample, copy, clear; take, file. Hard: three
  levels of core 1 share the segments without masking each other, and the slots are
  filled in place and given back before they are copied. Correct if every record is filed
  once, with its own points.
* **Event ring to Linux** (`bm_linux.c` 417-432, `sys.c` 4522-4585): the same shape,
  filled in place, from two levels of core 1.
* **Shared time** (M; `app_bmrun.c` 345-414, `libbm/.../plt_bm_time.c`): core 1
  writes the time twice (`fdt1`, `fdt2`), Linux reads both until they agree.
  Correct if what is returned is a time the clock has shown.
* **Boot handshake and shared-memory flags** (`libpub/.../plt_shared_memory.c`,
  `app_bmrun.c` 102-170): validity flags, reset and wait flags of core 1.
  Core 1 sets its reset flags at its start (`plt_init.c` 114-119) and nothing reads them:
  `WaitForLinux` is commented out and the functions that clear the flags have no caller
  (`ClrBaremetalResetFlag`, 237-251, would leave `reset_flag_1` set).
* **Command line mailbox** (`bmdo`, `mc_GetLinuxCommandLine`): one slot with a flag.
* **Settings and urgency flags** (`prsetflag`, `dwEmergencyflag`): words both cores
  change by read-modify-write.
* **SOE buffers of core 1** (`libbm/.../plt_soe_handle.c`, `plt_soe_send.c`): a ring
  with one write index and per-client send and confirm indices.
* **Task events of core 1** (M; `zynqBM/.../os.c`): per task a word of event bits,
  set by interrupts and taken by the task with a read-modify-write that can lose a
  bit. Correct if no work waits for ever because of a lost bit.
* **Digital inputs** (M; `zynqBM/.../yx.c`): per channel a filter, per pair of
  channels a double point, a buffer of reports from the interrupt to the task
  `dio`. Correct if only what stood still is reported, what changed for good is
  reported, and a double point is the combination of its halves. `di.c`, `extyx.c`
  (tables, inputs of extension boards) are not modelled.
* **Protection** (`PrLogic*.c`, `PrSet.c`, `PrLib.c`, `Prcal.c`, about 22000 lines):
  numeric, driven by settings tables; it reaches the relays through `prSKgDo` (M).
* **Measurement** (`yc.c`, `ai.c`, `ft.c`, `ad.c`): signal processing.
* **Station of the IEC 104 link** (M; `gb104s.cpp` on `tcp.c`). Sequence numbers, window,
  three timers, events sent and not yet freed, the frame in the send buffer; the socket's
  buffers, which outlive a connection. One handler per kind of frame, timer and notice
  of the socket. Hard: a connection may break anywhere, notices of it come late, writes
  fail. Correct if numbers stay in sequence, the window is kept, and every event arrives.
* **Other Linux protocols** (`gb101*.cpp`, `modbus`, `cdt`, `DLQ`, `ipacs103`
  and others, built on `pbase/pslave/pmaster.cpp`): windows, sequence numbers, timers.
* **Pools of changes in the data base** (M; `dbfun.c`, `dbapi.c`, `pslave.cpp`,
  `os_linux.c`). Per kind of change a ring with a semaphore, a bit in the flags of the
  equipment and of its group, the event word of the protocol's task. Write, announce, read,
  send, free, clear the bit, remind. Hard: the words of bits are shared by all kinds and
  changed without a lock, the indices are compared without one, and a frame is built and
  freed while the next change arrives. Correct if what is freed was sent, nothing is sent
  twice, and no change waits for ever.
* **Rest of the Linux data base** (`dbhis*.c`, `dbfrz.c`, `b2f.c`, the access functions of
  `dbapi.c`): files of history, configuration.
* **Linux base** (`os_linux.c`, `tcp.c`, `comm.c`, `file.c`, `clock.c`, `lib_lst.c`):
  tasks, timers, sockets, serial ports.
* **Parameters, maintenance, display** (`para.c`, `maint.cpp`, `extdisp.cpp`, `mmi`).
* **Drivers** (`libdrv`): FPGA, interrupts, serial ports.
* **Vendored and generated**: `*_bsp`, `fsbl*`, `sd_hw_platform*`, `16550_*`,
  `device_tree`, `webtalk`, `.metadata`, the `ecc` library. `111` is a copy of
  `zynqBM`.

### 1.3 How they interact

A command from a control centre arrives at a protocol task of core 0, which calls
`ykSelect`/`ykOperate` of `ipacs5612/.../yk.c`; that is a remote call (`yk_BM`) over
the packet ring; core 1 takes the packet in `scan_maint`, runs the relay code and
answers over the other ring. Protection runs the same relay code from its interrupt.
Events go the other way: core 1 writes SOE, records and events into the shared
rings, a task of core 0 polls them and files them in the data base, from where each
protocol task sends them.

Every path starts or ends at an interrupt or at a poll of the other core; there is
no interrupt from one core to the other in these parts.

## 2. Plan

Order: what the two cores rest on first (the ring), then what is built on it (calls,
commands), then what can hurt (relays), then the flow of events from the inputs to
Linux, then the rest of the shared memory, then the protocols.

| # | module | of what | composes / refines | state |
|---|---|---|---|---|
| 1 | `PacketQueue` | what a channel promises: a FIFO | abstract specification | done |
| 2 | `InnerRing` | the packet ring | implements `PacketQueue` | done, invariants proved |
| 3 | `RingRestart` | restart of Linux under a running core 1 | extends `InnerRing` | done |
| 4 | `InnerCall` | remote calls | uses two `PacketQueue`-like queues | done |
| 5 | `YkRelay` | select, operate, cancel, timer on one switch | | done |
| 6 | `YxFilter` | input filter and double points | | done, invariant proved |
| 7 | `TaskEvents` | interrupts, event bits, task `dio` | takes reports of 6 as input | done |
| 8 | `ShareSoe` | event ring and image to Linux | takes what 7 writes as input | done, invariants proved |
| 9 | `SharedTime` | the time words | | done, invariants proved |
| 10 | `WaveRecord` | segments, sampling, the record ring, its reader (rows `ShareRecord` and `WaveRecord` of the first plan) | | done, invariants proved |
| 11 | `DbPool` | pools of changes, their flags, the task that sends them | what 8 files is written into such pools | done, invariants proved |
| 12 | `Gb104Link` | window, numbers, timers, connections of the 104 station | sends what 11 hands out | done, invariants proved |
| 13 | `ShareEvent` | the event ring with its two writers, and the unknown flag that is never consumed | shape of 8 | next |
| 14 | `SharedFlags` | `prsetflag`. (`dwEmergencyflag` is set by Linux and never read: `DoBmUrgency` has no caller.) | | later |
| 15 | `Mailbox`, `SoeSend` | command line mailbox; SOE buffers with per-client indices | | later |

Abstract specifications worth stating: the FIFO of 1 (done); "the data base converges
to the image" as a specification of 8; a register that is read atomically, which 9
does not implement, with the run that shows it; at-most-once calls, which 4 only
implements outside the named mishaps.

Every safety property that a run checks is a theorem (section 5). Theorems worth proving next: those
of the modules that are still to be written, 13 first.

## 3. The modules and the code

One action is the code between two points where another core, task or interrupt
level can see or change what it uses. Where the two cores share memory, that is one
access; where a level cannot be preempted by another that matters, it is the whole
handler. Names of variables and operators are the code's where it has one.

**`PacketQueue`**: `Accept` is a send that returned `PLT_TRUE`, `Take` a receive,
with or without handing the packet on. `Overrun` is a send that was accepted although the
queue was full; nothing is promised afterwards.

**`InnerRing`**: one direction. `SendCheck` (load `nEnd`, full test), `SendData`,
`SendLen`, `SendPublish` (store `nEnd`) are `mc_inner_send_to_*`; `RcvCheck`, `RcvLen`
(a packet longer than the caller's room is skipped), `RcvData`, `RcvAdvance` (store
`nBegin`) are `mc_inner_rcv_from_*`. The code of both cores is the same but for the
names. A packet is the number of its send; `data` and `len` are separate so that a
mixture would show. `IsFull` is the code's test, which is not the right one (section 4).
The users send as fast as that test lets them. `wrapped` records a send that filled the last
slot while the first one was unread, which the test lets pass.

**`RingRestart`** adds `RestartEnd`, `RestartBegin` (`PowerOn_Init_McInnerComm` stores
0 into `nEnd`, then `nBegin`) and `BMReset` (`BMinit`): `main.c` 204-228 resets the
indices, starts the tasks and only then resets core 1. The initialisation of core 1
itself does not touch the indices. `caught` records that the reset fell into a receive
call; `floor` what was sent when the ring was last cleared. The reset clears `wrapped`: the
ring is empty then.

**`InnerCall`**: `Begin`, `PutArgs`, `SendFrameTail` build the frame in the buffer all
tasks share, without the semaphore; `TakeSem`, `Transmit`, `Poll` are `Linux_BM` under it;
`ReadAnswer` is what the caller does with the receive frame after it. `BMScan` is one round of
core 1: take a packet, execute it, answer. Four codes stand for the kinds of command:
answered by its own code (`yk`), acknowledged (`setclk`), sent without waiting (`yb`),
accepted by core 1 and never answered (`getio`, `maint.c` 947-952). The call numbers in a frame are
there for the properties; no guard looks at them. `mishap` names what happened:
`overlap` (two frames built at once), `late` (a caller gave up), `reread` (a poll
between an answer and its reading).

**`YkRelay`**: one switch with its three relays (`do.c` 305-360). `Begin` is a command
of a Linux protocol, `Trip` is `prSKgDo`; both run `ykSelect`, `ykOperate`, `ykCancel`
through the same steps on a frame of their level: `SelectCheck`, `Mark`, `Energise`,
`FeedbackOk`/`FeedbackFails`, `Hold`, `OperateCheck`, `CloseOut`, `TimeSelf`,
`TimeStart`, `CancelCheck`, `Off`, `Zero`. A step of the command level is enabled only
while protection is idle (protection preempts it), `Tick` (`ykScanOnTimer`) whenever. The retry
of protection (cancel, select again) is `NextStage`. Select and operate test the plate of
the switch (`yk.c` 494-504, 655-664) and answer 4 if it is out. Protection (`PRYK`) passes a
soft plate, which is a setting, but not a hard one, which is an input (`hard`, `Barred`). A plate
may be in or out at each test.

**`YxFilter`**: `Bounce` is the process, `Scan` the whole of `yxFilter` over the two
channels, in the order of the loop: what channel 1 sees of channel 2 is its state
before its visit, and the other way round after (`OtherCnt`, `OtherValue`). Its names, and those of
`SharedTime`, have a prefix where `TaskEvents` and `ShareSoe` have the same: each pair is extended by
one module of proofs.

**`TaskEvents`**: `Change` and `RecordDone` are the two top interrupts; `TickLoad`,
`TickStore` the tick's read and write of the word; `EvLoad`, `EvReload`, `EvStore` those of
`evReceive`; `CallYxWrite`, `Batch`, `WriteOne` are `yxWrite`, `WAVRecordScan` the
wave records, `DioReturn` the end of `dio`.

**`ShareSoe`**: `WriteImage`, `WriteNo`, `WriteValue`, `WriteAdvance` are `WriteSSOE`
of core 1; `Begin`, `CopyLoad`, `CopyStore` the copy of the image every `Every` rounds,
`ReadCheck`, `ReadNo`, `ReadValue` are `ReadBMSOE`, `File` what `yxWrite` of Linux does
with an event. An event is read in two parts, so a half-written one would show.

**`SharedTime`**: `Advance` and `Store` are `ClockRun` with `SetBMSharedDateTime`, a word
at a time; `BeginRead`, `Load`, `Accept`, `Retry`, `GiveUp` are `GetBMSharedDateTime`. A time
has two words, which is the least that can be torn.

**`WaveRecord`**: one line. `StartTest`, `StartLengthen` and `StartNew` are
`StartWavRecord`, in two parts where it lengthens (the test, and the addition to what the
test read). `Sample` is `WAV_Record_Interrupt`: a point, the counts, perhaps the end of
the record and its event bit (`EvSend`). `EvLoad`, `EvTake` and `EvSkip` are `evReceive`,
which may take the bit or lose it; `missed` holds the records whose bit was lost and that no
later one has brought to the scan. `Scan`, `CopyFirst`, `CopySecond`, `Announce`, `ClearBase`, `ClearCount`,
`Free` are the idle loop; `ClearCount` reads `wBufUsed` and `Free` stores it. `Take`,
`FileFirst`, `FileSecond` are Linux. A point is the record it belongs to, and a record is
copied in two halves, so a mixture would show. `odd` notes what can spoil a record: one
lengthened after it was finished or beyond the free points, points that were not counted, a
younger record copied before an older, and a start that found every segment in use.

**`DbPool`**: one equipment and two kinds of change, which differ in when their frame is
sent (`SendClassOneData` at once, `SendDCOS` when it returns). `WriteSlot`, `FlagTest`,
`FlagSet` (load and store of the word of flags), `EvSend` are a writer. The task goes
through `Receive`, `Clear` (`evReceive`), `TestGroup`, `TestEqp`, `TestAgain`, `ClearGroup`
(`DoUrgency`), `ReadNone`, `ReadSome`, `Advance`, `CheckEmpty`, `ClearEqp`, `Retest`, `Refused`
(read, free, `ClearFlag`, `ClearUFlag`), `TimeOut`. `Unwind` is the return from nested calls of
`SendDCOS`, which share one send buffer. `Open` is the acknowledgement that opens the window.

**`Gb104Link`**: one handler, one action: `DoReceive` with `DoIFrame`, `DoSFrame`, `StartDt`,
`StopDt`, `TestFr`; `SendDSoe`; `Idle` (the second try of a failed write); `T1Out`, `T2Out`,
`T3Out`; `DoCommState`. `PutFor` is the way out: frames go to the socket until it has no room,
the one that failed stays in the buffer, the others are gone. `Connect`, `Disconnect` are
`AddConnect` and `DelConnect`; frames in the socket's buffers survive them. The controlling
station (`Master...`) is external: it follows the protocol.

The modules named `MC...` only add the constants a run needs. An operator whose comment begins with
"Mutant of" is a plausible mistake in the code; no specification uses it, and each is
there to show that a property would notice it.

## 4. The runs

All runs are exhaustive over the instance named. Deadlock is checked except where the
model stops because a bound on sends, calls or operations was reached; those configurations
say so (`YkRelay`: all commands were given and all relays are open).

| run | instance | what it shows |
|---|---|---|
| `ring_full` | 3 slots, 6 sends as fast as the full test allows | Exclusive slots, intact and ordered delivery, nothing lost, everything sent is read, until a send fills the last slot while the first is unread; the ring implements `PacketQueue`, whose `Overrun` is that send. |
| `ring_restart` | 3 slots, 2 restarts, 4 sends | A restart harms the ring only if a receive call was in progress across it, and makes a ring whole in which a send had wrapped. |
| `call_two_tasks` | 2 tasks, 3 calls, 2 polls, rings of 2 | The semaphore works; what is executed and answered is right outside the three mishaps; every call returns even if core 1 has stopped. |
| `yk_three_levels` | 2 protocols, 3 commands, 1 trip | Relay safety outside the named coincidences; protection gets its way except against a hard plate; every closed relay opens again unless a command was preempted. |
| `yx_double_point` | filters of 1 and 2 scans | Debouncing, confirmation, double points. |
| `dio_events` | buffer of 3, 3 reports, 1 record | Lost event bits delay reports but lose none. |
| `dio_double_number` (violation) | the same | A double point is written under a number left over from a single point. |
| `soe_lapped` | ring of 3, 5 events, 2 points | FIFO and agreement with the image unless lapped; convergence even if lapped. |
| `time_read` | 3 tries, 9 times | A wrong time needs a store that completes `fdt1` inside the accepted try. |
| `wave_records` | 3 segments, 7 points, records of 2, ring of 3, 4 starts | Each record is filed once and whole outside the named oddities, and in the end filed unless its event bit was lost and no record followed it. |
| `db_pool` | pools of 3, one single and three double changes, the window fills once | Nothing is sent twice; what is freed was sent; unread changes are announced and in the end read. |
| `gb104_link` | 4 numbers, window 2, 3 events, 2 connections | Numbers in sequence, window kept, events freed only when safe, none twice, all in the end. |

**Exceptions named by ghosts.** Where the code is right except after one particular
coincidence, the property says "unless that coincidence happened" and a history variable
records it: `wrapped`, `caught`, `mishap`, `torn`, `preempted`, `owed`, `overrun`, `crossed`, `lost`, `odd`,
`missed`, `lapped`, `raced`, `skewed`. The exceptions are narrow on purpose, so that any other cause of
the same harm is found; each is real, since without its clause the run reports a
counterexample, and section 7 tells what they lead to.

**Bounds and why they are enough.** Three slots are the fewest with a wrap-around, a full
ring that is not also an empty or a one-packet ring, and a slot in the middle; five or six
packets go twice round. Two tasks suffice for every mix-up of calls, since the shared
buffers hold one frame; three calls let one be late for the next and a third be in
progress. Two polls let an answer come at the first, at the last, and too late. Two protocols and one operation of protection meet every pair of levels
at every step; a selection of 3 ticks outlives an operation of 2, as 5 s and more outlive
the pulse. Filters of 1 and 2 scans differ, so the two halves end in either order and
together. Two ticks between timer events and two unread reports of three let a bit be lost
and the buffer wrap. Nine times let all three tries of a call meet a store. Three segments let one be filled, one wait and one be cleared; seven points
are three records and a point, so every segment may be in use before the buffer is, a record
may be cut short and one laid over another; four
starts fill every segment and return to the first. Pools of three are lapped by the third
change that arrives unread; one change of the other kind is enough to race for the shared word.
Four sequence numbers wrap with a window of two still open on both sides; two connections are
one that breaks and the one that inherits its buffers. `Gb104Link` bounds frames left in a
buffer (1), frames of the controlling station on their way (1) and, together, connections,
commands, tests and failed writes (3): each mishap of `skewed` needs at most two of them. Of
the commands the run gives those that are answered always and if the window allows, and
STOPDT; "quiet" and TESTFR commands are in the module and not in the run, which they would
multiply without a new kind of step. Theorems (section 5) remove the bounds for the ring, the
calls, the relays, the filter, the task events, the event ring, the time, the wave records, the
pools and the 104 station.

**Fairness.** Only what the scheduling guarantees:

* `InnerRing`: weak fairness of the receiver. Core 1 polls its ring every 10 ms in
  `scan_maint`, whatever happens. Linux polls its ring every 5 ms, but only while a caller waits:
  for that direction the assumption says that calls keep coming, and without another call
  a late answer stays in the ring. None on the sender.
* `InnerCall`: the Linux scheduler runs each task (weak fairness of its steps), the mutex
  reaches a task that keeps asking for it (strong, because other tasks take it in
  between). None on core 1: it may have stopped.
* `YkRelay`: the timer interrupt keeps coming, a call that was begun is finished.
* `YxFilter`: the timer interrupt keeps coming. None on the inputs.
* `TaskEvents`: the tick keeps coming; the idle loop gets on although interrupts keep
  disabling it (strong; ticks are 10 ms apart and short). None on inputs and records.
* `ShareSoe`: core 1 finishes an event it has begun, the Linux task comes round. None
  on the begin of events.
* `SharedTime`: safety only.
* `WaveRecord`: sampling goes on, a handler that was begun ends, the idle loop and the Linux
  task come round. None on protection's starts.
* `DbPool`: a writer that has begun ends, the timer keeps coming, the task runs; the window,
  closed again and again, is opened again by acknowledgements (strong). None on changes.
* `Gb104Link`: the task handles what is pending and sends what it may; timer 1 runs off if
  nothing stops it; the controlling station reads and acknowledges. None on connections,
  breaks, commands, or timer 3.

## 5. Proofs

TLAPS checks these for every value of the constants under their `ASSUME`.

**`InnerRing_proofs`**: `TypeCorrect`, `LosesNothing`, `ExclusiveSlots`, `Delivery`, `RefinesQueue`,
`RestartHarmless`.
No pace of the sender is assumed. The properties (order and integrity of what was delivered)
are not inductive: they say nothing of what is in the slots. `IInv` is *Typed*, which holds
whatever was sent, and, unless a send has `wrapped`, *HistoryHolds* and `Sound`: *RingHolds* (slot
`i` after `nBegin` holds packet `taken + 1 + i`, `nEnd` is the slot after the last), *SenderHolds*
(what the sender has written so far, and that its test left two slots free or missed that only the
last one was) and *ReceiverHolds* (what the receiver has copied is the oldest packet). The step
that matters is the sender's publication. If the test saw two free slots, the next slot after
`nEnd` is not `nBegin`, however far the receiver has come since, so the index that is stored last
makes exactly one packet visible. If it missed the wrap, either the receiver has advanced meanwhile
and the same is true, or the step sets `wrapped` and the full ring reads as empty.
`TypeCorrect` holds after that too. `RefinesQueue` shows the same as a refinement: under the
mapping at the end of `InnerRing`, storing `nEnd` is `Accept`, storing `nBegin` is `Take`, a send
that wraps is `Overrun`, and every other step is invisible (`ImplementsSafeQueue`).
`RestartHarmless` is about `RingRestart`: *RingRests* is `Sound`, of which between the two stores of
a reset only *ReceiverHolds* is left, and either the receiver did not move meanwhile, so that
`Sound` holds again afterwards, or it is `caught`. *FloorHolds* says that a receive call in
progress began after the last reset. A reset makes `Sound` true of a ring that had wrapped.

**`Inputs_proofs`**, the filter: `FilterTypeCorrect`, `DoubleRight`, `NothingBounces`, for every pair of
filter times. `FilterInv` adds *FilterHolds*: a channel that is being filtered has a count of
at least one, whose difference to the length is the number of scans the input stood
still, and one that is not has none. From this, the end of a filter means the input
was the same for the whole time (`Debounced`), and the case analysis over which half is
visited first gives the double point.

The task `dio`: `TypeCorrect`, `WritesInOrder`, `RecordsAnnounced`, for any size of the
buffer and number of reports. `IInv` adds *BufferHolds* (slot by slot, what the interrupt
has put and the task has not taken), *BatchHolds* and *TodoHolds* (what the task
has copied, and how far it has written it), so that what is written, what is copied and what
is buffered are together the reports in order.

**`SharedMemory_proofs`**, the events and the image: `TypeCorrect`, `FilesInOrder`, `DrainedInStep`, for every ring size,
number of points and interval of copies. The invariant is `TypeOK` together with *either the
reader was overrun or* `Sound`: *RingHolds* as for the packet ring, *WriterHolds* and
*ReaderHolds* (what each core has written or read of its event), *FiledHolds*, and the two
that make the data base right although the image is copied out of step with the
events: *ImageHolds* (the last change of a point, counting the event being written, is
what the image shows) and *DbHolds* (a point with no change that is still to be filed is
right in the data base and in a copy that is under way). A copy may put a newer value
into the data base than the events filed so far, and the next event may take it back;
neither can last, because the point then has a change still to be filed.

The time: `TimeTypeCorrect`, `RightUnlessCrossed`, `FailureExcused`, for any number
of tries and times. `TimeInv` adds *SharedHolds* (what the two copies hold at each point of
a store), *SinceHolds* (what was stored since the try began), *ReadHolds* (the words
read so far are those of a time stored since, or the try was disturbed) and *DisturbedHolds*.
The argument is about the order: core 1 writes `fdt1` before `fdt2` and Linux reads them in
the same order, so two equal copies that are torn need a store to complete `fdt1` inside the try.

**`InnerCall_proofs`**: `TypeCorrect`, `RingsHaveOneUser`, `ExecutesAsAsked`, `AnswersBelong`, for any
set of tasks, number of calls and polls and size of the rings. `IInv` adds *BuildHolds* (a
task that builds a frame alone finds in it what it put there), *OnceHolds* (a call is in at
most one place: being sent, in the ring, executed), *AskedHolds* (core 1
has executed only calls that were begun) and *WaitHolds*: while no mishap has happened, at most one call is between
its transmission and its answer, and every answer in the ring is to it.

**`YkRelay_proofs`**: `TypeCorrect`, `PairNeverBoth`, `ClosedTimed`, `OnlyHardPlateRefuses`,
`ProtectionGetsThrough`, `OncePerSelect`, for any set of sources, durations and number of calls.
Neither property is inductive. `IInv` adds *Typed* (frames)
and *OrderHolds*: unless protection has preempted a command, at most one level is at work
(*Orderly*); what is closed has a time or the level at work is about to give it one
(`Closing`); that level, if it closes an output, has found both times 0; and if it is to
take a relay's time, that relay is open. The step that matters is `CloseOut`: both times
are 0 and nothing but an output at `timeself` is closed without a time, so both outputs are open.
`Sound` is what this asks of the one level at work; each action has a lemma that it keeps it.
What protection promises rests on a second invariant, *ProtHolds*, which says nothing of the
command below: *StageHolds* (the call `prSKgDo` makes at each stage, where it can be and what
it still has to release), *CancelHolds* (the two cancels leave neither output its time) and
*SelectHolds* (the selection protection makes stands when it operates, and the start relay is
closed). No other call runs while protection is at work, and the timer does not end its
selection before that is used: that is `SelectionOutlastsCall`. A hard plate is
the only thing that can refuse it. `OncePerSelect` rests on a third, *Granted*: unless
a tick fell inside an operate or protection preempted a command, *CallHolds* (what a call that
is making, using or releasing a selection relies on) and *SelectionHolds*: a selection that
stands is unused and of the source that is noted, or it was used and the operated output
keeps its time at least as long, so `ykOperate` answers busy to a second operate. Protection's own
selection outlives its operation only if a hard plate refused the operate.

**`DbPool_proofs`**: `ChangesAnnounced`, `SentOnce`, `SendsWhatItFrees`, for any size of the pools and
number of changes. For the first `IInv`
adds *SemHolds* (who has a pool's semaphore), *WriterHolds* (a bit its writer has set stays set
unless it is lost in a race), *BitHolds* (`Announced`, and the same for changes that are being
sent) and *LookHolds*: when the task is going to clear a bit, either nothing is unread
still, or a writer has been at work since it looked, and then the store records the race.
What is sent rests on a second invariant, `SendInv`, which says nothing of the bits: *PoolHolds* (the
slots behind the write index hold the newest changes, and the unread ones are the last of
them unless the pool was lapped), *FrameHolds* (only `SendDCOS` leaves a frame in the buffer),
*CopyHolds* (what was copied are changes in their order, and freeing them does not bring any
back, however often the writers come round meanwhile) and *SentHolds* (what is sent, or is in the
buffer, ascends and ends before the read index; it is all of the first changes unless the pool
was lapped or the frame lost).

**`WaveRecord_proofs`**: `TypeCorrect`, `FilesWhole`, `RecordsWhole`, for any number of segments, size
of the buffer, of a record and of the ring, and number of starts. `FilesWhole` rests on `RingInv`: as
long as core 1 did not come round, the unread slots, and the one Linux took, hold the last records
put. `RecordsWhole` needs where every point is. *StateHolds* and *IdHolds* say which segment is being
filled and copied, and that no two segments in use are of one record. A segment is `Live` until its
record is in the ring. *OrderInv*: without an oddity the live segments lie one behind the other in
the order of their records, the newest is the current one, and together they span no more points
than `Claimed`, which is `wBufUsed` less what is being cleared. The buffer goes round, so *PlaceHolds*
asks for places in an endless one of which the segments' starts are remainders. Each oddity is what
one step would break: `slipped` the count (`OrderSample`), `tight` the room and `late` that what is
finished is ready (`OrderLengthen`), `overtook` the span when a record leaves (`OrderAnnounce`),
`full` the neighbour from which the next one's start is taken (`OrderNew`). The fifth was missing until the proof asked
for it (section 7). *HalfInv* says that what has been copied is of the record being copied.

**`Gb104Link_proofs`**: `TypeCorrect`, `AcksPunctual`, `SilenceWatched`, `EventsSafe`,
`NumbersInSequence`, `EventsOnce`, `WindowHeld`, for any modulus above K + 1, any window, number of
events, of connections and of frames on their way, and whatever else happens; the bounds of the run play no part.
`TInv` types the state by what was written: a frame carries no event beyond `made`.
*AcksHold* (what is owed is below W and timer 2 runs for it), *WatchHolds* (while data transfer is on
and no mishap happened STARTDT was handled and timer 1 or 3 runs) and *HeldHolds* (what was sent
and not freed has arrived or is on its way) are each inductive beside `TInv`. The numbers need to know
what is on its way: *Session* is *Fresh* before STARTDT_ACT is handled (nothing but S frames can be
under way, the controlling station has sent nothing else) and *Running* afterwards, which is *Gapless*
(the numbers on the line, in the socket or in the buffer of the second try, join V(R) to V(S)) and
*Rising* (its events ascend from the last one received to the last one sent). `PutFacts` says what a
write can leave on the line; lemmas on `Alike` lines reduce each handler to no I frame or one at the
end, and `GapFirst`, `RiseFirst` treat the one that is received.
The window rests on *Window*: *Joined* puts five numbers in one order that survives the wrap-around,
as distances from V(S): what the controlling station has received, what it has acknowledged, the
acknowledgements on their way (*Falling*), what the station knows of; *Narrow* bounds the last
distance and *Free* says what an open window means. `ReckonedBefore` and `ReckonedAfter` show that
the two ways the code reckons it are right but for one frame after a wrap-around (`lap`). The
hypothesis of `WindowHeld`, `unasked + K + 1 < M`, is needed: replies to bad commands go out
whatever the window says, and when they have gone round the numbers the station takes a full
window for an empty one. (In the run that takes one event more than its three: with
`MaxEvent = 4` TLC finds K + 2 + 2 frames after two errors.) With 32768 numbers and K = 12 (`gb104s.cpp` 4916) that takes 32755 of
them. (`unasked` counts those of the whole connection; acknowledgements do not lower it.)

Only model-checked, because they are liveness, which needs `ENABLED`: `EverySentIsTaken`,
`CallsReturn`, `OpensAgain`, `SettlesOnceSeen`, `EveryReportWritten`, `Converges`, `EverythingRead`,
`EventsArrive`, `EveryRecordFiled`, and the fairness part of `ImplementsQueue`. The type
invariants of the modules with proofs are theorems; the runs leave them out.

## 6. Assumptions and what is left out

* **Shared memory is sequentially consistent.** Core 1 maps the area non-cacheable
  (`NORM_NONCACHE`, `plt_ram.c` 111) and Linux maps it through `/dev/mem` with
  `O_SYNC`. Neither core uses barriers; accesses are taken to happen in program order and one word is
  stored at once. Were they reordered, the ring would fail in more ways than shown here.
* **Product.** Tables and levels are those of the DTU build (`syscfg.h` 101): every switch
  has three relays of its own, no relay has an enable port, the start relay reports back.
* `YkRelay`, `SelectionOutlastsCall`: a selection of 5 s or more does not end
  within the one interrupt of protection that made it. Commands get no such promise.
* `InnerRing`: no pace of the users is assumed. `InnerCall` takes the two rings as queues that
  did not overrun: with one frame per call and 64 slots that takes some 63 calls that core 1
  leaves unread.
* `YkRelay`: which input a hard plate is, and the plates of single relays, do not appear.
* `SharedTime`: the clock is not set backwards while it is read.
* `WaveRecord`: one line; records that may outgrow a slot of the ring are left out (the last
  guard of `StartTest`), because what they overwrite (`record.c` 195: the test comes after the
  copy) depends on the layout; a file write that fails is not modelled.
* `DbPool`: one equipment, one protocol task, a reader that asks for the two kinds of change
  only. `evReceive` of Linux is taken in two steps. A frame holds a bounded number of changes in the
  code (`gb104s.cpp` 2900-3048) and all unread ones in `ReadSome`. So `SendDCOS` calls itself again
  only after a change that came meanwhile; in the code it also does so for what did not fit.
  The harm is the same, the frame of the outer call is overwritten (`FrameLost`).
* `Gb104Link`: the station's double events only; what STARTDT does to the pools of changes
  (1620-1644) and the configuration that makes `CanSendIFrame` look at `SWITCHALLCALL` (4607)
  are left out. The controlling station is external code.
* Not modelled, with the reason, are the components of `PROJECT.json` with the status
  `not_modelled`: numeric code (protection logic, measurement), file and device I/O,
  user interface, and what the plan still has.
* The map covers a small part of the lines of the repository. Most of these are not the program: the
  board support packages, first-stage boot loaders and platform files (`*_bsp`, `fsbl*`,
  `sd_hw_platform*`), the tree `111`, which is `zynqBM` once more, and generated tables. Of the rest
  the largest files are settings tables and numeric code (`PrSet.c`, `PrLogic*.c`), display
  (`extdisp.cpp`) and protocols that repeat the frame handling of their siblings. The
  behaviour that interleavings can break is in the files of section 3.

## 7. Observations while modelling

Disagreements between the code and what it says of itself are `findings` in
`PROJECT.json`, each with its run. Further remarks for a reader of the code:

* After a time-out the answers are one call behind until the next mismatch of codes: a
  late `yk` answer is taken by the next `yk` call (`mu_inner_comm.c` 573, mishap `late`).
* `GET_IO` and `GET_CLK` are accepted by core 1 and never answered (`maint.c` 947-952).
* `Linux_To_BM` (`mu_inner_comm.c` 532) leaves its loop on an error; it has no caller.
* `relayDisable` (`yk.c` 262) cuts the relay number to 5 bits before it indexes the table.
* `ykOperate` (`yk.c` 709) reads the start relay's entry before it tests that there is one.
* A failed feedback (`yk.c` 349) restores the word of outputs saved 15 ms earlier, and
  leaves `select` and `select_thid` set.
* `evReceive` and `evSend` (`os.c`) lose bits when they meet; `EV_UFLAG` is made good by the
  timer event, `EV_RCD` is not (`RecordAnnounced`): the record waits in its segment until a later
  one finishes (`missed` in `EveryRecordFiled`).
* Reading `fdt2` before `fdt1` in `GetBMSharedDateTime` would make `TimeRight` hold.
* `GetSystemFullTime` (`app_bmrun.c` 406-411) does not tell its caller that the time of
  core 1 was not to be had.
* `yxFilter` (`yx.c` 468): an input that is 1 when it is read at start and 0 at the first
  scan has not changed for the filter, whose last state starts as 0: its confirmed value
  stays 1 until it changes twice more. Hence "once seen" in `SettlesOnceSeen`.
* `yxFilter` (`yx.c` 522) takes a count of 0 of the other half for "has finished
  changing". If both halves end in the same scan the first one reports the double point with
  the other's old value, and the second reports it again, rightly. If one half leaves
  the report to the other's filter and that half bounces back, nobody reports (`owed`).
* A receive call of core 1 that straddles the reset of the indices at a restart of Linux
  (`mu_inner_comm.c` 49-59) stores its old index + 1 afterwards; packets sent before the
  reset are then delivered (`caught`; `ClearedNotDelivered` alone does not hold).
* A command preempted by protection in the middle of closing its relay can leave a relay
  closed with a time of 0, which no tick opens (`preempted` in `OpensAgain`).
* `yxWrite` (`yx.c` 615-627) computes the number of a double point into one variable and
  passes another (run `dio_double_number`).
* The full test of the packet ring (`plt_mc_inner_comm.c` 83) does not fire at `nBegin = 0`,
  `nEnd = Num - 1`: the send is accepted, the full ring reads as empty, and what was in it is
  lost (`wrapped`). At other places the test keeps one slot free.
* A hard plate whose input is 0 refuses protection as well (`yk.c` 500-503, 661-664), with 4;
  `prSKgDo` tries again only after a 2. If the plate is taken out between the select and the operate of
  protection, the selection stays, and since it has no owner, any source can operate it
  (`OncePerSelection`).
* Protection that preempts a command between its busy test and the closing of its relay closes
  the paired relay: close and trip are closed together (`preempted`).
* `GetBMSharedDateTime` can return two equal torn copies (`crossed`).
* `StartWavRecord` (`record.c` 308-317) lengthens a record that the sampling interrupt has just
  finished; it is then finished and too short, the scan passes over it, and its points are never
  given back. After enough of these no new record is started (299).
* If every segment waits to be copied, `StartWavRecord` begins no record but moves `rec_seg` on all
  the same (`record.c` 324). Once that segment is cleared, the next start takes its place from the
  segment before it, which may be a cleared one: it then begins at 0 and is laid over a record that
  waits. Found when the invariant of `RecordsWhole` was not inductive (`full` in `odd`).
* `wBufUsed` is lowered by the idle loop (`record.c` 133) and raised by the interrupt (439),
  neither with the other masked.
* `WriteBmEvent` of core 1 (`bm_linux.c` 417-432) is called from `slowTsk` and from the idle loop;
  its slot is filled in place and announced last.
* Linux takes at most one event of core 1 a second, and one with an unknown flag stays at the
  head of the ring (`sys.c` 4579), with all later ones behind it.
* `prWriteGzEvent` of Linux (`sys.c` 4500-4511) copies the slot onto itself, so the fault event it was
  given is lost.
* 104: COMM_STATUS handled after STARTDT sets the numbers to 0 again (`late` in `skewed`); after
  the counter wraps the window is one larger, because `MAX_FRAME_COUNTER` is added instead of the
  modulus (`lap`); with a closed window timer 3 does nothing and a frame that acknowledges too
  little has stopped timer 1, so nobody notices a silent controlling station.
* 104: error replies do not ask the window and take numbers all the same (`gb104s.cpp` 1451-1567); enough
  of them without an acknowledgement let `m_wSendNum` meet `m_wAckNum`, and the window opens again.
