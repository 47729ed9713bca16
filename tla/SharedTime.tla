----------------------------- MODULE SharedTime -----------------------------
(***************************************************************************)
(* The time of core 1 as Linux reads it (libbm plt_bm_time.c, ipacs5612    *)
(* app_bmrun.c).  The sampling interrupt of core 1 advances the clock and  *)
(* stores it twice, in fdt1 and fdt2; Linux reads both and takes a time    *)
(* only if they agree, up to three times.  A time is several words long:   *)
(* here hi (date and time of day) and lo (microseconds).  Every word is    *)
(* stored and loaded by a step of its own, in ascending order.             *)
(***************************************************************************)
EXTENDS Naturals

CONSTANTS
  Base,     \* the values of lo, 1000000 in the code
  Tries,    \* the times Linux tries, 3 in the code
  MaxTime   \* bound: the last time

ASSUME TimeAssumption ==
  /\ Base \in Nat /\ Base > 1 /\ Tries \in Nat /\ Tries > 0
  /\ MaxTime \in Nat /\ MaxTime >= Base

\* Time t has the words Hi(t) and Lo(t).  The clock starts at Base: a hi word
\* of 0 is no date, it is what the memory holds before the first store.
Hi(t) == t \div Base
Lo(t) == t % Base
Time(hi, lo) == hi * Base + lo

Words == <<"hi1", "lo1", "hi2", "lo2">>
Word  == {Words[i] : i \in 1 .. 4}
None   == 0    \* no result yet, and
Failed == 1    \* no time: times begin at Base

VARIABLES
  clock,    \* g_SystemTime.dt
  stored,   \* core 1: how many words of the clock it has stored, 4: all
  shared,   \* the words of fdt1 and fdt2
  read,     \* Linux: the words it has read in this try
  loaded,   \* Linux: how many words, 4: all
  try,      \* Linux: the number of the try, 0: no call
  result,   \* the result of the last call
  since,    \* history: the time stored completely when the call began
  crossed,  \* history: fdt1 was completed during this try
  disturbed \* history: the tries during which a word was stored

call == <<read, loaded, try, result, since>>
timeVars == <<clock, stored, shared, call, crossed, disturbed>>

TimeInit ==
  /\ clock = Base /\ stored = 4 /\ shared = [w \in Word |-> 0]
  /\ read = [w \in Word |-> 0] /\ loaded = 0 /\ try = 0 /\ result = None
  /\ since = 0 /\ crossed = FALSE /\ disturbed = {}

------------------------------------------------------------------------------
(* Core 1: ClockRun and SetBMSharedDateTime.                               *)

Advance ==
  /\ stored = 4 /\ clock < MaxTime
  /\ clock' = clock + 1 /\ stored' = 0
  /\ UNCHANGED <<shared, call, crossed, disturbed>>

Store ==
  /\ stored < 4
  /\ shared' = [shared EXCEPT ![Words[stored + 1]] =
                  IF stored % 2 = 0 THEN Hi(clock) ELSE Lo(clock)]
  /\ stored' = stored + 1
  /\ crossed' = (crossed \/ stored = 1)
  /\ disturbed' = disturbed \cup ({try} \ {0})
  /\ UNCHANGED <<clock, call>>

------------------------------------------------------------------------------
(* Linux: GetBMSharedDateTime.                                             *)

\* The newest time of which every word has been stored.
Complete == IF stored = 4 THEN Time(shared["hi2"], shared["lo2"])
            ELSE IF clock = Base + 1 THEN 0 ELSE clock - 1

BeginRead ==
  /\ try = 0
  /\ try' = 1 /\ loaded' = 0 /\ result' = None
  /\ since' = Complete
  /\ crossed' = FALSE /\ disturbed' = {}
  /\ UNCHANGED <<clock, stored, shared, read>>

Load ==
  /\ try > 0 /\ loaded < 4
  /\ LET w == Words[loaded + 1] IN read' = [read EXCEPT ![w] = shared[w]]
  /\ loaded' = loaded + 1
  /\ disturbed' = IF stored < 4 THEN disturbed \cup {try} ELSE disturbed
  /\ UNCHANGED <<clock, stored, shared, try, result, since, crossed>>

\* Mutant of Same: only the microseconds are compared.
SameLo == read["lo1"] = read["lo2"]

Same == read["hi1"] = read["hi2"] /\ read["lo1"] = read["lo2"]

\* CheckFullTime: the words are in range.
Valid == read["hi1"] > 0

Return(r) ==
  /\ result' = r /\ try' = 0
  /\ UNCHANGED <<clock, stored, shared, read, loaded, since, crossed, disturbed>>

Accept == try > 0 /\ loaded = 4 /\ Valid /\ Same
          /\ Return(Time(read["hi1"], read["lo1"]))

GiveUp == try > 0 /\ loaded = 4
          /\ (~Valid \/ (~Same /\ try = Tries)) /\ Return(Failed)

Retry ==
  /\ try > 0 /\ loaded = 4 /\ Valid /\ ~Same /\ try < Tries
  /\ try' = try + 1 /\ loaded' = 0 /\ crossed' = FALSE
  /\ UNCHANGED <<clock, stored, shared, read, result, since, disturbed>>

TimeNext == Advance \/ Store \/ BeginRead \/ Load \/ Accept \/ GiveUp \/ Retry

TimeSpec == TimeInit /\ [][TimeNext]_timeVars

------------------------------------------------------------------------------
(* Properties.                                                             *)

\* The words are numbers, the counters of words and tries within bounds.
TimeTypeOK ==
  /\ clock \in Base .. MaxTime /\ stored \in 0 .. 4
  /\ shared \in [Word -> Nat] /\ read \in [Word -> Nat]
  /\ loaded \in 0 .. 4 /\ try \in 0 .. Tries
  /\ result \in Nat
  /\ since \in 0 .. MaxTime /\ crossed \in BOOLEAN
  /\ disturbed \subseteq 1 .. Tries

Returned == try = 0 /\ result \notin {None, Failed}

\* A call returns a time the clock has shown between the call's begin and its
\* end: storing the time twice is meant to make reading it correct.
TimeRight == Returned => result \in since .. clock

\* A wrong time is returned only if core 1 completed fdt1 during the very try
\* that was accepted, so that both copies were torn at the same word.
TimeRightUnlessCrossed == crossed \/ TimeRight

\* A call fails only before the first time was stored, or if a store of the
\* time overlapped every one of its tries.
FailsOnlyIfDisturbed ==
  try = 0 /\ result = Failed => since = 0 \/ disturbed = 1 .. Tries
==============================================================================
