------------------------------ MODULE YxFilter ------------------------------
(***************************************************************************)
(* The filter of the digital inputs on core 1 (yx.c, yxFilter), for the    *)
(* two channels of a double-point input.  The 500 us timer interrupt scans *)
(* all ports; no other level of core 1 preempts it, so one scan is one     *)
(* action.  A channel whose input has changed is filtered for dtime scans; *)
(* if its input then differs from the confirmed value, the new value is    *)
(* confirmed and reported as a single point.  A double point is reported,  *)
(* with the values of both channels, when a channel is confirmed and the   *)
(* other one is not being filtered.                                        *)
(*                                                                         *)
(* A scan visits channel 1 before channel 2: what it sees of the other     *)
(* channel is that channel's state before or after its own visit.          *)
(***************************************************************************)
EXTENDS Naturals

CONSTANT
  dtime    \* per channel: the scans its filter lasts

Chan == {1, 2}

ASSUME DtimeAssumption == dtime \in [Chan -> Nat]

VARIABLES
  input,     \* what the port reads, after masking and inversion
  cur,       \* pport->cur_state: what the last scan read
  flt,       \* pport->flt_flag: channels being filtered
  cnt,       \* scans a filter still lasts
  value,     \* confirmed value (pchn->value and the bit in g_DiValue)
  single,    \* the single points reported by the last scan, per channel
  double,    \* the double point last reported
  owed,      \* history: a report was left to the other channel's filter
  held,      \* history: scans since an input changed, up to its filter's end
  seen       \* history: the channels whose input a scan has found changed

filterVars == <<input, cur, flt, cnt, value, single, double, owed, held, seen>>

Bit  == {0, 1}
None == 2
Other(c) == 3 - c

\* yxChnInit: the inputs are read and taken for confirmed, while the state
\* of the ports is still 0.
FilterInit ==
  /\ input \in [Chan -> Bit]
  /\ cur = [c \in Chan |-> 0] /\ flt = {} /\ cnt = [c \in Chan |-> 0]
  /\ value = input
  /\ single = [c \in Chan |-> None] /\ double = input
  /\ owed = FALSE
  /\ held = [c \in Chan |-> 0] /\ seen = {}

Bounce(c) ==
  /\ input' = [input EXCEPT ![c] = 1 - @]
  /\ UNCHANGED <<cur, flt, cnt, value, single, double, owed, held, seen>>

------------------------------------------------------------------------------
(* One scan.                                                               *)

Changed(c) == input[c] # cur[c]

\* The channels this scan looks at.
Filtered(c) == c \in flt \/ Changed(c)

\* Mutant of Count: a channel that changes again goes on counting.
CountOnce(c) == IF Changed(c) /\ c \notin flt THEN dtime[c] + 1 ELSE cnt[c]

\* The count a channel is tested with: a change starts it anew.
Count(c) == IF Changed(c) THEN dtime[c] + 1 ELSE cnt[c]

\* Mutant of Counted: the count stands still.
CountedNot(c) == Count(c)

Counted(c) == IF Filtered(c) /\ Count(c) > 0 THEN Count(c) - 1 ELSE Count(c)

Confirmed(c) == Filtered(c) /\ Count(c) = 0 /\ input[c] # value[c]

Value(c) == IF Confirmed(c) THEN input[c] ELSE value[c]

\* What the visit of channel c sees of the other channel.
OtherCnt(c) == IF Other(c) < c THEN Counted(Other(c)) ELSE cnt[Other(c)]

\* Mutant of OtherValue: the other channel's value as the last scan left it.
OtherValueOld(c) == value[Other(c)]

OtherValue(c) == IF Other(c) < c THEN Value(Other(c)) ELSE value[Other(c)]

Reports(c) == Confirmed(c) /\ OtherCnt(c) = 0

\* The double point as the visit of channel c reports it.
PairReport(c) == [d \in Chan |-> IF d = c THEN input[c] ELSE OtherValue(c)]

Scan ==
  /\ cur' = input
  /\ flt' = {c \in Chan : Filtered(c) /\ Count(c) > 0}
  /\ cnt' = [c \in Chan |-> Counted(c)]
  /\ value' = [c \in Chan |-> Value(c)]
  /\ single' = [c \in Chan |-> IF Confirmed(c) THEN input[c] ELSE None]
  /\ double' = IF Reports(2) THEN PairReport(2)
               ELSE IF Reports(1) THEN PairReport(1) ELSE double
  /\ owed' = IF \E c \in Chan : Reports(c) THEN FALSE
             ELSE owed \/ \E c \in Chan : Confirmed(c)
  /\ held' = [c \in Chan |-> IF Changed(c) THEN 0
                             ELSE IF held[c] > dtime[c] THEN held[c]
                             ELSE held[c] + 1]
  /\ seen' = seen \cup {c \in Chan : Changed(c)}
  /\ UNCHANGED input

FilterNext == Scan \/ \E c \in Chan : Bounce(c)

FilterSpec == FilterInit /\ [][FilterNext]_filterVars

\* The timer interrupt keeps coming; the inputs do as they like.
FilterFairSpec == FilterSpec /\ WF_filterVars(Scan)

------------------------------------------------------------------------------
(* Properties.                                                             *)

FilterTypeOK ==
  /\ input \in [Chan -> Bit] /\ cur \in [Chan -> Bit] /\ flt \subseteq Chan
  /\ cnt \in [Chan -> Nat] /\ held \in [Chan -> Nat]
  /\ \A c \in Chan : cnt[c] =< dtime[c] /\ held[c] =< dtime[c] + 1
  /\ value \in [Chan -> Bit] /\ double \in [Chan -> Bit]
  /\ single \in [Chan -> Bit \cup {None}]
  /\ owed \in BOOLEAN /\ seen \subseteq Chan

\* A single point is reported only after its input was the same for the whole
\* time of the filter, as what the input has been, and as a change.
Debounced ==
  [][\A c \in Chan : single'[c] # None /\ Scan =>
       /\ held'[c] = dtime[c] + 1
       /\ single'[c] = input[c] /\ value[c] # input[c]]_filterVars

\* An input that keeps its value becomes the confirmed value, if a scan has
\* ever found that input changed.
SettlesOnceSeen ==
  \A c \in Chan, b \in Bit :
    <>[](input[c] = b) => <>[](value[c] = b) \/ [](c \notin seen)

\* After every scan the double point last reported is the confirmed values,
\* unless a report was left to the filter of the other channel: a report made
\* with an unfinished half is made good by the other half in the same scan.
DoubleRightUnlessOwed == owed \/ double = value
==============================================================================
