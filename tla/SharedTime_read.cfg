\* Nine times, so that three tries of a call may each meet a store.
CONSTANTS
  Base = 2
  Tries = 3
  MaxTime = 10
SPECIFICATION TimeSpec
INVARIANTS
  TimeRightUnlessCrossed
