\* Three segments, a buffer of seven points, records of two, a ring of three
\* slots.
CONSTANTS
  Segs = 3
  Buf = 7
  Per = 2
  Fit = 4
  Num = 3
  MaxStart = 4
SPECIFICATION FairSpec
INVARIANTS
  
  FileIntact
PROPERTIES
  EveryRecordFiled
CHECK_DEADLOCK FALSE
