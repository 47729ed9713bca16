\* A buffer that wraps, two ticks between the timer events, one record.
CONSTANTS
  Size = 3
  Unread = 2
  Limit = 2
  Double = {1}
  MaxReport = 3
  MaxRecord = 1
SPECIFICATION FairSpec
INVARIANTS
  WrittenOnceInOrder
  RecordAnnounced
PROPERTIES
  EveryReportWritten
