\* A ring of three slots that its users may fill, and fill beyond the test.
CONSTANTS
  Num = 3
  MaxSend = 6
SPECIFICATION FairSpec
INVARIANTS
  SlotExclusive
  DeliveredIntact
  NothingLost
PROPERTIES
  EverySentIsTaken
  ImplementsQueue
\* The model stops when MaxSend packets were sent and read.
CHECK_DEADLOCK FALSE
