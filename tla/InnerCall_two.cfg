\* Two tasks, three calls in all, two polls per call, rings of two packets.
CONSTANTS
  t1 = t1
  t2 = t2
  Task = {t1, t2}
  MaxCall = 3
  Polls = 2
  Capacity = 2
SPECIFICATION FairSpec
INVARIANTS
  OneUser
  ExecutedAsAsked
  AnswerIsMine
PROPERTIES
  CallsReturn
\* The model stops when all calls have returned.
CHECK_DEADLOCK FALSE
