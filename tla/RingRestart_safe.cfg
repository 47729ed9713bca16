\* Three slots, two restarts of Linux.
CONSTANTS
  Num = 3
  MaxSend = 4
  MaxRestart = 2
SPECIFICATION RSpec
INVARIANTS
  HarmOnlyWhenCaught
\* The model stops when MaxSend packets were sent and read.
CHECK_DEADLOCK FALSE
