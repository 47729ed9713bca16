\* Four numbers, a window of two, two connections.
CONSTANTS
  M = 4
  K = 2
  W = 2
  MaxEvent = 3
  MaxConnect = 2
  MaxLeft = 1
  MaxEffort = 3
  Orders = {"bad", "ask", "stopdt act"}
  MaxUp = 1
SPECIFICATION FairSpec
INVARIANTS
  InSequence
  WindowKept
  OncePerConnection
  AcksInTime
  SilenceNoticed
PROPERTIES
  FreedWhenSafe
  EventsArrive
CHECK_DEADLOCK FALSE
