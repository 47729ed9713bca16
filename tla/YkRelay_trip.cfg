\* Two protocols and protection: three levels on one switch.
CONSTANTS
  Source = {1, 2}
  Yz = 3
  Exec = 2
  MaxCall = 3
  MaxTrip = 1
SPECIFICATION FairSpec
INVARIANTS
  ExclusiveUnlessPreempted
  ClosedIsTimed
  OncePerSelection
  ProtectionDecides
  ProtectionOperates
PROPERTIES
  OpensAgain
\* The model stops when all commands were given and all relays are open.
CHECK_DEADLOCK FALSE
