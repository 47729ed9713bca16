\* A ring of three slots, lapped by five events; the image every other round.
CONSTANTS
  Num = 3
  Points = 2
  Every = 2
  MaxSoe = 5
SPECIFICATION FairSpec
INVARIANTS
  FiledInOrder
  InStepWhenDrained
PROPERTIES
  Converges
