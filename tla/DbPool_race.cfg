\* Pools of three slots, one single and three double changes, the window fills once.
CONSTANTS
  Size = 3
  MaxWrite <- OneAndThree
  MaxClose = 1
SPECIFICATION FairSpec
INVARIANTS
  NeverTwice
  SentIsFreed
  Announced
PROPERTIES
  EverythingRead
