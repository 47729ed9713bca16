\* Two channels with filters of one and two scans.
CONSTANT dtime <- Dtime12
SPECIFICATION FilterFairSpec
INVARIANTS
  DoubleRightUnlessOwed
PROPERTIES
  Debounced
  SettlesOnceSeen
