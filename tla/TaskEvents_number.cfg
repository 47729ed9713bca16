\* The numbers under which double points are written.
CONSTANTS
  Size = 3
  Unread = 2
  Limit = 2
  Double = {1}
  MaxReport = 3
  MaxRecord = 1
SPECIFICATION Spec
INVARIANTS
  DoubleNumbered
