SPECIFICATION Spec
CONSTANTS
  Pages = {p1, p2}
  Size = 5
  threshold_freeitems = 1
  WordSize = 8
  MarkedBitmap = "item"
INVARIANTS
  TypeOK
  SlotsExclusive
  ListedByStat
CHECK_DEADLOCK FALSE
