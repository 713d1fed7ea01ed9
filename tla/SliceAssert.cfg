SPECIFICATION Spec
CONSTANTS
  Pages = {p1, p2}
  Size = 2
  threshold_freeitems = 1
  WordSize = 8
  MarkedBitmap = "item"
INVARIANT HeapFreeAssertion
CHECK_DEADLOCK FALSE
