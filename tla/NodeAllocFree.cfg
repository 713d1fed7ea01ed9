SPECIFICATION Spec
CONSTANTS
  Block = {b1, b2, b3, b4}
  Reserved = {}
  LRU_CACHE_MAX_ITEMS = 2
  Requests <- Kmalloc
  NoBlock = NoBlock
  NoCall = NoCall
INVARIANT FreeWorks
CHECK_DEADLOCK FALSE
