SPECIFICATION Spec
CONSTANTS
  Block = {b1, b2, b3, b4, b5, b6}
  Reserved = {b1, b2, b3}
  LRU_CACHE_MAX_ITEMS = 3
  Requests <- AllRequests
  NoBlock = NoBlock
  NoCall = NoCall
INVARIANTS
  TypeOK
  OnePlace
  OnlyTailsForgotten
  ChainIsRequest
  CacheBounded
  FreeItemsNotOverstated
PROPERTY RefinesPool
CHECK_DEADLOCK FALSE
