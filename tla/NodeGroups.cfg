SPECIFICATION SpecNode
CONSTANTS
  F = 4
  NodeId = 16
  Sizes <- GrowingNode
  AtStart = 2
  Requests <- NoRequests
  Lvl = {2, 3}
  MigrationType = {0, 1, 3}
  NoFree = NoFree
  Callers <- AllCallers
  KmallocSizes = {3, 5}
  FIXED_ITEM_SIZE = 4
  UNMOV_MAX_ITEMS = 16
  NoCall = NoCall
INVARIANTS
  TypeOKNode
  BlocksDisjoint
  RequestCovered
  WatermarkExact
PROPERTY RefinesPool
CHECK_DEADLOCK FALSE
