SPECIFICATION Spec
CONSTANTS
  F = 4
  NodeId = 16
  Sizes <- SmallNode
  AtStart = 2
  Requests <- SmallCachedAndLarge
  Lvl = {2, 3}
  MigrationType = {0, 1, 3}
  NoFree = NoFree
INVARIANTS
  TypeOK
  BlocksDisjoint
  NothingLost
  CountsExact
  CachedAreSingle
  HeldIntact
  Coalesced
CHECK_DEADLOCK FALSE
