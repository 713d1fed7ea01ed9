SPECIFICATION Spec
CONSTANTS
  F = 4
  NodeId = 16
  Sizes <- GrownNode
  AtStart = 4
  Requests <- MovableAndUnmovable
  Lvl = {2, 3}
  MigrationType = {0, 1}
  NoFree = NoFree
INVARIANT BlocksDisjoint
CHECK_DEADLOCK FALSE
