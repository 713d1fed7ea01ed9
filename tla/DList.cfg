SPECIFICATION SpecTraverse
CONSTANTS
  Heads = {h1, h2}
  Items = {i1, i2, i3}
  NULL = NULL
  HeadInit = "list_initialize"
INVARIANTS
  TypeOKTraverse
  DListInv
  ObserversAgree
  WalkIsRing
  NoNullDeref
  VisitsEachOnce
PROPERTIES
  RefinesListSeq
  LoopsEnd
