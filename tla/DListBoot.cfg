SPECIFICATION Spec
CONSTANTS
  Heads = {h1, h2}
  Items = {i1, i2, i3}
  NULL = NULL
  HeadInit = "init_list_node"
INVARIANT NoNullDeref
