SPECIFICATION Spec
CONSTANT Values = {{0, 4}}
INVARIANTS
  ItemFlagsInv
