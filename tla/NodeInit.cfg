SPECIFICATION Spec
CONSTANTS
  F = 3
  Sizes = {4, 8, 64}
  Offsets = {0, 256, 512}
  FirstOffset = 256
  Space = 74
INVARIANTS
  TypeOK
  BlocksTile
  FreeItemsListed
  BlocksAligned
  AddressesLeadBack
CHECK_DEADLOCK FALSE
