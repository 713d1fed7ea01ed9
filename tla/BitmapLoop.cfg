SPECIFICATION Spec
CONSTANTS
  NWords = 2
  Used = {0, 32, 63, 64, 127}
  Sizes = {0, 1, 63, 65, 128}
  MaxSteps = 2
INVARIANTS
  TypeOK
  ScansAreExact
  WordScansAreExact
  LoopsAreMonotone
