\* Does the host read descriptors that have grown where they are?
SPECIFICATION Spec
CONSTANTS
  Descriptors <- PlainKinds
  MaxExports = 2
  Wanted = {"a"}
  Expected = 1
  Grown = TRUE
INVARIANTS
  ReadsTheTable
CHECK_DEADLOCK FALSE
