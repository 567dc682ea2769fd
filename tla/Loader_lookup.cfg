\* Every manifest and every table of up to three exports.
SPECIFICATION Spec
CONSTANTS
  Descriptors <- Kinds
  MaxExports = 3
  Wanted = {"a"}
  Expected = 1
  Grown = FALSE
INVARIANTS
  IInv
  LoadsTheRightExports
  FailsForAReason
  NothingLeftBehind
  OnlyFittingExportsAreMade
CHECK_DEADLOCK FALSE
