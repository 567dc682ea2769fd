\* Two modules whose values are passed on, and every shape of result.
SPECIFICATION Spec
CONSTANTS
  A = A
  B = B
  i1 = i1
  i2 = i2
  i3 = i3
  i4 = i4
  Modules = {A, B}
  Items = {i1, i2, i3, i4}
  Results = {"bytes", "object", "pair", "owned"}
SYMMETRY Alike
CONSTRAINT OwnedInOneModule
INVARIANTS
  IInv
  RetainedStayLoaded
  CountIsHolders
PROPERTIES
  SharesLibraries
CHECK_DEADLOCK FALSE
