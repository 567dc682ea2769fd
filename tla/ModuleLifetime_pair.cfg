\* Do owned bytes in a (value, object) result keep their module?
SPECIFICATION Spec
CONSTANTS
  A = A
  i1 = i1
  i2 = i2
  i3 = i3
  i4 = i4
  Modules = {A}
  Items = {i1, i2, i3, i4}
  Results = {"bytes", "object", "pair"}
SYMMETRY Alike
INVARIANTS
  DecodedStayLoaded
CHECK_DEADLOCK FALSE
