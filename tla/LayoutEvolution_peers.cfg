\* One vtable and one other type, two contract versions, three releases.
SPECIFICATION Spec
CONSTANTS
  NoFile = NoFile
  Layouts <- SomeLayouts
  Width <- Widths
  MaxReleases = 3
INVARIANTS
  IInv
  VTablesInterwork
  AcceptedValuesAreRead
  ReplacedTypesStayDescribed
CHECK_DEADLOCK FALSE
