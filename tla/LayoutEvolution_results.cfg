\* Does a snapshot that stays compatible keep the results of methods?
SPECIFICATION Spec
CONSTANTS
  NoFile = NoFile
  Layouts <- SomeLayouts
  Width <- Widths
  MaxReleases = 3
INVARIANTS
  ResultsInterwork
CHECK_DEADLOCK FALSE
