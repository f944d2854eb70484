\* Two keys: the placement mode and one coordinate of the floating keyboard.
CONSTANTS
  Keys = {placement, position}
  MaxVersion = 2
  ReportSizes = {1, 2}
SPECIFICATION ProgramSpec
INVARIANTS
  TypeOK
  NothingLost
  ProgramTypeOK
  ReportIsWhole
PROPERTIES
  FileNeverGoesBack
  ImplementsCheckpoints
  ValuesReachFile
  ComesBack
