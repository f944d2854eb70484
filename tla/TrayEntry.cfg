CONSTANTS
  Scales = {40, 50}
  MergePeriod = 2
  MaxKeyboards = 1
  MaxWaiting = 3
SPECIFICATION TraySpec
INVARIANTS
  TrayTypeOK
  IconSettles
  MenuSettles
PROPERTIES
  ScaleReaches
