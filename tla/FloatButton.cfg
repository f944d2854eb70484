CONSTANTS
  Configs = {c1}
  AnimationSettings = {TRUE, FALSE}
  PreloadSettings = {FALSE}
  Adjuster = "wayland"
  Period = 2
  Threshold = 1
  Steps = {0, 1, 2}
SPECIFICATION EntrySpec
INVARIANTS
  LastRequestStands
  VisibleIsInPlace
  ButtonTypeOK
  ButtonStandsIn
  OverlapOnlyAfterEnabling
PROPERTIES
  RequestsHonoured
  NoFlicker
  DragIsNoClick
