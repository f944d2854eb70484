CONSTANTS
  Configs = {c1}
  AnimationSettings = {TRUE}
  PreloadSettings = {FALSE}
  Adjuster = "none"
  Period = 1
  Threshold = 1
  Steps = {0, 1, 2}
SPECIFICATION EntrySpec
PROPERTY
  ClickShows
