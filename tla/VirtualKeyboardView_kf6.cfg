\* A KF6 build on X11: the timer of its adjuster is connected to nothing.
CONSTANTS
  Configs = {c1}
  AnimationSettings = {TRUE}
  PreloadSettings = {FALSE}
  Adjuster = "x11kf6"
SPECIFICATION Spec
PROPERTY
  DockedGetsReserved
