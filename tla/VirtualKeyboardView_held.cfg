\* Wayland: the adjusters keep a plain pointer to the last window they raised.
CONSTANTS
  Configs = {c1}
  AnimationSettings = {TRUE}
  PreloadSettings = {FALSE}
  Adjuster = "wayland"
SPECIFICATION Spec
INVARIANT
  HeldWindowIsAlive
