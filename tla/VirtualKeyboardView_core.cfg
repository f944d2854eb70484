\* Everything may change at any moment: animations and preloading switched on and
\* off, screens rearranged.
CONSTANTS
  Configs = {c1, c2}
  AnimationSettings = {TRUE, FALSE}
  PreloadSettings = {TRUE, FALSE}
  Adjuster = "x11kf5"
SPECIFICATION Spec
INVARIANTS
  TypeOK
  InputAreaOnlyWhileDocked
  WindowShownUnlessInvisible
  VisibleIsOpaque
  ReservedAreaIsCurrent
  AnimationHasTarget
PROPERTIES
  TransientStatesEnd
  DockedGetsReserved
  ImplementsInputPanel
