CONSTANTS
  Screens = {s1, s2}
  Geometries <- MCGeometries
  Significands = 16777216
  Powers <- MCPowers
  ViewShare <- MCShare
  DefaultMargin <- MCMargin
  Scales = {50, 40}
  Preload = FALSE
  Animated = TRUE
  Saved <- MCNothingSaved
  Reach <- MCReach
  MaxEvents = 3
SPECIFICATION Spec
INVARIANTS
  TypeOK
PROPERTIES
  DragSettles
  DropStays
  OtherFollows
  MarkedFollows
SYMMETRY Symm
