CONSTANTS
  Screens = {s1, s2}
  Geometries <- MCGeometries
  Significands = 16777216
  Powers <- MCPowers
  ViewShare <- MCShare
  DefaultMargin <- MCMargin
  Scales = {50, 40}
  Preload = FALSE
  Animated = TRUE
  Saved <- MCPlacesSaved
  Reach <- MCReach
  MaxEvents = 1
SPECIFICATION Spec
PROPERTIES
  ButtonKeepsPlace
