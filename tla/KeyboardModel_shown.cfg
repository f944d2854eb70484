CONSTANTS
  Methods <- MCMethods
  Layouts <- MCLayouts
  Profiles <- MCProfiles
  Wlroots = TRUE
  BusLimit = 2
SPECIFICATION IMSpec
INVARIANT
  CurrentIMIsCurrent
CHECK_DEADLOCK FALSE
