CONSTANTS
  Methods <- MCMethods
  Layouts <- MCLayouts
  Profiles <- MCProfiles
  Wlroots = TRUE
  BusLimit = 2
SPECIFICATION IMSpec
INVARIANTS
  IMTypeOK
  NameSettles
  ListSettles
  BackendSettles
PROPERTY
  PinyinGetsItsKeys
CHECK_DEADLOCK FALSE
