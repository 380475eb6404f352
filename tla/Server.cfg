SPECIFICATION ServerSpec
CONSTANTS
  Ids = {c1, c2, c3}
  Titles = {"t1"}
  NoTitle = "untitled"
  Reuse = FALSE
  TornWrites = FALSE
  RemoveFails = FALSE
  LoadFails = TRUE
  MaxCrashes = 1
  main = main
  v1 = v1
  NoRef = NoRef
INVARIANTS NoZombie PagesComplete Latest
PROPERTIES KeepsPromise
CHECK_DEADLOCK FALSE
SYMMETRY Symmetry
