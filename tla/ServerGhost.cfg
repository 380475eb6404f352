SPECIFICATION ServerSpec
CONSTANTS
  Ids = {c1, c2, c3}
  Titles = {"t1"}
  NoTitle = "untitled"
  Reuse = FALSE
  TornWrites = FALSE
  RemoveFails = FALSE
  LoadFails = FALSE
  MaxCrashes = 1
  main = main
  v1 = v1
  NoRef = NoRef
INVARIANT DeletedIsGone
CHECK_DEADLOCK FALSE
SYMMETRY Symmetry
