SPECIFICATION Spec
CONSTANTS
  ActionObservation = 2
  ActionError = 2
  Monologue = 2
  Alternating = 3
  Contents = {1, 2}
  Parallel = 1
  Confirms = TRUE
  MaxEvents = 8
INVARIANT StuckIsCurrent
CHECK_DEADLOCK FALSE
