SPECIFICATION Spec
CHECK_DEADLOCK FALSE
CONSTANTS
  r1 = r1
  none = none
  Runners = {r1}
  Rejecters = {}
  Condensers = {}
  NoThread = none
  MaxIteration = 2
  Batches <- EveryCall
  Replies = {"content", "reasoning", "malformed", "too_long", "condense", "raise"}
  ToolResults = {"ok", "value_error", "raise"}
  Confirms = {TRUE, FALSE}
  ActionHooks = {"allow", "block"}
  PromptHooks = {"allow", "block"}
  StopHooks = {"allow", "deny"}
  Stucks = {TRUE, FALSE}
  MaxRuns = 2
  MaxMessages = 2
  MaxActions = 2
  MaxRequests = 1
  MaxCrashes = 1
INVARIANTS PauseHolds
PROPERTIES ConfirmedOnly ResultIsFinal
