SPECIFICATION FairSpec
CHECK_DEADLOCK FALSE
CONSTANTS
  r1 = r1
  r2 = r2
  j1 = j1
  none = none
  Runners = {r1, r2}
  Rejecters = {j1}
  Condensers = {}
  NoThread = none
  MaxIteration = 2
  Batches <- OneTool
  Replies = {"content", "raise"}
  ToolResults = {"ok", "value_error"}
  Confirms = {TRUE, FALSE}
  ActionHooks = {"allow"}
  PromptHooks = {"allow"}
  StopHooks = {"allow", "deny"}
  Stucks = {FALSE}
  MaxRuns = 2
  MaxMessages = 2
  MaxActions = 1
  MaxRequests = 0
  MaxCrashes = 0
INVARIANTS AskedAboutPending
PROPERTIES RunReturns MessageProcessed
