SPECIFICATION Spec
CHECK_DEADLOCK FALSE
SYMMETRY SameRunners
CONSTANTS
  r1 = r1
  r2 = r2
  c1 = c1
  none = none
  Runners = {r1, r2}
  Rejecters = {}
  Condensers = {c1}
  NoThread = none
  MaxIteration = 2
  Batches <- ToolsAndFinish
  Replies = {"content"}
  ToolResults = {"ok"}
  Confirms = {TRUE, FALSE}
  ActionHooks = {"allow", "block"}
  PromptHooks = {"allow"}
  StopHooks = {"allow"}
  Stucks = {FALSE}
  MaxRuns = 2
  MaxMessages = 1
  MaxActions = 2
  MaxRequests = 1
  MaxCrashes = 0
INVARIANTS OneResult ExecutedOnce BlockedNeverExecuted FinishedIsClean
