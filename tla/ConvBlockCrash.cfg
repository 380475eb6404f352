SPECIFICATION Spec
CHECK_DEADLOCK FALSE
CONSTANTS
  r1 = r1
  none = none
  Runners = {r1}
  Rejecters = {}
  Condensers = {}
  NoThread = none
  MaxIteration = 2
  Batches <- OneTool
  Replies = {"content"}
  ToolResults = {"ok"}
  Confirms = {FALSE}
  ActionHooks = {"block"}
  PromptHooks = {"allow"}
  StopHooks = {"allow"}
  Stucks = {FALSE}
  MaxRuns = 2
  MaxMessages = 1
  MaxActions = 1
  MaxRequests = 0
  MaxCrashes = 1
INVARIANTS BlockedNeverExecuted
