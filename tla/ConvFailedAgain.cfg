SPECIFICATION Spec
CHECK_DEADLOCK FALSE
CONSTANTS
  r1 = r1
  none = none
  Runners = {r1}
  Rejecters = {}
  Condensers = {}
  NoThread = none
  MaxIteration = 2
  Batches <- OneTool
  Replies = {"content"}
  ToolResults = {"ok", "value_error"}
  Confirms = {FALSE}
  ActionHooks = {"allow"}
  PromptHooks = {"allow"}
  StopHooks = {"allow"}
  Stucks = {FALSE}
  MaxRuns = 2
  MaxMessages = 1
  MaxActions = 1
  MaxRequests = 0
  MaxCrashes = 0
PROPERTIES ReportedIsOver
