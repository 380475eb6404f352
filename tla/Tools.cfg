SPECIFICATION ToolsSpec
CONSTANTS
  Words = {1}
  MaxHistory = 2
  MaxFileSize = 20
  MaxLen = 2
  MaxEdits = 3
  Outsiders = 1
  WriteFails = TRUE
INVARIANTS UndoIsExact PatchIsApplied Honest Reassembled
CHECK_DEADLOCK FALSE
