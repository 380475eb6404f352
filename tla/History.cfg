SPECIFICATION HistorySpec
CONSTANTS
  MaxSize = 6
  KeepFirst = 1
  MaxTokens = 8
  Sizes = {0, 3}
  Thinking = {FALSE, TRUE}
  MaxBatch = 2
  MaxLog = 8
INVARIANTS Matched CutsAreSafe Exact ReadsBack
PROPERTIES LoopsWhole
CHECK_DEADLOCK FALSE
