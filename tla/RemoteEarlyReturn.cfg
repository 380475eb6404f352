SPECIFICATION FairSpec
CONSTANTS FlushTimesOut = FALSE
          MaxRuns = 1
          MaxMessages = 1
          MaxDelayed = 0
          MaxExtras = 0
          PageSize = 4
INVARIANT ReturnsAfterRun
CHECK_DEADLOCK FALSE
