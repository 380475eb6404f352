SPECIFICATION FairSpec
CONSTANTS FlushTimesOut = FALSE
          MaxRuns = 1
          MaxMessages = 1
          MaxDelayed = 1
          MaxExtras = 1
          PageSize = 4
INVARIANTS CompleteAfterRun SnapshotAfterEvents
PROPERTIES RunReturns
CHECK_DEADLOCK FALSE
