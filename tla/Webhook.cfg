\* Five events, batches of three, one retry, two failed requests: two posters, timers and
\* close() at once.  The model ends when everything is delivered or given up.
SPECIFICATION FairSpec
CONSTANTS MaxEvents = 5
          BufferSize = 3
          Retries = 1
          MaxFailures = 2
INVARIANTS Accounted TimerIsAlive
PROPERTIES SleepingTimerFlushes
CHECK_DEADLOCK FALSE
