\* Every request succeeds; the buffer fills while the timer posts.
SPECIFICATION Spec
CONSTANTS MaxEvents = 4
          BufferSize = 2
          Retries = 0
          MaxFailures = 0
INVARIANT NothingLost
CHECK_DEADLOCK FALSE
