\* Every request succeeds; no further event arrives.
SPECIFICATION FairSpec
CONSTANTS MaxEvents = 3
          BufferSize = 3
          Retries = 0
          MaxFailures = 0
PROPERTY BufferedIsFlushed
CHECK_DEADLOCK FALSE
