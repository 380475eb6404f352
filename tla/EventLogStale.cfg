\* A process opens the log while another is writing, and reads.
SPECIFICATION Spec
CONSTANTS Logs <- TwoLogs
          Threads <- TwoThreads
          Home <- HomeOf
          Events = {e1, e2}
          IndexLimit = 9
          CacheLimit = 1
          None = None
          MaxFailures = 0
          ListFails = FALSE
          a = a
          b = b
          t1 = t1
          t2 = t2
          t3 = t3
INVARIANT AckedReadable
