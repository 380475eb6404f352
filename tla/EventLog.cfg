\* Three threads of two processes append the same two events; twice a process dies or a
\* write fails.  The file names have room for every index.
SPECIFICATION FairSpec
CONSTANTS Logs <- TwoLogs
          Threads <- ThreeThreads
          Home <- HomeOf
          Events = {e1, e2}
          IndexLimit = 9
          CacheLimit = 1
          None = None
          MaxFailures = 2
          ListFails = FALSE
          a = a
          b = b
          t1 = t1
          t2 = t2
          t3 = t3
INVARIANTS Contiguous AckedKept
PROPERTIES IsAppendOnly
