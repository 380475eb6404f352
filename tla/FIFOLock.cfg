\* Three threads, nesting of two, timed and untimed calls; one thread may be interrupted
\* while it waits.  An abandoned condition may stop everybody, so no deadlock check.
SPECIFICATION FairSpec
CONSTANTS Threads = {t1, t2, t3}
          Interruptible = {t1}
          NoThread = NoThread
          MaxDepth = 2
          MaxAbandoned = 2
CHECK_DEADLOCK FALSE
INVARIANT NoLostWakeup
PROPERTIES FIFOOrder NoStarvation
