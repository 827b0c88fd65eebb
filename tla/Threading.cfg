\* Three callers of a semaphore that saturates at 3, three threads at a barrier
\* for three, two users of a thread that is killed once it has started.
SPECIFICATION FairSpecAll
CONSTANTS
  Threads = {t1, t2, t3}
  MaxCount = 3
  InitCount = 1
  Increments = {0, 1}
  Parties = {t1, t2, t3}
  Count = 3
  Attempts = 2
  Users = {u1, u2}
  StepResults = {"again", "finished", "thrown"}
  StartedFirst = TRUE
  MaxCalls = 2
INVARIANTS WakeupsCoverUnits OpensAfterCountThreads NoMissedWakeup FreedAfterRun
PROPERTIES UnitsReachSleepers ImplementsCountingSemaphore EverybodyReturns ImplementsRendezvous KillReturns
\* Every party has made its calls, or the thread's object is freed.
CHECK_DEADLOCK FALSE
