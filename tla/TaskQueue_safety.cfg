SPECIFICATION FairSpec
CONSTANTS
    t1 = t1
    t2 = t2
    t3 = t3
    Tasks = {t1, t2, t3}
    MaxConcurrent = 2
    MaxRetries = 2
    MaxCrashes = 1
INVARIANTS QueuedOnce NoTaskForgotten
PROPERTIES StartsUnlessThrown ImplementsRetryPool
CHECK_DEADLOCK FALSE
