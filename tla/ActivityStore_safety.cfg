SPECIFICATION StoreSpec
CONSTANTS
    s1 = s1
    s2 = s2
    Servers = {s1, s2}
    e1 = e1
    j1 = j1
    j2 = j2
    EventIds = {e1}
    JobIds = {j1, j2}
    MaxActivity = 2
    MaxJobs = 1
    MaxRequests = 3
    MaxFaults = 2
SYMMETRY Symmetry
INVARIANTS AnsweredKept JobsAnnounced
PROPERTY PartsAreRecentLogs
CHECK_DEADLOCK FALSE
