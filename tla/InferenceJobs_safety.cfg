SPECIFICATION FairSpec
CONSTANTS
    h1 = h1
    h2 = h2
    k1 = k1
    NoKey = NoKey
    Handlers = {h1, h2}
    MaxJobs = 3
    Keys = {k1}
    Limit = 1
    MaxFailures = 1
    MaxCrashes = 1
INVARIANTS OneJobPerKey QuotaOverrunBounded UsageAccounted
PROPERTIES StatusForward AcceptedFinishes
CHECK_DEADLOCK FALSE
