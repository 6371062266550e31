SPECIFICATION FairSpec
CONSTANTS
    n1 = n1
    n2 = n2
    t1 = t1
    h1 = h1
    h2 = h2
    Nodes = {n1, n2}
    Tasks = {t1}
    Handlers = {h1, h2}
    Capacity = 1
    Reputations = {31}
    MinReputation = 30
    MaxNodesPerTask = 2
    MaxFailures = 2
INVARIANTS TypeOK OverloadBound LoadCoversAssignments
PROPERTY RequestsFinish
CHECK_DEADLOCK FALSE
