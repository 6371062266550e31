SPECIFICATION FairSpec
CONSTANTS
    a = a
    b = b
    c = c
    n1 = n1
    n2 = n2
    n3 = n3
    h1 = h1
    h2 = h2
    Nodes = {n1, n2, n3}
    Assigned = {n1}
    Answers = {b}
    Handlers = {h1}
    Outputs <- MCOutputs
    Trimmed <- MCTrimmed
    Similar <- MCSimilar
    MaxRetries = 1
    MaxReports = 2
    MaxFailures = 1
    MaxCrashes = 1
INVARIANTS CompletedHasResult CreditBound DeterministicDecision SimilarityDecision
PROPERTIES VerifiedSettles
CHECK_DEADLOCK FALSE
