SPECIFICATION Spec
CONSTANTS
    c1 = c1
    c2 = c2
    u1 = u1
    k1 = k1
    k2 = k2
    NoCall = NoCall
    Calls = {c1, c2}
    Conns = {k1, k2}
    Users = {u1}
    Limit = 2
    Window = 2
    MaxTime = 4
    Deployments <- SomeDeployments
    Budgets <- SmallBudgets
    MaxFailures = 1
SYMMETRY Symmetry
INVARIANTS WindowBound WaitingHelps PoolCarriesNoTenant LateChangesBounded PartialOnlyByFailure
CHECK_DEADLOCK FALSE
