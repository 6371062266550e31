SPECIFICATION Spec
CONSTANTS
    c1 = c1
    c2 = c2
    u1 = u1
    Calls = {c1, c2}
    Users = {u1}
    Countries = {"FRA"}
    Tiers = {2, 3, 9}
    Amounts = {5000, 9500}
    Budgets <- SmallBudgets
    MaxFailures = 1
    RiskColumn = TRUE
    VelocityCount = 1
    StructuringCount = 2
    ReportingThreshold = 10000
    CtrThreshold = 9500
    TravelThreshold = 3000
    L1Threshold = 6000
SYMMETRY Symmetry
INVARIANTS PaidOnlyWhenCleared UnlimitedOnlyByRace SubmittedOnce StructuringNoticed
CHECK_DEADLOCK FALSE
