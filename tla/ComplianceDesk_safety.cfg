SPECIFICATION DeskSpec
CONSTANTS
    c1 = c1
    c2 = c2
    u1 = u1
    terms = terms
    privacy = privacy
    Calls = {c1, c2}
    Users = {u1}
    Tiers = {2, 9}
    Types = {terms, privacy}
    Scopes = {"global", "FRA"}
    FirstDays = {0, 3, 5, 6}
    ResponseDays = 15
    Budgets <- SmallBudgets
    MaxFailures = 1
SYMMETRY Symmetry
INVARIANTS ScreenedAgainstAll ClearedMeansAccepted OneCurrentUnlessKeptOrRaced OverdueAfterResponseDays
CHECK_DEADLOCK FALSE
