SPECIFICATION Spec
CONSTANTS
    h1 = h1
    h2 = h2
    h3 = h3
    Handlers = {h1, h2, h3}
    Amounts = {1, 2}
    Daily = 1
    Single = 1
    MaxRequests = 5
SYMMETRY Symmetry
INVARIANTS TypeOK DailyOverrunBounded
CHECK_DEADLOCK FALSE
