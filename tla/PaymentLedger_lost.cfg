SPECIFICATION Spec
CONSTANTS
    h1 = h1
    h2 = h2
    Handlers = {h1, h2}
    Amounts = {1, 2}
    Daily = 5
    Single = 2
    MaxRequests = 4
SYMMETRY Symmetry
INVARIANTS LedgerBalances
CHECK_DEADLOCK FALSE
