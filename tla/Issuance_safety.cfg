SPECIFICATION FairSpec
CONSTANTS
    h1 = h1
    h2 = h2
    u1 = u1
    Handlers = {h1, h2}
    Users = {u1}
    Limits <- SmallLimits
INVARIANTS CertificationBacked HoldingsQualified InvestorRowsBounded
PROPERTY CallsFinish
CHECK_DEADLOCK FALSE
