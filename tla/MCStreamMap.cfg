SPECIFICATION MCFairSpec
CONSTANTS
    InitialMaxStreams = 2
    UNLIMITED = 100
    MIN_CREDIT = 1
    Budgets = {1, 4, 100}
    Works = {0, 4}
    Conns = {1, 2}
    MaxStreams = 3
    MaxLosses = 1
    T = 1
    Interval = 2
    FLOOR = 2
    Cap = 4
    RELEASE = 4
    PENDING_MAX = 3
    MEASURED = 2
    REFUSE_AFTER = 2
    Delays = {0, 1, 2, 5}
    Dones = {0, 2}
    GovWorks = {0, 3, 8, 12}
    Actives = {0, 1, 3}
INVARIANTS StreamMapInv GovernorInv
PROPERTIES CreditReturns GovernorReleases
CHECK_DEADLOCK FALSE
