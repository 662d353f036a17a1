SPECIFICATION FeatureSpec
CONSTANTS
    s1 = s1
    s2 = s2
    Servers = {s1, s2}
    NoServer = NoServer
    Budgets = {1, 2}
    FirstBudget = 1
    MaxRevision = 2
    MaxPlans = 2
INVARIANTS ApprovalCovers RunningHasRunner ReviewEarned
PROPERTIES DigestsFinal RunsEnd
CHECK_DEADLOCK FALSE
