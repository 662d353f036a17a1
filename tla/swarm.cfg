SPECIFICATION SessionSpec
CONSTANTS
    t1 = t1
    t2 = t2
    t3 = t3
    c1 = c1
    c2 = c2
    Tasks = {t1, t2, t3}
    InitialTasks = {}
    Workers = {c1, c2}
    NoWorker = NoWorker
    Eligible <- AllEligible
    Deps <- Chain
    Costs = {0}
    Budgets = {}
    InitialBudget = NoBudget
    NoBudget = NoBudget
    Stages = {""}
    MaxVersion = 4
    MaxReview = 0
    NoTask = NoTask
    Hosts = {"h"}
    HostOf <- OneHost
    Revisions = 2
    RevisionOf <- TwoRevisions
    Attempts = 2
    MaxAttempts = 1
    MaxParallel = 1
INVARIANTS OneWorkerAgent AcceptedOnce
PROPERTIES DependenciesFirst
CONSTRAINTS FollowsFirst SecondLife
CHECK_DEADLOCK FALSE
