SPECIFICATION SessionSpec
CONSTANTS
    t1 = t1
    t2 = t2
    t3 = t3
    c1 = c1
    c2 = c2
    Tasks = {t1}
    InitialTasks = {}
    Workers = {c1, c2}
    NoWorker = NoWorker
    Eligible <- AllEligible
    Deps <- NoDeps
    Costs = {0}
    Budgets = {}
    InitialBudget = NoBudget
    NoBudget = NoBudget
    Stages = {""}
    MaxVersion = 0
    MaxReview = 0
    NoTask = NoTask
    Hosts = {"h"}
    HostOf <- OneHost
    Revisions = 1
    RevisionOf <- TwoRevisions
    Attempts = 1
    MaxAttempts = 1
    MaxParallel = 1
INVARIANTS DoneHasEvidence
CHECK_DEADLOCK FALSE
