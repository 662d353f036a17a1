SPECIFICATION RunSpec
CONSTANTS
    t1 = t1
    t2 = t2
    t3 = t3
    w1 = w1
    w2 = w2
    RowVersions = 3
    Tasks = {t1, t2, t3}
    InitialTasks = {t1, t2, t3}
    Workers = {w1, w2}
    NoWorker = NoWorker
    Eligible <- AllEligible
    Deps <- NoDeps
    Costs = {0, 2}
    Budgets = {}
    InitialBudget = 2
    NoBudget = NoBudget
    Stages = {""}
    MaxVersion = 4
    MaxReview = 1
INVARIANTS OwnedIffClaimed AuditTellsStatus BudgetOvershootBounded OneSentinel
SYMMETRY WorkerSymmetry
PROPERTIES ImplementsLifecycle
