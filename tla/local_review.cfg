SPECIFICATION ReviewSpec
CONSTANTS
    t1 = t1
    t2 = t2
    w1 = w1
    w2 = w2
    Tasks = {t1, t2}
    InitialTasks = {t1}
    Workers = {w1}
    NoWorker = NoWorker
    Eligible <- OnlyFirst
    Deps <- NoDeps
    Costs = {0}
    Budgets = {}
    InitialBudget = NoBudget
    NoBudget = NoBudget
    Stages = {"", "qa"}
    MaxVersion = 3
    MaxReview = 3
    NoTask = NoTask
    ReviewTasks = {t1}
    StageOf <- QaStage
    NextRepair <- OneRepair
    StableIds = FALSE
INVARIANTS ReviewedBeforeDone HeldUntilApproved
