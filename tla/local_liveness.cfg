SPECIFICATION LocalSpec
CONSTANTS
    t1 = t1
    t2 = t2
    w1 = w1
    w2 = w2
    Tasks = {t1}
    InitialTasks = {t1}
    Workers = {w1}
    NoWorker = NoWorker
    Eligible <- AllEligible
    Deps <- NoDeps
    Costs = {0}
    Budgets = {}
    InitialBudget = NoBudget
    NoBudget = NoBudget
    Stages = {""}
    MaxVersion = 4
    MaxReview = 0
    NoTask = NoTask
    ReviewTasks = {}
    StageOf <- AnyStage
    NextRepair <- NoRepair
    StableIds = TRUE
PROPERTIES ClaimsRecovered ShutdownTerminates
