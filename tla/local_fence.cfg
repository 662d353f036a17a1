SPECIFICATION FenceSpec
CONSTANTS
    t1 = t1
    t2 = t2
    w1 = w1
    w2 = w2
    Tasks = {t1}
    InitialTasks = {t1}
    Workers = {w1, w2}
    NoWorker = NoWorker
    Eligible <- AllEligible
    Deps <- NoDeps
    Costs = {0}
    Budgets = {NoBudget}
    InitialBudget = NoBudget
    NoBudget = NoBudget
    Stages = {""}
    MaxVersion = 3
    MaxReview = 0
    NoTask = NoTask
    ReviewTasks = {}
    StageOf <- AnyStage
    NextRepair <- NoRepair
    StableIds = FALSE
INVARIANTS FencedWrites OrphansOnlyByCrash
SYMMETRY WorkerSymmetry
