SPECIFICATION TransportSpec
CONSTANTS
    t1 = t1
    t2 = t2
    r1 = r1
    w2 = w2
    Tasks = {t1, t2}
    InitialTasks = {t1}
    Workers = {r1, w2}
    RemoteWorkers = {r1}
    NoWorker = NoWorker
    Eligible <- OnlyFirst
    Deps <- NoDeps
    Costs = {0}
    Budgets = {}
    InitialBudget = NoBudget
    NoBudget = NoBudget
    Stages = {""}
    MaxVersion = 2
    MaxReview = 1
    NoTask = NoTask
    ReviewTasks = {t1}
    StageOf <- AnyStage
    NextRepair <- OneRepair
    Once = FALSE
    Rotates = TRUE
    Retries = 1
    MaxLate = 1
INVARIANTS RequestsFenced OrphansOnlyByLoss RemoteReviewedBeforeDone
PROPERTIES StopEndsUnlessRotating
