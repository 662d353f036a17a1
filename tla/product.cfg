SPECIFICATION ProductSpec
CONSTANTS
    a = a
    b = b
    k1 = k1
    k2 = k2
    Product = Product
    Repos = {a, b}
    Deps <- Chain
    Rank <- Order
    Coordinators = {k1, k2}
    MaxRetries = 1
    MaxFaults = 1
    MaxBlocks = 3
INVARIANTS RecordConsistent EffectsOnce SuccessIsReal DependencyOrder RollbackIsReal ApprovedFirst
PROPERTIES RecordKept
SYMMETRY CoordinatorSymmetry
CHECK_DEADLOCK FALSE
