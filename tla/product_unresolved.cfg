SPECIFICATION ProductSpec
CONSTANTS
    a = a
    b = b
    k1 = k1
    k2 = k2
    Product = Product
    Repos = {a, b}
    Deps <- Chain
    Rank <- Order
    Coordinators = {k1}
    MaxRetries = 1
    MaxFaults = 1
    MaxBlocks = 0
INVARIANTS ObservedMergeUndone
CHECK_DEADLOCK FALSE
