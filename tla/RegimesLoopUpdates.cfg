SPECIFICATION Spec
CONSTANTS
    NOptimize = 2
    NConfirm = 1
    Budget = 3
    Attempts <- MCAttempts
    Bundles <- MCBundles
    TopK = 2
    MaxMutations = 3
    MinDelta = 1
    MaxRegression = 0
INVARIANTS
    TypeOK
    StrongestRegimeActs
CHECK_DEADLOCK FALSE
