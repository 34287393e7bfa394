SPECIFICATION Spec
CONSTANTS
    NItems = 3
    ClusterOf <- Clusters2
    Arms = {"a", "b"}
    Bucket <- Buckets
    Den = 4
    Released <- Dates
    Jobs <- ForkedJobs
    Passes = 2
    ExpBudget = 1
    CfgBudgets <- Budget1
    Gate = 1
    MinConfirm = 1
    MaxLineage = 1
    MaxFresh = 1
    MaxJobs = 2
INVARIANTS
    ForkHeldOut
CHECK_DEADLOCK FALSE
