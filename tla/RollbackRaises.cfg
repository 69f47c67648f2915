SPECIFICATION Spec
CONSTANTS
    fact = fact  dim = dim  agg = agg
    m1 = m1  m2 = m2  k1 = k1  k2 = k2
    Null = Null
    Datasets = {fact, dim, agg}
    Fact = fact
    Dims <- MCDims
    Aggs <- MCAggs
    Months = {m1, m2}
    Keys = {k1, k2}
    MaxVersion = 2
    Builds <- MCBuilds
    GoldKeys <- MCGoldKeys
    CrossMonth = TRUE
    RunIds = {run}
    Passes = {1}
    MaxTasks = 3
    MaxFaults = 2
    RollbackMayFail = TRUE
PROPERTY ReplacesSlices
CHECK_DEADLOCK FALSE
