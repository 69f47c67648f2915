SPECIFICATION RepairedSpec
CONSTANTS
    fact = fact  dim = dim  agg = agg
    m1 = m1  m2 = m2  k1 = k1  k2 = k2  r1 = r1  r2 = r2
    Null = Null
    Datasets = {fact, dim, agg}
    Fact = fact
    Dims <- MCDims
    Aggs <- MCAggs
    Months = {m1, m2}
    Keys = {k1, k2}
    MaxVersion = 1
    Builds <- MCBuilds
    GoldKeys <- MCGoldKeys
    CrossMonth = FALSE
    RunIds = {r1}
    Passes = {1, 2}
    MaxTasks = 26
    MaxFaults = 1
    RollbackMayFail = FALSE
    RunMonth <- MCRunMonth
    ZoneOf <- MCZoneOf
    TripCount <- MCTripCount
    DescribedBy <- MCDescribedBy
    MaxRepairs = 1
    LateRepair = FALSE
PROPERTY RepairedRunFinishes
CHECK_DEADLOCK FALSE
