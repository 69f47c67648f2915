SPECIFICATION JobSpec
CONSTANTS
    fact = fact  dim = dim  agg = agg
    m1 = m1  m2 = m2  k1 = k1  k2 = k2  r1 = r1  r2 = r2
    Null = Null
    Datasets = {fact, dim, agg}
    Fact = fact
    Dims <- MCDims
    Aggs <- MCAggs
    Months = {m1, m2}
    Keys = {k1, k2}
    MaxVersion = 2
    Builds <- MCBuilds
    GoldKeys <- MCGoldKeys
    CrossMonth = FALSE
    RunIds = {r1, r2}
    Passes = {1, 2}
    MaxTasks = 26
    MaxFaults = 1
    RollbackMayFail = FALSE
    RunMonth <- MCRunMonth
    ZoneOf <- MCZoneOf
    TripCount <- MCTripCount
    DescribedBy <- MCDescribedBy
    MaxRepairs = 1
    LateRepair = FALSE
INVARIANTS
    JobTypeOK
    SlicesAreBuilds
    FinishedMonthsStayInMarts
    DbtTestsPass
PROPERTIES
    ReplacesSlices
    ImplementsLoad
    BatchIsolation
    FinishedRunIsConsistent
    ActiveRunEnds
CHECK_DEADLOCK FALSE
