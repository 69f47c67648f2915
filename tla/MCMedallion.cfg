SPECIFICATION Spec
CONSTANTS
    m1 = m1  m2 = m2
    t1 = t1  t2 = t2  t3 = t3  t4 = t4  t5 = t5  t6 = t6  t7 = t7  t8 = t8
    z1 = z1  z2 = z2  z3 = z3
    r1 = r1  r2 = r2  r3 = r3
    Null = Null
    Months = {m1, m2}
    Trips = {t1, t2, t3, t4, t5, t6, t7, t8}
    Dates <- MCDates
    Zones = {z1, z2, z3}
    RawTrips <- MCRawTrips
    RawZones <- MCRawZones
    TripUploads <- MCTripUploads
    ZoneUploads = 2
    MaxUploads = 1
    Unsound = {t8}
    Unlabelled = {z3}
    DateOf <- MCDateOf
    ZoneOf <- MCZoneOf
    RunMonth <- MCRunMonth
    RequiredFactAudits = 1
    LateRepair = FALSE
    MaxRepairs = 1
    MaxFaults = 1
INVARIANTS
    TypeOK
    AcceptedIsReconciled
    UnrelatedMonthsStayIntact
PROPERTIES
    ActiveRunEnds
CHECK_DEADLOCK FALSE
