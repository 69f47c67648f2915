SPECIFICATION Spec
CONSTANTS
    Null = Null  Bad = Bad  NaN = NaN  PosInf = PosInf  NegInf = NegInf
    z1 = z1  z2 = z2  z3 = z3
    fare = fare  tip = tip  total = total
    Locations = {z1, z2, z3}
    MONEY_COLUMNS = {fare, tip, total}
    Fare = fare
    Tip = tip
    Total = total
    Hundredth = 4
    AvgUnit = 10000
    HourLength = 2
    DayLength = 4
    RejectionLimit = 20
    Batches <- MCBatches
    ZoneBatches <- MCZoneBatches
INVARIANTS
    RevenueIsSplit
CHECK_DEADLOCK FALSE
