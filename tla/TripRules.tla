------------------------------ MODULE TripRules ------------------------------
(***************************************************************************)
(* The row rules of Silver and Gold, once as the Spark expressions of the  *)
(* notebooks evaluate them, with SQL's third truth value, and once as the  *)
(* pure Python functions the tests use, with None.                         *)
(*                                                                         *)
(* A raw row is a Bronze row of one source month.  Every row of a month    *)
(* has the same lineage, which is therefore left out.                      *)
(***************************************************************************)
EXTENDS Integers

CONSTANTS
    Null,             \* SQL NULL and Python's None
    Bad,              \* an amount decimal(18,2) cannot hold: NaN, infinite, too large
    NaN, PosInf, NegInf, \* the double values that are not finite
    Locations,        \* taxi zone ids
    MONEY_COLUMNS, Fare, Total, Tip, \* columns of type decimal(18,2)
    Hundredth,        \* units of a raw amount or count that make one hundredth
    AvgUnit,          \* units of avg's own scale that make one hundredth, 10^4 in the code
    HourLength,       \* time units of an hour, 60 in the code
    DayLength         \* time units of a day, 1440 in the code

Special == {Null, Bad, NaN, PosInf, NegInf}

ASSUME SpecialAssumption ==
    /\ Special \cap (Int \cup BOOLEAN \cup Locations \cup Int \X Int) = {}
    /\ Null \notin {Bad, NaN, PosInf, NegInf} /\ NaN \notin {PosInf, NegInf}
    /\ PosInf # NegInf

ASSUME ColumnsAssumption ==
    /\ {Fare, Total, Tip} \subseteq MONEY_COLUMNS
    /\ Hundredth \in Nat \ {0} /\ AvgUnit \in Nat \ {0}
    /\ HourLength \in Nat \ {0} /\ DayLength \in Nat \ {0}

Times    == Nat \cup {Null}
Places   == Locations \cup {Null}
Doubles  == Int \cup {Null, NaN, PosInf, NegInf}
Decimals == Int \cup {Null}

(* A passenger count too large for decimal(10,2) is an infinite one.       *)
RawRow == [pickup : Times, dropoff : Times, pickup_location : Places,
           dropoff_location : Places, passengers : Doubles,
           distance : Doubles, money : [MONEY_COLUMNS -> Decimals \cup {Bad}]]

-----------------------------------------------------------------------------
(* Silver as Spark evaluates it, ANSI mode being off: a cast that fails    *)
(* gives NULL, and one to fewer decimals rounds half up.                   *)

(* x / d, rounded half away from zero.                                     *)
HalfUp(x, d) ==
    IF x >= 0 THEN (2 * x + d) \div (2 * d) ELSE -((2 * (-x) + d) \div (2 * d))

(* The casts to decimal(18,2) and decimal(10,2), in hundredths.            *)
Cast(amount)     == IF amount \in {Null, Bad} THEN Null ELSE HalfUp(amount, Hundredth)
CastCount(count) == IF count \in {Null, NaN, PosInf, NegInf} THEN Null
                    ELSE HalfUp(count, Hundredth)

Standardized(r) ==
    [r EXCEPT !.passengers = CastCount(r.passengers),
              !.money = [c \in MONEY_COLUMNS |-> Cast(r.money[c])]]

InvalidMonetaryCast(r) ==
    \E c \in MONEY_COLUMNS : r.money[c] # Null /\ Cast(r.money[c]) = Null

(* The fingerprint of all standardized business columns; SHA-256 is taken  *)
(* to be injective.                                                        *)
TripId(r) == Standardized(r)

(* x < 0 and x < y in SQL: NULL if an operand is, and NaN is the greatest. *)
Negative(x) == CASE x = Null                -> Null
                 [] x \in {NaN, PosInf}     -> FALSE
                 [] x = NegInf              -> TRUE
                 [] OTHER                   -> x < 0
Before(x, y) == IF x = Null \/ y = Null THEN Null ELSE x < y

(* FALSE | (c1 < 0) | (c2 < 0) | ...                                       *)
NegativeAmount(r) ==
    LET sign == [c \in MONEY_COLUMNS |-> Negative(Standardized(r).money[c])] IN
    CASE \E c \in MONEY_COLUMNS : sign[c] = TRUE -> TRUE
      [] \A c \in MONEY_COLUMNS : sign[c] = FALSE -> FALSE
      [] OTHER -> Null

(* The conditions of build_trip_frames, over the standardized row.         *)
Conditions(r, zones, duplicate) ==
    LET s == Standardized(r) IN
    [NULL_PICKUP_TIMESTAMP    |-> s.pickup = Null,
     NULL_DROPOFF_TIMESTAMP   |-> s.dropoff = Null,
     DROPOFF_BEFORE_PICKUP    |-> Before(s.dropoff, s.pickup),
     NULL_PICKUP_LOCATION     |-> s.pickup_location = Null,
     NULL_DROPOFF_LOCATION    |-> s.dropoff_location = Null,
     NEGATIVE_PASSENGER_COUNT |-> Negative(s.passengers),
     NULL_TRIP_DISTANCE       |-> s.distance = Null,
     INVALID_DISTANCE         |-> s.distance \in {NaN, PosInf, NegInf},
     NEGATIVE_DISTANCE        |-> Negative(s.distance),
     NULL_FARE_AMOUNT         |-> s.money[Fare] = Null,
     NULL_TOTAL_AMOUNT        |-> s.money[Total] = Null,
     INVALID_MONETARY_VALUE   |-> InvalidMonetaryCast(r),
     INVALID_PICKUP_LOCATION  |-> s.pickup_location # Null /\ s.pickup_location \notin zones,
     INVALID_DROPOFF_LOCATION |-> s.dropoff_location # Null /\ s.dropoff_location \notin zones,
     DUPLICATE_TRIP           |-> duplicate]

(* Faulty variant: a NULL comparison rejects the row.                      *)
rejection_rules_unless_false(r, zones, duplicate) ==
    LET holds == Conditions(r, zones, duplicate) IN
    {rule \in DOMAIN holds : holds[rule] # FALSE}

(* F.when drops the rules whose condition is FALSE or NULL.                *)
rejection_rules(r, zones, duplicate) ==
    LET holds == Conditions(r, zones, duplicate) IN
    {rule \in DOMAIN holds : holds[rule] = TRUE}

-----------------------------------------------------------------------------
(* Silver as the pure functions define it. *)

monetary_value_is_valid(amount) == amount # Bad

is_financial_adjustment(r) ==
    \E c \in MONEY_COLUMNS : r.money[c] \notin {Null, Bad} /\ r.money[c] < 0

IsFinite(x) == x \notin {NaN, PosInf, NegInf}

(* x < 0 for a float that is not None.                                     *)
BelowZero(x) == x = NegInf \/ (IsFinite(x) /\ x < 0)

FailedRules(r, zones, duplicate) ==
    [NULL_PICKUP_TIMESTAMP    |-> r.pickup = Null,
     NULL_DROPOFF_TIMESTAMP   |-> r.dropoff = Null,
     DROPOFF_BEFORE_PICKUP    |-> r.pickup # Null /\ r.dropoff # Null /\ r.dropoff < r.pickup,
     NULL_PICKUP_LOCATION     |-> r.pickup_location = Null,
     NULL_DROPOFF_LOCATION    |-> r.dropoff_location = Null,
     NEGATIVE_PASSENGER_COUNT |-> r.passengers # Null /\ BelowZero(r.passengers),
     NULL_TRIP_DISTANCE       |-> r.distance = Null,
     INVALID_DISTANCE         |-> r.distance # Null /\ ~IsFinite(r.distance),
     NEGATIVE_DISTANCE        |-> r.distance # Null /\ IsFinite(r.distance) /\ r.distance < 0,
     NULL_FARE_AMOUNT         |-> r.money[Fare] = Null,
     NULL_TOTAL_AMOUNT        |-> r.money[Total] = Null,
     INVALID_MONETARY_VALUE   |-> \E c \in MONEY_COLUMNS : ~monetary_value_is_valid(r.money[c]),
     INVALID_PICKUP_LOCATION  |-> r.pickup_location # Null /\ r.pickup_location \notin zones,
     INVALID_DROPOFF_LOCATION |-> r.dropoff_location # Null /\ r.dropoff_location \notin zones,
     DUPLICATE_TRIP           |-> duplicate]

classify_trip_record(r, zones, duplicate) ==
    LET failed == FailedRules(r, zones, duplicate) IN
    {rule \in DOMAIN failed : failed[rule]}

-----------------------------------------------------------------------------
(* The measures Gold derives.  A ratio is kept as the pair of its operands. *)

duration_minutes(r) == r.dropoff - r.pickup

(* Spark's quotient of a double n by a finite d.                           *)
Quotient(n, d) == CASE n = Null \/ d = 0 -> Null
                    [] n \in {NaN, PosInf, NegInf} -> n
                    [] OTHER -> <<n, d>>

(* Faulty variant: a ratio without its condition on the denominator.       *)
unguarded_ratio(n, d, valid_condition) ==
    IF Quotient(n, d) \notin {NaN, PosInf, NegInf} THEN Quotient(n, d) ELSE Null

finite_ratio(n, d, valid_condition) ==
    IF valid_condition /\ Quotient(n, d) \notin {NaN, PosInf, NegInf}
    THEN Quotient(n, d) ELSE Null

GoldMeasures(s) ==
    LET duration == duration_minutes(s) IN
    [trip_duration_minutes |-> duration,
     average_speed_mph |-> finite_ratio(s.distance, duration,
                              duration > 0 /\ Negative(s.distance) = FALSE),
     fare_per_mile     |-> finite_ratio(s.money[Fare], s.distance, s.distance > 0),
     tip_percentage    |-> finite_ratio(s.money[Tip], s.money[Fare], s.money[Fare] > 0)]

safe_ratio(n, d) ==
    IF n = Null \/ d = Null \/ ~IsFinite(n) \/ ~IsFinite(d) \/ d = 0
    THEN Null ELSE <<n, d>>

derived_trip_metrics(r) ==
    LET duration == duration_minutes(r) IN
    [trip_duration_minutes |-> duration,
     average_speed_mph |-> IF duration > 0 THEN safe_ratio(r.distance, duration) ELSE Null,
     fare_per_mile     |-> IF r.distance > 0 THEN safe_ratio(r.money[Fare], r.distance) ELSE Null,
     tip_percentage    |-> IF r.money[Fare] > 0 THEN safe_ratio(r.money[Tip], r.money[Fare])
                           ELSE Null]

date_key(t) == t \div DayLength
HourOf(t)   == (t % DayLength) \div HourLength
time_key(t) == <<HourOf(t), t % HourLength>>

-----------------------------------------------------------------------------
(* Properties of single rows. *)

(* The row with the two decimals the tables keep, its invalid amounts      *)
(* still there.                                                            *)
Recorded(r) ==
    [Standardized(r) EXCEPT
        !.money = [c \in MONEY_COLUMNS |-> IF r.money[c] = Bad THEN Bad ELSE Cast(r.money[c])]]

(* "Pure equivalent of the Spark rejection contract" (silver_common.py):   *)
(* for the recorded row both reject the same rows.  Spark may give more    *)
(* rules for one: an amount that does not fit is NULL as well, -inf is     *)
(* negative as well.  Given the raw row, the pure function differs in one  *)
(* rule: it also rejects a negative passenger count that the cast rounds   *)
(* to 0.00 or turns into NULL, where Spark accepts the row.                *)
SpuriousRules == {"NEGATIVE_DISTANCE", "NULL_FARE_AMOUNT", "NULL_TOTAL_AMOUNT"}

ClassifiersAgree(r, zones, duplicate) ==
    LET spark == rejection_rules(r, zones, duplicate)
        pure  == classify_trip_record(Recorded(r), zones, duplicate)
        raw   == classify_trip_record(r, zones, duplicate)
    IN  /\ pure \subseteq spark /\ spark \subseteq pure \cup SpuriousRules
        /\ spark = {} <=> pure = {}
        /\ pure \subseteq raw /\ raw \subseteq pure \cup {"NEGATIVE_PASSENGER_COUNT"}

(* A row is a financial adjustment for Spark if and only if the recorded   *)
(* row is one for the pure function.  The raw row may be one alone, if its *)
(* negative amounts are all less than half a cent.                         *)
FlagsAgree(r) ==
    /\ NegativeAmount(r) = TRUE <=> is_financial_adjustment(Recorded(r))
    /\ is_financial_adjustment(Recorded(r)) => is_financial_adjustment(r)
    /\ NegativeAmount(r) # TRUE =>
          \A c \in MONEY_COLUMNS :
             r.money[c] \notin {Null, Bad} => 2 * (-r.money[c]) < Hundredth

(* On every row that Silver accepts, Gold derives what the pure function   *)
(* does, and nothing that is not finite.                                   *)
MeasuresAgree(s) == GoldMeasures(s) = derived_trip_metrics(s)
=============================================================================
