------------------------- MODULE TripRecordsProofs -------------------------
(***************************************************************************)
(* Theorems about the row rules and the batch of TripRecords: the Spark    *)
(* expressions and the pure functions agree as stated on every row, not    *)
(* only on the rows of the instance.                                       *)
(***************************************************************************)
EXTENDS TripRecords, SumTheorems, TLAPS

(* No special value is a number, a truth value or a location.              *)
LEMMA SpecialValues ==
    /\ \A x \in Int : x \notin {Null, Bad, NaN, PosInf, NegInf}
    /\ Null # TRUE /\ Null # FALSE
    /\ Null \notin Locations
    /\ Null # Bad /\ Null # NaN /\ Null # PosInf /\ Null # NegInf
    /\ NaN # PosInf /\ NaN # NegInf /\ PosInf # NegInf
BY SpecialAssumption DEF Special

(* What standardizing does to the columns of a row, and recording.         *)
LEMMA StandardizedColumns ==
    ASSUME NEW r \in RawRow
    PROVE  LET s == Standardized(r) IN
           /\ s.pickup = r.pickup /\ s.dropoff = r.dropoff
           /\ s.pickup_location = r.pickup_location
           /\ s.dropoff_location = r.dropoff_location
           /\ s.passengers = CastCount(r.passengers) /\ s.distance = r.distance
           /\ s.money = [c \in MONEY_COLUMNS |-> Cast(r.money[c])]
BY DEF Standardized, RawRow

LEMMA RecordedColumns ==
    ASSUME NEW r \in RawRow
    PROVE  LET p == Recorded(r) IN
           /\ p.pickup = r.pickup /\ p.dropoff = r.dropoff
           /\ p.pickup_location = r.pickup_location
           /\ p.dropoff_location = r.dropoff_location
           /\ p.passengers = CastCount(r.passengers) /\ p.distance = r.distance
           /\ p.money = [c \in MONEY_COLUMNS |->
                            IF r.money[c] = Bad THEN Bad ELSE Cast(r.money[c])]
BY DEF Recorded, Standardized, RawRow

(* The columns of a row have the values their types allow.                 *)
LEMMA ColumnTypes ==
    ASSUME NEW r \in RawRow
    PROVE  /\ r.pickup \in Nat \cup {Null} /\ r.dropoff \in Nat \cup {Null}
           /\ r.pickup_location \in Locations \cup {Null}
           /\ r.dropoff_location \in Locations \cup {Null}
           /\ r.passengers \in Int \cup {Null, NaN, PosInf, NegInf}
           /\ r.distance \in Int \cup {Null, NaN, PosInf, NegInf}
           /\ \A c \in MONEY_COLUMNS : r.money[c] \in Int \cup {Null, Bad}
BY DEF RawRow, Times, Places, Decimals, Doubles

(* SQL's comparison with 0, value by value.                                *)
LEMMA NegativeValues ==
    /\ \A x \in Int : Negative(x) = (x < 0)
    /\ Negative(Null) = Null
    /\ Negative(NaN) = FALSE /\ Negative(PosInf) = FALSE /\ Negative(NegInf) = TRUE
BY SpecialValues DEF Negative

(* ... and the same for the one sign a trip distance may have.             *)
LEMMA NotNegative ==
    ASSUME NEW x \in Int, x >= 0
    PROVE  Negative(x) = FALSE
<1>1. x \notin {Null, NaN, PosInf, NegInf}
  BY SpecialValues
<1>2. Negative(x) = (x < 0)
  BY <1>1 DEF Negative
<1>3. (x < 0) = FALSE
  OBVIOUS
<1> QED
  BY <1>2, <1>3, Zenon

(* Dividing leaves a remainder less than the divisor.                      *)
LEMMA Division ==
    ASSUME NEW n \in Nat, NEW d \in Nat \ {0}
    PROVE  n \div d \in Nat /\ d * (n \div d) <= n /\ n < d * (n \div d) + d
BY Z3

(* What is rounded half up is at most half a unit away, and nothing only   *)
(* if it was less than that.                                               *)
LEMMA HalfUpOfNat ==
    ASSUME NEW x \in Nat, NEW d \in Nat \ {0}
    PROVE  LET q == (2 * x + d) \div (2 * d)
           IN  /\ q \in Nat
               /\ 2 * (q * d) - 2 * x <= d /\ 2 * x - 2 * (q * d) < d
               /\ q = 0 <=> 2 * x < d
<1> DEFINE n == 2 * x + d
           m == 2 * d
           q == n \div m
<1>1. n \in Nat /\ m \in Nat \ {0}
  OBVIOUS
<1> HIDE DEF n, m
<1>2. q \in Nat /\ m * q <= n /\ n < m * q + m
  BY <1>1, Division
<1> HIDE DEF q
<1>3. m * q = 2 * (q * d)
  BY <1>2 DEF m
<1>4. q = 0 => q * d = 0
  BY <1>2
<1>5. q # 0 => q * d >= d
  BY <1>2
<1> DEFINE p == q * d
<1>6. p \in Nat
  BY <1>2
<1> HIDE DEF p
<1>7. /\ 2 * p <= n /\ n < 2 * p + m
      /\ q = 0 => p = 0
      /\ q # 0 => p >= d
  BY <1>2, <1>3, <1>4, <1>5 DEF p
<1>8. /\ 2 * p - 2 * x <= d /\ 2 * x - 2 * p < d
      /\ q = 0 <=> 2 * x < d
  BY <1>6, <1>7 DEF n, m
<1> QED
  BY <1>2, <1>8 DEF q, n, m, p

(* ... for every number, with its sign.                                    *)
LEMMA HalfUpValues ==
    ASSUME NEW x \in Int, NEW d \in Nat \ {0}
    PROVE  /\ HalfUp(x, d) \in Int
           /\ 2 * (HalfUp(x, d) * d - x) \in -d .. d
           /\ HalfUp(x, d) < 0 => x < 0
           /\ x < 0 /\ d <= 2 * (-x) => HalfUp(x, d) < 0
<1>1. CASE x >= 0
  <2> DEFINE q == (2 * x + d) \div (2 * d)
  <2>1. q \in Nat /\ 2 * (q * d) - 2 * x <= d /\ 2 * x - 2 * (q * d) < d
    BY <1>1, HalfUpOfNat
  <2>2. HalfUp(x, d) = q
    BY <1>1 DEF HalfUp
  <2> HIDE DEF q
  <2> DEFINE p == q * d
  <2>3. p \in Int
    BY <2>1
  <2> HIDE DEF p
  <2>4. 2 * (p - x) \in -d .. d
    BY <2>1, <2>3 DEF p
  <2> QED
    BY <1>1, <2>1, <2>2, <2>4 DEF p
<1>2. CASE x < 0
  <2> DEFINE y == -x
             q == (2 * y + d) \div (2 * d)
  <2>0. y \in Nat
    BY <1>2
  <2>1. /\ q \in Nat /\ 2 * (q * d) - 2 * y <= d /\ 2 * y - 2 * (q * d) < d
        /\ q = 0 <=> 2 * y < d
    BY <2>0, HalfUpOfNat
  <2>2. HalfUp(x, d) = -q
    BY <1>2 DEF HalfUp
  <2> HIDE DEF q
  <2> DEFINE p == q * d
  <2>3. p \in Int /\ (-q) * d = -p
    BY <2>1
  <2> HIDE DEF p
  <2>4. 2 * ((-p) - x) \in -d .. d
    BY <2>1, <2>3 DEF p, y
  <2>5. d <= 2 * y => -q < 0
    <3>1. d <= 2 * y => q # 0
      BY <2>0, <2>1
    <3> QED
      BY <2>1, <3>1
  <2> QED
    BY <1>2, <2>1, <2>2, <2>3, <2>4, <2>5 DEF y
<1> QED
  BY <1>1, <1>2

(* A cast loses a value exactly where the pure check rejects it, and no    *)
(* sign but that of an amount less than half a cent.                       *)
LEMMA CastValues ==
    ASSUME NEW a \in Int \cup {Null, Bad}
    PROVE  /\ Cast(a) \in Int \cup {Null}
           /\ Cast(a) = Null <=> a \in {Null, Bad}
           /\ (a # Null /\ Cast(a) = Null) <=> ~monetary_value_is_valid(a)
           /\ (Negative(Cast(a)) = TRUE) <=> (Cast(a) # Null /\ Cast(a) < 0)
           /\ Negative(Cast(a)) = TRUE => a \notin {Null, Bad} /\ a < 0
           /\ a \notin {Null, Bad} /\ Negative(Cast(a)) # TRUE => 2 * (-a) < Hundredth
<1>1. CASE a \in Int
  <2> DEFINE h == HalfUp(a, Hundredth)
  <2>1. a \notin {Null, Bad}
    BY <1>1, SpecialValues
  <2>2. Cast(a) = h
    BY <2>1 DEF Cast
  <2>3. Hundredth \in Nat \ {0}
    BY ColumnsAssumption
  <2>4. h \in Int /\ (h < 0 => a < 0) /\ (a < 0 /\ Hundredth <= 2 * (-a) => h < 0)
    BY <1>1, <2>3, HalfUpValues
  <2> HIDE DEF h
  <2>5. h # Null /\ ((Negative(h) = TRUE) <=> h < 0)
    BY <2>4, SpecialValues, NegativeValues
  <2>6. ~(h < 0) => 2 * (-a) < Hundredth
    BY <1>1, <2>3, <2>4
  <2> QED
    BY <2>1, <2>2, <2>4, <2>5, <2>6 DEF monetary_value_is_valid
<1>2. CASE a = Null
  BY <1>2, SpecialValues, NegativeValues DEF Cast, monetary_value_is_valid
<1>3. CASE a = Bad
  BY <1>3, SpecialValues, NegativeValues DEF Cast, monetary_value_is_valid
<1> QED  BY <1>1, <1>2, <1>3

(* The cast of a count may make a negative one vanish, but makes none.     *)
LEMMA CountValues ==
    ASSUME NEW x \in Int \cup {Null, NaN, PosInf, NegInf}
    PROVE  /\ CastCount(x) \in Int \cup {Null}
           /\ (Negative(CastCount(x)) = TRUE)
                <=> (CastCount(x) # Null /\ BelowZero(CastCount(x)))
           /\ Negative(CastCount(x)) = TRUE => x # Null /\ BelowZero(x)
<1>1. CASE x \in Int
  <2> DEFINE h == HalfUp(x, Hundredth)
  <2>1. x \notin {Null, NaN, PosInf, NegInf}
    BY <1>1, SpecialValues
  <2>2. CastCount(x) = h
    BY <2>1 DEF CastCount
  <2>3. h \in Int /\ (h < 0 => x < 0)
    BY <1>1, ColumnsAssumption, HalfUpValues
  <2> HIDE DEF h
  <2>4. h \notin {Null, NaN, PosInf, NegInf} /\ ((Negative(h) = TRUE) <=> h < 0)
    BY <2>3, SpecialValues, NegativeValues
  <2> QED
    BY <2>1, <2>2, <2>3, <2>4 DEF BelowZero, IsFinite
<1>2. CASE x \in {Null, NaN, PosInf, NegInf}
  BY <1>2, SpecialValues, NegativeValues DEF CastCount
<1> QED
  BY <1>1, <1>2

(* The rules on times, places, passengers and duplicates, one by one.      *)
LEMMA PlainRulesAgree ==
    ASSUME NEW r \in RawRow, NEW Z, NEW duplicate \in BOOLEAN
    PROVE  LET spark == Conditions(r, Z, duplicate)
               pure  == FailedRules(Recorded(r), Z, duplicate)
           IN  /\ spark.NULL_PICKUP_TIMESTAMP = TRUE <=> pure.NULL_PICKUP_TIMESTAMP
               /\ spark.NULL_DROPOFF_TIMESTAMP = TRUE <=> pure.NULL_DROPOFF_TIMESTAMP
               /\ spark.DROPOFF_BEFORE_PICKUP = TRUE <=> pure.DROPOFF_BEFORE_PICKUP
               /\ spark.NULL_PICKUP_LOCATION = TRUE <=> pure.NULL_PICKUP_LOCATION
               /\ spark.NULL_DROPOFF_LOCATION = TRUE <=> pure.NULL_DROPOFF_LOCATION
               /\ spark.NEGATIVE_PASSENGER_COUNT = TRUE <=> pure.NEGATIVE_PASSENGER_COUNT
               /\ spark.NULL_TRIP_DISTANCE = TRUE <=> pure.NULL_TRIP_DISTANCE
               /\ spark.INVALID_DISTANCE = TRUE <=> pure.INVALID_DISTANCE
               /\ spark.INVALID_PICKUP_LOCATION = TRUE <=> pure.INVALID_PICKUP_LOCATION
               /\ spark.INVALID_DROPOFF_LOCATION = TRUE <=> pure.INVALID_DROPOFF_LOCATION
               /\ spark.DUPLICATE_TRIP = TRUE <=> pure.DUPLICATE_TRIP
<1> DEFINE s == Standardized(r)
           p == Recorded(r)
<1>1. /\ s.pickup = r.pickup /\ s.dropoff = r.dropoff
      /\ s.pickup_location = r.pickup_location
      /\ s.dropoff_location = r.dropoff_location
      /\ s.passengers = CastCount(r.passengers) /\ s.distance = r.distance
  BY StandardizedColumns
<1>r. /\ p.pickup = r.pickup /\ p.dropoff = r.dropoff
      /\ p.pickup_location = r.pickup_location
      /\ p.dropoff_location = r.dropoff_location
      /\ p.passengers = CastCount(r.passengers) /\ p.distance = r.distance
  BY RecordedColumns
<1>2. (Before(r.dropoff, r.pickup) = TRUE)
      <=> (r.pickup # Null /\ r.dropoff # Null /\ r.dropoff < r.pickup)
  BY ColumnTypes, SpecialValues DEF Before
<1>3. (Negative(CastCount(r.passengers)) = TRUE)
      <=> (CastCount(r.passengers) # Null /\ BelowZero(CastCount(r.passengers)))
  BY ColumnTypes, CountValues
<1>4. r.distance \in {NaN, PosInf, NegInf} <=> (r.distance # Null /\ ~IsFinite(r.distance))
  BY ColumnTypes, SpecialValues DEF IsFinite
<1> HIDE DEF s, p
<1> QED
  BY <1>1, <1>r, <1>2, <1>3, <1>4 DEF Conditions, FailedRules, s, p

(* The rules on amounts and the sign of the distance: Spark may find two   *)
(* where the pure function finds one.                                      *)
LEMMA AmountRulesAgree ==
    ASSUME NEW r \in RawRow, NEW Z, NEW duplicate \in BOOLEAN
    PROVE  LET spark == Conditions(r, Z, duplicate)
               pure  == FailedRules(Recorded(r), Z, duplicate)
           IN  /\ spark.INVALID_MONETARY_VALUE = TRUE <=> pure.INVALID_MONETARY_VALUE
               /\ pure.NULL_FARE_AMOUNT => spark.NULL_FARE_AMOUNT = TRUE
               /\ pure.NULL_TOTAL_AMOUNT => spark.NULL_TOTAL_AMOUNT = TRUE
               /\ pure.NEGATIVE_DISTANCE => spark.NEGATIVE_DISTANCE = TRUE
               /\ spark.NULL_FARE_AMOUNT = TRUE =>
                     pure.NULL_FARE_AMOUNT \/ pure.INVALID_MONETARY_VALUE
               /\ spark.NULL_TOTAL_AMOUNT = TRUE =>
                     pure.NULL_TOTAL_AMOUNT \/ pure.INVALID_MONETARY_VALUE
               /\ spark.NEGATIVE_DISTANCE = TRUE =>
                     pure.NEGATIVE_DISTANCE \/ pure.INVALID_DISTANCE
<1> DEFINE s == Standardized(r)
           p == Recorded(r)
<1>1. s.distance = r.distance /\ s.money = [c \in MONEY_COLUMNS |-> Cast(r.money[c])]
  BY StandardizedColumns
<1>r. /\ p.distance = r.distance
      /\ p.money = [c \in MONEY_COLUMNS |->
                       IF r.money[c] = Bad THEN Bad ELSE Cast(r.money[c])]
  BY RecordedColumns
<1>2. Fare \in MONEY_COLUMNS /\ Total \in MONEY_COLUMNS
  BY ColumnsAssumption
<1> HIDE DEF s, p
<1>3. \A c \in MONEY_COLUMNS :
        /\ s.money[c] = Cast(r.money[c])
        /\ (r.money[c] # Null /\ Cast(r.money[c]) = Null)
            <=> ~monetary_value_is_valid(p.money[c])
        /\ p.money[c] = Null => s.money[c] = Null
        /\ s.money[c] = Null => p.money[c] = Null \/ ~monetary_value_is_valid(p.money[c])
  <2> SUFFICES ASSUME NEW c \in MONEY_COLUMNS
               PROVE  /\ s.money[c] = Cast(r.money[c])
                      /\ (r.money[c] # Null /\ Cast(r.money[c]) = Null)
                          <=> ~monetary_value_is_valid(p.money[c])
                      /\ p.money[c] = Null => s.money[c] = Null
                      /\ s.money[c] = Null =>
                            p.money[c] = Null \/ ~monetary_value_is_valid(p.money[c])
    OBVIOUS
  <2>1. s.money[c] = Cast(r.money[c])
    BY <1>1
  <2>2. p.money[c] = IF r.money[c] = Bad THEN Bad ELSE Cast(r.money[c])
    BY <1>r
  <2>3. /\ Cast(r.money[c]) \in Int \cup {Null}
        /\ Cast(r.money[c]) = Null <=> r.money[c] \in {Null, Bad}
    BY ColumnTypes, CastValues
  <2> QED
    BY <2>1, <2>2, <2>3, SpecialValues DEF monetary_value_is_valid
<1>4. InvalidMonetaryCast(r)
      <=> \E c \in MONEY_COLUMNS : ~monetary_value_is_valid(p.money[c])
  BY <1>3 DEF InvalidMonetaryCast
<1>5. (Negative(r.distance) = TRUE) =>
        \/ r.distance # Null /\ IsFinite(r.distance) /\ r.distance < 0
        \/ r.distance # Null /\ ~IsFinite(r.distance)
  BY ColumnTypes, SpecialValues, NegativeValues DEF IsFinite
<1>6. (r.distance # Null /\ IsFinite(r.distance) /\ r.distance < 0)
      => Negative(r.distance) = TRUE
  BY ColumnTypes, SpecialValues, NegativeValues DEF IsFinite
<1>7. \A c \in {Fare, Total} :
        /\ p.money[c] = Null => s.money[c] = Null
        /\ s.money[c] = Null =>
              p.money[c] = Null \/ \E k \in MONEY_COLUMNS : ~monetary_value_is_valid(p.money[k])
  BY <1>2, <1>3
<1> QED
  BY <1>1, <1>r, <1>4, <1>5, <1>6, <1>7 DEF Conditions, FailedRules, s, p

(* Both classifiers as functions of the rule names.                        *)
LEMMA RulesOfBoth ==
    ASSUME NEW r \in RawRow, NEW Z, NEW duplicate \in BOOLEAN
    PROVE  LET spark == Conditions(r, Z, duplicate)
               pure  == FailedRules(Recorded(r), Z, duplicate)
           IN  /\ DOMAIN spark = DOMAIN pure
               /\ "INVALID_DISTANCE" \in DOMAIN pure
               /\ "INVALID_MONETARY_VALUE" \in DOMAIN pure
               /\ \A rule \in DOMAIN pure \ SpuriousRules :
                     spark[rule] = TRUE <=> pure[rule]
               /\ \A rule \in DOMAIN pure \cap SpuriousRules :
                     /\ pure[rule] => spark[rule] = TRUE
                     /\ spark[rule] = TRUE =>
                           \/ pure[rule] \/ pure["INVALID_DISTANCE"]
                           \/ pure["INVALID_MONETARY_VALUE"]
<1> DEFINE spark == Conditions(r, Z, duplicate)
           pure  == FailedRules(Recorded(r), Z, duplicate)
           names == {"NULL_PICKUP_TIMESTAMP", "NULL_DROPOFF_TIMESTAMP",
                     "DROPOFF_BEFORE_PICKUP", "NULL_PICKUP_LOCATION",
                     "NULL_DROPOFF_LOCATION", "NEGATIVE_PASSENGER_COUNT",
                     "NULL_TRIP_DISTANCE", "INVALID_DISTANCE", "NEGATIVE_DISTANCE",
                     "NULL_FARE_AMOUNT", "NULL_TOTAL_AMOUNT", "INVALID_MONETARY_VALUE",
                     "INVALID_PICKUP_LOCATION", "INVALID_DROPOFF_LOCATION",
                     "DUPLICATE_TRIP"}
<1>1. DOMAIN spark = names
  BY DEF Conditions
<1>2. DOMAIN pure = names
  BY DEF FailedRules
<1> HIDE DEF spark, pure
<1>p. /\ spark["NULL_PICKUP_TIMESTAMP"] = TRUE <=> pure["NULL_PICKUP_TIMESTAMP"]
      /\ spark["NULL_DROPOFF_TIMESTAMP"] = TRUE <=> pure["NULL_DROPOFF_TIMESTAMP"]
      /\ spark["DROPOFF_BEFORE_PICKUP"] = TRUE <=> pure["DROPOFF_BEFORE_PICKUP"]
      /\ spark["NULL_PICKUP_LOCATION"] = TRUE <=> pure["NULL_PICKUP_LOCATION"]
      /\ spark["NULL_DROPOFF_LOCATION"] = TRUE <=> pure["NULL_DROPOFF_LOCATION"]
      /\ spark["NEGATIVE_PASSENGER_COUNT"] = TRUE <=> pure["NEGATIVE_PASSENGER_COUNT"]
      /\ spark["NULL_TRIP_DISTANCE"] = TRUE <=> pure["NULL_TRIP_DISTANCE"]
      /\ spark["INVALID_DISTANCE"] = TRUE <=> pure["INVALID_DISTANCE"]
      /\ spark["INVALID_PICKUP_LOCATION"] = TRUE <=> pure["INVALID_PICKUP_LOCATION"]
      /\ spark["INVALID_DROPOFF_LOCATION"] = TRUE <=> pure["INVALID_DROPOFF_LOCATION"]
      /\ spark["DUPLICATE_TRIP"] = TRUE <=> pure["DUPLICATE_TRIP"]
  BY PlainRulesAgree DEF spark, pure
<1>a. spark["INVALID_MONETARY_VALUE"] = TRUE <=> pure["INVALID_MONETARY_VALUE"]
  BY AmountRulesAgree DEF spark, pure
<1>3. ASSUME NEW rule \in names \ SpuriousRules
      PROVE  spark[rule] = TRUE <=> pure[rule]
  BY <1>p, <1>a, <1>3 DEF SpuriousRules
<1>4. \A rule \in names \cap SpuriousRules :
         /\ pure[rule] => spark[rule] = TRUE
         /\ spark[rule] = TRUE =>
               \/ pure[rule] \/ pure["INVALID_DISTANCE"]
               \/ pure["INVALID_MONETARY_VALUE"]
  BY AmountRulesAgree DEF SpuriousRules, spark, pure
<1> QED
  BY <1>1, <1>2, <1>3, <1>4 DEF spark, pure

(* The rules of a raw row are those of the recorded one, but that the cast *)
(* may hide a negative passenger count.                                    *)
LEMMA RawRules ==
    ASSUME NEW r \in RawRow, NEW Z, NEW duplicate \in BOOLEAN
    PROVE  LET pure == FailedRules(Recorded(r), Z, duplicate)
               raw  == FailedRules(r, Z, duplicate)
           IN  /\ DOMAIN raw = DOMAIN pure
               /\ \A rule \in DOMAIN pure \ {"NEGATIVE_PASSENGER_COUNT"} :
                     pure[rule] <=> raw[rule]
               /\ pure["NEGATIVE_PASSENGER_COUNT"] => raw["NEGATIVE_PASSENGER_COUNT"]
<1> DEFINE p == Recorded(r)
           pure == FailedRules(p, Z, duplicate)
           raw  == FailedRules(r, Z, duplicate)
<1>1. /\ p.pickup = r.pickup /\ p.dropoff = r.dropoff
      /\ p.pickup_location = r.pickup_location
      /\ p.dropoff_location = r.dropoff_location
      /\ p.passengers = CastCount(r.passengers) /\ p.distance = r.distance
      /\ p.money = [c \in MONEY_COLUMNS |->
                       IF r.money[c] = Bad THEN Bad ELSE Cast(r.money[c])]
  BY RecordedColumns
<1>2. Fare \in MONEY_COLUMNS /\ Total \in MONEY_COLUMNS
  BY ColumnsAssumption
<1> HIDE DEF p
<1>3. ASSUME NEW c \in MONEY_COLUMNS
      PROVE  /\ p.money[c] = Null <=> r.money[c] = Null
             /\ monetary_value_is_valid(p.money[c]) <=> monetary_value_is_valid(r.money[c])
  <2>1. p.money[c] = IF r.money[c] = Bad THEN Bad ELSE Cast(r.money[c])
    BY <1>1
  <2>2. /\ Cast(r.money[c]) \in Int \cup {Null}
        /\ Cast(r.money[c]) = Null <=> r.money[c] \in {Null, Bad}
    BY ColumnTypes, CastValues
  <2> QED
    BY <2>1, <2>2, SpecialValues DEF monetary_value_is_valid
<1>4. (p.passengers # Null /\ BelowZero(p.passengers))
      => r.passengers # Null /\ BelowZero(r.passengers)
  BY <1>1, ColumnTypes, CountValues
<1>5. /\ p.money[Fare] = Null <=> r.money[Fare] = Null
      /\ p.money[Total] = Null <=> r.money[Total] = Null
      /\ (\E c \in MONEY_COLUMNS : ~monetary_value_is_valid(p.money[c]))
           <=> (\E c \in MONEY_COLUMNS : ~monetary_value_is_valid(r.money[c]))
  BY <1>2, <1>3
<1>6. DOMAIN raw = DOMAIN pure
  BY DEF FailedRules
<1>7. /\ pure["NULL_PICKUP_TIMESTAMP"] <=> raw["NULL_PICKUP_TIMESTAMP"]
      /\ pure["NULL_DROPOFF_TIMESTAMP"] <=> raw["NULL_DROPOFF_TIMESTAMP"]
      /\ pure["DROPOFF_BEFORE_PICKUP"] <=> raw["DROPOFF_BEFORE_PICKUP"]
      /\ pure["NULL_PICKUP_LOCATION"] <=> raw["NULL_PICKUP_LOCATION"]
      /\ pure["NULL_DROPOFF_LOCATION"] <=> raw["NULL_DROPOFF_LOCATION"]
      /\ pure["NULL_TRIP_DISTANCE"] <=> raw["NULL_TRIP_DISTANCE"]
      /\ pure["INVALID_DISTANCE"] <=> raw["INVALID_DISTANCE"]
      /\ pure["NEGATIVE_DISTANCE"] <=> raw["NEGATIVE_DISTANCE"]
      /\ pure["NULL_FARE_AMOUNT"] <=> raw["NULL_FARE_AMOUNT"]
      /\ pure["NULL_TOTAL_AMOUNT"] <=> raw["NULL_TOTAL_AMOUNT"]
      /\ pure["INVALID_MONETARY_VALUE"] <=> raw["INVALID_MONETARY_VALUE"]
      /\ pure["INVALID_PICKUP_LOCATION"] <=> raw["INVALID_PICKUP_LOCATION"]
      /\ pure["INVALID_DROPOFF_LOCATION"] <=> raw["INVALID_DROPOFF_LOCATION"]
      /\ pure["DUPLICATE_TRIP"] <=> raw["DUPLICATE_TRIP"]
  BY <1>1, <1>5 DEF FailedRules
<1>8. pure["NEGATIVE_PASSENGER_COUNT"] => raw["NEGATIVE_PASSENGER_COUNT"]
  BY <1>4 DEF FailedRules
<1>9. DOMAIN pure =
        {"NULL_PICKUP_TIMESTAMP", "NULL_DROPOFF_TIMESTAMP", "DROPOFF_BEFORE_PICKUP",
         "NULL_PICKUP_LOCATION", "NULL_DROPOFF_LOCATION", "NEGATIVE_PASSENGER_COUNT",
         "NULL_TRIP_DISTANCE", "INVALID_DISTANCE", "NEGATIVE_DISTANCE",
         "NULL_FARE_AMOUNT", "NULL_TOTAL_AMOUNT", "INVALID_MONETARY_VALUE",
         "INVALID_PICKUP_LOCATION", "INVALID_DROPOFF_LOCATION", "DUPLICATE_TRIP"}
  BY DEF FailedRules
<1> HIDE DEF pure, raw
<1>10. ASSUME NEW rule \in DOMAIN pure \ {"NEGATIVE_PASSENGER_COUNT"}
       PROVE  pure[rule] <=> raw[rule]
  BY <1>7, <1>9, <1>10
<1> QED
  BY <1>6, <1>8, <1>10 DEF pure, raw, p

(* The flag Spark computes is TRUE exactly for an adjustment, and misses   *)
(* no amount of half a cent.                                               *)
THEOREM EveryFlagAgrees ==
    ASSUME NEW r \in RawRow
    PROVE  FlagsAgree(r)
<1> DEFINE sign == [c \in MONEY_COLUMNS |-> Negative(Standardized(r).money[c])]
           p == Recorded(r)
<1>1. \A c \in MONEY_COLUMNS : sign[c] = Negative(Cast(r.money[c]))
  BY StandardizedColumns
<1>2. \A c \in MONEY_COLUMNS :
        p.money[c] = IF r.money[c] = Bad THEN Bad ELSE Cast(r.money[c])
  BY RecordedColumns
<1> HIDE DEF sign, p
<1>3. ASSUME NEW c \in MONEY_COLUMNS
      PROVE  /\ sign[c] = TRUE <=> p.money[c] \notin {Null, Bad} /\ p.money[c] < 0
             /\ sign[c] = TRUE => r.money[c] \notin {Null, Bad} /\ r.money[c] < 0
             /\ r.money[c] \notin {Null, Bad} /\ sign[c] # TRUE =>
                   2 * (-r.money[c]) < Hundredth
  <2> DEFINE a == r.money[c]
             m == Cast(a)
  <2>1. /\ m \in Int \cup {Null}
        /\ (Negative(m) = TRUE) <=> (m # Null /\ m < 0)
        /\ Negative(m) = TRUE => a \notin {Null, Bad} /\ a < 0
        /\ a \notin {Null, Bad} /\ Negative(m) # TRUE => 2 * (-a) < Hundredth
    BY ColumnTypes, CastValues
  <2>2. sign[c] = Negative(m) /\ p.money[c] = IF a = Bad THEN Bad ELSE m
    BY <1>1, <1>2
  <2> HIDE DEF a, m
  <2>3. m # Bad
    BY <2>1, SpecialValues
  <2>4. sign[c] = TRUE <=> p.money[c] \notin {Null, Bad} /\ p.money[c] < 0
    BY <2>1, <2>2, <2>3
  <2> QED
    BY <2>1, <2>2, <2>4 DEF a
<1>4. NegativeAmount(r) = TRUE <=> \E c \in MONEY_COLUMNS : sign[c] = TRUE
  <2>1. CASE \E c \in MONEY_COLUMNS : sign[c] = TRUE
    <3>1. NegativeAmount(r) = TRUE
      BY <2>1 DEF NegativeAmount, sign
    <3> QED
      BY <2>1, <3>1
  <2>2. CASE ~ \E c \in MONEY_COLUMNS : sign[c] = TRUE
    <3>1. NegativeAmount(r) \in {FALSE, Null}
      BY <2>2 DEF NegativeAmount, sign
    <3> QED
      BY <2>2, <3>1, SpecialValues
  <2> QED
    BY <2>1, <2>2
<1>5. is_financial_adjustment(p) <=> \E c \in MONEY_COLUMNS : sign[c] = TRUE
  BY <1>3 DEF is_financial_adjustment
<1>6. is_financial_adjustment(p) => is_financial_adjustment(r)
  BY <1>3, <1>5 DEF is_financial_adjustment
<1>7. NegativeAmount(r) # TRUE =>
        \A c \in MONEY_COLUMNS :
           r.money[c] \notin {Null, Bad} => 2 * (-r.money[c]) < Hundredth
  BY <1>3, <1>4
<1> QED
  BY <1>4, <1>5, <1>6, <1>7 DEF FlagsAgree, p

(* The Spark contract and its "Pure equivalent" (silver_common.py) accept  *)
(* the same recorded rows, whatever the row, the zones and its rank; given *)
(* the raw row, the pure one may add the rule on passenger counts.         *)
THEOREM EveryRowAgrees ==
    ASSUME NEW r \in RawRow, NEW Z, NEW duplicate \in BOOLEAN
    PROVE  ClassifiersAgree(r, Z, duplicate)
<1> DEFINE spark == Conditions(r, Z, duplicate)
           pure  == FailedRules(Recorded(r), Z, duplicate)
           raw   == FailedRules(r, Z, duplicate)
<1>1. /\ DOMAIN spark = DOMAIN pure
      /\ "INVALID_DISTANCE" \in DOMAIN pure /\ "INVALID_DISTANCE" \notin SpuriousRules
      /\ "INVALID_MONETARY_VALUE" \in DOMAIN pure
      /\ "INVALID_MONETARY_VALUE" \notin SpuriousRules
      /\ \A rule \in DOMAIN pure \ SpuriousRules : spark[rule] = TRUE <=> pure[rule]
      /\ \A rule \in DOMAIN pure \cap SpuriousRules :
            /\ pure[rule] => spark[rule] = TRUE
            /\ spark[rule] = TRUE =>
                  \/ pure[rule] \/ pure["INVALID_DISTANCE"]
                  \/ pure["INVALID_MONETARY_VALUE"]
  BY RulesOfBoth DEF SpuriousRules
<1>2. /\ DOMAIN raw = DOMAIN pure
      /\ \A rule \in DOMAIN pure \ {"NEGATIVE_PASSENGER_COUNT"} : pure[rule] <=> raw[rule]
      /\ pure["NEGATIVE_PASSENGER_COUNT"] => raw["NEGATIVE_PASSENGER_COUNT"]
  BY RawRules
<1> DEFINE rs == rejection_rules(r, Z, duplicate)
           rp == classify_trip_record(Recorded(r), Z, duplicate)
           rr == classify_trip_record(r, Z, duplicate)
<1>3. rs = {rule \in DOMAIN spark : spark[rule] = TRUE}
  BY DEF rejection_rules
<1>4. /\ rp = {rule \in DOMAIN pure : pure[rule]}
      /\ rr = {rule \in DOMAIN raw : raw[rule]}
  BY DEF classify_trip_record
<1> HIDE DEF spark, pure, raw, rs, rp, rr
<1>5. rp \subseteq rs /\ rs \subseteq rp \cup SpuriousRules
  BY <1>1, <1>3, <1>4
<1>6. rs = {} <=> rp = {}
  <2>1. rs # {} => rp # {}
    BY <1>1, <1>3, <1>4
  <2> QED
    BY <1>5, <2>1
<1>7. rp \subseteq rr /\ rr \subseteq rp \cup {"NEGATIVE_PASSENGER_COUNT"}
  BY <1>2, <1>4
<1> QED
  BY <1>5, <1>6, <1>7 DEF ClassifiersAgree, rs, rp, rr

-----------------------------------------------------------------------------
(* What Silver's acceptance guarantees to Gold of a standardized row.      *)
Usable(s) ==
    /\ s.pickup \in Nat /\ s.dropoff \in Nat
    /\ s.passengers \in Int \cup {Null}
    /\ s.distance \in Int /\ s.distance >= 0
    /\ s.money[Fare] \in Int /\ s.money[Total] \in Int
    /\ \A c \in MONEY_COLUMNS : s.money[c] \in Int \cup {Null}

Accepted(r) == ~InvalidMonetaryCast(r) /\ Usable(Standardized(r))

(* A row without a rejection rule has what Gold computes with.             *)
LEMMA AcceptedIsUsable ==
    ASSUME NEW r \in RawRow, NEW Z, NEW duplicate \in BOOLEAN,
           rejection_rules(r, Z, duplicate) = {}
    PROVE  Accepted(r)
<1> DEFINE spark == Conditions(r, Z, duplicate)
           s == Standardized(r)
<1>1. {rule \in DOMAIN spark : spark[rule] = TRUE} = {}
  BY DEF rejection_rules
<1>2. /\ spark.NULL_PICKUP_TIMESTAMP # TRUE /\ spark.NULL_DROPOFF_TIMESTAMP # TRUE
      /\ spark.NULL_TRIP_DISTANCE # TRUE /\ spark.INVALID_DISTANCE # TRUE
      /\ spark.NEGATIVE_DISTANCE # TRUE
      /\ spark.NULL_FARE_AMOUNT # TRUE /\ spark.NULL_TOTAL_AMOUNT # TRUE
      /\ spark.INVALID_MONETARY_VALUE # TRUE
  BY <1>1 DEF Conditions
<1>3. /\ s.pickup # Null /\ s.dropoff # Null /\ s.distance # Null
      /\ s.distance \notin {NaN, PosInf, NegInf} /\ Negative(s.distance) # TRUE
      /\ s.money[Fare] # Null /\ s.money[Total] # Null
      /\ ~InvalidMonetaryCast(r)
  BY <1>2 DEF Conditions
<1>4. Fare \in MONEY_COLUMNS /\ Total \in MONEY_COLUMNS
  BY ColumnsAssumption
<1>5. /\ s.pickup = r.pickup /\ s.dropoff = r.dropoff /\ s.distance = r.distance
      /\ s.passengers = CastCount(r.passengers)
      /\ s.money = [c \in MONEY_COLUMNS |-> Cast(r.money[c])]
  BY StandardizedColumns
<1> HIDE DEF s
<1>6. \A c \in MONEY_COLUMNS : s.money[c] \in Int \cup {Null}
  <2> SUFFICES ASSUME NEW c \in MONEY_COLUMNS
               PROVE  Cast(r.money[c]) \in Int \cup {Null}
    BY <1>5
  <2> QED
    BY ColumnTypes, CastValues
<1>7. s.passengers \in Int \cup {Null}
  BY <1>5, ColumnTypes, CountValues
<1>8. s.distance \in Int
  BY <1>3, <1>5, ColumnTypes
<1>9. s.distance >= 0
  <2>1. (Negative(s.distance) = TRUE) <=> s.distance < 0
    BY <1>8, NegativeValues
  <2>2. ~(s.distance < 0)
    BY <1>3, <2>1
  <2> QED
    BY <1>8, <2>2
<1> QED
  BY <1>3, <1>4, <1>5, <1>6, <1>7, <1>8, <1>9, ColumnTypes DEF Accepted, Usable, s

(* A pair of numbers is no special value.                                  *)
LEMMA PairsAreFinite ==
    ASSUME NEW n \in Int, NEW d \in Int
    PROVE  <<n, d>> \notin {Null, NaN, PosInf, NegInf}
BY SpecialAssumption DEF Special

(* Over operands Silver accepts, the guarded Spark quotient and safe_ratio *)
(* are the same wherever their condition holds.                            *)
LEMMA RatiosAgree ==
    ASSUME NEW n \in Int \cup {Null}, NEW d \in Int, d > 0
    PROVE  Quotient(n, d) \notin {NaN, PosInf, NegInf} /\ Quotient(n, d) = safe_ratio(n, d)
<1>0. d # 0 /\ d # Null /\ IsFinite(d)
  BY SpecialValues DEF IsFinite
<1>1. CASE n = Null
  <2>1. Quotient(n, d) = Null
    BY <1>1 DEF Quotient
  <2>2. safe_ratio(n, d) = Null
    BY <1>1 DEF safe_ratio
  <2> QED
    BY <2>1, <2>2, SpecialValues
<1>2. CASE n \in Int
  <2>1. n # Null /\ n \notin {NaN, PosInf, NegInf}
    BY <1>2, SpecialValues
  <2>2. Quotient(n, d) = <<n, d>>
    BY <1>0, <2>1 DEF Quotient
  <2>3. safe_ratio(n, d) = <<n, d>>
    BY <1>0, <2>1 DEF safe_ratio, IsFinite
  <2> QED
    BY <1>2, <2>2, <2>3, PairsAreFinite
<1> QED
  BY <1>1, <1>2

(* Gold derives for every accepted row what derived_trip_metrics does.     *)
THEOREM AcceptedMeasuresAgree ==
    ASSUME NEW s, Usable(s)
    PROVE  MeasuresAgree(s)
<1> DEFINE duration == duration_minutes(s)
<1>1. {Fare, Tip} \subseteq MONEY_COLUMNS
  BY ColumnsAssumption
<1>2. s.distance \in Int /\ s.money[Fare] \in Int /\ s.money[Tip] \in Int \cup {Null}
  BY <1>1 DEF Usable
<1>3. duration \in Int
  BY DEF Usable, duration_minutes
<1> HIDE DEF duration
<1>4. finite_ratio(s.distance, duration, duration > 0 /\ Negative(s.distance) = FALSE)
      = IF duration > 0 THEN safe_ratio(s.distance, duration) ELSE Null
  <2>1. Negative(s.distance) = FALSE
    BY <1>2, NotNegative DEF Usable
  <2> QED
    BY <1>2, <1>3, <2>1, RatiosAgree DEF finite_ratio
<1>5. finite_ratio(s.money[Fare], s.distance, s.distance > 0)
      = IF s.distance > 0 THEN safe_ratio(s.money[Fare], s.distance) ELSE Null
  BY <1>2, RatiosAgree DEF finite_ratio
<1>6. finite_ratio(s.money[Tip], s.money[Fare], s.money[Fare] > 0)
      = IF s.money[Fare] > 0 THEN safe_ratio(s.money[Tip], s.money[Fare]) ELSE Null
  BY <1>2, RatiosAgree DEF finite_ratio
<1> QED
  BY <1>4, <1>5, <1>6 DEF MeasuresAgree, GoldMeasures, derived_trip_metrics, duration

-----------------------------------------------------------------------------
(* The inductive invariant: what Silver keeps is accepted, a fact is the   *)
(* Gold row of an accepted row, and what is landed comes from such a fact. *)
ValidRowsAccepted ==
    \A i \in valid : Accepted(bronze[i])
FactsAreGoldRows ==
    \A i \in DOMAIN fact : Accepted(bronze[i]) /\ fact[i] = GoldRow(bronze[i])
LandedRowsAreFacts ==
    \A i \in DOMAIN landed :
        Accepted(bronze[i]) /\ landed[i] = prepare_landing_frame(GoldRow(bronze[i]))

LandedLast ==
    stage \notin {"landed", "failed"} => DOMAIN landed = {}

RowsInv ==
    TypeOK /\ ValidRowsAccepted /\ FactsAreGoldRows /\ LandedRowsAreFacts /\ LandedLast

(* The trips an evaluation of build_trip_frames keeps are accepted ones.   *)
LEMMA ValidTripsAccepted ==
    ASSUME bronze \in Seq(RawRow), NEW e
    PROVE  /\ ValidTrips(e) \subseteq DOMAIN bronze
           /\ \A i \in ValidTrips(e) : Accepted(bronze[i])
<1>1. SUFFICES ASSUME NEW i \in ValidTrips(e)
               PROVE  i \in DOMAIN bronze /\ Accepted(bronze[i])
  OBVIOUS
<1>2. i \in DOMAIN bronze /\ RulesOf(i, e) = {}
  BY DEF ValidTrips
<1>3. bronze[i] \in RawRow
  BY <1>2
<1>4. (i \notin e[1]) \in BOOLEAN
  OBVIOUS
<1> QED
  BY <1>2, <1>3, <1>4, AcceptedIsUsable DEF RulesOf

(* A completely described zone has a location id.                          *)
LEMMA ZoneLocations ==
    ASSUME lookup \in Seq(ZoneRow), NEW Z \in FirstRanked(ZoneIds)
    PROVE  LocationIds(ValidZoneRows(Z)) \subseteq Locations
<1>1. Z \subseteq DOMAIN lookup
  BY DEF FirstRanked, ZoneIds
<1>2. \A i \in ValidZoneRows(Z) : lookup[i] \in ZoneRow /\ lookup[i].id # Null
  BY <1>1 DEF ValidZoneRows, ZoneIsComplete
<1> QED
  BY <1>2 DEF LocationIds, ZoneRow, Places

(* The first batch satisfies the invariant.                                *)
LEMMA RowsInit == Init => RowsInv
BY BatchAssumption
   DEF Init, RowsInv, TypeOK, Stages, Empty, ValidRowsAccepted, FactsAreGoldRows,
       LandedRowsAreFacts, LandedLast

(* Every notebook keeps it.                                                *)
LEMMA RowsStep == RowsInv /\ [Next]_vars => RowsInv'
<1> SUFFICES ASSUME RowsInv, [Next]_vars
             PROVE  RowsInv'
  OBVIOUS
<1> USE DEF RowsInv
<1>1. CASE TransformFactTrips
  <2>1. UNCHANGED <<bronze, lookup, zones, fact, landed>>
    BY <1>1 DEF TransformFactTrips, inputs, aggs
  <2>2. stage = "silver_01" /\ stage' \in Stages
    BY <1>1 DEF TransformFactTrips, GoOnIf, Stages
  <2>3. \/ UNCHANGED <<valid, rejected>>
        \/ \E ev, er \in Evaluations : /\ valid' = ValidTrips(ev)
                                      /\ DOMAIN rejected' = RejectedTrips(er)
    BY <1>1 DEF TransformFactTrips
  <2>4. /\ valid' \subseteq DOMAIN bronze /\ DOMAIN rejected' \subseteq DOMAIN bronze
        /\ \A i \in valid' : Accepted(bronze[i])
    BY <2>3, ValidTripsAccepted DEF TypeOK, ValidRowsAccepted, RejectedTrips
  <2> QED
    BY <2>1, <2>2, <2>4
       DEF TypeOK, ValidRowsAccepted, FactsAreGoldRows, LandedRowsAreFacts, LandedLast
<1>2. CASE TransformTaxiZones
  <2>1. UNCHANGED <<bronze, lookup, valid, rejected, fact, landed>>
    BY <1>2 DEF TransformTaxiZones, inputs, aggs
  <2>2. stage = "silver_02" /\ stage' \in Stages
    BY <1>2 DEF TransformTaxiZones, GoOnIf, Stages
  <2>3. \/ UNCHANGED zones
        \/ \E Z \in FirstRanked(ZoneIds) : zones' = LocationIds(ValidZoneRows(Z))
    BY <1>2 DEF TransformTaxiZones
  <2>4. zones' \subseteq Locations
    BY <2>3, ZoneLocations DEF TypeOK
  <2> QED
    BY <2>1, <2>2, <2>4
       DEF TypeOK, ValidRowsAccepted, FactsAreGoldRows, LandedRowsAreFacts, LandedLast
<1>3. CASE SilverQuality \/ ValidatePhase5 \/ BuildDimLocation \/ BuildAggregations
           \/ GoldQuality
  <2>1. UNCHANGED <<bronze, lookup, valid, rejected, zones, fact, landed>>
    BY <1>3 DEF SilverQuality, ValidatePhase5, BuildDimLocation, BuildAggregations,
                GoldQuality, inputs, silver, aggs
  <2>2. stage \notin {"landed", "failed"} /\ stage' \in Stages
    BY <1>3 DEF SilverQuality, ValidatePhase5, BuildDimLocation, BuildAggregations,
                GoldQuality, GoOnIf, Stages
  <2> QED
    BY <2>1, <2>2
       DEF TypeOK, ValidRowsAccepted, FactsAreGoldRows, LandedRowsAreFacts, LandedLast
<1>4. CASE BuildGoldFact
  <2>1. UNCHANGED <<bronze, lookup, valid, rejected, zones, landed>>
    BY <1>4 DEF BuildGoldFact, inputs, silver, aggs
  <2>2. stage = "gold_04" /\ stage' \in Stages
    BY <1>4 DEF BuildGoldFact, GoOnIf, Stages
  <2>3. DOMAIN fact' = valid /\ \A i \in valid : fact'[i] = GoldRow(bronze[i])
    BY <1>4 DEF BuildGoldFact
  <2> QED
    BY <2>1, <2>2, <2>3
       DEF TypeOK, ValidRowsAccepted, FactsAreGoldRows, LandedRowsAreFacts, LandedLast
<1>5. CASE LoadLanding
  <2>1. UNCHANGED <<bronze, lookup, valid, rejected, zones, fact>>
    BY <1>5 DEF LoadLanding, inputs, silver
  <2>2. stage' \in {"landed", "failed"}
    BY <1>5 DEF LoadLanding, GoOnIf, Stages
  <2>3. /\ DOMAIN landed' = DOMAIN fact
        /\ \A i \in DOMAIN fact : landed'[i] = prepare_landing_frame(fact[i])
    BY <1>5 DEF LoadLanding
  <2>4. \A i \in DOMAIN fact :
          /\ Accepted(bronze[i])
          /\ prepare_landing_frame(fact[i]) = prepare_landing_frame(GoldRow(bronze[i]))
    BY DEF FactsAreGoldRows
  <2>5. LandedRowsAreFacts'
    BY <2>1, <2>3, <2>4 DEF LandedRowsAreFacts
  <2> QED
    BY <2>1, <2>2, <2>3, <2>5
       DEF TypeOK, Stages, ValidRowsAccepted, FactsAreGoldRows, LandedLast
<1>6. CASE UNCHANGED vars
  BY <1>6 DEF vars, inputs, silver, aggs, TypeOK, ValidRowsAccepted, FactsAreGoldRows,
              LandedRowsAreFacts, LandedLast
<1> QED
  BY <1>1, <1>2, <1>3, <1>4, <1>5, <1>6 DEF Next

(* The rows of the batch are well formed and stay so.                      *)
THEOREM RowsInvariant == Spec => []RowsInv
BY RowsInit, RowsStep, PTL DEF Spec

(* The state stays well typed.                                             *)
THEOREM RecordsTypeCorrect == Spec => []TypeOK
<1>1. RowsInv => TypeOK
  BY DEF RowsInv
<1> QED
  BY <1>1, RowsInvariant, PTL

(* For every batch and lookup, Silver's Spark rules reject the rows that   *)
(* classify_trip_record rejects, given the two decimals the tables keep,   *)
(* whatever rows rank first.                                               *)
THEOREM ClassificationCorrect == Spec => []ClassificationAgrees
<1>1. RowsInv => ClassificationAgrees
  <2> SUFFICES ASSUME RowsInv, NEW i \in DOMAIN bronze
               PROVE  /\ FlagsAgree(bronze[i])
                      /\ \A Z \in FirstRanked(ZoneIds) : \A duplicate \in BOOLEAN :
                            ClassifiersAgree(bronze[i], LocationIds(ValidZoneRows(Z)), duplicate)
    BY DEF ClassificationAgrees
  <2>1. bronze[i] \in RawRow
    BY DEF RowsInv, TypeOK
  <2> QED
    BY <2>1, EveryFlagAgrees, EveryRowAgrees
<1> QED
  BY <1>1, RowsInvariant, PTL

(* Every fact, of every batch, has the measures of derived_trip_metrics.   *)
THEOREM MeasuresCorrect == Spec => []MeasuresMatchPure
<1>1. RowsInv => MeasuresMatchPure
  <2> SUFFICES ASSUME RowsInv, NEW i \in DOMAIN fact
               PROVE  fact[i].measures = derived_trip_metrics(fact[i].trip)
    BY DEF MeasuresMatchPure
  <2> DEFINE s == Standardized(bronze[i])
  <2>1. Usable(s) /\ fact[i] = GoldRow(bronze[i])
    BY DEF RowsInv, FactsAreGoldRows, Accepted
  <2>2. GoldMeasures(s) = derived_trip_metrics(s)
    BY <2>1, AcceptedMeasuresAgree DEF MeasuresAgree
  <2> QED
    BY <2>1, <2>2 DEF GoldRow
<1> QED
  BY <1>1, RowsInvariant, PTL

(* Where no amount is invalid the recorded row is the standardized one.    *)
LEMMA RecordedIsStandardized ==
    ASSUME NEW r \in RawRow, ~InvalidMonetaryCast(r)
    PROVE  Recorded(r) = Standardized(r)
<1>1. \A c \in MONEY_COLUMNS : r.money[c] # Bad
  BY SpecialValues DEF InvalidMonetaryCast, Cast
<1>2. [c \in MONEY_COLUMNS |-> IF r.money[c] = Bad THEN Bad ELSE Cast(r.money[c])]
        = [c \in MONEY_COLUMNS |-> Cast(r.money[c])]
  BY <1>1
<1>3. Standardized(r) = [Standardized(r) EXCEPT
                            !.money = [c \in MONEY_COLUMNS |-> Cast(r.money[c])]]
  BY DEF Standardized, RawRow
<1> QED
  BY <1>2, <1>3 DEF Recorded

(* The flag landed in Snowflake is the one is_financial_adjustment gives   *)
(* the landed amounts, and differs from that of the raw ones by nothing    *)
(* but amounts of less than half a cent.                                   *)
THEOREM LandedFlagCorrect == Spec => []LandedFlagMatchesPure
<1>1. RowsInv => LandedFlagMatchesPure
  <2> SUFFICES ASSUME RowsInv, NEW i \in DOMAIN landed
               PROVE  LET flag == landed[i].is_financial_adjustment
                          raw  == bronze[i].money
                      IN  /\ flag = is_financial_adjustment(landed[i].trip)
                          /\ flag => is_financial_adjustment(bronze[i])
                          /\ ~flag => \A c \in MONEY_COLUMNS :
                                         raw[c] # Null => 2 * (-raw[c]) < Hundredth
    BY DEF LandedFlagMatchesPure
  <2> DEFINE r == bronze[i]
             flag == NegativeAmount(r)
             kept == landed[i].is_financial_adjustment
  <2>1. r \in RawRow /\ landed[i] = prepare_landing_frame(GoldRow(r))
    BY DEF RowsInv, TypeOK, LandedRowsAreFacts
  <2>2. kept = Coalesce(flag, FALSE) /\ landed[i].trip = Standardized(r)
    BY <2>1 DEF prepare_landing_frame, GoldRow
  <2>3. ~InvalidMonetaryCast(r)
    BY DEF RowsInv, LandedRowsAreFacts, Accepted
  <2>4. Recorded(r) = Standardized(r)
    BY <2>1, <2>3, RecordedIsStandardized
  <2>5. \A c \in MONEY_COLUMNS : r.money[c] # Bad
    BY <2>3, SpecialValues DEF InvalidMonetaryCast, Cast
  <2>6. FlagsAgree(r)
    BY <2>1, EveryFlagAgrees
  <2>7. flag \in {TRUE, FALSE, Null}
    BY DEF NegativeAmount
  <2> HIDE DEF flag
  <2>8. Coalesce(flag, FALSE) \in BOOLEAN /\ (Coalesce(flag, FALSE) = TRUE <=> flag = TRUE)
    BY <2>7, SpecialValues DEF Coalesce
  <2>9. is_financial_adjustment(Standardized(r)) \in BOOLEAN
    BY DEF is_financial_adjustment
  <2>10. kept = is_financial_adjustment(Standardized(r))
    BY <2>2, <2>4, <2>6, <2>8, <2>9 DEF FlagsAgree, flag
  <2>11. kept => is_financial_adjustment(r)
    BY <2>4, <2>6, <2>10 DEF FlagsAgree
  <2>12. ~kept => \A c \in MONEY_COLUMNS : r.money[c] # Null => 2 * (-r.money[c]) < Hundredth
    <3>1. ~kept => flag # TRUE
      BY <2>2, <2>8
    <3> QED
      BY <3>1, <2>5, <2>6 DEF FlagsAgree, flag
  <2> QED
    BY <2>2, <2>10, <2>11, <2>12
<1> QED
  BY <1>1, RowsInvariant, PTL

-----------------------------------------------------------------------------
(* Sums over the facts. *)

(* The rows of a batch and of a lookup are finitely many.                  *)
LEMMA RowsAreFinite ==
    ASSUME TypeOK
    PROVE  /\ IsFiniteSet(DOMAIN bronze) /\ IsFiniteSet(DOMAIN fact)
           /\ IsFiniteSet(DOMAIN lookup)
<1>1. \A s : s \in Seq(RawRow) \/ s \in Seq(ZoneRow) => IsFiniteSet(DOMAIN s)
  <2> SUFFICES ASSUME NEW s, s \in Seq(RawRow) \/ s \in Seq(ZoneRow)
               PROVE  IsFiniteSet(DOMAIN s)
    OBVIOUS
  <2>1. Len(s) \in Nat /\ DOMAIN s = 1 .. Len(s)
    OBVIOUS
  <2> QED
    BY <2>1, FS_Interval
<1> QED
  BY <1>1, FS_Subset DEF TypeOK

(* A number is no NULL.                                                    *)
LEMMA NumbersAreKnown == \A x \in Int : x # Null
BY SpecialValues

(* SQL's SUM over a group without NULLs is the sum, and NULL over nothing. *)
LEMMA SumOfKnown ==
    ASSUME NEW G, IsFiniteSet(G), NEW f, \A i \in G : f[i] \in Int
    PROVE  SqlSum([i \in G |-> f[i]]) = IF G = {} THEN Null ELSE SumFunctionOnSet(f, G)
<1> DEFINE g == [i \in G |-> f[i]]
<1>1. KnownIn(g) = G
  BY NumbersAreKnown DEF KnownIn
<1>2. SumFunctionOnSet(g, G) = SumFunctionOnSet(f, G)
  BY SumSame
<1> QED
  BY <1>1, <1>2 DEF SqlSum

(* SumFunction over all of a function's domain.                            *)
LEMMA SumOfFunction ==
    ASSUME NEW G, IsFiniteSet(G), NEW f
    PROVE  SumFunction([i \in G |-> f[i]]) = SumFunctionOnSet(f, G)
<1> DEFINE g == [i \in G |-> f[i]]
<1>1. SumFunctionOnSet(g, G) = SumFunctionOnSet(f, G)
  BY SumSame
<1> QED
  BY <1>1 DEF SumFunction

(* A column of an aggregate that holds the sums of its groups adds up to   *)
(* the whole, if every element of F is in a group.                         *)
LEMMA GroupsAddUp ==
    ASSUME NEW F, IsFiniteSet(F), NEW f, \A i \in F : f[i] \in Int,
           NEW key, NEW agg, IsFiniteSet(DOMAIN agg), NEW column,
           \A i \in F : key[i] \in DOMAIN agg,
           \A k \in DOMAIN agg :
               agg[k][column] = SumFunctionOnSet(f, Having(F, key, k))
    PROVE  Sum(agg, column) = SumFunctionOnSet(f, F)
<1> DEFINE h == [k \in DOMAIN agg |-> agg[k][column]]
<1>1. SumFunctionOnSet(h, DOMAIN agg)
        = SumFunctionOnSet(f, Group(F, key, DOMAIN agg))
  <2>1. \A k \in DOMAIN agg : h[k] = SumFunctionOnSet(f, Having(F, key, k))
    OBVIOUS
  <2> HIDE DEF h
  <2> QED
    BY <2>1, SumGroups
<1>2. Group(F, key, DOMAIN agg) = F
  BY DEF Group
<1>3. SumFunction(h) = SumFunctionOnSet(h, DOMAIN agg)
  BY DEF SumFunction
<1> QED
  BY <1>1, <1>2, <1>3 DEF Sum

(* The columns of a fact that aggregates sum up are numbers, but for an    *)
(* unknown number of passengers.                                           *)
LEMMA FactColumns ==
    ASSUME RowsInv, NEW i \in DOMAIN fact
    PROVE  /\ fact[i].trip.money[Total] \in Int /\ fact[i].trip.distance \in Int
           /\ fact[i].trip.passengers \in Int \cup {Null}
           /\ fact[i].is_financial_adjustment = NegativeAmount(bronze[i])
<1>1. Usable(Standardized(bronze[i])) /\ fact[i] = GoldRow(bronze[i])
  BY DEF RowsInv, FactsAreGoldRows, Accepted
<1>2. /\ fact[i].trip = Standardized(bronze[i])
      /\ fact[i].is_financial_adjustment = NegativeAmount(bronze[i])
  BY <1>1 DEF GoldRow
<1> QED
  BY <1>1, <1>2 DEF Usable

-----------------------------------------------------------------------------
(* From notebook 05 on the aggregates are those of the facts, and what     *)
(* passed notebook 06 stays as it was accepted.                            *)
AggregatesBuilt ==
    /\ stage \in {"gold_06", "snowflake_02", "landed"} =>
          /\ daily = build_daily_aggregation
          /\ hourly = build_hourly_aggregation
          /\ location = build_location_aggregation
    /\ stage \in {"snowflake_02", "landed"} => GoldPasses
    /\ IsFiniteSet(zones)

LEMMA BuiltInit == Init => AggregatesBuilt
BY FS_EmptySet DEF Init, AggregatesBuilt

(* The values of a function on a finite set are finitely many.             *)
LEMMA ImageFinite ==
    ASSUME NEW g, NEW S, IsFiniteSet(S)
    PROVE  IsFiniteSet({g[i] : i \in S})
<1> DEFINE h == [i \in S |-> g[i]]
           T == {g[i] : i \in S}
<1>1. h \in Surjection(S, T)
  BY DEF Surjection
<1> HIDE DEF h, T
<1>2. IsFiniteSet(T)
  BY <1>1, FS_Surjection
<1> QED
  BY <1>2 DEF T

LEMMA LocationIdsFinite ==
    ASSUME TypeOK, NEW Z \in FirstRanked(ZoneIds)
    PROVE  IsFiniteSet(LocationIds(ValidZoneRows(Z)))
<1>1. ValidZoneRows(Z) \subseteq DOMAIN lookup
  BY DEF ValidZoneRows, FirstRanked, ZoneIds
<1>2. IsFiniteSet(ValidZoneRows(Z))
  BY <1>1, RowsAreFinite, FS_Subset
<1> DEFINE id == [i \in DOMAIN lookup |-> lookup[i].id]
<1>3. LocationIds(ValidZoneRows(Z)) = {id[i] : i \in ValidZoneRows(Z)}
  BY <1>1 DEF LocationIds
<1> HIDE DEF id
<1> QED
  BY <1>2, <1>3, ImageFinite

LEMMA SameAggregates ==
    /\ UNCHANGED <<fact, zones>> =>
          UNCHANGED <<build_daily_aggregation, build_hourly_aggregation,
                      build_location_aggregation>>
    /\ UNCHANGED <<bronze, fact, zones, aggs>> => UNCHANGED GoldPasses
<1>1. UNCHANGED fact => UNCHANGED build_daily_aggregation
  BY DEF build_daily_aggregation, DailyRow, Revenue, Distance
<1>2. UNCHANGED fact => UNCHANGED build_hourly_aggregation
  BY DEF build_hourly_aggregation, Revenue, Distance
<1>3. UNCHANGED <<fact, zones>> => UNCHANGED build_location_aggregation
  BY DEF build_location_aggregation, Revenue, Distance
<1>4. UNCHANGED <<bronze, fact, zones, aggs>> => UNCHANGED GoldPasses
  BY DEF GoldPasses, aggs, FactRevenue, Sum, TripIds
<1> QED
  BY <1>1, <1>2, <1>3, <1>4

LEMMA BuiltStep == TypeOK /\ AggregatesBuilt /\ [Next]_vars => AggregatesBuilt'
<1> SUFFICES ASSUME TypeOK, AggregatesBuilt, [Next]_vars
             PROVE  AggregatesBuilt'
  OBVIOUS
<1>1. CASE TransformFactTrips \/ TransformTaxiZones \/ SilverQuality \/ ValidatePhase5
           \/ BuildDimLocation \/ BuildGoldFact
  <2>1. stage' \notin {"gold_06", "snowflake_02", "landed"}
    BY <1>1 DEF TransformFactTrips, TransformTaxiZones, SilverQuality, ValidatePhase5,
                BuildDimLocation, BuildGoldFact, GoOnIf
  <2>2. \/ UNCHANGED zones
        \/ \E Z \in FirstRanked(ZoneIds) : zones' = LocationIds(ValidZoneRows(Z))
    BY <1>1 DEF TransformFactTrips, TransformTaxiZones, SilverQuality, ValidatePhase5,
                BuildDimLocation, BuildGoldFact, silver
  <2> QED
    BY <2>1, <2>2, LocationIdsFinite DEF AggregatesBuilt
<1>2. CASE BuildAggregations
  <2>1. /\ UNCHANGED <<fact, zones>> /\ stage' = "gold_06"
        /\ daily' = build_daily_aggregation
        /\ hourly' = build_hourly_aggregation
        /\ location' = build_location_aggregation
    BY <1>2 DEF BuildAggregations, silver
  <2> QED
    BY <2>1, SameAggregates DEF AggregatesBuilt
<1>3. CASE GoldQuality
  <2>1. /\ UNCHANGED <<bronze, fact, zones, aggs, daily, hourly, location>>
        /\ stage = "gold_06" /\ stage' \in {"snowflake_02", "failed"}
        /\ stage' = "snowflake_02" => GoldPasses
    BY <1>3 DEF GoldQuality, GoOnIf, silver, inputs, aggs
  <2> QED
    BY <2>1, SameAggregates DEF AggregatesBuilt
<1>4. CASE LoadLanding
  <2>1. /\ UNCHANGED <<bronze, fact, zones, aggs, daily, hourly, location>>
        /\ stage = "snowflake_02" /\ stage' \in {"landed", "failed"}
    BY <1>4 DEF LoadLanding, GoOnIf, silver, inputs, aggs
  <2> QED
    BY <2>1, SameAggregates DEF AggregatesBuilt
<1>5. CASE UNCHANGED vars
  <2>1. UNCHANGED <<bronze, fact, zones, aggs, daily, hourly, location, stage>>
    BY <1>5 DEF vars, silver, inputs, aggs
  <2> QED
    BY <2>1, SameAggregates DEF AggregatesBuilt
<1> QED
  BY <1>1, <1>2, <1>3, <1>4, <1>5 DEF Next

(* The aggregates of an accepted batch are computed from its facts.        *)
THEOREM AggregatesInvariant == Spec => []AggregatesBuilt
BY BuiltInit, BuiltStep, RecordsTypeCorrect, PTL DEF Spec

-----------------------------------------------------------------------------
(* What the facts of a group sum up to. *)

TripTotals    == [i \in DOMAIN fact |-> fact[i].trip.money[Total]]
TripDistances == [i \in DOMAIN fact |-> fact[i].trip.distance]

LEMMA TripNumbers ==
    ASSUME RowsInv
    PROVE  \A i \in DOMAIN fact : TripTotals[i] \in Int /\ TripDistances[i] \in Int
BY FactColumns DEF TripTotals, TripDistances

LEMMA GroupSums ==
    ASSUME RowsInv, NEW G, G \subseteq DOMAIN fact
    PROVE  /\ IsFiniteSet(G)
           /\ SumFunctionOnSet(TripTotals, G) \in Int
           /\ SumFunctionOnSet(TripDistances, G) \in Int
           /\ Revenue(G) = IF G = {} THEN Null ELSE SumFunctionOnSet(TripTotals, G)
           /\ Distance(G) = IF G = {} THEN Null ELSE SumFunctionOnSet(TripDistances, G)
<1>1. IsFiniteSet(G)
  BY RowsAreFinite, FS_Subset DEF RowsInv
<1>2. \A i \in G : TripTotals[i] \in Int /\ TripDistances[i] \in Int
  BY TripNumbers
<1>3. /\ SumFunctionOnSet(TripTotals, G) \in Int
      /\ SumFunctionOnSet(TripDistances, G) \in Int
  BY <1>1, <1>2, SumInt
<1>4. /\ [i \in G |-> fact[i].trip.money[Total]] = [i \in G |-> TripTotals[i]]
      /\ [i \in G |-> fact[i].trip.distance] = [i \in G |-> TripDistances[i]]
  BY DEF TripTotals, TripDistances
<1>5. /\ SqlSum([i \in G |-> TripTotals[i]])
          = IF G = {} THEN Null ELSE SumFunctionOnSet(TripTotals, G)
      /\ SqlSum([i \in G |-> TripDistances[i]])
          = IF G = {} THEN Null ELSE SumFunctionOnSet(TripDistances, G)
  BY <1>1, <1>2, SumOfKnown
<1> QED
  BY <1>1, <1>3, <1>4, <1>5 DEF Revenue, Distance

(* An aggregate whose rows hold the sums of their groups adds up.          *)
LEMMA GroupedAddsUp ==
    ASSUME RowsInv, NEW agg, IsFiniteSet(DOMAIN agg), NEW key,
           \A i \in DOMAIN fact : key[i] \in DOMAIN agg,
           \A k \in DOMAIN agg :
             /\ agg[k]["total_revenue"]
                  = SumFunctionOnSet(TripTotals, Having(DOMAIN fact, key, k))
             /\ agg[k]["total_distance"]
                  = SumFunctionOnSet(TripDistances, Having(DOMAIN fact, key, k))
    PROVE  AddsUp(agg)
<1>1. IsFiniteSet(DOMAIN fact)
  BY RowsAreFinite DEF RowsInv
<1>2. /\ FactRevenue = SumFunctionOnSet(TripTotals, DOMAIN fact)
      /\ SumFunction([i \in DOMAIN fact |-> fact[i].trip.distance])
          = SumFunctionOnSet(TripDistances, DOMAIN fact)
  BY DEF FactRevenue, SumFunction, TripTotals, TripDistances
<1>3. Sum(agg, "total_revenue") = SumFunctionOnSet(TripTotals, DOMAIN fact)
  BY <1>1, TripNumbers, GroupsAddUp
<1>4. Sum(agg, "total_distance") = SumFunctionOnSet(TripDistances, DOMAIN fact)
  BY <1>1, TripNumbers, GroupsAddUp
<1> QED
  BY <1>2, <1>3, <1>4 DEF AddsUp

LEMMA DailyAddsUp ==
    ASSUME RowsInv, daily = build_daily_aggregation
    PROVE  AddsUp(daily)
<1> DEFINE key == [i \in DOMAIN fact |-> fact[i].pickup_date_key]
<1>1. DOMAIN daily = {key[i] : i \in DOMAIN fact}
  BY DEF build_daily_aggregation
<1>2. IsFiniteSet(DOMAIN daily)
  <2>1. IsFiniteSet(DOMAIN fact)
    BY RowsAreFinite DEF RowsInv
  <2> HIDE DEF key
  <2> QED
    BY <1>1, <2>1, ImageFinite
<1>3. ASSUME NEW d \in DOMAIN daily
      PROVE  /\ daily[d]["total_revenue"]
                  = SumFunctionOnSet(TripTotals, Having(DOMAIN fact, key, d))
             /\ daily[d]["total_distance"]
                  = SumFunctionOnSet(TripDistances, Having(DOMAIN fact, key, d))
  <2> DEFINE G == Having(DOMAIN fact, key, d)
  <2>1. G = {i \in DOMAIN fact : fact[i].pickup_date_key = d}
    BY DEF Having
  <2>2. daily[d] = DailyRow(G)
    BY <2>1 DEF build_daily_aggregation
  <2>3. G # {} /\ G \subseteq DOMAIN fact
    BY <1>1, <2>1
  <2> HIDE DEF G
  <2>4. /\ Revenue(G) = SumFunctionOnSet(TripTotals, G)
        /\ Distance(G) = SumFunctionOnSet(TripDistances, G)
    BY <2>3, GroupSums
  <2>5. daily[d].total_revenue = Revenue(G) /\ daily[d].total_distance = Distance(G)
    BY <2>2 DEF DailyRow
  <2> QED
    BY <2>4, <2>5 DEF G
<1>4. \A i \in DOMAIN fact : key[i] \in DOMAIN daily
  BY <1>1
<1> HIDE DEF key
<1> QED
  BY <1>2, <1>3, <1>4, GroupedAddsUp

LEMMA HourlyAddsUp ==
    ASSUME RowsInv, hourly = build_hourly_aggregation
    PROVE  AddsUp(hourly)
<1> DEFINE key == [i \in DOMAIN fact |->
                      <<fact[i].pickup_date_key, fact[i].pickup_time_key[1]>>]
<1>1. DOMAIN hourly = {key[i] : i \in DOMAIN fact}
  BY DEF build_hourly_aggregation
<1>2. IsFiniteSet(DOMAIN hourly)
  <2>1. IsFiniteSet(DOMAIN fact)
    BY RowsAreFinite DEF RowsInv
  <2> HIDE DEF key
  <2> QED
    BY <1>1, <2>1, ImageFinite
<1>3. ASSUME NEW h \in DOMAIN hourly
      PROVE  /\ hourly[h]["total_revenue"]
                  = SumFunctionOnSet(TripTotals, Having(DOMAIN fact, key, h))
             /\ hourly[h]["total_distance"]
                  = SumFunctionOnSet(TripDistances, Having(DOMAIN fact, key, h))
  <2> DEFINE G == Having(DOMAIN fact, key, h)
  <2>1. G = {i \in DOMAIN fact :
                <<fact[i].pickup_date_key, fact[i].pickup_time_key[1]>> = h}
    BY DEF Having
  <2>2. hourly[h] = [trip_count |-> Cardinality(G), total_revenue |-> Revenue(G),
                     total_distance |-> Distance(G)]
    BY <2>1 DEF build_hourly_aggregation
  <2>3. G # {} /\ G \subseteq DOMAIN fact
    BY <1>1, <2>1
  <2> HIDE DEF G
  <2>4. /\ Revenue(G) = SumFunctionOnSet(TripTotals, G)
        /\ Distance(G) = SumFunctionOnSet(TripDistances, G)
    BY <2>3, GroupSums
  <2>5. hourly[h].total_revenue = Revenue(G) /\ hourly[h].total_distance = Distance(G)
    BY <2>2
  <2> QED
    BY <2>4, <2>5 DEF G
<1>4. \A i \in DOMAIN fact : key[i] \in DOMAIN hourly
  BY <1>1
<1> HIDE DEF key
<1> QED
  BY <1>2, <1>3, <1>4, GroupedAddsUp

(* A location where no trip started has a row as well, with zeros.         *)
LEMMA LocationAddsUp ==
    ASSUME RowsInv, location = build_location_aggregation, IsFiniteSet(zones), GoldPasses
    PROVE  AddsUp(location)
<1> DEFINE key == [i \in DOMAIN fact |-> fact[i].trip.pickup_location]
<1>1. DOMAIN location = zones
  BY DEF build_location_aggregation
<1>2. \A i \in DOMAIN fact : key[i] \in DOMAIN location
  BY <1>1 DEF GoldPasses
<1>3. ASSUME NEW z \in DOMAIN location
      PROVE  /\ location[z]["total_revenue"]
                  = SumFunctionOnSet(TripTotals, Having(DOMAIN fact, key, z))
             /\ location[z]["total_distance"]
                  = SumFunctionOnSet(TripDistances, Having(DOMAIN fact, key, z))
  <2> DEFINE P == Having(DOMAIN fact, key, z)
  <2>1. P = {i \in DOMAIN fact : fact[i].trip.pickup_location = z}
    BY DEF Having
  <2>2. /\ location[z].total_revenue = Coalesce(Revenue(P), 0)
        /\ location[z].total_distance = Coalesce(Distance(P), 0)
    BY <1>1, <2>1 DEF build_location_aggregation
  <2>3. P \subseteq DOMAIN fact
    BY <2>1
  <2> HIDE DEF P
  <2>4. /\ SumFunctionOnSet(TripTotals, P) \in Int
        /\ SumFunctionOnSet(TripDistances, P) \in Int
        /\ Revenue(P) = IF P = {} THEN Null ELSE SumFunctionOnSet(TripTotals, P)
        /\ Distance(P) = IF P = {} THEN Null ELSE SumFunctionOnSet(TripDistances, P)
    BY <2>3, GroupSums
  <2>5. P = {} => /\ SumFunctionOnSet(TripTotals, P) = 0
                  /\ SumFunctionOnSet(TripDistances, P) = 0
    BY SumEmpty
  <2>6. /\ Coalesce(Revenue(P), 0) = SumFunctionOnSet(TripTotals, P)
        /\ Coalesce(Distance(P), 0) = SumFunctionOnSet(TripDistances, P)
    BY <2>4, <2>5, NumbersAreKnown DEF Coalesce
  <2> QED
    BY <2>2, <2>6 DEF P
<1> HIDE DEF key
<1> QED
  BY <1>1, <1>2, <1>3, GroupedAddsUp

(* For every accepted batch, revenue and distance add up in all three      *)
(* aggregates, although Gold's gate compares only the daily revenue.       *)
THEOREM AggregatesCorrect == Spec => []AggregatesAddUp
<1>1. RowsInv /\ AggregatesBuilt => AggregatesAddUp
  BY DailyAddsUp, HourlyAddsUp, LocationAddsUp DEF AggregatesBuilt, AggregatesAddUp
<1> QED
  BY <1>1, RowsInvariant, AggregatesInvariant, PTL

-----------------------------------------------------------------------------
(* Rounding twice moves an average at most by half of either unit.         *)
LEMMA RoundedAverage ==
    ASSUME NEW s \in Int, NEW n \in Nat \ {0}, NEW u \in Nat \ {0}
    PROVE  2 * u * (HalfUp(HalfUp(s * u, n), u) * n - s) \in -(n * (u + 1)) .. n * (u + 1)
<1> DEFINE a == HalfUp(s * u, n)
           b == HalfUp(a, u)
<1>1. a \in Int /\ 2 * (a * n - s * u) \in -n .. n
  BY HalfUpValues
<1> HIDE DEF a
<1>2. b \in Int /\ 2 * (b * u - a) \in -u .. u
  BY <1>1, HalfUpValues
<1> HIDE DEF b
<1> DEFINE x == 2 * (a * n - s * u)
           y == 2 * (b * u - a)
<1>3. x \in Int /\ y \in Int /\ -n <= x /\ x <= n /\ -u <= y /\ y <= u
  BY <1>1, <1>2
<1>4. 2 * u * (b * n - s) = n * y + x
  BY <1>1, <1>2
<1> HIDE DEF x, y
<1>5. n * y \in Int /\ n * (u + 1) = n * u + n /\ n * u \in Int
  BY <1>3
<1>6. -(n * u) <= n * y /\ n * y <= n * u
  BY <1>3
<1> DEFINE p == n * y
           q == n * u
<1>7. p \in Int /\ q \in Int /\ -q <= p /\ p <= q
  BY <1>5, <1>6
<1> HIDE DEF p, q
<1>8. p + x \in -(q + n) .. q + n
  BY <1>3, <1>7
<1> QED
  BY <1>4, <1>5, <1>8 DEF a, b, p, q

(* AVG of a column that may be NULL: that of the known values, rounded.    *)
LEMMA AverageOfKnown ==
    ASSUME NEW f, IsFiniteSet(DOMAIN f), \A i \in DOMAIN f : f[i] \in Int \cup {Null}
    PROVE  LET K == KnownIn(f)
               n == Cardinality(K)
               s == SumFunction([i \in K |-> f[i]])
           IN  IF K = {} THEN SqlAvg(f) = Null
               ELSE 2 * AvgUnit * (SqlAvg(f) * n - s)
                    \in -(n * (AvgUnit + 1)) .. n * (AvgUnit + 1)
<1> DEFINE K == KnownIn(f)
           n == Cardinality(K)
           s == SumFunction([i \in K |-> f[i]])
<1>1. IsFiniteSet(K) /\ \A i \in K : f[i] \in Int
  BY FS_Subset DEF KnownIn
<1>2. K = {} => SqlAvg(f) = Null
  BY DEF SqlAvg
<1> HIDE DEF K
<1>3. s = SumFunctionOnSet(f, K) /\ s \in Int
  BY <1>1, SumOfFunction, SumInt
<1>4. K # {} => n \in Nat \ {0}
  BY <1>1, FS_CardinalityType, FS_EmptySet
<1>5. K # {} => SqlAvg(f) = HalfUp(HalfUp(s * AvgUnit, n), AvgUnit)
  BY <1>3 DEF SqlAvg, SqlSum, K
<1> HIDE DEF n, s
<1>6. K # {} => 2 * AvgUnit * (SqlAvg(f) * n - s)
                  \in -(n * (AvgUnit + 1)) .. n * (AvgUnit + 1)
  <2>1. AvgUnit \in Nat \ {0}
    BY ColumnsAssumption
  <2> QED
    BY <1>3, <1>4, <1>5, <2>1, RoundedAverage
<1> QED
  BY <1>2, <1>6 DEF K, n, s

(* Summing up a flag cast to a number counts the rows that carry it.       *)
LEMMA FlagNumbers ==
    /\ \A x : x = TRUE => AsLong(x) = 1
    /\ \A x : x = FALSE => AsLong(x) = 0
    /\ \A x : x = Null => AsLong(x) = Null
<1>1. ASSUME NEW x, x = TRUE PROVE AsLong(x) = 1
  BY <1>1 DEF AsLong
<1>2. ASSUME NEW x, x = FALSE PROVE AsLong(x) = 0
  BY <1>2 DEF AsLong
<1>3. ASSUME NEW x, x = Null PROVE AsLong(x) = Null
  BY <1>3, SpecialValues DEF AsLong
<1> QED
  BY <1>1, <1>2, <1>3

LEMMA SumOfFlags ==
    ASSUME NEW f, IsFiniteSet(DOMAIN f), \A i \in DOMAIN f : f[i] \in {TRUE, FALSE, Null}
    PROVE  SqlSum([i \in DOMAIN f |-> AsLong(f[i])])
             = IF KnownIn(f) = {} THEN Null
               ELSE Cardinality({i \in DOMAIN f : f[i] = TRUE})
<1> DEFINE g == [i \in DOMAIN f |-> AsLong(f[i])]
           K == KnownIn(f)
<1>1. Null # 0 /\ Null # 1
  BY NumbersAreKnown
<1>2. Null # TRUE /\ Null # FALSE
  BY SpecialValues
<1>3. ASSUME NEW i \in DOMAIN f
      PROVE  /\ AsLong(f[i]) # Null <=> f[i] # Null
             /\ f[i] # Null => AsLong(f[i]) \in {0, 1}
             /\ AsLong(f[i]) = 1 <=> f[i] = TRUE
  <2>1. CASE f[i] = TRUE
    <3>1. AsLong(f[i]) = 1
      BY <2>1, FlagNumbers
    <3> QED
      BY <1>1, <1>2, <2>1, <3>1
  <2>2. CASE f[i] = FALSE
    <3>1. AsLong(f[i]) = 0
      BY <2>2, FlagNumbers
    <3>2. 0 # 1
      BY SMT
    <3>3. AsLong(f[i]) # Null /\ AsLong(f[i]) # 1 /\ AsLong(f[i]) \in {0, 1}
      BY <1>1, <3>1, <3>2
    <3>4. f[i] # Null /\ f[i] # TRUE
      BY <1>2, <2>2, Zenon
    <3> QED
      BY <3>3, <3>4, Zenon
  <2>3. CASE f[i] = Null
    <3>1. AsLong(f[i]) = Null
      BY <2>3, FlagNumbers
    <3> QED
      BY <1>1, <1>2, <2>3, <3>1
  <2> QED
    BY <2>1, <2>2, <2>3
<1>4. KnownIn(g) = K
  BY <1>3 DEF KnownIn
<1>5. IsFiniteSet(K)
  BY FS_Subset DEF KnownIn
<1>6. \A i \in K : g[i] \in {0, 1}
  BY <1>3 DEF KnownIn
<1>7. {i \in K : g[i] = 1} = {i \in DOMAIN f : f[i] = TRUE}
  <2>1. \A i \in DOMAIN f : f[i] = TRUE => i \in K
    BY <1>2 DEF KnownIn
  <2>2. K \subseteq DOMAIN f
    BY DEF KnownIn
  <2> HIDE DEF K
  <2> QED
    BY <1>3, <2>1, <2>2
<1> HIDE DEF g, K
<1>8. SumFunctionOnSet(g, K) = Cardinality({i \in K : g[i] = 1})
  BY <1>5, <1>6, SumCounts
<1>9. SqlSum(g) = IF K = {} THEN Null ELSE Cardinality({i \in DOMAIN f : f[i] = TRUE})
  BY <1>4, <1>7, <1>8 DEF SqlSum
<1> QED
  BY <1>9 DEF g, K

(* The flag of a row is one of SQL's three truth values.                   *)
LEMMA FlagValues == \A r : NegativeAmount(r) \in {TRUE, FALSE, Null}
BY DEF NegativeAmount

(* For every batch, the daily rows of Gold are those of                    *)
(* aggregate_daily_records, the average but for how it is rounded.         *)
THEOREM DailyCorrect == Spec => []DailyMatchesPure
<1>1. RowsInv /\ AggregatesBuilt => DailyMatchesPure
  <2> SUFFICES ASSUME RowsInv, daily = build_daily_aggregation,
                      NEW d \in DOMAIN daily
               PROVE  LET G == {i \in DOMAIN fact : fact[i].pickup_date_key = d}
                          F == [i \in G |-> fact[i].is_financial_adjustment]
                          P == {i \in G : fact[i].trip.passengers # Null}
                          n == Cardinality(P)
                          passengers == SumFunction([i \in P |-> fact[i].trip.passengers])
                          average == daily[d].average_passenger_count
                      IN  /\ daily[d].trip_count = Cardinality(G)
                          /\ daily[d].total_revenue
                               = SumFunction([i \in G |-> fact[i].trip.money[Total]])
                          /\ daily[d].total_distance
                               = SumFunction([i \in G |-> fact[i].trip.distance])
                          /\ IF P = {} THEN average = Null
                             ELSE 2 * AvgUnit * (average * n - passengers)
                                  \in -(n * (AvgUnit + 1)) .. n * (AvgUnit + 1)
                          /\ daily[d].financial_adjustment_count =
                               IF KnownIn(F) = {} THEN Null
                               ELSE Cardinality({i \in G : F[i] = TRUE})
    BY DEF AggregatesBuilt, DailyMatchesPure
  <2> DEFINE G == {i \in DOMAIN fact : fact[i].pickup_date_key = d}
             count == [i \in G |-> fact[i].trip.passengers]
             flag == [i \in G |-> fact[i].is_financial_adjustment]
             P == {i \in G : fact[i].trip.passengers # Null}
             n == Cardinality(P)
             passengers == SumFunction([i \in P |-> fact[i].trip.passengers])
             average == daily[d].average_passenger_count
  <2>1. daily[d] = DailyRow(G)
    BY DEF build_daily_aggregation
  <2>2. G # {} /\ G \subseteq DOMAIN fact
    BY DEF build_daily_aggregation
  <2>3. IsFiniteSet(G)
    BY <2>2, GroupSums
  <2>4. /\ Revenue(G) = SumFunctionOnSet(TripTotals, G)
        /\ Distance(G) = SumFunctionOnSet(TripDistances, G)
    BY <2>2, GroupSums
  <2>5. /\ [i \in G |-> fact[i].trip.money[Total]] = [i \in G |-> TripTotals[i]]
        /\ [i \in G |-> fact[i].trip.distance] = [i \in G |-> TripDistances[i]]
    BY <2>2 DEF TripTotals, TripDistances
  <2>6. /\ SumFunction([i \in G |-> TripTotals[i]]) = SumFunctionOnSet(TripTotals, G)
        /\ SumFunction([i \in G |-> TripDistances[i]])
            = SumFunctionOnSet(TripDistances, G)
    BY <2>3, SumOfFunction
  <2>7. /\ DOMAIN count = G /\ KnownIn(count) = P
        /\ [i \in P |-> fact[i].trip.passengers] = [i \in P |-> count[i]]
    BY DEF KnownIn
  <2>8. \A i \in G : count[i] \in Int \cup {Null}
    BY <2>2, FactColumns
  <2>9. /\ DOMAIN flag = G
        /\ [i \in G |-> AsLong(fact[i].is_financial_adjustment)]
             = [i \in G |-> AsLong(flag[i])]
        /\ \A i \in G : flag[i] \in {TRUE, FALSE, Null}
    BY <2>2, FactColumns, FlagValues
  <2>10. /\ daily[d].trip_count = Cardinality(G)
         /\ daily[d].total_revenue = Revenue(G)
         /\ daily[d].total_distance = Distance(G)
         /\ average = SqlAvg(count)
         /\ daily[d].financial_adjustment_count =
              SqlSum([i \in G |-> AsLong(fact[i].is_financial_adjustment)])
    BY <2>1 DEF DailyRow
  <2> HIDE DEF G, P, count, flag, average
  <2>11. IF P = {} THEN average = Null
         ELSE 2 * AvgUnit * (average * n - passengers)
              \in -(n * (AvgUnit + 1)) .. n * (AvgUnit + 1)
    <3>1. passengers = SumFunction([i \in P |-> count[i]])
      BY <2>7
    <3> HIDE DEF passengers
    <3> QED
      BY <2>3, <2>7, <2>8, <2>10, <3>1, AverageOfKnown
  <2>12. SqlSum([i \in G |-> AsLong(flag[i])]) =
           IF KnownIn(flag) = {} THEN Null ELSE Cardinality({i \in G : flag[i] = TRUE})
    BY <2>3, <2>9, SumOfFlags
  <2> QED
    BY <2>4, <2>5, <2>6, <2>9, <2>10, <2>11, <2>12 DEF G, P, flag, average
<1> QED
  BY <1>1, RowsInvariant, AggregatesInvariant, PTL

-----------------------------------------------------------------------------
(* What Silver's two evaluations left behind, whatever they ranked first.  *)
SilverIsEvaluated ==
    stage \notin {"silver_01", "failed"} =>
        \E ev, er \in Evaluations :
            /\ valid = ValidTrips(ev)
            /\ rejected = [i \in RejectedTrips(er) |-> RulesOf(i, er)]

LEMMA EvaluatedInit == Init => SilverIsEvaluated
BY DEF Init, SilverIsEvaluated

(* Evaluations depend on the Bronze tables alone.                          *)
LEMMA SameEvaluations ==
    UNCHANGED inputs => UNCHANGED Evaluations
BY DEF inputs, Evaluations, FirstRanked, TripIds, ZoneIds

LEMMA SameTrips ==
    ASSUME UNCHANGED inputs, NEW e
    PROVE  /\ ValidTrips(e)' = ValidTrips(e) /\ RejectedTrips(e)' = RejectedTrips(e)
           /\ \A i : RulesOf(i, e)' = RulesOf(i, e)
BY DEF inputs, ValidTrips, RejectedTrips, RulesOf, LocationIds, ValidZoneRows

LEMMA EvaluatedStep == SilverIsEvaluated /\ [Next]_vars => SilverIsEvaluated'
<1> SUFFICES ASSUME SilverIsEvaluated, [Next]_vars, stage' \notin {"silver_01", "failed"}
             PROVE  \E ev, er \in Evaluations' :
                        /\ valid' = ValidTrips(ev)'
                        /\ rejected' = [i \in RejectedTrips(er)' |-> RulesOf(i, er)']
  BY DEF SilverIsEvaluated
<1>1. UNCHANGED inputs
  BY DEF Next, vars, TransformFactTrips, TransformTaxiZones, SilverQuality, ValidatePhase5,
         BuildDimLocation, BuildGoldFact, BuildAggregations, GoldQuality, LoadLanding
<1>2. \E ev, er \in Evaluations :
        /\ valid' = ValidTrips(ev)
        /\ rejected' = [i \in RejectedTrips(er) |-> RulesOf(i, er)]
  <2>1. CASE TransformFactTrips
    BY <2>1 DEF TransformFactTrips
  <2>2. CASE ~TransformFactTrips
    <3>1. UNCHANGED <<valid, rejected>> /\ stage \notin {"silver_01", "failed"}
      BY <2>2 DEF Next, vars, silver, TransformTaxiZones, SilverQuality, ValidatePhase5,
             BuildDimLocation, BuildGoldFact, BuildAggregations, GoldQuality, LoadLanding
    <3> QED
      BY <3>1 DEF SilverIsEvaluated
  <2> QED
    BY <2>1, <2>2
<1>3. PICK ev \in Evaluations, er \in Evaluations :
        /\ valid' = ValidTrips(ev)
        /\ rejected' = [i \in RejectedTrips(er) |-> RulesOf(i, er)]
  BY <1>2
<1>4. [i \in RejectedTrips(er)' |-> RulesOf(i, er)']
        = [i \in RejectedTrips(er) |-> RulesOf(i, er)]
  BY <1>1, SameTrips
<1>5. valid' = ValidTrips(ev)'
  BY <1>1, <1>3, SameTrips
<1> QED
  BY <1>1, <1>3, <1>4, <1>5, SameEvaluations

(* The Silver tables are the result of two evaluations of the same frames. *)
THEOREM SilverInvariant == Spec => []SilverIsEvaluated
BY EvaluatedInit, EvaluatedStep, PTL DEF Spec

-----------------------------------------------------------------------------
Copies(i)  == {j \in DOMAIN bronze : TripIds[j] = TripIds[i]}
Complete   == {a \in DOMAIN lookup : ZoneIsComplete(lookup[a])}

(* The copies of a settled row are recorded as the same row.               *)
LEMMA CopiesAreEqual ==
    ASSUME TypeOK, NEW i \in DOMAIN bronze, Settled(i), NEW j \in Copies(i)
    PROVE  Recorded(bronze[j]) = Recorded(bronze[i])
<1>1. j \in DOMAIN bronze /\ TripIds[j] = TripIds[i]
  BY DEF Copies
<1>2. bronze[i] \in RawRow /\ bronze[j] \in RawRow
  BY <1>1 DEF TypeOK
<1>3. ~InvalidMonetaryCast(bronze[i]) /\ ~InvalidMonetaryCast(bronze[j])
  BY <1>1 DEF Settled
<1>4. /\ Recorded(bronze[i]) = Standardized(bronze[i])
      /\ Recorded(bronze[j]) = Standardized(bronze[j])
  BY <1>2, <1>3, RecordedIsStandardized
<1> QED
  BY <1>1, <1>4 DEF TripIds, TripId

(* row_number leaves one row of every key.                                 *)
LEMMA OneRanked ==
    ASSUME NEW keys, NEW K \in FirstRanked(keys), NEW i \in DOMAIN keys
    PROVE  \E j \in K : keys[j] = keys[i]
<1>1. Cardinality({j \in K : keys[j] = keys[i]}) = 1
  BY DEF FirstRanked
<1>2. {j \in K : keys[j] = keys[i]} # {}
  BY <1>1, FS_EmptySet
<1> QED
  BY <1>2

(* A settled row's locations are known or unknown whichever rows of the    *)
(* lookup rank first.                                                      *)
LEMMA SettledLocations ==
    ASSUME NEW i \in DOMAIN bronze, Settled(i), NEW Z \in FirstRanked(ZoneIds),
           NEW p \in {bronze[i].pickup_location, bronze[i].dropoff_location}
    PROVE  p \in LocationIds(ValidZoneRows(Z)) <=> p \in LocationIds(Complete)
<1>1. Z \subseteq DOMAIN lookup
  BY DEF FirstRanked, ZoneIds
<1>2. ValidZoneRows(Z) \subseteq Complete
  BY <1>1 DEF ValidZoneRows, Complete
<1>3. ASSUME p \in LocationIds(Complete)
      PROVE  p \in LocationIds(ValidZoneRows(Z))
  <2>1. PICK a \in DOMAIN lookup : ZoneIsComplete(lookup[a]) /\ lookup[a].id = p
    BY <1>3 DEF LocationIds, Complete
  <2>2. PICK b \in Z : ZoneIds[b] = ZoneIds[a]
    BY OneRanked DEF ZoneIds
  <2>3. lookup[b].id = p
    BY <1>1, <2>1, <2>2 DEF ZoneIds
  <2>4. ZoneIsComplete(lookup[b])
    BY <1>1, <2>1, <2>3 DEF Settled
  <2> QED
    BY <2>3, <2>4 DEF LocationIds, ValidZoneRows
<1>4. p \in LocationIds(ValidZoneRows(Z)) => p \in LocationIds(Complete)
  BY <1>2 DEF LocationIds
<1> QED
  BY <1>3, <1>4

(* classify_trip_record looks up nothing but the row's own locations.      *)
LEMMA ClassifiedByOwnZones ==
    ASSUME NEW r, NEW Y, NEW Z, NEW duplicate,
           \A p \in {r.pickup_location, r.dropoff_location} : p \in Y <=> p \in Z
    PROVE  classify_trip_record(r, Y, duplicate) = classify_trip_record(r, Z, duplicate)
<1>1. r.pickup_location \in Y <=> r.pickup_location \in Z
  OBVIOUS
<1>2. r.dropoff_location \in Y <=> r.dropoff_location \in Z
  OBVIOUS
<1>3. FailedRules(r, Y, duplicate) = FailedRules(r, Z, duplicate)
  BY <1>1, <1>2 DEF FailedRules
<1> QED
  BY <1>3 DEF classify_trip_record

(* A duplicate is never accepted.                                          *)
LEMMA DuplicateRejected ==
    ASSUME NEW r, NEW Z
    PROVE  classify_trip_record(r, Z, TRUE) # {}
<1>1. /\ "DUPLICATE_TRIP" \in DOMAIN FailedRules(r, Z, TRUE)
      /\ FailedRules(r, Z, TRUE)["DUPLICATE_TRIP"] = TRUE
  BY DEF FailedRules
<1> QED
  BY <1>1 DEF classify_trip_record

(* Of the copies of a settled row Silver accepts the one it ranks first,   *)
(* if classify_trip_record accepts the row, and none otherwise.            *)
LEMMA CopiesAccepted ==
    ASSUME TypeOK, NEW e \in Evaluations, NEW i \in DOMAIN bronze, Settled(i)
    PROVE  Copies(i) \cap ValidTrips(e)
             = IF Acceptable(i) THEN {j \in e[1] : TripIds[j] = TripIds[i]} ELSE {}
<1> DEFINE Z == LocationIds(ValidZoneRows(e[2]))
<1>1. e[1] \in FirstRanked(TripIds) /\ e[2] \in FirstRanked(ZoneIds)
  BY DEF Evaluations
<1>2. e[1] \subseteq DOMAIN bronze
  BY <1>1 DEF FirstRanked, TripIds
<1>3. ASSUME NEW j \in Copies(i)
      PROVE  RulesOf(j, e) = {} <=> j \in e[1] /\ Acceptable(i)
  <2> DEFINE r == Recorded(bronze[i])
  <2>1. /\ bronze[j] \in RawRow /\ bronze[i] \in RawRow
        /\ Recorded(bronze[j]) = r
    BY <1>3, CopiesAreEqual DEF TypeOK, Copies
  <2>2. \A duplicate \in BOOLEAN :
           rejection_rules(bronze[j], Z, duplicate) = {}
             <=> classify_trip_record(r, Z, duplicate) = {}
    BY <2>1, EveryRowAgrees DEF ClassifiersAgree
  <2>3. classify_trip_record(r, Z, FALSE) = {} <=> Acceptable(i)
    <3>1. /\ r.pickup_location = bronze[i].pickup_location
          /\ r.dropoff_location = bronze[i].dropoff_location
      BY <2>1, RecordedColumns
    <3> HIDE DEF r
    <3>2. classify_trip_record(r, Z, FALSE)
            = classify_trip_record(r, LocationIds(Complete), FALSE)
      <4>1. \A p \in {r.pickup_location, r.dropoff_location} :
               p \in Z <=> p \in LocationIds(Complete)
        BY <1>1, <3>1, SettledLocations
      <4> HIDE DEF Z
      <4> QED
        BY <4>1, ClassifiedByOwnZones
    <3> QED
      BY <3>2 DEF Acceptable, Complete, r
  <2> HIDE DEF r
  <2>4. CASE j \in e[1]
    <3>1. (j \notin e[1]) = FALSE
      BY <2>4
    <3>2. RulesOf(j, e) = rejection_rules(bronze[j], Z, FALSE)
      BY <3>1 DEF RulesOf
    <3> QED
      BY <2>2, <2>3, <2>4, <3>2
  <2>5. CASE j \notin e[1]
    <3>1. (j \notin e[1]) = TRUE
      BY <2>5
    <3>2. RulesOf(j, e) = rejection_rules(bronze[j], Z, TRUE)
      BY <3>1 DEF RulesOf
    <3> QED
      BY <2>2, <2>5, <3>2, DuplicateRejected
  <2> QED
    BY <2>4, <2>5
<1>4. Copies(i) \cap ValidTrips(e) = {j \in Copies(i) : RulesOf(j, e) = {}}
  BY DEF Copies, ValidTrips
<1>5. {j \in e[1] : TripIds[j] = TripIds[i]} = {j \in Copies(i) : j \in e[1]}
  BY <1>2 DEF Copies
<1> QED
  BY <1>3, <1>4, <1>5

LEMMA OneCopyAccepted ==
    ASSUME TypeOK, NEW e \in Evaluations, NEW i \in DOMAIN bronze, Settled(i)
    PROVE  Cardinality(Copies(i) \cap ValidTrips(e)) = IF Acceptable(i) THEN 1 ELSE 0
<1>1. e[1] \in FirstRanked(TripIds) /\ DOMAIN TripIds = DOMAIN bronze
  BY DEF Evaluations, TripIds
<1>2. Cardinality({j \in e[1] : TripIds[j] = TripIds[i]}) = 1
  BY <1>1 DEF FirstRanked
<1> QED
  BY <1>2, CopiesAccepted, FS_EmptySet

(* For every batch and lookup, and however duplicates are ranked: a        *)
(* settled trip without a defect is valid exactly once, all other copies   *)
(* are quarantined.                                                        *)
THEOREM TripsKept == Spec => []TripsAreKept
<1>1. TypeOK /\ SilverIsEvaluated => TripsAreKept
  <2> SUFFICES ASSUME TypeOK, SilverIsEvaluated, stage \notin {"silver_01", "failed"},
                      NEW i \in DOMAIN bronze, Settled(i)
               PROVE  /\ Cardinality(Copies(i) \cap valid) = IF Acceptable(i) THEN 1 ELSE 0
                      /\ Cardinality(Copies(i) \cap DOMAIN rejected) =
                         Cardinality(Copies(i)) - Cardinality(Copies(i) \cap valid)
    BY DEF TripsAreKept, Copies
  <2>1. PICK ev \in Evaluations, er \in Evaluations :
          /\ valid = ValidTrips(ev)
          /\ rejected = [k \in RejectedTrips(er) |-> RulesOf(k, er)]
    BY DEF SilverIsEvaluated
  <2>2. /\ Cardinality(Copies(i) \cap ValidTrips(ev)) = IF Acceptable(i) THEN 1 ELSE 0
        /\ Cardinality(Copies(i) \cap ValidTrips(er)) = IF Acceptable(i) THEN 1 ELSE 0
    BY OneCopyAccepted
  <2>3. Copies(i) \cap DOMAIN rejected = Copies(i) \ ValidTrips(er)
    BY <2>1 DEF RejectedTrips, Copies
  <2>4. IsFiniteSet(Copies(i))
    BY RowsAreFinite, FS_Subset DEF Copies
  <2>5. Cardinality(Copies(i) \ ValidTrips(er))
          = Cardinality(Copies(i)) - Cardinality(Copies(i) \cap ValidTrips(er))
    BY <2>4, FS_Difference
  <2> QED
    BY <2>1, <2>2, <2>3, <2>5
<1> QED
  BY <1>1, SilverInvariant, RecordsTypeCorrect, PTL
=============================================================================
