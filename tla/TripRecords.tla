----------------------------- MODULE TripRecords -----------------------------
(***************************************************************************)
(* What happens to the rows of one Bronze batch on their way to LANDING:   *)
(* the Silver notebooks 01 to 04, the Gold notebooks 03 to 06 and the      *)
(* landing of the facts and daily aggregates by notebook 02 of Phase 7.    *)
(* Each notebook is one step; Medallion has their order of calls, their    *)
(* failures and the other batches.                                         *)
(*                                                                         *)
(* A row is known by its position in the batch.                            *)
(***************************************************************************)
EXTENDS TripRules, Sequences, FiniteSets, FiniteSetsExt

CONSTANTS
    Batches,        \* bound: the Bronze trip batches considered
    ZoneBatches,    \* bound: the Bronze zone lookups considered
    RejectionLimit  \* percentage of rejected rows that fails a batch, 20 in the code

ZoneRow == [id : Places, borough : BOOLEAN, name : BOOLEAN]  \* whether a text is there

ASSUME BatchAssumption ==
    /\ Batches \subseteq Seq(RawRow)
    /\ ZoneBatches \subseteq Seq(ZoneRow)
    /\ RejectionLimit \in 0 .. 100

VARIABLES
    bronze,   \* the Bronze rows of the batch
    lookup,   \* the Bronze rows of the zone lookup
    stage,    \* the notebook to run next, "landed" or "failed"
    valid,    \* the rows in silver/fact_trips
    rejected, \* the rows in silver/rejected/trips with their rejection_rules
    zones,    \* the location ids in silver/dim_taxi_zones and gold/dim_location
    fact,     \* gold/fact_trips
    daily, hourly, location,  \* the Gold aggregates
    landed    \* LANDING.FACT_TRIPS

inputs == <<bronze, lookup>>
silver == <<valid, rejected, zones>>
aggs   == <<daily, hourly, location>>
vars   == <<inputs, stage, silver, fact, aggs, landed>>

Empty == [i \in {} |-> Null]

Stages == {"silver_01", "silver_02", "silver_03", "silver_04", "gold_03", "gold_04",
           "gold_05", "gold_06", "snowflake_02", "landed", "failed"}

Init ==
    /\ bronze \in Batches /\ lookup \in ZoneBatches
    /\ stage = "silver_01"
    /\ valid = {} /\ rejected = Empty /\ zones = {}
    /\ fact = Empty /\ daily = Empty /\ hourly = Empty /\ location = Empty
    /\ landed = Empty

(* A notebook whose checks hold hands over to the next one, or raises.     *)
GoOnIf(ok, next) == stage' = IF ok THEN next ELSE "failed"

-----------------------------------------------------------------------------
(* Silver. *)

(* Faulty variant: every row has rank 1.                                   *)
AllRanked(keys) == {DOMAIN keys}

(* The rows row_number may give rank 1: one per key.  The columns of its   *)
(* ORDER BY are equal in all rows, so every evaluation of the lazy frame   *)
(* chooses anew.                                                           *)
FirstRanked(keys) ==
    {K \in SUBSET DOMAIN keys :
        \A i \in DOMAIN keys : Cardinality({j \in K : keys[j] = keys[i]}) = 1}

TripIds == [i \in DOMAIN bronze |-> TripId(bronze[i])]
ZoneIds == [i \in DOMAIN lookup |-> lookup[i].id]

(* Faulty variant: without NULL_LOCATION_ID.                               *)
ZoneHasTexts(z) == z.borough /\ z.name

ZoneIsComplete(z) == z.id # Null /\ z.borough /\ z.name

(* build_zone_frames, given the rows of rank 1.                            *)
ValidZoneRows(Z) == {i \in Z : ZoneIsComplete(lookup[i])}
LocationIds(S)   == {lookup[i].id : i \in S}

(* An evaluation of build_trip_frames: the trips and zones of rank 1.      *)
Evaluations == FirstRanked(TripIds) \X FirstRanked(ZoneIds)

RulesOf(i, e) ==
    rejection_rules(bronze[i], LocationIds(ValidZoneRows(e[2])), i \notin e[1])

ValidTrips(e)    == {i \in DOMAIN bronze : RulesOf(i, e) = {}}
RejectedTrips(e) == DOMAIN bronze \ ValidTrips(e)

(* Notebook 01 evaluates the two frames once each to count and to write.   *)
TransformFactTrips ==
    /\ stage = "silver_01"
    /\ \E nv \in {Cardinality(ValidTrips(e)) : e \in Evaluations},
          nr \in {Cardinality(RejectedTrips(e)) : e \in Evaluations} :
         IF Len(bronze) > 0 /\ Len(bronze) = nv + nr
         THEN \E ev, er \in Evaluations :
                /\ valid' = ValidTrips(ev)
                /\ rejected' = [i \in RejectedTrips(er) |-> RulesOf(i, er)]
                /\ GoOnIf(/\ Cardinality(valid') = nv
                          /\ Cardinality(DOMAIN rejected') = nr, "silver_02")
         ELSE stage' = "failed" /\ UNCHANGED <<valid, rejected>>
    /\ UNCHANGED <<inputs, zones, fact, aggs, landed>>

(* Notebook 02 evaluates its two frames as often, to count and to write.   *)
TransformTaxiZones ==
    /\ stage = "silver_02"
    /\ LET Valid(Z)  == Cardinality(ValidZoneRows(Z))
           Counts    == {Valid(Z) : Z \in FirstRanked(ZoneIds)}
           Rejections == {Len(lookup) - n : n \in Counts}
       IN  \E nv \in Counts, nr \in Rejections :
             IF Len(lookup) > 0 /\ Len(lookup) = nv + nr
             THEN \E written \in FirstRanked(ZoneIds), quarantined \in Rejections :
                    /\ zones' = LocationIds(ValidZoneRows(written))
                    /\ GoOnIf(Valid(written) = nv /\ quarantined = nr, "silver_03")
             ELSE stage' = "failed" /\ UNCHANGED zones
    /\ UNCHANGED <<inputs, valid, rejected, fact, aggs, landed>>

Reconciled == Len(bronze) = Cardinality(valid) + Cardinality(DOMAIN rejected)

(* silver_quality_status is FAILED.                                        *)
SilverFails ==
    \/ valid = {} \/ ~Reconciled
    \/ 100 * Cardinality(DOMAIN rejected) > RejectionLimit * Len(bronze)

SilverQuality ==
    /\ stage = "silver_03"
    /\ GoOnIf(~SilverFails, "silver_04")
    /\ UNCHANGED <<inputs, silver, fact, aggs, landed>>

ValidatePhase5 ==
    /\ stage = "silver_04"
    /\ GoOnIf(/\ Reconciled
              /\ \A i \in valid : {bronze[i].pickup_location,
                                   bronze[i].dropoff_location} \subseteq zones
              /\ \A i, j \in valid : TripIds[i] = TripIds[j] => i = j, "gold_03")
    /\ UNCHANGED <<inputs, silver, fact, aggs, landed>>

-----------------------------------------------------------------------------
(* Gold. *)

(* build_dim_location keeps every Silver zone.                             *)
BuildDimLocation ==
    /\ stage = "gold_03"
    /\ GoOnIf(zones # {}, "gold_04")
    /\ UNCHANGED <<inputs, silver, fact, aggs, landed>>

(* The two revenue views.  F.when takes neither branch for a NULL flag.    *)
Split(flag, total) ==
    [non_adjustment_revenue      |-> IF flag = FALSE THEN total ELSE 0,
     financial_adjustment_amount |-> IF flag = TRUE THEN total ELSE 0]

(* A fact: the standardized row with its keys, measures and revenue views. *)
GoldRow(r) ==
    [trip |-> Standardized(r),
     pickup_date_key |-> date_key(r.pickup), pickup_time_key |-> time_key(r.pickup),
     measures |-> GoldMeasures(Standardized(r)),
     is_financial_adjustment |-> NegativeAmount(r),
     revenue |-> Split(NegativeAmount(r), Standardized(r).money[Total])]

BuildGoldFact ==
    /\ stage = "gold_04"
    /\ fact' = [i \in valid |-> GoldRow(bronze[i])]
    /\ GoOnIf(valid # {}, "gold_05")
    /\ UNCHANGED <<inputs, silver, aggs, landed>>

(* SUM, AVG and COUNT over the rows of a group: NULLs are skipped, and     *)
(* nothing but NULLs sums up to NULL.  An average of hundredths is rounded *)
(* to avg's own scale and then, by the cast, back to hundredths.           *)
KnownIn(f)  == {i \in DOMAIN f : f[i] # Null}
SqlSum(f)   == IF KnownIn(f) = {} THEN Null
               ELSE SumFunctionOnSet(f, KnownIn(f))

(* Faulty variant: the average counts the NULLs.                           *)
AvgOfAll(f) ==
    IF KnownIn(f) = {} THEN Null
    ELSE HalfUp(HalfUp(SqlSum(f) * AvgUnit, Cardinality(DOMAIN f)), AvgUnit)

SqlAvg(f) ==
    IF KnownIn(f) = {} THEN Null
    ELSE HalfUp(HalfUp(SqlSum(f) * AvgUnit, Cardinality(KnownIn(f))), AvgUnit)

AsLong(flag) == CASE flag = TRUE -> 1 [] flag = FALSE -> 0 [] OTHER -> Null

Revenue(G)  == SqlSum([i \in G |-> fact[i].trip.money[Total]])
Distance(G) == SqlSum([i \in G |-> fact[i].trip.distance])

DailyRow(G) ==
    [trip_count |-> Cardinality(G), total_revenue |-> Revenue(G),
     total_distance |-> Distance(G),
     average_passenger_count |-> SqlAvg([i \in G |-> fact[i].trip.passengers]),
     non_adjustment_revenue |-> SqlSum([i \in G |-> fact[i].revenue.non_adjustment_revenue]),
     financial_adjustment_count |->
         SqlSum([i \in G |-> AsLong(fact[i].is_financial_adjustment)]),
     financial_adjustment_amount |->
         SqlSum([i \in G |-> fact[i].revenue.financial_adjustment_amount])]

build_daily_aggregation ==
    [d \in {fact[i].pickup_date_key : i \in DOMAIN fact} |->
        DailyRow({i \in DOMAIN fact : fact[i].pickup_date_key = d})]

(* Faulty variant: the hourly revenue leaves out adjustments.              *)
hourly_of_non_adjustments ==
    [h \in {<<fact[i].pickup_date_key, fact[i].pickup_time_key[1]>> : i \in DOMAIN fact} |->
        LET G == {i \in DOMAIN fact : <<fact[i].pickup_date_key,
                                        fact[i].pickup_time_key[1]>> = h}
        IN [trip_count |-> Cardinality(G), total_distance |-> Distance(G),
            total_revenue |->
                SqlSum([i \in G |-> fact[i].revenue.non_adjustment_revenue])]]

(* Groups by date and hour; dim_time has a label for every hour.           *)
build_hourly_aggregation ==
    [h \in {<<fact[i].pickup_date_key, fact[i].pickup_time_key[1]>> : i \in DOMAIN fact} |->
        LET G == {i \in DOMAIN fact : <<fact[i].pickup_date_key,
                                        fact[i].pickup_time_key[1]>> = h}
        IN [trip_count |-> Cardinality(G), total_revenue |-> Revenue(G),
            total_distance |-> Distance(G)]]

Coalesce(x, default) == IF x = Null THEN default ELSE x

(* One row per location of dim_location, also where nothing started or     *)
(* ended.                                                                  *)
build_location_aggregation ==
    [z \in zones |->
        LET P == {i \in DOMAIN fact : fact[i].trip.pickup_location = z}
            D == {i \in DOMAIN fact : fact[i].trip.dropoff_location = z}
        IN [pickup_trip_count |-> Cardinality(P), dropoff_trip_count |-> Cardinality(D),
            total_revenue |-> Coalesce(Revenue(P), 0),
            total_distance |-> Coalesce(Distance(P), 0)]]

BuildAggregations ==
    /\ stage = "gold_05"
    /\ daily' = build_daily_aggregation
    /\ location' = build_location_aggregation
    /\ hourly' = build_hourly_aggregation
    /\ stage' = "gold_06"
    /\ UNCHANGED <<inputs, silver, fact, landed>>

(* A column of an aggregate, summed up.                                    *)
Sum(agg, column) == SumFunction([k \in DOMAIN agg |-> agg[k][column]])
FactRevenue == SumFunction([i \in DOMAIN fact |-> fact[i].trip.money[Total]])

(* The critical metrics of notebook 06 over this batch are 0; the revenues *)
(* may differ by a cent.                                                   *)
GoldPasses ==
    LET n == Cardinality(DOMAIN fact) IN
    /\ n > 0
    /\ \A i, j \in DOMAIN fact : TripIds[i] = TripIds[j] => i = j
    /\ \A i \in DOMAIN fact :
         /\ {fact[i].trip.pickup_location, fact[i].trip.dropoff_location} \subseteq zones
         /\ fact[i].measures.trip_duration_minutes >= 0
         /\ Negative(fact[i].trip.distance) # TRUE
         /\ \A m \in DOMAIN fact[i].measures : IsFinite(fact[i].measures[m])
    /\ Sum(daily, "trip_count") = n
    /\ FactRevenue - Sum(daily, "total_revenue") \in -1 .. 1
    /\ Sum(hourly, "trip_count") = n
    /\ Sum(location, "pickup_trip_count") = n /\ Sum(location, "dropoff_trip_count") = n

GoldQuality ==
    /\ stage = "gold_06"
    /\ GoOnIf(GoldPasses, "snowflake_02")
    /\ UNCHANGED <<inputs, silver, fact, aggs, landed>>

-----------------------------------------------------------------------------
(* LANDING. *)

(* Faulty variant: the frame is landed as it is.                           *)
gold_frame(row) == row

(* prepare_landing_frame: the only default is that of the flag.            *)
prepare_landing_frame(row) ==
    [row EXCEPT !.is_financial_adjustment = Coalesce(@, FALSE)]

(* Notebook 02 writes the facts and later the daily rows, whose            *)
(* FINANCIAL_ADJUSTMENT_COUNT must not be NULL.                            *)
LoadLanding ==
    /\ stage = "snowflake_02"
    /\ landed' = [i \in DOMAIN fact |-> prepare_landing_frame(fact[i])]
    /\ GoOnIf(\A d \in DOMAIN daily : daily[d].financial_adjustment_count # Null, "landed")
    /\ UNCHANGED <<inputs, silver, fact, aggs>>

-----------------------------------------------------------------------------
Next ==
    \/ TransformFactTrips \/ TransformTaxiZones \/ SilverQuality \/ ValidatePhase5
    \/ BuildDimLocation \/ BuildGoldFact \/ BuildAggregations \/ GoldQuality
    \/ LoadLanding

Spec == Init /\ [][Next]_vars

-----------------------------------------------------------------------------
(* Properties. *)

TypeOK ==
    /\ bronze \in Seq(RawRow) /\ lookup \in Seq(ZoneRow)
    /\ stage \in Stages
    /\ valid \subseteq DOMAIN bronze /\ DOMAIN rejected \subseteq DOMAIN bronze
    /\ zones \subseteq Locations
    /\ DOMAIN fact \subseteq DOMAIN bronze /\ DOMAIN landed \subseteq DOMAIN fact

(* silver_common.py calls classify_trip_record the "Pure equivalent of the *)
(* Spark rejection contract": it is for every row of the batch, given with *)
(* two decimals, and every lookup, up to the names of rules a row fails    *)
(* more than once.  For the row as it is in Bronze it is not; the rule and *)
(* the amounts in which they differ are those of ClassifiersAgree and      *)
(* FlagsAgree.                                                             *)
ClassificationAgrees ==
    \A i \in DOMAIN bronze :
        /\ FlagsAgree(bronze[i])
        /\ \A Z \in FirstRanked(ZoneIds) : \A duplicate \in BOOLEAN :
              ClassifiersAgree(bronze[i], LocationIds(ValidZoneRows(Z)), duplicate)

(* Rows whose fate does not depend on how ties are broken: no row with the *)
(* same trip_id has an amount that does not fit, and the lookup does not   *)
(* describe one of its locations both completely and incompletely.         *)
Settled(i) ==
    /\ \A j \in DOMAIN bronze : TripIds[j] = TripIds[i] => ~InvalidMonetaryCast(bronze[j])
    /\ \A a, b \in DOMAIN lookup :
         lookup[a].id = lookup[b].id
         /\ lookup[a].id \in {bronze[i].pickup_location, bronze[i].dropoff_location} =>
             (ZoneIsComplete(lookup[a]) <=> ZoneIsComplete(lookup[b]))

Acceptable(i) ==
    classify_trip_record(Recorded(bronze[i]), LocationIds({a \in DOMAIN lookup :
                                        ZoneIsComplete(lookup[a])}), FALSE) = {}

(* Once Silver has been checked, a trip without a defect is in the fact    *)
(* exactly once and its other copies are quarantined, and a row with a     *)
(* defect is quarantined, although valid and rejected rows are the result  *)
(* of separate evaluations that rank duplicates differently.               *)
TripsAreKept ==
    stage \notin {"silver_01", "failed"} =>
        \A i \in DOMAIN bronze : Settled(i) =>
            LET copies == {j \in DOMAIN bronze : TripIds[j] = TripIds[i]} IN
            /\ Cardinality(copies \cap valid) = IF Acceptable(i) THEN 1 ELSE 0
            /\ Cardinality(copies \cap DOMAIN rejected) =
               Cardinality(copies) - Cardinality(copies \cap valid)

(* What Gold accepts adds up in every aggregate, also in the measures its  *)
(* gate does not compare: revenue per hour and location, distances.        *)
AddsUp(agg) ==
    /\ Sum(agg, "total_revenue") = FactRevenue
    /\ Sum(agg, "total_distance") = SumFunction([i \in DOMAIN fact |-> fact[i].trip.distance])

AggregatesAddUp ==
    stage \in {"snowflake_02", "landed"} =>
        AddsUp(daily) /\ AddsUp(hourly) /\ AddsUp(location)

(* aggregate_daily_records, "Small-fixture equivalent of the daily Gold    *)
(* aggregation contract", computes the daily rows from the facts, with two *)
(* exceptions: it counts 0 adjustments on a day whose flags are all NULL,  *)
(* and it does not round the average, from which Gold's is at most half a  *)
(* hundredth away, and half a unit of avg's own scale.                     *)
DailyMatchesPure ==
    stage \in {"gold_06", "snowflake_02", "landed"} =>
        \A d \in DOMAIN daily :
            LET G == {i \in DOMAIN fact : fact[i].pickup_date_key = d}
                F == [i \in G |-> fact[i].is_financial_adjustment]
                P == {i \in G : fact[i].trip.passengers # Null}
                n == Cardinality(P)
                passengers == SumFunction([i \in P |-> fact[i].trip.passengers])
                average == daily[d].average_passenger_count
            IN  /\ daily[d].trip_count = Cardinality(G)
                /\ daily[d].total_revenue = SumFunction([i \in G |-> fact[i].trip.money[Total]])
                /\ daily[d].total_distance = SumFunction([i \in G |-> fact[i].trip.distance])
                /\ IF P = {} THEN average = Null
                   ELSE 2 * AvgUnit * (average * n - passengers)
                        \in -(n * (AvgUnit + 1)) .. n * (AvgUnit + 1)
                /\ daily[d].financial_adjustment_count =
                     IF KnownIn(F) = {} THEN Null ELSE Cardinality({i \in G : F[i] = TRUE})

(* Every fact holds the measures derived_trip_metrics defines for its row: *)
(* "No calculation creates infinity or NaN" (docs/Design.md:321).          *)
MeasuresMatchPure ==
    \A i \in DOMAIN fact : fact[i].measures = derived_trip_metrics(fact[i].trip)

(* The flag in LANDING is what is_financial_adjustment says of the landed  *)
(* amounts, although it is NULL in Silver and Gold where one is missing.   *)
(* Of the raw amounts it may say more, but only of less than half a cent.  *)
LandedFlagMatchesPure ==
    \A i \in DOMAIN landed :
        LET flag == landed[i].is_financial_adjustment
            raw  == bronze[i].money
        IN  /\ flag = is_financial_adjustment(landed[i].trip)
            /\ flag => is_financial_adjustment(bronze[i])
            /\ ~flag => \A c \in MONEY_COLUMNS : raw[c] # Null => 2 * (-raw[c]) < Hundredth

(* "`non_adjustment_revenue` and `financial_adjustment_amount` make the    *)
(* two revenue views explicit without filtering a trip"                    *)
(* (docs/Design.md:321): together they are the total of every trip.        *)
RevenueIsSplit ==
    \A i \in DOMAIN fact :
        fact[i].revenue.non_adjustment_revenue + fact[i].revenue.financial_adjustment_amount
        = fact[i].trip.money[Total]
=============================================================================
