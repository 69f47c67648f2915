-------------------------------- MODULE Marts --------------------------------
(***************************************************************************)
(* The dbt models over the ANALYTICS tables that SnowflakeJob loads.  The  *)
(* staging models and the marts are views and int_trip_enriched is         *)
(* ephemeral, so that a reader always sees what is committed: the models   *)
(* are functions of the state.  Nothing keeps dbt or a reader from looking *)
(* while a run of the job is active or after one has failed.               *)
(***************************************************************************)
EXTENDS SnowflakeJob

CONSTANT
    DescribedBy  \* DescribedBy[i]: the dimension joined to aggregate Aggs[i]

ASSUME MartAssumption ==
    /\ DescribedBy \in [DOMAIN Aggs -> {Dims[i] : i \in DOMAIN Dims}]
    /\ ~IsSnapshot(Fact) /\ \A i \in DOMAIN Aggs : ~IsSnapshot(Aggs[i])

(* Whether a dimension that Gold rebuilds keeps all earlier keys.  The     *)
(* zone lookup and Silver's dates decide that, not the warehouse: the      *)
(* theorems about the marts state it as their hypothesis.                  *)
DimensionsGrow ==
    \A i \in DOMAIN Dims : \A v, w \in Versions :
        v <= w => GoldKeys[Dims[i], Null, v] \subseteq GoldKeys[Dims[i], Null, w]

-----------------------------------------------------------------------------
(* The models.  A row of a view is a copy <<r, n>> of a table row r. *)

(* A staging model selects and renames every column of its source.         *)
stg(d) == Copies(analytics[d], Rows)

(* The date, time and location dimensions are joined in two roles each.    *)
Joins == (DOMAIN Dims) \X {"pickup", "dropoff"}

(* Six inner joins: a trip with one matching row for each of them.         *)
int_trip_enriched ==
    {e \in stg(Fact) \X [Joins -> UNION {stg(Dims[i]) : i \in DOMAIN Dims}] :
        \A x \in Joins : /\ e[2][x] \in stg(Dims[x[1]])
                         /\ e[2][x][1].key = ZoneOf[e[1][1].key]}

mart_trip_details == int_trip_enriched

(* mart_daily_mobility, mart_hourly_mobility and mart_location_mobility.   *)
mart(i) ==
    {e \in stg(Aggs[i]) \X stg(DescribedBy[i]) : e[2][1].key = ZoneOf[e[1][1].key]}

(* The rows of a model that belong to month m.                             *)
OfMonth(view, m) == {e \in view : e[1][1].month = m}

-----------------------------------------------------------------------------
(* The dbt tests that relate rows or relations. *)

(* assert_int_trip_enriched_row_count.sql                                  *)
RowsArePreserved == Cardinality(int_trip_enriched) = Cardinality(stg(Fact))

(* unique, and the tests of composite keys, on tables and on marts.        *)
KeysAreUnique ==
    /\ \A d \in Datasets : ~HasDuplicateKey(d, analytics[d])
    /\ \A e, f \in mart_trip_details : SameKey(Fact, e[1][1], f[1][1]) => e = f
    /\ \A i \in DOMAIN Aggs : \A e, f \in mart(i) :
         SameKey(Aggs[i], e[1][1], f[1][1]) => e = f

(* relationships of facts to dimensions.                                   *)
FactsAreRelated ==
    \A t \in stg(Fact) : \A i \in DOMAIN Dims :
        \E z \in stg(Dims[i]) : z[1].key = ZoneOf[t[1].key]

(* relationships of an aggregate, here of its rows of month m.             *)
GroupsAreRelated(i, m) ==
    \A a \in {t \in stg(Aggs[i]) : t[1].month = m} :
        \E z \in stg(DescribedBy[i]) : z[1].key = ZoneOf[a[1].key]

-----------------------------------------------------------------------------
(* Properties. *)

(* The trips an aggregate mart counts in month m.                          *)
TripsCounted(i, m) ==
    SumFunction([e \in OfMonth(mart(i), m) |->
                    TripCount[e[1][1].key, m, e[1][1].ver]])

(* A run of m finished and no other run of m is under way or was left.     *)
Settled(m) ==
    /\ \E r \in RunIds : RunMonth[r] = m /\ status[r] = "finished"
    /\ \A r \in RunIds : RunMonth[r] = m => status[r] \in {"waiting", "finished"}

(* A month that was loaded successfully stays whole in the marts, while    *)
(* other months are loaded, and also when their runs fail, crash or are    *)
(* repaired: mart_trip_details has "one row per validated trip"            *)
(* (dbt/models/marts/README.md), although every run replaces the           *)
(* dimensions all months are joined with.  No aggregate mart counts more   *)
(* trips than these, and one whose rows are all described counts all of    *)
(* them.  Gate 07 looks for the dates, times and locations of facts alone: *)
(* an aggregate of another Gold run with the same totals passes it, and    *)
(* the inner join drops the groups that are not described.                 *)
FinishedMonthsStayInMarts ==
    \A m \in Months : Settled(m) =>
        LET trips == OfMonth(mart_trip_details, m) IN
        /\ trips # {}
        /\ Cardinality(trips) = Cardinality({t \in stg(Fact) : t[1].month = m})
        /\ {e[1] : e \in trips} = {t \in stg(Fact) : t[1].month = m}
        /\ \A i \in DOMAIN Aggs :
             /\ TripsCounted(i, m) <= Cardinality(trips)
             /\ GroupsAreRelated(i, m) => TripsCounted(i, m) = Cardinality(trips)

(* Once every run that was started has finished, dbt's tests of row        *)
(* counts, of unique keys and of the relationships of facts pass.  The     *)
(* relationships of aggregates (dbt/models/staging/staging.yml:116, 137,   *)
(* 158) are not among them: no gate of Phase 7 checks those.               *)
DbtTestsPass ==
    (\A r \in RunIds : status[r] \in {"waiting", "finished"}) =>
        RowsArePreserved /\ KeysAreUnique /\ FactsAreRelated
=============================================================================
