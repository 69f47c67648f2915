------------------------------ MODULE Medallion ------------------------------
(***************************************************************************)
(* Phases 4 to 6: the Bronze, Silver and Gold notebooks, run in order for  *)
(* one source month.  A notebook evaluates its output frames, replaces a   *)
(* Delta table (one month of it, or the whole snapshot) per frame, counts  *)
(* what it wrote and appends an audit record.  Quality notebooks and       *)
(* validation notebooks stand between the phases.  Every write is one      *)
(* Delta commit: several tables are never replaced together.               *)
(*                                                                         *)
(* A table is a bag of items.  Rows of a trip table are trips, rows of a   *)
(* zone or date table are zones or dates, and an aggregate maps a date or  *)
(* a zone to its trip_count.  One run is active at a time.                 *)
(***************************************************************************)
EXTENDS Integers, Sequences, FiniteSets, FiniteSetsExt

CONSTANTS
    Months,      \* source periods
    Trips,       \* trips by their trip_id
    Zones,       \* taxi zones by their location_id
    Dates,       \* days, as numbers
    Null,        \* the part of a table that is not partitioned; no run
    RawTrips,    \* RawTrips[m][v][t]: rows of trip t in upload v of month m
    RawZones,    \* RawZones[v]: the zones in upload v of the zone lookup
    TripUploads, \* TripUploads[m]: uploads of month m there are
    ZoneUploads, \* uploads of the zone lookup there are
    MaxUploads,  \* bound: uploads that replace a raw file
    Unsound,     \* trips a rejection rule on their own columns applies to
    Unlabelled,  \* zones without borough or name
    DateOf,      \* DateOf[t]: the date of trip t
    ZoneOf,      \* ZoneOf[t]: the location of trip t
    RunMonth,    \* RunMonth[r]: the month run r is started for
    RequiredFactAudits, \* widget of the notebooks 04_validate_phase5 and 07
    LateRepair,  \* whether a run is repaired after another run of its month
    MaxRepairs,  \* bound: repairs
    MaxFaults    \* bound: calls that raise

RunIds == DOMAIN RunMonth
Items  == Trips \cup Zones \cup Dates
Bag    == [Items -> Nat]
Parts  == Months \cup {Null}

ASSUME MedallionAssumption ==
    /\ IsFiniteSet(Trips) /\ IsFiniteSet(Zones) /\ IsFiniteSet(Dates)
    /\ Null \notin Months \cup RunIds
    /\ Dates \subseteq Nat
    /\ DateOf \in [Trips -> Dates] /\ ZoneOf \in [Trips -> Zones]
    /\ \A m \in Months : TripUploads[m] \in Nat \ {0}
    /\ ZoneUploads \in Nat \ {0}
    /\ \A m \in Months : \A v \in 1 .. TripUploads[m] : RawTrips[m][v] \in [Trips -> Nat]
    /\ \A v \in 1 .. ZoneUploads : RawZones[v] \subseteq Zones
    /\ \A r \in RunIds : RunMonth[r] \in Months
    /\ RequiredFactAudits \in 1 .. 2
    /\ LateRepair \in BOOLEAN
    /\ MaxUploads \in Nat /\ MaxRepairs \in Nat /\ MaxFaults \in Nat

(* A later zone lookup has the locations of an earlier one.  Nothing in the *)
(* code sees to it: the lookup is downloaded from TLC.                     *)
ASSUME LookupGrows ==
    \A v, w \in 1 .. ZoneUploads : v <= w => RawZones[v] \subseteq RawZones[w]

Aggs == {"agg_daily_trips", "agg_location_trips", "agg_hourly_trips"}
Partitioned == {"bronze_trips", "silver_trips", "silver_rejected_trips", "gold_trips"} \cup Aggs
Snapshots == {"bronze_zones", "silver_zones", "silver_rejected_zones",
              "dim_date", "dim_location"}
Tables == Partitioned \cup Snapshots

(* The part of table t that a run for month m replaces.                    *)
Part(t, m) == IF t \in Snapshots THEN Null ELSE m

(* The notebooks of a run.  Bronze ingestion runs twice, as its validation *)
(* asks for two audits.                                                    *)
Workflow == <<"ingest_yellow_taxi", "ingest_yellow_taxi", "ingest_taxi_zones",
              "bronze_quality", "validate_phase4",
              "transform_fact_trips", "transform_taxi_zones",
              "silver_quality", "validate_phase5",
              "build_dim_date", "build_dim_location", "build_fact_trips",
              "build_aggregations", "gold_quality", "validate_phase6">>

Names == {Workflow[i] : i \in DOMAIN Workflow}

(* The tables a notebook writes: one inner sequence per round of counting, *)
(* writing, verifying and auditing.                                        *)
Rounds(nb) ==
    CASE nb = "ingest_yellow_taxi"   -> << <<"bronze_trips">> >>
      [] nb = "ingest_taxi_zones"    -> << <<"bronze_zones">> >>
      [] nb = "transform_fact_trips" -> << <<"silver_trips", "silver_rejected_trips">> >>
      [] nb = "transform_taxi_zones" -> << <<"silver_zones", "silver_rejected_zones">> >>
      [] nb = "build_dim_date"       -> << <<"dim_date">> >>
      [] nb = "build_dim_location"   -> << <<"dim_location">> >>
      [] nb = "build_fact_trips"     -> << <<"gold_trips">> >>
      [] nb = "build_aggregations"   -> << <<"agg_daily_trips">>, <<"agg_location_trips">>,
                                           <<"agg_hourly_trips">> >>
      [] OTHER                       -> <<>>

VARIABLES
    uploads,   \* uploads[m]: the raw file of month m; uploads[Null]: the lookup
    table,     \* table[t][p]: part p of Delta table t
    audits,    \* audits[nb]: the last two records without error of notebook nb
    status,    \* status[r]: waiting, active, failed or finished
    pos,       \* pos[r]: the notebook run r is at
    latest,    \* latest[m]: the run of month m that was activated last
    step,      \* what the active notebook does next
    round,     \* the round it is in
    out,       \* the table of this round it writes next
    counts,    \* row counts of this round's frames
    repairs, faults,
    accepted   \* history: months whose last run passed all validations

data    == <<uploads, table>>
local   == <<round, out, counts>>
bounds  == <<repairs, faults>>
runs    == <<status, pos, latest, accepted>>
control == <<runs, bounds>>
vars    == <<data, audits, control, step, local>>

Records == [month : Months, source : Nat, rows : Nat]

(* Runs share the storage account one at a time (StartRun, RepairRun), only *)
(* an active run's notebook writes, and the part of an audit a gate looks   *)
(* at holds at most two error-free records.                                *)
TypeOK ==
    /\ uploads \in [Parts -> Nat]
    /\ \A m \in Months : uploads[m] \in 1 .. TripUploads[m]
    /\ uploads[Null] \in 1 .. ZoneUploads
    /\ table \in [Tables -> [Parts -> Bag]]
    /\ audits \in [Names -> Seq(Records)] /\ \A nb \in Names : Len(audits[nb]) <= 2
    /\ status \in [RunIds -> {"waiting", "active", "failed", "finished"}]
    /\ Cardinality({r \in RunIds : status[r] = "active"}) <= 1
    /\ pos \in [RunIds -> 1 .. Len(Workflow) + 1]
    /\ latest \in [Months -> RunIds \cup {Null}]
    /\ step \in {"idle", "count", "write", "verify", "audit", "done", "raised"}
    /\ step \in {"count", "write", "verify", "audit", "done", "raised"} => \E r \in RunIds : status[r] = "active"
    /\ round \in 1 .. 3 /\ out \in 1 .. 2
    /\ repairs \in 0 .. MaxRepairs /\ faults \in 0 .. MaxFaults
    /\ accepted \subseteq Months

Init ==
    /\ uploads = [p \in Parts |-> 1]
    /\ table = [t \in Tables |-> [p \in Parts |-> [i \in Items |-> 0]]]
    /\ audits = [nb \in Names |-> <<>>]
    /\ status = [r \in RunIds |-> "waiting"]
    /\ pos = [r \in RunIds |-> 1]
    /\ latest = [m \in Months |-> Null]
    /\ step = "idle" /\ round = 1 /\ out = 1 /\ counts = <<>>
    /\ repairs = 0 /\ faults = 0
    /\ accepted = {}

-----------------------------------------------------------------------------
(* The frames the notebooks compute. *)

Rows(S)    == [i \in Items |-> IF i \in S THEN 1 ELSE 0]
Present(f) == {i \in Items : f[i] > 0}

(* The rows of the items S in a frame f, and how many rows f has.          *)
Copies(f, S) == UNION {{i} \X (1 .. f[i]) : i \in S}
Total(f)     == Cardinality(Copies(f, Items))

(* build_zone_frames: labelled zones are valid, the others are rejected.   *)
ValidZones == Present(table["bronze_zones"][Null]) \ Unlabelled

(* build_trip_frames: a sound trip of a known zone is valid once; further  *)
(* rows of it are duplicates, and rejected with everything else.           *)
ValidTrips(m) ==
    {t \in Present(table["bronze_trips"][m]) : t \notin Unsound /\ ZoneOf[t] \in ValidZones}

SilverTrips(m)    == Rows(ValidTrips(m))
RejectedTrips(m)  == [i \in Items |-> table["bronze_trips"][m][i] - SilverTrips(m)[i]]

(* Every date from the first to the last one in D.                         *)
Calendar(D) == {d \in Dates : \E first, last \in D : first <= d /\ d <= last}

SilverDates(m) == {DateOf[t] : t \in Present(table["silver_trips"][m])}

(* Faulty variant: the dates of one month only.                            *)
DatesOfMonth(m) == Rows(Calendar(SilverDates(m)))

(* build_dim_date: every date from the first to the last one in the whole  *)
(* of Silver, whatever month the run is for.                               *)
DimDate(m) == Rows(Calendar(UNION {SilverDates(n) : n \in Months}))

(* trip_count of the groups of a Gold fact slice f.                        *)
CountBy(key, f) ==
    [i \in Items |-> Cardinality(Copies(f, {t \in Trips : key[t] = i}))]

(* The frame written to table t by a run for month m.                      *)
Frame(t, m) ==
    LET fact == table["gold_trips"][m]
        locations == table["dim_location"][Null]
    IN
    CASE t = "bronze_trips"          -> [i \in Items |-> IF i \in Trips
                                             THEN RawTrips[m][uploads[m]][i] ELSE 0]
      [] t = "bronze_zones"          -> Rows(RawZones[uploads[Null]])
      [] t = "silver_trips"          -> SilverTrips(m)
      [] t = "silver_rejected_trips" -> RejectedTrips(m)
      [] t = "silver_zones"          -> Rows(ValidZones)
      [] t = "silver_rejected_zones" -> Rows(Present(table["bronze_zones"][Null]) \ ValidZones)
      [] t = "dim_date"              -> DimDate(m)
      [] t = "dim_location"          -> table["silver_zones"][Null]
      [] t = "gold_trips"            -> table["silver_trips"][m]
      [] t = "agg_location_trips"    -> [i \in Items |-> IF locations[i] > 0
                                             THEN CountBy(ZoneOf, fact)[i] ELSE 0]
      [] OTHER                       -> CountBy(DateOf, fact)

(* The number of rows of a frame or table part: agg_location_trips has one *)
(* for every location, the other aggregates one for every group.           *)
RowCount(t, f) ==
    CASE t = "agg_location_trips" -> Total(table["dim_location"][Null])
      [] t \in Aggs               -> Cardinality(Present(f))
      [] OTHER                    -> Total(f)

-----------------------------------------------------------------------------
(* The environment and the job. *)

(* Faulty variant: a run replaces the one that is active.                  *)
StartRunBeside(r) ==
    /\ status[r] = "waiting"
    /\ status' = [status EXCEPT ![r] = "active"]
    /\ latest' = [latest EXCEPT ![RunMonth[r]] = r]
    /\ accepted' = accepted \ {RunMonth[r]}
    /\ UNCHANGED <<data, audits, pos, bounds, step, local>>

NoActiveRun == \A r \in RunIds : status[r] # "active"

(* A new file is uploaded to the raw area, possibly during a run.          *)
Upload(p) ==
    /\ uploads[p] < IF p = Null THEN ZoneUploads ELSE TripUploads[p]
    /\ MapThenSumSet(LAMBDA q : uploads[q] - 1, Parts) < MaxUploads
    /\ uploads' = [uploads EXCEPT ![p] = @ + 1]
    /\ UNCHANGED <<table, audits, control, step, local>>

StartRun(r) ==
    /\ NoActiveRun
    /\ status[r] = "waiting"
    /\ status' = [status EXCEPT ![r] = "active"]
    /\ latest' = [latest EXCEPT ![RunMonth[r]] = r]
    /\ accepted' = accepted \ {RunMonth[r]}
    /\ UNCHANGED <<data, audits, pos, bounds, step, local>>

(* A failed run starts again at the notebook that failed.                  *)
RepairRun(r) ==
    /\ NoActiveRun
    /\ status[r] = "failed"
    /\ LateRepair \/ latest[RunMonth[r]] = r
    /\ repairs < MaxRepairs /\ repairs' = repairs + 1
    /\ status' = [status EXCEPT ![r] = "active"]
    /\ latest' = [latest EXCEPT ![RunMonth[r]] = r]
    /\ accepted' = accepted \ {RunMonth[r]}
    /\ UNCHANGED <<data, audits, pos, faults, step, local>>

LaunchTask(r) ==
    /\ status[r] = "active" /\ step = "idle"
    /\ step' = "count"
    /\ round' = 1 /\ out' = 1 /\ counts' = <<>>
    /\ UNCHANGED <<data, audits, control>>

(* The last notebook of a run has succeeded.                               *)
TaskSucceeded(r) ==
    /\ status[r] = "active" /\ step = "done"
    /\ step' = "idle"
    /\ pos' = [pos EXCEPT ![r] = @ + 1]
    /\ IF pos[r] = Len(Workflow)
       THEN /\ status' = [status EXCEPT ![r] = "finished"]
            /\ accepted' = accepted \cup {RunMonth[r]}
       ELSE UNCHANGED <<status, accepted>>
    /\ UNCHANGED <<data, audits, latest, bounds, local>>

(* Faulty variant: the job goes on after a notebook that raised.           *)
TaskFailedIgnored(r) ==
    /\ status[r] = "active" /\ step = "raised"
    /\ step' = "idle"
    /\ IF pos[r] < Len(Workflow)
       THEN pos' = [pos EXCEPT ![r] = @ + 1] /\ UNCHANGED status
       ELSE status' = [status EXCEPT ![r] = "failed"] /\ UNCHANGED pos
    /\ UNCHANGED <<data, audits, bounds, latest, accepted, local>>

(* Faulty variant: only the failure of a gate is noticed.                  *)
TaskFailedUnnoticed(r) ==
    /\ status[r] = "active" /\ step = "raised" /\ Rounds(Workflow[pos[r]]) = <<>>
    /\ step' = "idle"
    /\ status' = [status EXCEPT ![r] = "failed"]
    /\ UNCHANGED <<data, audits, pos, bounds, latest, accepted, local>>

TaskFailed(r) ==
    /\ status[r] = "active" /\ step = "raised"
    /\ step' = "idle"
    /\ status' = [status EXCEPT ![r] = "failed"]
    /\ UNCHANGED <<data, audits, pos, bounds, latest, accepted, local>>

-----------------------------------------------------------------------------
(* The notebooks that write tables, run for the active run r. *)

Notebook(r) == Workflow[pos[r]]
Running(r, s) == status[r] = "active" /\ step = s
Fault == faults < MaxFaults /\ faults' = faults + 1

(* The tables of the round r's notebook is in.                             *)
Outs(r) == Rounds(Notebook(r))[round]

(* count() of every frame of the round; an empty source raises.            *)
CountFrames(r) ==
    /\ Running(r, "count") /\ Rounds(Notebook(r)) # <<>>
    /\ out' = 1
    /\ counts' = [i \in DOMAIN Outs(r) |-> RowCount(Outs(r)[i], Frame(Outs(r)[i], RunMonth[r]))]
    /\ step' = IF \A i \in DOMAIN Outs(r) : counts'[i] = 0 THEN "raised" ELSE "write"
    /\ UNCHANGED <<data, audits, control, round>>

(* The frame, evaluated again, replaces its part of the table in one commit.*)
Written(t, m) == [table EXCEPT ![t][Part(t, m)] = Frame(t, m)]

WriteTable(r) ==
    /\ Running(r, "write")
    /\ table' = Written(Outs(r)[out], RunMonth[r])
    /\ IF out = Len(Outs(r))
       THEN step' = "verify" /\ UNCHANGED out
       ELSE out' = out + 1 /\ UNCHANGED step
    /\ UNCHANGED <<uploads, audits, control, round, counts>>

(* save() raises, with or without its commit.                              *)
WriteRaises(r) ==
    /\ Running(r, "write")
    /\ Fault
    /\ table' \in {table, Written(Outs(r)[out], RunMonth[r])}
    /\ step' = "raised"
    /\ UNCHANGED <<uploads, audits, runs, repairs, local>>

VerifyTables(r) ==
    LET Persisted(t) == RowCount(t, table[t][Part(t, RunMonth[r])]) IN
    /\ Running(r, "verify")
    /\ step' = IF \A i \in DOMAIN Outs(r) : Persisted(Outs(r)[i]) = counts[i]
               THEN "audit" ELSE "raised"
    /\ UNCHANGED <<data, audits, control, local>>

(* The record of a round that succeeded; gates look at the last two.       *)
LastTwo(s) == IF Len(s) > 2 THEN Tail(s) ELSE s

Audited(nb, m, source, rows) ==
    [audits EXCEPT ![nb] = LastTwo(Append(@, [month |-> m, source |-> source, rows |-> rows]))]

(* A round counts one frame, or valid and rejected rows of one source.     *)
RoundAudit(r) ==
    Audited(Notebook(r), RunMonth[r],
            IF Len(Outs(r)) = 1 THEN counts[1] ELSE counts[1] + counts[2], counts[1])

AppendAudit(r) ==
    /\ Running(r, "audit")
    /\ audits' = RoundAudit(r)
    /\ IF round = Len(Rounds(Notebook(r)))
       THEN step' = "done" /\ UNCHANGED round
       ELSE step' = "count" /\ round' = round + 1
    /\ UNCHANGED <<data, control, out, counts>>

AppendAuditRaises(r) ==
    /\ Running(r, "audit")
    /\ Fault
    /\ audits' \in {audits, RoundAudit(r)}
    /\ step' = "raised"
    /\ UNCHANGED <<data, runs, repairs, local>>

(* Any other call raises, or the driver is lost: the except clause, if it  *)
(* runs, appends a record with an error, which no gate looks at.           *)
TaskRaises(r) ==
    /\ \E s \in {"count", "write", "verify", "audit"} : Running(r, s)
    /\ Fault
    /\ step' = "raised"
    /\ UNCHANGED <<data, audits, runs, repairs, local>>

-----------------------------------------------------------------------------
(* The quality and validation notebooks.  They only read what no other     *)
(* notebook changes meanwhile, so each is one step.                        *)

(* Every trip of the Gold slice finds its date and its location.           *)
DimensionsCover(m) ==
    \A t \in Present(table["gold_trips"][m]) :
        /\ table["dim_date"][Null][DateOf[t]] > 0
        /\ table["dim_location"][Null][ZoneOf[t]] > 0

(* The trip counts of every aggregate add up to the facts.                 *)
AggregatesAddUp(m) ==
    \A a \in Aggs : Total(table[a][m]) = Total(table["gold_trips"][m])

SilverQuality(m) ==
    LET source   == Total(table["bronze_trips"][m])
        valid    == Total(table["silver_trips"][m])
        rejected == Total(table["silver_rejected_trips"][m])
    IN  /\ source > 0 /\ valid > 0 /\ source = valid + rejected
        /\ 5 * rejected <= source

GoldQuality(m) ==
    /\ Total(table["gold_trips"][m]) > 0
    /\ DimensionsCover(m) /\ AggregatesAddUp(m)

(* The last n records of nb, of whatever month.                            *)
LatestAudits(nb, n) ==
    LET k == Len(audits[nb]) IN {audits[nb][i] : i \in Max({1, k - n + 1}) .. k}

ValidatePhase4(m) ==
    LET delta == Total(table["bronze_trips"][m]) IN
    /\ Total(Frame("bronze_trips", m)) = delta
    /\ Cardinality(RawZones[uploads[Null]]) = Total(table["bronze_zones"][Null])
    /\ Len(audits["ingest_yellow_taxi"]) >= 2
    /\ \A a \in LatestAudits("ingest_yellow_taxi", 2) : a.rows = delta
    /\ audits["bronze_quality"] # <<>>

ValidatePhase5(m) ==
    LET source == Total(table["bronze_trips"][m])
        valid  == Total(table["silver_trips"][m])
    IN  /\ source = valid + Total(table["silver_rejected_trips"][m])
        /\ Total(table["bronze_zones"][Null]) =
              Total(table["silver_zones"][Null]) + Total(table["silver_rejected_zones"][Null])
        /\ \A t \in Present(table["silver_trips"][m]) :
              table["silver_zones"][Null][ZoneOf[t]] > 0 /\ table["silver_trips"][m][t] = 1
        /\ Len(audits["transform_fact_trips"]) >= RequiredFactAudits
        /\ \A a \in LatestAudits("transform_fact_trips", RequiredFactAudits) :
              a.source = source /\ a.rows = valid
        /\ audits["silver_quality"] # <<>>

ValidatePhase6(m) ==
    LET fact == Total(table["gold_trips"][m]) IN
    /\ Total(table["silver_trips"][m]) = fact
    /\ Total(table["dim_date"][Null]) > 0 /\ Total(table["dim_location"][Null]) > 0
    /\ DimensionsCover(m) /\ AggregatesAddUp(m)
    /\ Len(audits["build_fact_trips"]) >= RequiredFactAudits
    /\ \A a \in LatestAudits("build_fact_trips", RequiredFactAudits) : a.rows = fact
    /\ audits["gold_quality"] # <<>>

Passes(nb, m) ==
    CASE nb = "bronze_quality"  -> Total(table["bronze_trips"][m]) > 0
      [] nb = "validate_phase4" -> ValidatePhase4(m)
      [] nb = "silver_quality"  -> SilverQuality(m)
      [] nb = "validate_phase5" -> ValidatePhase5(m)
      [] nb = "gold_quality"    -> GoldQuality(m)
      [] nb = "validate_phase6" -> ValidatePhase6(m)

(* A quality notebook that passes leaves an audit record without error.    *)
Gate(r) ==
    LET nb == Notebook(r)
        m  == RunMonth[r]
        passes == Passes(nb, m)
    IN  /\ Running(r, "count") /\ Rounds(nb) = <<>>
        /\ step' = IF passes THEN "done" ELSE "raised"
        /\ audits' = IF passes /\ nb \in {"bronze_quality", "silver_quality", "gold_quality"}
                     THEN Audited(nb, m, 0, 0) ELSE audits
        /\ UNCHANGED <<data, control, local>>

-----------------------------------------------------------------------------
RunStep(r) ==
    \/ LaunchTask(r) \/ TaskSucceeded(r) \/ TaskFailed(r)
    \/ CountFrames(r) \/ WriteTable(r) \/ VerifyTables(r) \/ AppendAudit(r)
    \/ Gate(r)

Next ==
    \/ \E p \in Parts : Upload(p)
    \/ \E r \in RunIds :
          \/ StartRun(r) \/ RepairRun(r)
          \/ RunStep(r)
          \/ WriteRaises(r) \/ AppendAuditRaises(r) \/ TaskRaises(r)

(* The active run goes on; nobody has to start or repair one.              *)
Spec == Init /\ [][Next]_vars /\ WF_vars(\E r \in RunIds : RunStep(r))

-----------------------------------------------------------------------------
(* Properties. *)

(* Silver's classification of a month under some upload of the lookup: the *)
(* sound trips of a labelled location are valid once, all else is rejected. *)
ClassifiedBy(v, m) ==
    LET bronze == table["bronze_trips"][m]
        valid  == {t \in Present(bronze) : t \notin Unsound
                                         /\ ZoneOf[t] \in RawZones[v] \ Unlabelled}
    IN  /\ table["silver_trips"][m] = Rows(valid)
        /\ \A i \in Items : bronze[i] =
              table["silver_trips"][m][i] + table["silver_rejected_trips"][m][i]

(* The tables of a month that passed the last validation are consistent    *)
(* row by row through all layers, although the gates compare counts: the   *)
(* valid and rejected trips together are the Bronze batch, the Gold facts  *)
(* are the valid trips, and the aggregates are those of the facts.         *)
AcceptedIsReconciled ==
    \A m \in accepted :
        LET fact == table["gold_trips"][m] IN
        /\ \E v \in 1 .. uploads[Null] : ClassifiedBy(v, m)
        /\ fact = table["silver_trips"][m]
        /\ table["agg_daily_trips"][m] = CountBy(DateOf, fact)
        /\ table["agg_hourly_trips"][m] = CountBy(DateOf, fact)
        /\ table["agg_location_trips"][m] = CountBy(ZoneOf, fact)

(* "Backfill or retry must ... not disturb unrelated periods"              *)
(* (docs/Design.md:186): the accepted Gold slice of a month keeps its dates *)
(* and locations and its aggregates while other months are run.  The dim   *)
(* tables are replaced as a whole by every run.                            *)
UnrelatedMonthsStayIntact ==
    \A m \in accepted : DimensionsCover(m) /\ AggregatesAddUp(m)

(* A run does not stay active: it finishes or fails, also when data raise. *)
ActiveRunEnds == ~NoActiveRun ~> NoActiveRun
=============================================================================
