--------------------------- MODULE MedallionProofs ---------------------------
(***************************************************************************)
(* Proofs about Medallion, for any number of months, trips, zones, runs,   *)
(* uploads, repairs and faults.                                            *)
(***************************************************************************)
EXTENDS Medallion, SequenceTheorems, FiniteSetTheorems, TLAPS

(***************************************************************************)
(* The notebooks and the tables they write.                                *)
(***************************************************************************)

LEMMA WorkflowFacts ==
  /\ Len(Workflow) = 15 /\ DOMAIN Workflow = 1 .. 15
  /\ Workflow[1] = "ingest_yellow_taxi" /\ Workflow[2] = "ingest_yellow_taxi"
  /\ Workflow[3] = "ingest_taxi_zones" /\ Workflow[4] = "bronze_quality"
  /\ Workflow[5] = "validate_phase4" /\ Workflow[6] = "transform_fact_trips"
  /\ Workflow[7] = "transform_taxi_zones" /\ Workflow[8] = "silver_quality"
  /\ Workflow[9] = "validate_phase5" /\ Workflow[10] = "build_dim_date"
  /\ Workflow[11] = "build_dim_location" /\ Workflow[12] = "build_fact_trips"
  /\ Workflow[13] = "build_aggregations" /\ Workflow[14] = "gold_quality"
  /\ Workflow[15] = "validate_phase6"
BY DEF Workflow

LEMMA Positions == \A p \in 1 .. 15 : p \in {1, 2, 3, 4, 5, 6, 7, 8, 9, 10, 11, 12, 13, 14, 15}
OBVIOUS

(* The rounds of the notebook at position p.                               *)
LEMMA RoundsFacts ==
  /\ \A p \in {1, 2} : Rounds(Workflow[p]) = << <<"bronze_trips">> >>
  /\ Rounds(Workflow[3]) = << <<"bronze_zones">> >>
  /\ Rounds(Workflow[6]) = << <<"silver_trips", "silver_rejected_trips">> >>
  /\ Rounds(Workflow[7]) = << <<"silver_zones", "silver_rejected_zones">> >>
  /\ Rounds(Workflow[10]) = << <<"dim_date">> >>
  /\ Rounds(Workflow[11]) = << <<"dim_location">> >>
  /\ Rounds(Workflow[12]) = << <<"gold_trips">> >>
  /\ Rounds(Workflow[13]) = << <<"agg_daily_trips">>, <<"agg_location_trips">>,
                               <<"agg_hourly_trips">> >>
  /\ \A p \in {4, 5, 8, 9, 14, 15} : Rounds(Workflow[p]) = <<>>
BY WorkflowFacts DEF Rounds

(* The positions of the notebooks that write, their rounds and tables.     *)
Writers == {1, 2, 3, 6, 7, 10, 11, 12, 13}

TableOf(p, k, j) == Rounds(Workflow[p])[k][j]

LEMMA WriterFacts ==
  /\ \A p \in 1 .. 15 : Rounds(Workflow[p]) # <<>> <=> p \in Writers
  /\ \A p \in Writers : /\ Len(Rounds(Workflow[p])) = IF p = 13 THEN 3 ELSE 1
                        /\ DOMAIN Rounds(Workflow[p]) = 1 .. IF p = 13 THEN 3 ELSE 1
  /\ \A p \in Writers : \A k \in DOMAIN Rounds(Workflow[p]) :
        /\ Len(Rounds(Workflow[p])[k]) = IF p \in {6, 7} THEN 2 ELSE 1
        /\ DOMAIN Rounds(Workflow[p])[k] = 1 .. IF p \in {6, 7} THEN 2 ELSE 1
<1>1. \A p \in 1 .. 15 : Rounds(Workflow[p]) # <<>> <=> p \in Writers
  BY RoundsFacts, Positions DEF Writers
<1>2. ASSUME NEW p \in Writers
      PROVE  /\ Len(Rounds(Workflow[p])) = IF p = 13 THEN 3 ELSE 1
             /\ DOMAIN Rounds(Workflow[p]) = 1 .. IF p = 13 THEN 3 ELSE 1
  <2>1. Len(Rounds(Workflow[1])) = 1 /\ DOMAIN Rounds(Workflow[1]) = 1 .. 1
    BY RoundsFacts
  <2>2. Len(Rounds(Workflow[2])) = 1 /\ DOMAIN Rounds(Workflow[2]) = 1 .. 1
    BY RoundsFacts
  <2>3. Len(Rounds(Workflow[3])) = 1 /\ DOMAIN Rounds(Workflow[3]) = 1 .. 1
    BY RoundsFacts
  <2>4. Len(Rounds(Workflow[6])) = 1 /\ DOMAIN Rounds(Workflow[6]) = 1 .. 1
    BY RoundsFacts
  <2>5. Len(Rounds(Workflow[7])) = 1 /\ DOMAIN Rounds(Workflow[7]) = 1 .. 1
    BY RoundsFacts
  <2>6. Len(Rounds(Workflow[10])) = 1 /\ DOMAIN Rounds(Workflow[10]) = 1 .. 1
    BY RoundsFacts
  <2>7. Len(Rounds(Workflow[11])) = 1 /\ DOMAIN Rounds(Workflow[11]) = 1 .. 1
    BY RoundsFacts
  <2>8. Len(Rounds(Workflow[12])) = 1 /\ DOMAIN Rounds(Workflow[12]) = 1 .. 1
    BY RoundsFacts
  <2>9. Len(Rounds(Workflow[13])) = 3 /\ DOMAIN Rounds(Workflow[13]) = 1 .. 3
    BY RoundsFacts
  <2> QED BY <2>1, <2>2, <2>3, <2>4, <2>5, <2>6, <2>7, <2>8, <2>9 DEF Writers
<1>3. ASSUME NEW p \in Writers, NEW k \in DOMAIN Rounds(Workflow[p])
      PROVE  /\ Len(Rounds(Workflow[p])[k]) = IF p \in {6, 7} THEN 2 ELSE 1
             /\ DOMAIN Rounds(Workflow[p])[k] = 1 .. IF p \in {6, 7} THEN 2 ELSE 1
  <2>1. CASE p \in {1, 2}
    BY <2>1, <1>2, RoundsFacts
  <2>2. CASE p = 13
    <3>1. k = 1 \/ k = 2 \/ k = 3
      BY <2>2, <1>2
    <3> QED BY <2>2, <3>1, RoundsFacts
  <2>3. CASE p \in {6, 7}
    BY <2>3, <1>2, RoundsFacts
  <2>4. CASE p \in {3, 10, 11, 12}
    BY <2>4, <1>2, RoundsFacts
  <2> QED BY <2>1, <2>2, <2>3, <2>4 DEF Writers
<1> QED BY <1>1, <1>2, <1>3

LEMMA RoundTables ==
  ASSUME NEW p \in Writers, NEW k \in DOMAIN Rounds(Workflow[p])
  PROVE  /\ DOMAIN Rounds(Workflow[p])[k] = 1 .. Len(Rounds(Workflow[p])[k])
         /\ Len(Rounds(Workflow[p])[k]) \in 1 .. 2 /\ 1 \in DOMAIN Rounds(Workflow[p])[k]
         /\ DOMAIN Rounds(Workflow[p]) = 1 .. Len(Rounds(Workflow[p]))
         /\ Len(Rounds(Workflow[p])) \in 1 .. 3 /\ k \in 1 .. 3
<1>1. /\ Len(Rounds(Workflow[p])) = IF p = 13 THEN 3 ELSE 1
      /\ DOMAIN Rounds(Workflow[p]) = 1 .. IF p = 13 THEN 3 ELSE 1
  BY WriterFacts
<1>2. /\ Len(Rounds(Workflow[p])[k]) = IF p \in {6, 7} THEN 2 ELSE 1
      /\ DOMAIN Rounds(Workflow[p])[k] = 1 .. IF p \in {6, 7} THEN 2 ELSE 1
  BY WriterFacts
<1> QED BY <1>1, <1>2

LEMMA TableFacts ==
  /\ \A p \in {1, 2} : TableOf(p, 1, 1) = "bronze_trips"
  /\ TableOf(3, 1, 1) = "bronze_zones"
  /\ TableOf(6, 1, 1) = "silver_trips" /\ TableOf(6, 1, 2) = "silver_rejected_trips"
  /\ TableOf(7, 1, 1) = "silver_zones" /\ TableOf(7, 1, 2) = "silver_rejected_zones"
  /\ TableOf(10, 1, 1) = "dim_date" /\ TableOf(11, 1, 1) = "dim_location"
  /\ TableOf(12, 1, 1) = "gold_trips"
  /\ TableOf(13, 1, 1) = "agg_daily_trips" /\ TableOf(13, 2, 1) = "agg_location_trips"
  /\ TableOf(13, 3, 1) = "agg_hourly_trips"
BY RoundsFacts DEF TableOf

LEMMA TableOfType ==
  ASSUME NEW p \in Writers, NEW k \in DOMAIN Rounds(Workflow[p]),
         NEW j \in DOMAIN Rounds(Workflow[p])[k]
  PROVE  TableOf(p, k, j) \in Tables
<1>1. /\ k \in 1 .. IF p = 13 THEN 3 ELSE 1
      /\ j \in 1 .. IF p \in {6, 7} THEN 2 ELSE 1
  BY WriterFacts
<1>2. /\ p = 13 => (k = 1 \/ k = 2 \/ k = 3) /\ j = 1
      /\ p \in {6, 7} => k = 1 /\ (j = 1 \/ j = 2)
      /\ p \notin {6, 7, 13} => k = 1 /\ j = 1
  BY <1>1
<1> QED BY <1>2, TableFacts DEF Writers, Tables, Partitioned, Snapshots, Aggs

(***************************************************************************)
(* Frames.                                                                 *)
(***************************************************************************)

LEMMA ItemsFinite == IsFiniteSet(Items)
BY MedallionAssumption, FS_Union DEF Items

(* The rows of finitely many items are counted by a number.                *)
LEMMA CopiesFinite ==
  ASSUME NEW f \in Bag, NEW S \in SUBSET Items
  PROVE  Cardinality(Copies(f, S)) \in Nat
<1> DEFINE Copy(i) == {i} \X (1 .. f[i])
           C == {Copy(i) : i \in S}
           g == [i \in S |-> Copy(i)]
<1>1. IsFiniteSet(S)
  BY ItemsFinite, FS_Subset
<1>2. IsFiniteSet(C)
  <2>1. g \in Surjection(S, C)
    BY Zenon DEF Surjection
  <2> QED BY <1>1, <2>1, FS_Surjection
<1>3. ASSUME NEW T \in C PROVE IsFiniteSet(T)
  <2>1. PICK i \in S : T = Copy(i)
    OBVIOUS
  <2>2. f[i] \in Int /\ IsFiniteSet(1 .. f[i])
    BY FS_Interval DEF Bag
  <2> QED BY <2>1, <2>2, FS_Singleton, FS_Product
<1>4. IsFiniteSet(UNION C)
  BY <1>2, <1>3, FS_UNION
<1>5. Copies(f, S) = UNION C
  BY DEF Copies
<1> QED BY <1>4, <1>5, FS_CardinalityType

LEMMA TotalType == \A f \in Bag : Total(f) \in Nat
BY CopiesFinite DEF Total

LEMMA TripsAreItems == Trips \subseteq Items /\ Zones \subseteq Items /\ Dates \subseteq Items
BY DEF Items

LEMMA CountByType ==
  ASSUME NEW f \in Bag, NEW key
  PROVE  CountBy(key, f) \in Bag
<1>1. ASSUME NEW i \in Items PROVE Cardinality(Copies(f, {t \in Trips : key[t] = i})) \in Nat
  BY CopiesFinite, TripsAreItems
<1> QED BY <1>1 DEF CountBy, Bag

LEMMA RowsType == \A S : Rows(S) \in Bag
BY DEF Rows, Bag

(* What the frames need to know of the tables and the raw files.           *)
DataTypes ==
  /\ uploads \in [Parts -> Nat]
  /\ \A m \in Months : uploads[m] \in 1 .. TripUploads[m]
  /\ uploads[Null] \in 1 .. ZoneUploads
  /\ table \in [Tables -> [Parts -> Bag]]

LEMMA PartType ==
  ASSUME NEW t \in Tables, NEW m \in Months
  PROVE  /\ Part(t, m) \in Parts
         /\ t \in Snapshots => Part(t, m) = Null
         /\ t \in Partitioned => Part(t, m) = m /\ t \notin Snapshots
BY DEF Part, Parts, Partitioned, Snapshots, Aggs

LEMMA TablesAre ==
  /\ {"bronze_trips", "silver_trips", "silver_rejected_trips", "gold_trips",
      "agg_daily_trips", "agg_location_trips", "agg_hourly_trips"} = Partitioned
  /\ Partitioned \cup Snapshots = Tables
  /\ {"bronze_trips", "silver_trips", "silver_rejected_trips", "gold_trips",
      "agg_daily_trips", "agg_location_trips", "agg_hourly_trips",
      "bronze_zones", "silver_zones", "silver_rejected_zones",
      "dim_date", "dim_location"} = Tables
BY DEF Partitioned, Snapshots, Aggs, Tables

LEMMA FrameType ==
  ASSUME DataTypes, NEW t \in Tables, NEW m \in Months
  PROVE  Frame(t, m) \in Bag
<1>1. \A u \in Tables : table[u][m] \in Bag /\ table[u][Null] \in Bag
  BY DEF DataTypes, Parts
<1>2. CASE t = "bronze_trips"
  <2>1. RawTrips[m][uploads[m]] \in [Trips -> Nat]
    BY MedallionAssumption DEF DataTypes
  <2>2. Frame(t, m) = [i \in Items |-> IF i \in Trips THEN RawTrips[m][uploads[m]][i] ELSE 0]
    BY <1>2 DEF Frame
  <2> QED BY <2>1, <2>2 DEF Bag
<1>3. CASE t \in {"bronze_zones", "silver_trips", "silver_zones", "silver_rejected_zones",
                  "dim_date"}
  BY <1>3, RowsType DEF Frame, SilverTrips, DimDate
<1>4. CASE t = "silver_rejected_trips"
  <2>1. table["bronze_trips"][m] \in Bag
    BY <1>1, TablesAre
  <2>2. Frame(t, m) = RejectedTrips(m)
    BY <1>4 DEF Frame
  <2>3. ASSUME NEW i \in Items
        PROVE  table["bronze_trips"][m][i] - SilverTrips(m)[i] \in Nat
    BY <2>1 DEF SilverTrips, Rows, ValidTrips, Present, Bag
  <2> QED BY <2>2, <2>3 DEF RejectedTrips, Bag
<1>5. CASE t \in {"dim_location", "gold_trips"}
  BY <1>1, <1>5, TablesAre DEF Frame
<1>6. CASE t = "agg_location_trips"
  <2>1. CountBy(ZoneOf, table["gold_trips"][m]) \in Bag
    BY <1>1, TablesAre, CountByType
  <2>2. Frame(t, m) = [i \in Items |-> IF table["dim_location"][Null][i] > 0
                          THEN CountBy(ZoneOf, table["gold_trips"][m])[i] ELSE 0]
    BY <1>6 DEF Frame
  <2> QED BY <2>1, <2>2 DEF Bag
<1>7. CASE t \in {"agg_daily_trips", "agg_hourly_trips"}
  <2>1. CountBy(DateOf, table["gold_trips"][m]) \in Bag
    BY <1>1, TablesAre, CountByType
  <2> QED BY <1>7, <2>1 DEF Frame
<1> QED BY <1>2, <1>3, <1>4, <1>5, <1>6, <1>7, TablesAre

LEMMA RowCountType ==
  ASSUME DataTypes, NEW t, NEW f \in Bag
  PROVE  RowCount(t, f) \in Nat
<1>1. IsFiniteSet(Present(f))
  BY ItemsFinite, FS_Subset DEF Present
<1>2. table["dim_location"][Null] \in Bag
  BY TablesAre DEF DataTypes, Parts
<1> QED BY <1>1, <1>2, TotalType, FS_CardinalityType DEF RowCount

LEMMA WrittenType ==
  ASSUME DataTypes, NEW t \in Tables, NEW m \in Months
  PROVE  /\ Written(t, m) \in [Tables -> [Parts -> Bag]]
         /\ Written(t, m)[t][Part(t, m)] = Frame(t, m)
         /\ \A u \in Tables : \A q \in Parts :
               u # t \/ q # Part(t, m) => Written(t, m)[u][q] = table[u][q]
BY FrameType, PartType DEF DataTypes, Written

(***************************************************************************)
(* Types.                                                                  *)
(***************************************************************************)

AuditTypes == audits \in [Names -> Seq(Records)] /\ \A nb \in Names : Len(audits[nb]) <= 2

ControlTypes ==
  /\ status \in [RunIds -> {"waiting", "active", "failed", "finished"}]
  /\ pos \in [RunIds -> 1 .. 16]
  /\ latest \in [Months -> RunIds \cup {Null}]
  /\ step \in {"idle", "count", "write", "verify", "audit", "done", "raised"}
  /\ round \in 1 .. 3 /\ out \in 1 .. 2
  /\ repairs \in 0 .. MaxRepairs /\ faults \in 0 .. MaxFaults
  /\ accepted \subseteq Months

(* One run is active at a time, and it is the latest of its month; an      *)
(* accepted month is that of a finished run that was not followed by       *)
(* another one.                                                            *)
RunsInTurn ==
  /\ \A r, q \in RunIds : status[r] = "active" /\ status[q] = "active" => r = q
  /\ \A r \in RunIds : status[r] = "finished" <=> pos[r] = 16
  /\ \A r \in RunIds : status[r] = "waiting" => pos[r] = 1
  /\ \A r \in RunIds : status[r] = "active" => latest[RunMonth[r]] = r
  /\ \A m \in Months : latest[m] # Null =>
        RunMonth[latest[m]] = m /\ status[latest[m]] # "waiting"
  /\ \A m \in accepted : latest[m] # Null /\ status[latest[m]] = "finished"
  /\ step # "idle" => \E r \in RunIds : status[r] = "active"

(* What the active run r is at while a notebook writes.                    *)
Writing == {"write", "verify", "audit"}

InNotebook(r) ==
  /\ pos[r] \notin Writers => step \notin Writing
  /\ pos[r] \in Writers /\ step \in Writing \cup {"count", "done"} =>
        round \in DOMAIN Rounds(Notebook(r))
  /\ pos[r] \in Writers /\ step = "done" => round = Len(Rounds(Notebook(r)))
  /\ step \in Writing =>
        out \in DOMAIN Outs(r) /\ counts \in [DOMAIN Outs(r) -> Nat]

StepsOfNotebook == \A r \in RunIds : status[r] = "active" => InNotebook(r)

Types == DataTypes /\ AuditTypes /\ ControlTypes

ControlInv == Types /\ RunsInTurn /\ StepsOfNotebook

LEMMA TypesOfTypeOK == ControlInv => TypeOK
<1> SUFFICES ASSUME ControlInv PROVE TypeOK
  OBVIOUS
<1> DEFINE A == {r \in RunIds : status[r] = "active"}
<1>1. A = {} \/ \E r \in RunIds : A = {r}
  BY DEF ControlInv, RunsInTurn
<1>2. Cardinality(A) <= 1
  BY <1>1, FS_EmptySet, FS_Singleton
<1>3. step \in {"count", "write", "verify", "audit", "done", "raised"}
        => \E r \in RunIds : status[r] = "active"
  BY DEF ControlInv, RunsInTurn
<1> HIDE DEF A
<1>4. A = {r \in RunIds : status[r] = "active"}
  BY DEF A
<1> QED BY <1>2, <1>3, <1>4, WorkflowFacts
        DEF ControlInv, Types, DataTypes, AuditTypes, ControlTypes, TypeOK

LEMMA InitControl == Init => ControlInv
<1> SUFFICES ASSUME Init PROVE ControlInv
  OBVIOUS
<1>1. DataTypes
  <2>1. \A m \in Months : uploads[m] \in 1 .. TripUploads[m]
    BY MedallionAssumption DEF Init, Parts
  <2>2. uploads[Null] \in 1 .. ZoneUploads /\ uploads \in [Parts -> Nat]
    BY MedallionAssumption DEF Init, Parts
  <2>3. table \in [Tables -> [Parts -> Bag]]
    BY DEF Init, Bag
  <2> QED BY <2>1, <2>2, <2>3 DEF DataTypes
<1>2. AuditTypes
  BY DEF AuditTypes, Init
<1>3. ControlTypes
  BY MedallionAssumption DEF ControlTypes, Init
<1>4. RunsInTurn
  BY MedallionAssumption DEF RunsInTurn, Init
<1>5. StepsOfNotebook
  BY DEF StepsOfNotebook, Init
<1> QED BY <1>1, <1>2, <1>3, <1>4, <1>5 DEF ControlInv, Types

(* Steps of the environment and of the job.                                *)
LEMMA ControlEnvironment ==
  ASSUME ControlInv,
         \/ \E p \in Parts : Upload(p)
         \/ \E r \in RunIds : StartRun(r) \/ RepairRun(r)
  PROVE  ControlInv'
<1> USE DEF ControlInv, Types
<1>1. ASSUME NEW p \in Parts, Upload(p) PROVE ControlInv'
  <2>1. /\ uploads[p] < IF p = Null THEN ZoneUploads ELSE TripUploads[p]
        /\ uploads' = [uploads EXCEPT ![p] = @ + 1] /\ UNCHANGED table
    BY <1>1 DEF Upload
  <2>3. DataTypes'
    BY <2>1, MedallionAssumption DEF DataTypes, Parts
  <2>2. UNCHANGED <<audits, status, pos, latest, step, round, out, counts, repairs, faults,
                    accepted>>
    BY <1>1 DEF Upload, control, runs, bounds, local
  <2> QED BY <2>2, <2>3 DEF AuditTypes, ControlTypes, RunsInTurn, StepsOfNotebook,
                            InNotebook, Notebook, Outs
<1>2. ASSUME NEW r \in RunIds, StartRun(r) \/ RepairRun(r) PROVE ControlInv'
  <2>1. /\ UNCHANGED <<uploads, table, audits, pos, step, round, out, counts, faults>>
        /\ \A q \in RunIds : status[q] # "active"
        /\ status[r] \in {"waiting", "failed"}
        /\ status' = [status EXCEPT ![r] = "active"]
        /\ latest' = [latest EXCEPT ![RunMonth[r]] = r]
        /\ accepted' = accepted \ {RunMonth[r]}
        /\ repairs' \in 0 .. MaxRepairs
    BY <1>2, MedallionAssumption
       DEF StartRun, RepairRun, NoActiveRun, data, bounds, local, ControlTypes
  <2>2. step = "idle"
    BY <2>1 DEF RunsInTurn
  <2>3. RunMonth[r] \in Months /\ r # Null
    BY MedallionAssumption
  <2>4. Types'
    BY <2>1, <2>3 DEF DataTypes, AuditTypes, ControlTypes
  <2>5. RunsInTurn'
    BY <2>1, <2>2, <2>3 DEF RunsInTurn, ControlTypes
  <2>6. StepsOfNotebook'
    BY <2>1, <2>2 DEF StepsOfNotebook, InNotebook, Writing
  <2> QED BY <2>4, <2>5, <2>6
<1> QED BY <1>1, <1>2

LEMMA ControlJob ==
  ASSUME ControlInv, NEW r \in RunIds, LaunchTask(r) \/ TaskSucceeded(r) \/ TaskFailed(r)
  PROVE  ControlInv'
<1> USE DEF ControlInv, Types
<1>1. CASE LaunchTask(r)
  <2>1. /\ UNCHANGED <<uploads, table, audits, status, pos, latest, accepted, repairs, faults>>
        /\ status[r] = "active" /\ step' = "count" /\ round' = 1 /\ out' = 1
    BY <1>1 DEF LaunchTask, data, control, runs, bounds
  <2>2. Types'
    BY <2>1 DEF DataTypes, AuditTypes, ControlTypes
  <2>3. RunsInTurn'
    BY <2>1 DEF RunsInTurn
  <2>4. StepsOfNotebook'
    <3>1. \A p \in Writers : 1 \in DOMAIN Rounds(Workflow[p])
      BY WriterFacts
    <3> QED BY <2>1, <3>1 DEF StepsOfNotebook, InNotebook, Writing, Notebook
  <2> QED BY <2>2, <2>3, <2>4
<1>2. CASE TaskSucceeded(r)
  <2>1. /\ UNCHANGED <<uploads, table, audits, latest, repairs, faults, round, out, counts>>
        /\ status[r] = "active" /\ step' = "idle"
        /\ pos' = [pos EXCEPT ![r] = @ + 1]
        /\ IF pos[r] = 15 THEN /\ status' = [status EXCEPT ![r] = "finished"]
                               /\ accepted' = accepted \cup {RunMonth[r]}
                          ELSE UNCHANGED <<status, accepted>>
    BY <1>2, WorkflowFacts DEF TaskSucceeded, data, bounds, local
  <2>2. pos[r] \in 1 .. 15
    BY <2>1 DEF RunsInTurn, ControlTypes
  <2>3. RunMonth[r] \in Months /\ r # Null
    BY MedallionAssumption
  <2>4. Types'
    <3>1. DataTypes' /\ AuditTypes'
      BY <2>1 DEF DataTypes, AuditTypes
    <3>2. pos' \in [RunIds -> 1 .. 16] /\ accepted' \subseteq Months
      BY <2>1, <2>2, <2>3 DEF ControlTypes
    <3>3. status' \in [RunIds -> {"waiting", "active", "failed", "finished"}]
      BY <2>1 DEF ControlTypes
    <3> QED BY <2>1, <3>1, <3>2, <3>3 DEF ControlTypes
  <2>5. RunsInTurn'
    <3>1. CASE pos[r] = 15
      BY <2>1, <2>2, <2>3, <3>1 DEF RunsInTurn, ControlTypes
    <3>2. CASE pos[r] # 15
      BY <2>1, <2>2, <2>3, <3>2 DEF RunsInTurn, ControlTypes
    <3> QED BY <3>1, <3>2
  <2>6. StepsOfNotebook'
    BY <2>1 DEF StepsOfNotebook, InNotebook, Writing
  <2> QED BY <2>4, <2>5, <2>6
<1>3. CASE TaskFailed(r)
  <2>1. /\ UNCHANGED <<uploads, table, audits, pos, latest, accepted, repairs, faults,
                       round, out, counts>>
        /\ status[r] = "active" /\ step' = "idle"
        /\ status' = [status EXCEPT ![r] = "failed"]
    BY <1>3 DEF TaskFailed, data, bounds, local
  <2>2. Types'
    BY <2>1 DEF DataTypes, AuditTypes, ControlTypes
  <2>3. RunsInTurn'
    BY <2>1 DEF RunsInTurn, ControlTypes
  <2>4. StepsOfNotebook'
    BY <2>1 DEF StepsOfNotebook, InNotebook, Writing
  <2> QED BY <2>2, <2>3, <2>4
<1> QED BY <1>1, <1>2, <1>3

(* A step of the active run's notebook leaves the runs alone.              *)
NotebookStep(r) ==
  \/ CountFrames(r) \/ WriteTable(r) \/ VerifyTables(r) \/ AppendAudit(r) \/ Gate(r)
  \/ WriteRaises(r) \/ AppendAuditRaises(r) \/ TaskRaises(r)

LEMMA NotebookLeavesRuns ==
  ASSUME NEW r \in RunIds, NotebookStep(r)
  PROVE  /\ status[r] = "active" /\ UNCHANGED <<status, pos, latest, accepted, repairs, uploads>>
         /\ step \in {"count", "write", "verify", "audit"}
         /\ step' \in {"count", "write", "verify", "audit", "done", "raised"}
<1>1. CASE CountFrames(r) \/ WriteTable(r) \/ VerifyTables(r)
  BY <1>1 DEF CountFrames, WriteTable, VerifyTables, Running, control, runs, bounds, data
<1>2. CASE AppendAudit(r) \/ Gate(r)
  BY <1>2 DEF AppendAudit, Gate, Running, control, runs, bounds, data
<1>3. CASE WriteRaises(r) \/ AppendAuditRaises(r) \/ TaskRaises(r)
  BY <1>3 DEF WriteRaises, AppendAuditRaises, TaskRaises, Running, runs, data
<1> QED BY <1>1, <1>2, <1>3 DEF NotebookStep

(* The position, round and table the active run is at.                     *)
LEMMA AtTable ==
  ASSUME ControlInv, NEW r \in RunIds, status[r] = "active"
  PROVE  /\ pos[r] \in 1 .. 15 /\ RunMonth[r] \in Months
         /\ Notebook(r) = Workflow[pos[r]] /\ Notebook(r) \in Names
         /\ Rounds(Notebook(r)) # <<>> <=> pos[r] \in Writers
         /\ step \in Writing => pos[r] \in Writers
         /\ step \in Writing => round \in DOMAIN Rounds(Notebook(r)) /\ out \in DOMAIN Outs(r)
         /\ step \in Writing => /\ Outs(r)[out] = TableOf(pos[r], round, out)
                                /\ Outs(r)[out] \in Tables
<1>1. pos[r] \in 1 .. 15
  BY DEF ControlInv, Types, ControlTypes, RunsInTurn
<1>2. RunMonth[r] \in Months
  BY MedallionAssumption
<1>3. Notebook(r) = Workflow[pos[r]] /\ Notebook(r) \in Names
  BY <1>1, WorkflowFacts DEF Notebook, Names
<1>4. Rounds(Notebook(r)) # <<>> <=> pos[r] \in Writers
  BY <1>1, <1>3, WriterFacts
<1>5. InNotebook(r)
  BY DEF ControlInv, StepsOfNotebook
<1>6. step \in Writing => /\ pos[r] \in Writers
                          /\ round \in DOMAIN Rounds(Notebook(r)) /\ out \in DOMAIN Outs(r)
  BY <1>5 DEF InNotebook
<1>7. step \in Writing => /\ Outs(r)[out] = TableOf(pos[r], round, out)
                          /\ Outs(r)[out] \in Tables
  BY <1>3, <1>6, TableOfType DEF TableOf, Outs
<1> QED BY <1>1, <1>2, <1>3, <1>4, <1>6, <1>7

LEMMA LastTwoType ==
  ASSUME NEW s \in Seq(Records), Len(s) <= 2, NEW x \in Records
  PROVE  LastTwo(Append(s, x)) \in Seq(Records) /\ Len(LastTwo(Append(s, x))) <= 2
<1>1. Append(s, x) \in Seq(Records) /\ Len(Append(s, x)) = Len(s) + 1 /\ Append(s, x) # <<>>
  BY AppendProperties
<1>2. Len(s) \in Nat
  BY LenProperties
<1>3. /\ Tail(Append(s, x)) \in Seq(Records)
      /\ Len(Tail(Append(s, x))) = Len(Append(s, x)) - 1
  BY <1>1, HeadTailProperties
<1> QED BY <1>1, <1>2, <1>3 DEF LastTwo

LEMMA AuditedType ==
  ASSUME AuditTypes, NEW nb \in Names, NEW m \in Months, NEW source \in Nat, NEW rows \in Nat
  PROVE  /\ Audited(nb, m, source, rows) \in [Names -> Seq(Records)]
         /\ \A n \in Names : Len(Audited(nb, m, source, rows)[n]) <= 2
<1> DEFINE x == [month |-> m, source |-> source, rows |-> rows]
           s == LastTwo(Append(audits[nb], x))
<1>1. x \in Records
  BY DEF Records
<1>2. audits[nb] \in Seq(Records) /\ Len(audits[nb]) <= 2
  BY DEF AuditTypes
<1> HIDE DEF x
<1>3. s \in Seq(Records) /\ Len(s) <= 2
  BY <1>1, <1>2, LastTwoType
<1>4. Audited(nb, m, source, rows) = [audits EXCEPT ![nb] = s]
  BY DEF Audited, x
<1> QED BY <1>3, <1>4 DEF AuditTypes

LEMMA ControlNotebook ==
  ASSUME ControlInv, NEW r \in RunIds, NotebookStep(r)
  PROVE  ControlInv'
<1> USE DEF ControlInv, Types
<1>1. /\ status[r] = "active" /\ UNCHANGED <<status, pos, latest, accepted, repairs, uploads>>
      /\ step \in {"count", "write", "verify", "audit"}
      /\ step' \in {"count", "write", "verify", "audit", "done", "raised"}
  BY NotebookLeavesRuns
<1>2. RunsInTurn'
  BY <1>1 DEF RunsInTurn
<1>3. InNotebook(r)
  BY <1>1 DEF StepsOfNotebook
<1>4. \A q \in RunIds : status'[q] = "active" => q = r
  BY <1>1 DEF RunsInTurn
<1>5. /\ pos[r] \in 1 .. 15 /\ RunMonth[r] \in Months
      /\ Notebook(r) = Workflow[pos[r]] /\ Notebook(r) \in Names
      /\ Rounds(Notebook(r)) # <<>> <=> pos[r] \in Writers
      /\ step \in Writing => pos[r] \in Writers
      /\ step \in Writing => round \in DOMAIN Rounds(Notebook(r)) /\ out \in DOMAIN Outs(r)
      /\ step \in Writing => Outs(r)[out] \in Tables
  BY <1>1, AtTable
<1>6. Notebook(r)' = Notebook(r)
  BY <1>1 DEF Notebook
<1>7. step' = "raised" /\ round' = round /\ out' = out => StepsOfNotebook'
  BY <1>1, <1>4, <1>6 DEF StepsOfNotebook, InNotebook, Writing, Outs
<1>8. CASE CountFrames(r)
  <2>1. /\ step = "count" /\ pos[r] \in Writers /\ round' = round /\ out' = 1
        /\ counts' = [i \in DOMAIN Outs(r) |-> RowCount(Outs(r)[i], Frame(Outs(r)[i], RunMonth[r]))]
        /\ step' \in {"raised", "write"}
        /\ UNCHANGED <<table, audits, faults>>
    BY <1>5, <1>8 DEF CountFrames, Running, data, control, bounds
  <2>2. round \in DOMAIN Rounds(Notebook(r))
    BY <1>3, <2>1 DEF InNotebook, Writing
  <2>3. Outs(r)' = Outs(r)
    BY <1>6, <2>1 DEF Outs
  <2>4. /\ 1 \in DOMAIN Outs(r)
        /\ \A i \in DOMAIN Outs(r) : Outs(r)[i] \in Tables
    <3>1. 1 \in DOMAIN Rounds(Workflow[pos[r]])[round]
      BY <1>5, <2>1, <2>2, RoundTables
    <3>2. \A i \in DOMAIN Rounds(Workflow[pos[r]])[round] : TableOf(pos[r], round, i) \in Tables
      BY <1>5, <2>1, <2>2, TableOfType
    <3> QED BY <1>5, <3>1, <3>2 DEF Outs, TableOf
  <2>5. counts' \in [DOMAIN Outs(r) -> Nat]
    <3>1. ASSUME NEW i \in DOMAIN Outs(r)
          PROVE  RowCount(Outs(r)[i], Frame(Outs(r)[i], RunMonth[r])) \in Nat
      BY <1>5, <2>4, FrameType, RowCountType
    <3> QED BY <2>1, <3>1
  <2>6. StepsOfNotebook'
    BY <1>1, <1>4, <1>6, <2>1, <2>2, <2>3, <2>4, <2>5 DEF StepsOfNotebook, InNotebook, Writing
  <2>7. Types'
    BY <1>1, <2>1 DEF DataTypes, AuditTypes, ControlTypes
  <2> QED BY <1>2, <2>6, <2>7
<1>9. CASE WriteTable(r)
  <2>1. /\ step = "write" /\ round' = round /\ counts' = counts
        /\ table' = Written(Outs(r)[out], RunMonth[r])
        /\ \/ out = Len(Outs(r)) /\ step' = "verify" /\ out' = out
           \/ out # Len(Outs(r)) /\ step' = "write" /\ out' = out + 1
        /\ UNCHANGED <<audits, faults>>
    BY <1>9 DEF WriteTable, Running, control, bounds
  <2>2. DataTypes'
    BY <1>1, <1>5, <2>1, WrittenType DEF DataTypes, Writing
  <2>3. Outs(r)' = Outs(r)
    BY <1>6, <2>1 DEF Outs
  <2>4. DOMAIN Outs(r) = 1 .. Len(Outs(r)) /\ Len(Outs(r)) \in 1 .. 2
    BY <1>5, <2>1, RoundTables DEF Writing, Outs
  <2>5. StepsOfNotebook'
    BY <1>1, <1>3, <1>4, <1>5, <1>6, <2>1, <2>3, <2>4 DEF StepsOfNotebook, InNotebook, Writing
  <2>6. out' \in 1 .. 2
    <3> DEFINE n == Len(Outs(r))
    <3>1. out \in 1 .. n /\ n \in 1 .. 2
      BY <1>5, <2>1, <2>4 DEF Writing
    <3>2. (out = n /\ out' = out) \/ (out # n /\ out' = out + 1)
      BY <2>1
    <3> HIDE DEF n
    <3> QED BY <3>1, <3>2
  <2>7. Types'
    BY <1>1, <2>1, <2>2, <2>6 DEF AuditTypes, ControlTypes
  <2> QED BY <1>2, <2>5, <2>7
<1>10. CASE VerifyTables(r)
  <2>1. /\ step = "verify" /\ step' \in {"audit", "raised"}
        /\ UNCHANGED <<table, audits, faults, round, out, counts>>
    BY <1>10 DEF VerifyTables, Running, data, control, bounds, local
  <2>2. StepsOfNotebook'
    BY <1>1, <1>3, <1>4, <1>6, <2>1 DEF StepsOfNotebook, InNotebook, Writing, Outs
  <2>3. Types'
    BY <1>1, <2>1 DEF DataTypes, AuditTypes, ControlTypes
  <2> QED BY <1>2, <2>2, <2>3
<1>11. step = "audit" => AuditTypes /\ RoundAudit(r) \in [Names -> Seq(Records)]
                         /\ \A n \in Names : Len(RoundAudit(r)[n]) <= 2
  <2> SUFFICES ASSUME step = "audit" PROVE /\ RoundAudit(r) \in [Names -> Seq(Records)]
                                         /\ \A n \in Names : Len(RoundAudit(r)[n]) <= 2
    OBVIOUS
  <2>1. counts \in [DOMAIN Outs(r) -> Nat]
    BY <1>3 DEF InNotebook, Writing
  <2>2. DOMAIN Outs(r) = 1 .. Len(Outs(r)) /\ Len(Outs(r)) \in 1 .. 2
    BY <1>5, RoundTables DEF Writing, Outs
  <2>3. /\ counts[1] \in Nat
        /\ (IF Len(Outs(r)) = 1 THEN counts[1] ELSE counts[1] + counts[2]) \in Nat
    BY <2>1, <2>2
  <2> QED BY <1>5, <2>3, AuditedType DEF RoundAudit
<1>12. CASE AppendAudit(r)
  <2>1. /\ step = "audit" /\ audits' = RoundAudit(r)
        /\ \/ round = Len(Rounds(Notebook(r))) /\ step' = "done" /\ round' = round
           \/ round # Len(Rounds(Notebook(r))) /\ step' = "count" /\ round' = round + 1
        /\ UNCHANGED <<table, faults, out, counts>>
    BY <1>12 DEF AppendAudit, Running, data, control, bounds
  <2>2. /\ DOMAIN Rounds(Notebook(r)) = 1 .. Len(Rounds(Notebook(r)))
        /\ Len(Rounds(Notebook(r))) \in 1 .. 3
    BY <1>5, <2>1, RoundTables DEF Writing
  <2>3. StepsOfNotebook'
    BY <1>1, <1>4, <1>5, <1>6, <2>1, <2>2 DEF StepsOfNotebook, InNotebook, Writing
  <2>4. round' \in 1 .. 3
    <3> DEFINE n == Len(Rounds(Notebook(r)))
    <3>1. round \in 1 .. n /\ n \in 1 .. 3
      BY <1>5, <2>1, <2>2 DEF Writing
    <3>2. (round = n /\ round' = round) \/ (round # n /\ round' = round + 1)
      BY <2>1
    <3> HIDE DEF n
    <3> QED BY <3>1, <3>2
  <2>5. Types'
    BY <1>1, <1>11, <2>1, <2>4 DEF DataTypes, AuditTypes, ControlTypes
  <2> QED BY <1>2, <2>3, <2>5
<1>13. CASE Gate(r)
  <2>1. /\ step = "count" /\ pos[r] \notin Writers /\ step' \in {"done", "raised"}
        /\ audits' \in {audits, Audited(Notebook(r), RunMonth[r], 0, 0)}
        /\ UNCHANGED <<table, faults, round, out, counts>>
    BY <1>5, <1>13 DEF Gate, Running, data, control, bounds, local
  <2>2. StepsOfNotebook'
    BY <1>1, <1>4, <1>6, <2>1 DEF StepsOfNotebook, InNotebook, Writing
  <2>3. AuditTypes'
    <3> DEFINE a == Audited(Notebook(r), RunMonth[r], 0, 0)
    <3>1. a \in [Names -> Seq(Records)] /\ \A n \in Names : Len(a[n]) <= 2
      BY <1>5, AuditedType
    <3>2. audits' = audits \/ audits' = a
      BY <2>1
    <3> HIDE DEF a
    <3> QED BY <3>1, <3>2 DEF AuditTypes
  <2>4. Types'
    BY <1>1, <2>1, <2>3 DEF DataTypes, ControlTypes
  <2> QED BY <1>2, <2>2, <2>4
<1>14. CASE WriteRaises(r)
  <2>1. /\ step = "write" /\ step' = "raised" /\ round' = round /\ out' = out
        /\ table' \in {table, Written(Outs(r)[out], RunMonth[r])}
        /\ faults < MaxFaults /\ faults' = faults + 1 /\ audits' = audits
    BY <1>14 DEF WriteRaises, Running, Fault, local
  <2>2. DataTypes'
    BY <1>1, <1>5, <2>1, WrittenType DEF DataTypes, Writing
  <2>3. Types'
    BY <1>1, <2>1, <2>2, MedallionAssumption DEF AuditTypes, ControlTypes
  <2> QED BY <1>2, <1>7, <2>1, <2>3
<1>15. CASE AppendAuditRaises(r)
  <2>1. /\ step = "audit" /\ step' = "raised" /\ round' = round /\ out' = out
        /\ audits' \in {audits, RoundAudit(r)} /\ table' = table
        /\ faults < MaxFaults /\ faults' = faults + 1
    BY <1>15 DEF AppendAuditRaises, Running, Fault, local, data
  <2>2. AuditTypes'
    BY <1>11, <2>1 DEF AuditTypes
  <2>3. Types'
    BY <1>1, <2>1, <2>2, MedallionAssumption DEF DataTypes, ControlTypes
  <2> QED BY <1>2, <1>7, <2>1, <2>3
<1>16. CASE TaskRaises(r)
  <2>1. /\ step' = "raised" /\ round' = round /\ out' = out /\ UNCHANGED <<table, audits>>
        /\ faults < MaxFaults /\ faults' = faults + 1
    BY <1>16 DEF TaskRaises, Fault, local, data
  <2>2. Types'
    BY <1>1, <2>1, MedallionAssumption DEF DataTypes, AuditTypes, ControlTypes
  <2> QED BY <1>2, <1>7, <2>1, <2>2
<1> QED BY <1>8, <1>9, <1>10, <1>12, <1>13, <1>14, <1>15, <1>16 DEF NotebookStep

LEMMA ControlStep == ControlInv /\ [Next]_vars => ControlInv'
<1> SUFFICES ASSUME ControlInv, [Next]_vars PROVE ControlInv'
  OBVIOUS
<1>1. CASE UNCHANGED vars
  BY <1>1 DEF vars, data, local, control, runs, bounds, ControlInv, Types, DataTypes, AuditTypes,
              ControlTypes, RunsInTurn, StepsOfNotebook, InNotebook, Notebook, Outs
<1>2. CASE Next
  BY <1>2, ControlEnvironment, ControlJob, ControlNotebook DEF Next, RunStep, NotebookStep
<1> QED BY <1>1, <1>2

(* Every table keeps one bag of items per part, gates see at most two      *)
(* records of a notebook, and at most one run is active.                   *)
THEOREM MedallionTypeCorrect == Spec => []TypeOK
BY InitControl, ControlStep, TypesOfTypeOK, PTL DEF Spec

(***************************************************************************)
(* What the notebooks of a month have established.                         *)
(***************************************************************************)

(* The notebook the latest run of month m is at.                           *)
Reached(m) == IF latest[m] = Null THEN 0 ELSE pos[latest[m]]

Lookup(v) == IF v = 0 THEN {} ELSE RawZones[v]

(* The tables of zones only grow, one after the other.                     *)
ZonesGrow ==
  /\ \E v \in 0 .. uploads[Null] :
        /\ table["bronze_zones"][Null] = Rows(Lookup(v))
        /\ (\E r \in RunIds : pos[r] > 3) => v # 0
  /\ Present(table["silver_zones"][Null]) \subseteq ValidZones
  /\ Present(table["dim_location"][Null]) \subseteq Present(table["silver_zones"][Null])

BronzeHasTrips == \A m \in Months : Present(table["bronze_trips"][m]) \subseteq Trips

(* The locations of month m's valid trips are among Z.                     *)
LocatedIn(m, Z) ==
  \A t \in Present(table["silver_trips"][m]) : t \in Trips /\ ZoneOf[t] \in Z

Layers(m) ==
  /\ Reached(m) > 6 => \E v \in 1 .. uploads[Null] : ClassifiedBy(v, m)
  /\ Reached(m) > 6 => LocatedIn(m, ValidZones)
  /\ Reached(m) > 7 => LocatedIn(m, Present(table["silver_zones"][Null]))
  /\ Reached(m) > 11 => LocatedIn(m, Present(table["dim_location"][Null]))
  /\ Reached(m) > 12 => table["gold_trips"][m] = table["silver_trips"][m]
  /\ Reached(m) > 13 =>
        /\ table["agg_daily_trips"][m] = CountBy(DateOf, table["gold_trips"][m])
        /\ table["agg_location_trips"][m] = CountBy(ZoneOf, table["gold_trips"][m])
        /\ table["agg_hourly_trips"][m] = CountBy(DateOf, table["gold_trips"][m])

(* The active notebook has written table j of its round k.                 *)
Post == {"verify", "audit", "done"}

Has(k, j) ==
  \/ k < round /\ step \in {"count", "write"} \cup Post
  \/ k = round /\ step \in Post
  \/ k = round /\ step = "write" /\ j < out

HasWritten(r) ==
  LET m == RunMonth[r] IN
  /\ pos[r] = 3 /\ Has(1, 1) => \E v \in 1 .. uploads[Null] :
                                  table["bronze_zones"][Null] = Rows(RawZones[v])
  /\ pos[r] = 6 /\ Has(1, 1) => table["silver_trips"][m] = SilverTrips(m)
  /\ pos[r] = 6 /\ Has(1, 2) => table["silver_rejected_trips"][m] = RejectedTrips(m)
  /\ pos[r] = 7 /\ Has(1, 1) => table["silver_zones"][Null] = Rows(ValidZones)
  /\ pos[r] = 11 /\ Has(1, 1) => table["dim_location"][Null] = table["silver_zones"][Null]
  /\ pos[r] = 12 /\ Has(1, 1) => table["gold_trips"][m] = table["silver_trips"][m]
  /\ pos[r] = 13 /\ Has(1, 1) =>
        table["agg_daily_trips"][m] = CountBy(DateOf, table["gold_trips"][m])
  /\ pos[r] = 13 /\ Has(2, 1) =>
        table["agg_location_trips"][m] = CountBy(ZoneOf, table["gold_trips"][m])
  /\ pos[r] = 13 /\ Has(3, 1) =>
        table["agg_hourly_trips"][m] = CountBy(DateOf, table["gold_trips"][m])
  /\ pos[r] = 15 /\ step = "done" => DimensionsCover(m) /\ AggregatesAddUp(m)

LayersInv ==
  /\ ZonesGrow /\ BronzeHasTrips
  /\ \A m \in Months : Layers(m)
  /\ \A r \in RunIds : status[r] = "active" => HasWritten(r)
  /\ \A m \in accepted : DimensionsCover(m) /\ AggregatesAddUp(m)

LEMMA PresentRows == \A S \in SUBSET Items : Present(Rows(S)) = S
BY DEF Present, Rows

LEMMA InitLayers == Init => LayersInv
<1> SUFFICES ASSUME Init PROVE LayersInv
  OBVIOUS
<1>1. /\ "bronze_zones" \in Tables /\ "silver_zones" \in Tables /\ "dim_location" \in Tables
      /\ "bronze_trips" \in Tables
  BY TablesAre
<1>2. \A t \in Tables : \A q \in Parts : table[t][q] = Rows({})
  BY DEF Init, Rows
<1>3. Null \in Parts /\ uploads[Null] \in Nat
  BY DEF Init, Parts
<1>4. Present(Rows({})) = {}
  BY PresentRows
<1>5. ZonesGrow
  <2>1. table["bronze_zones"][Null] = Rows(Lookup(0))
    BY <1>1, <1>2, <1>3 DEF Lookup
  <2>2. \A r \in RunIds : ~(pos[r] > 3)
    BY DEF Init
  <2>3. 0 \in 0 .. uploads[Null]
    BY <1>3
  <2>4. /\ Present(table["silver_zones"][Null]) = {}
        /\ Present(table["dim_location"][Null]) = {}
    BY <1>1, <1>2, <1>3, <1>4
  <2> QED BY <2>1, <2>2, <2>3, <2>4 DEF ZonesGrow
<1>6. BronzeHasTrips
  BY <1>1, <1>2, <1>4 DEF BronzeHasTrips, Parts
<1>7. \A m \in Months : Layers(m)
  <2>1. \A m \in Months : Reached(m) = 0
    BY DEF Reached, Init
  <2> QED BY <2>1 DEF Layers
<1>8. \A r \in RunIds : status[r] # "active"
  BY DEF Init
<1>9. accepted = {}
  BY DEF Init
<1> QED BY <1>5, <1>6, <1>7, <1>8, <1>9 DEF LayersInv

(***************************************************************************)
(* Steps that leave the tables alone.                                      *)
(***************************************************************************)

(* Formulas about tables keep their meaning while the tables stay.         *)
LEMMA SameTables ==
  ASSUME table' = table
  PROVE  /\ ValidZones' = ValidZones
         /\ \A m \in Months : /\ SilverTrips(m)' = SilverTrips(m)
                              /\ RejectedTrips(m)' = RejectedTrips(m)
                              /\ DimensionsCover(m)' <=> DimensionsCover(m)
                              /\ AggregatesAddUp(m)' <=> AggregatesAddUp(m)
                              /\ \A v : ClassifiedBy(v, m)' <=> ClassifiedBy(v, m)
                              /\ \A Z : LocatedIn(m, Z)' <=> LocatedIn(m, Z)
BY DEF ValidZones, SilverTrips, RejectedTrips, ValidTrips, DimensionsCover, AggregatesAddUp,
       ClassifiedBy, LocatedIn

LEMMA SameReached ==
  ASSUME NEW m \in Months, latest'[m] = latest[m], latest[m] # Null => pos'[latest[m]] = pos[latest[m]]
  PROVE  Reached(m)' = Reached(m)
BY DEF Reached

(* A month whose latest run has not moved keeps its layers.                *)
LEMMA SameLayers ==
  ASSUME table' = table, NEW m \in Months, Layers(m), Reached(m)' \in {0, 1, Reached(m)},
         uploads[Null] \in Nat, uploads'[Null] \in Nat, uploads'[Null] >= uploads[Null]
  PROVE  Layers(m)'
<1>1. /\ ValidZones' = ValidZones
      /\ \A v : ClassifiedBy(v, m)' <=> ClassifiedBy(v, m)
      /\ \A Z : LocatedIn(m, Z)' <=> LocatedIn(m, Z)
  BY SameTables
<1>2. 1 .. uploads[Null] \subseteq 1 .. uploads'[Null]
  OBVIOUS
<1>3. /\ LocatedIn(m, ValidZones)' <=> LocatedIn(m, ValidZones)
      /\ LocatedIn(m, Present(table["silver_zones"][Null]))'
            <=> LocatedIn(m, Present(table["silver_zones"][Null]))
      /\ LocatedIn(m, Present(table["dim_location"][Null]))'
            <=> LocatedIn(m, Present(table["dim_location"][Null]))
  BY <1>1 DEF LocatedIn, Present
<1>4. \A key, f : CountBy(key, f)' = CountBy(key, f)
  BY DEF CountBy, Copies
<1> QED BY <1>1, <1>2, <1>3, <1>4 DEF Layers

LEMMA SameZones ==
  ASSUME table' = table, ZonesGrow, BronzeHasTrips,
         uploads[Null] \in Nat, uploads'[Null] \in Nat, uploads'[Null] >= uploads[Null],
         \A r \in RunIds : pos'[r] > 3 =>
            (\E q \in RunIds : pos[q] > 3) \/
            (\E v \in 1 .. uploads[Null] : table["bronze_zones"][Null] = Rows(RawZones[v]))
  PROVE  ZonesGrow' /\ BronzeHasTrips'
<1>1. BronzeHasTrips'
  BY DEF BronzeHasTrips, Present
<1>2. /\ Present(table["silver_zones"][Null])' \subseteq ValidZones'
      /\ Present(table["dim_location"][Null])' \subseteq Present(table["silver_zones"][Null])'
  BY DEF ZonesGrow, ValidZones, Present
<1>3. \E v \in 0 .. uploads'[Null] :
        /\ table["bronze_zones"][Null] = Rows(Lookup(v))
        /\ (\E r \in RunIds : pos'[r] > 3) => v # 0
  <2>1. CASE \E r \in RunIds : pos[r] > 3
    BY <2>1 DEF ZonesGrow
  <2>2. CASE \E v \in 1 .. uploads[Null] : table["bronze_zones"][Null] = Rows(RawZones[v])
    BY <2>2 DEF Lookup
  <2>3. CASE \A r \in RunIds : ~(pos'[r] > 3)
    BY <2>3 DEF ZonesGrow
  <2> QED BY <2>1, <2>2, <2>3
<1> QED BY <1>1, <1>2, <1>3 DEF ZonesGrow, Rows, Lookup

LEMMA LayersEnvironment ==
  ASSUME ControlInv, LayersInv, ~LateRepair,
         \/ \E p \in Parts : Upload(p)
         \/ \E r \in RunIds : StartRun(r) \/ RepairRun(r)
  PROVE  LayersInv'
<1>1. uploads \in [Parts -> Nat] /\ Null \in Parts
  BY DEF ControlInv, Types, DataTypes, Parts
<1>2. ASSUME NEW p \in Parts, Upload(p) PROVE LayersInv'
  <2>1. /\ UNCHANGED <<table, status, pos, latest, step, round, out, accepted>>
        /\ uploads' = [uploads EXCEPT ![p] = @ + 1]
    BY <1>2 DEF Upload, control, runs, local
  <2>2. uploads[Null] \in Nat /\ uploads'[Null] \in Nat /\ uploads'[Null] >= uploads[Null]
    BY <1>1, <2>1
  <2>3. \A m \in Months : Reached(m)' = Reached(m)
    BY <2>1 DEF Reached
  <2>4. \A m \in Months : Layers(m)'
    BY <2>1, <2>2, <2>3, SameLayers DEF LayersInv
  <2>5. ZonesGrow' /\ BronzeHasTrips'
    BY <2>1, <2>2, SameZones DEF LayersInv
  <2>6. ASSUME NEW r \in RunIds, status'[r] = "active" PROVE HasWritten(r)'
    <3>1. RunMonth[r] \in Months
      BY MedallionAssumption
    <3>2. HasWritten(r) /\ 1 .. uploads[Null] \subseteq 1 .. uploads'[Null]
      BY <2>1, <2>2, <2>6 DEF LayersInv
    <3>3. \A k, j : Has(k, j)' <=> Has(k, j)
      BY <2>1 DEF Has
    <3>4. \A key, f : CountBy(key, f)' = CountBy(key, f)
      BY DEF CountBy, Copies
    <3> QED BY <2>1, <3>1, <3>2, <3>3, <3>4, SameTables DEF HasWritten
  <2>7. \A m \in accepted : DimensionsCover(m)' /\ AggregatesAddUp(m)'
    BY <2>1, SameTables DEF LayersInv, ControlInv, Types, ControlTypes
  <2> QED BY <2>1, <2>4, <2>5, <2>6, <2>7 DEF LayersInv
<1>3. ASSUME NEW r \in RunIds, StartRun(r) \/ RepairRun(r) PROVE LayersInv'
  <2>1. /\ UNCHANGED <<table, uploads, pos, step, round, out>>
        /\ \A q \in RunIds : status[q] # "active"
        /\ latest' = [latest EXCEPT ![RunMonth[r]] = r]
        /\ accepted' \subseteq accepted
        /\ status[r] = "waiting" \/ latest[RunMonth[r]] = r
    BY <1>3 DEF StartRun, RepairRun, NoActiveRun, data, bounds, local
  <2>2. step = "idle"
    BY <2>1 DEF ControlInv, RunsInTurn
  <2>3. uploads[Null] \in Nat /\ r # Null /\ latest \in [Months -> RunIds \cup {Null}]
    BY <1>1, MedallionAssumption DEF ControlInv, Types, ControlTypes
  <2>4. \A m \in Months : Reached(m)' \in {0, 1, Reached(m)}
    <3>1. status[r] = "waiting" => pos[r] = 1
      BY DEF ControlInv, RunsInTurn
    <3> QED BY <2>1, <2>3, <3>1 DEF Reached
  <2>5. \A m \in Months : Layers(m)'
    BY <2>1, <2>3, <2>4, SameLayers DEF LayersInv
  <2>6. ZonesGrow' /\ BronzeHasTrips'
    BY <2>1, <2>3, SameZones DEF LayersInv
  <2>7. \A q \in RunIds : HasWritten(q)'
    BY <2>1, <2>2 DEF HasWritten, Has, Post
  <2>8. \A m \in accepted' : DimensionsCover(m)' /\ AggregatesAddUp(m)'
    BY <2>1, SameTables DEF LayersInv, ControlInv, Types, ControlTypes
  <2> QED BY <2>5, <2>6, <2>7, <2>8 DEF LayersInv
<1> QED BY <1>2, <1>3

(* A finished notebook has written all its tables.                         *)
LEMMA DoneHasWritten ==
  ASSUME ControlInv, NEW r \in RunIds, status[r] = "active", step = "done", pos[r] \in Writers
  PROVE  \A j : Has(1, j) /\ (pos[r] = 13 => Has(2, j) /\ Has(3, j))
<1>1. pos[r] \in 1 .. 15 /\ Notebook(r) = Workflow[pos[r]]
  BY AtTable
<1>2. round = Len(Rounds(Notebook(r)))
  BY DEF ControlInv, StepsOfNotebook, InNotebook
<1>3. Len(Rounds(Workflow[pos[r]])) = IF pos[r] = 13 THEN 3 ELSE 1
  BY WriterFacts
<1> QED BY <1>1, <1>2, <1>3 DEF Has, Post

(* Silver of the active run's month once transform_fact_trips is done.     *)
LEMMA TransformedIsClassified ==
  ASSUME ControlInv, LayersInv, NEW r \in RunIds, pos[r] = 6, NEW m \in Months,
         table["silver_trips"][m] = SilverTrips(m),
         table["silver_rejected_trips"][m] = RejectedTrips(m)
  PROVE  (\E v \in 1 .. uploads[Null] : ClassifiedBy(v, m)) /\ LocatedIn(m, ValidZones)
<1>1. PICK v \in 1 .. uploads[Null] : table["bronze_zones"][Null] = Rows(RawZones[v])
  BY DEF LayersInv, ZonesGrow, Lookup
<1>2. uploads[Null] \in 1 .. ZoneUploads
  BY DEF ControlInv, Types, DataTypes
<1>3. RawZones[v] \in SUBSET Items
  <2>1. \A w \in 1 .. ZoneUploads : RawZones[w] \subseteq Zones
    BY MedallionAssumption
  <2>2. v \in 1 .. ZoneUploads
    BY <1>2, MedallionAssumption
  <2> QED BY <2>1, <2>2, TripsAreItems
<1>4. ValidZones = RawZones[v] \ Unlabelled
  BY <1>1, <1>3, PresentRows DEF ValidZones
<1>5. table["bronze_trips"][m] \in Bag
  BY TablesAre DEF ControlInv, Types, DataTypes, Parts
<1>6. ValidTrips(m) = {t \in Present(table["bronze_trips"][m]) :
                          t \notin Unsound /\ ZoneOf[t] \in RawZones[v] \ Unlabelled}
  BY <1>4 DEF ValidTrips
<1>7. \A i \in Items : table["bronze_trips"][m][i] =
         table["silver_trips"][m][i] + table["silver_rejected_trips"][m][i]
  BY <1>5 DEF SilverTrips, Rows, RejectedTrips, Bag
<1>8. ClassifiedBy(v, m)
  BY <1>6, <1>7 DEF ClassifiedBy, SilverTrips
<1>9. ValidTrips(m) \in SUBSET Items /\ ValidTrips(m) \subseteq Trips
  BY TripsAreItems DEF ValidTrips, LayersInv, BronzeHasTrips, Present
<1>10. Present(table["silver_trips"][m]) = ValidTrips(m)
  BY <1>9, PresentRows DEF SilverTrips
<1>11. LocatedIn(m, ValidZones)
  BY <1>9, <1>10 DEF LocatedIn, ValidTrips
<1> QED BY <1>8, <1>11

LEMMA LayersTaskSucceeded ==
  ASSUME ControlInv, LayersInv, NEW r \in RunIds, TaskSucceeded(r)
  PROVE  LayersInv'
<1> DEFINE m == RunMonth[r]
<1>1. /\ UNCHANGED <<uploads, table, latest, round, out>>
      /\ status[r] = "active" /\ step = "done" /\ step' = "idle"
      /\ pos' = [pos EXCEPT ![r] = @ + 1]
      /\ accepted' = IF pos[r] = 15 THEN accepted \cup {m} ELSE accepted
  BY WorkflowFacts DEF TaskSucceeded, data, bounds, local
<1>2. pos[r] \in 1 .. 15 /\ m \in Months /\ pos \in [RunIds -> 1 .. 16] /\ r # Null
  BY <1>1, AtTable, MedallionAssumption DEF ControlInv, Types, ControlTypes
<1>3. latest[m] = r /\ \A n \in Months : n # m => latest[n] # r
  BY <1>1, <1>2 DEF ControlInv, RunsInTurn
<1>4. Reached(m) = pos[r] /\ Reached(m)' = pos[r] + 1
  BY <1>1, <1>2, <1>3 DEF Reached
<1>5. uploads[Null] \in Nat
  BY DEF ControlInv, Types, DataTypes, Parts
<1>6. HasWritten(r)
  BY <1>1 DEF LayersInv
<1>7. pos[r] \in Writers => \A j : Has(1, j) /\ (pos[r] = 13 => Has(2, j) /\ Has(3, j))
  BY <1>1, DoneHasWritten
<1>8. \A n \in Months : n # m => Layers(n)'
  <2> SUFFICES ASSUME NEW n \in Months, n # m PROVE Layers(n)'
    OBVIOUS
  <2>1. Reached(n)' = Reached(n)
    BY <1>1, <1>2, <1>3 DEF Reached
  <2> QED BY <1>1, <1>5, <2>1, SameLayers DEF LayersInv
<1>9. Layers(m)'
  <2>1. Layers(m)
    BY <1>2 DEF LayersInv
  <2>2. /\ ValidZones' = ValidZones
        /\ \A v : ClassifiedBy(v, m)' <=> ClassifiedBy(v, m)
        /\ \A Z : LocatedIn(m, Z)' <=> LocatedIn(m, Z)
    BY <1>1, <1>2, SameTables
  <2>3. /\ LocatedIn(m, ValidZones)' <=> LocatedIn(m, ValidZones)
        /\ LocatedIn(m, Present(table["silver_zones"][Null]))'
              <=> LocatedIn(m, Present(table["silver_zones"][Null]))
        /\ LocatedIn(m, Present(table["dim_location"][Null]))'
              <=> LocatedIn(m, Present(table["dim_location"][Null]))
    BY <1>1, <2>2 DEF LocatedIn, Present
  <2>4. \A key, f : CountBy(key, f)' = CountBy(key, f)
    BY DEF CountBy, Copies
  <2>5. pos[r] > 5 => (\E v \in 1 .. uploads[Null] : ClassifiedBy(v, m)) /\ LocatedIn(m, ValidZones)
    <3>1. CASE pos[r] = 6
      <4>1. Has(1, 1) /\ Has(1, 2)
        BY <1>7, <3>1 DEF Writers
      <4>2. /\ table["silver_trips"][m] = SilverTrips(m)
            /\ table["silver_rejected_trips"][m] = RejectedTrips(m)
        BY <1>6, <3>1, <4>1 DEF HasWritten
      <4> QED BY <1>2, <3>1, <4>2, TransformedIsClassified
    <3>2. CASE pos[r] > 6
      BY <1>4, <2>1, <3>2 DEF Layers
    <3> QED BY <1>2, <3>1, <3>2
  <2>6. pos[r] > 6 => LocatedIn(m, Present(table["silver_zones"][Null]))
    <3>1. CASE pos[r] = 7
      <4>1. Has(1, 1)
        BY <1>7, <3>1 DEF Writers
      <4>2. table["silver_zones"][Null] = Rows(ValidZones)
        BY <1>6, <3>1, <4>1 DEF HasWritten
      <4>3. ValidZones \in SUBSET Items
        BY DEF ValidZones, Present
      <4> QED BY <2>5, <3>1, <4>2, <4>3, PresentRows
    <3>2. CASE pos[r] > 7
      BY <1>4, <2>1, <3>2 DEF Layers
    <3> QED BY <1>2, <3>1, <3>2
  <2>7. pos[r] > 10 => LocatedIn(m, Present(table["dim_location"][Null]))
    <3>1. CASE pos[r] = 11
      <4>1. Has(1, 1)
        BY <1>7, <3>1 DEF Writers
      <4>2. table["dim_location"][Null] = table["silver_zones"][Null]
        BY <1>6, <3>1, <4>1 DEF HasWritten
      <4> QED BY <2>6, <3>1, <4>2
    <3>2. CASE pos[r] > 11
      BY <1>4, <2>1, <3>2 DEF Layers
    <3> QED BY <1>2, <3>1, <3>2
  <2>8. pos[r] > 11 => table["gold_trips"][m] = table["silver_trips"][m]
    <3>1. CASE pos[r] = 12
      <4>1. Has(1, 1)
        BY <1>7, <3>1 DEF Writers
      <4> QED BY <1>6, <3>1, <4>1 DEF HasWritten
    <3>2. CASE pos[r] > 12
      BY <1>4, <2>1, <3>2 DEF Layers
    <3> QED BY <1>2, <3>1, <3>2
  <2>9. pos[r] > 12 =>
          /\ table["agg_daily_trips"][m] = CountBy(DateOf, table["gold_trips"][m])
          /\ table["agg_location_trips"][m] = CountBy(ZoneOf, table["gold_trips"][m])
          /\ table["agg_hourly_trips"][m] = CountBy(DateOf, table["gold_trips"][m])
    <3>1. CASE pos[r] = 13
      <4>1. Has(1, 1) /\ Has(2, 1) /\ Has(3, 1)
        BY <1>7, <3>1 DEF Writers
      <4> QED BY <1>6, <3>1, <4>1 DEF HasWritten
    <3>2. CASE pos[r] > 13
      BY <1>4, <2>1, <3>2 DEF Layers
    <3> QED BY <1>2, <3>1, <3>2
  <2> QED BY <1>1, <1>2, <1>4, <2>2, <2>3, <2>4, <2>5, <2>6, <2>7, <2>8, <2>9 DEF Layers
<1>10. ZonesGrow' /\ BronzeHasTrips'
  <2>1. ASSUME NEW q \in RunIds, pos'[q] > 3
        PROVE  \/ \E s \in RunIds : pos[s] > 3
               \/ \E v \in 1 .. uploads[Null] : table["bronze_zones"][Null] = Rows(RawZones[v])
    <3>1. CASE pos[q] > 3
      BY <3>1
    <3>2. CASE ~(pos[q] > 3)
      <4>1. q = r /\ pos[r] = 3
        BY <1>1, <1>2, <2>1, <3>2
      <4>2. Has(1, 1)
        BY <1>7, <4>1 DEF Writers
      <4> QED BY <1>6, <4>1, <4>2 DEF HasWritten
    <3> QED BY <3>1, <3>2
  <2> QED BY <1>1, <1>5, <2>1, SameZones DEF LayersInv
<1>11. \A q \in RunIds : HasWritten(q)'
  BY <1>1 DEF HasWritten, Has, Post
<1>12. \A n \in accepted' : DimensionsCover(n)' /\ AggregatesAddUp(n)'
  <2>1. \A n \in accepted' : DimensionsCover(n) /\ AggregatesAddUp(n)
    BY <1>1, <1>6 DEF HasWritten, LayersInv
  <2>2. accepted' \subseteq Months
    BY <1>1, <1>2 DEF ControlInv, Types, ControlTypes
  <2> QED BY <1>1, <2>1, <2>2, SameTables
<1> QED BY <1>8, <1>9, <1>10, <1>11, <1>12 DEF LayersInv

LEMMA LayersJob ==
  ASSUME ControlInv, LayersInv, NEW r \in RunIds, LaunchTask(r) \/ TaskSucceeded(r) \/ TaskFailed(r)
  PROVE  LayersInv'
<1>1. CASE LaunchTask(r) \/ TaskFailed(r)
  <2>1. /\ UNCHANGED <<uploads, table, latest, pos, accepted>>
        /\ \/ step' = "count" /\ round' = 1
           \/ step' = "idle"
    BY <1>1 DEF LaunchTask, TaskFailed, data, control, runs, local
  <2>2. uploads[Null] \in Nat
    BY DEF ControlInv, Types, DataTypes, Parts
  <2>3. \A n \in Months : Layers(n)'
    BY <2>1, <2>2, SameLayers DEF LayersInv, Reached
  <2>4. ZonesGrow' /\ BronzeHasTrips'
    BY <2>1, <2>2, SameZones DEF LayersInv
  <2>5. \A q \in RunIds : HasWritten(q)'
    BY <2>1 DEF HasWritten, Has, Post
  <2>6. \A n \in accepted' : DimensionsCover(n)' /\ AggregatesAddUp(n)'
    BY <2>1, SameTables DEF LayersInv, ControlInv, Types, ControlTypes
  <2> QED BY <2>3, <2>4, <2>5, <2>6 DEF LayersInv
<1>2. CASE TaskSucceeded(r)
  BY <1>2, LayersTaskSucceeded
<1> QED BY <1>1, <1>2

(* Steps of a notebook that leave the tables alone.                        *)
LEMMA LayersReading ==
  ASSUME ControlInv, LayersInv, NEW r \in RunIds, NotebookStep(r), table' = table,
         \/ CountFrames(r) \/ VerifyTables(r) \/ AppendAudit(r) \/ Gate(r)
         \/ step' = "raised"
  PROVE  LayersInv'
<1> DEFINE m == RunMonth[r]
<1>1. /\ status[r] = "active" /\ UNCHANGED <<status, pos, latest, accepted, uploads>>
      /\ step \in {"count", "write", "verify", "audit"}
  BY NotebookLeavesRuns
<1>2. uploads[Null] \in Nat /\ accepted \subseteq Months /\ m \in Months /\ round \in 1 .. 3
  BY MedallionAssumption DEF ControlInv, Types, DataTypes, ControlTypes, Parts
<1>3. \A n \in Months : Layers(n)'
  BY <1>1, <1>2, SameLayers DEF LayersInv, Reached
<1>4. ZonesGrow' /\ BronzeHasTrips'
  BY <1>1, <1>2, SameZones DEF LayersInv
<1>5. \A n \in accepted' : DimensionsCover(n)' /\ AggregatesAddUp(n)'
  BY <1>1, <1>2, SameTables DEF LayersInv
<1>6. \A q \in RunIds : status'[q] = "active" => q = r
  BY <1>1 DEF ControlInv, RunsInTurn
<1>7. HasWritten(r) /\ pos[r] \in 1 .. 15 /\ Notebook(r) = Workflow[pos[r]]
  BY <1>1, AtTable DEF LayersInv
<1>8. /\ pos[r] \in Writers => \A k \in 1 .. 3 : \A j \in 1 .. 2 : Has(k, j)' => Has(k, j)
      /\ pos[r] = 15 /\ step' = "done" => DimensionsCover(m) /\ AggregatesAddUp(m)
  <2>1. Rounds(Notebook(r)) # <<>> <=> pos[r] \in Writers
    BY <1>1, AtTable
  <2>2. CASE CountFrames(r)
    <3>1. step = "count" /\ out' = 1 /\ round' = round /\ step' \in {"raised", "write"}
      BY <2>2 DEF CountFrames, Running
    <3> QED BY <1>2, <3>1 DEF Has, Post
  <2>3. CASE VerifyTables(r)
    <3>1. step = "verify" /\ out' = out /\ round' = round /\ step' \in {"raised", "audit"}
      BY <2>3 DEF VerifyTables, Running, local
    <3> QED BY <3>1 DEF Has, Post
  <2>4. CASE AppendAudit(r)
    <3>1. /\ step = "audit"
          /\ \/ step' = "done" /\ round' = round
             \/ step' = "count" /\ round' = round + 1
      BY <2>4 DEF AppendAudit, Running
    <3>2. pos[r] \in Writers
      BY <1>1, <3>1, AtTable DEF Writing
    <3>3. \A k \in 1 .. 3 : \A j \in 1 .. 2 : Has(k, j)' => Has(k, j)
      BY <1>2, <3>1 DEF Has, Post
    <3> QED BY <3>2, <3>3 DEF Writers
  <2>5. CASE Gate(r)
    <3>1. pos[r] \notin Writers
      BY <2>1, <2>5 DEF Gate
    <3>2. step' = "done" => Passes(Notebook(r), m)
      BY <2>5 DEF Gate
    <3>3. pos[r] = 15 => (Passes(Notebook(r), m) => DimensionsCover(m) /\ AggregatesAddUp(m))
      BY <1>7, WorkflowFacts DEF Passes, ValidatePhase6
    <3> QED BY <3>1, <3>2, <3>3
  <2>6. CASE step' = "raised"
    BY <2>6 DEF Has, Post
  <2> QED BY <2>2, <2>3, <2>4, <2>5, <2>6
<1>9. HasWritten(r)'
  <2>1. \A key, f : CountBy(key, f)' = CountBy(key, f)
    BY DEF CountBy, Copies
  <2>2. pos[r] \in Writers => /\ Has(1, 1)' => Has(1, 1)
                              /\ Has(1, 2)' => Has(1, 2)
                              /\ Has(2, 1)' => Has(2, 1)
                              /\ Has(3, 1)' => Has(3, 1)
    BY <1>8
  <2>3. DimensionsCover(m)' = DimensionsCover(m) /\ AggregatesAddUp(m)' = AggregatesAddUp(m)
    BY DEF DimensionsCover, AggregatesAddUp
  <2>4. /\ SilverTrips(m)' = SilverTrips(m) /\ RejectedTrips(m)' = RejectedTrips(m)
        /\ ValidZones' = ValidZones
    BY <1>2, SameTables
  <2> QED BY <1>1, <1>7, <1>8, <2>1, <2>2, <2>3, <2>4 DEF HasWritten, Writers
<1> QED BY <1>3, <1>4, <1>5, <1>6, <1>9 DEF LayersInv

(***************************************************************************)
(* The step that replaces a part of a table.                               *)
(***************************************************************************)

(* Table t, or its part of month m, is replaced by the frame.              *)
Replaced(t, m) ==
  /\ t \in Partitioned => table'[t][m] = Frame(t, m)
  /\ t \in Snapshots => table'[t][Null] = Frame(t, m)
  /\ \A u \in Partitioned : \A n \in Months : u # t \/ n # m => table'[u][n] = table[u][n]
  /\ \A u \in Snapshots : u # t => table'[u][Null] = table[u][Null]

LEMMA WrittenReplaces ==
  ASSUME DataTypes, NEW t \in Tables, NEW m \in Months, table' = Written(t, m)
  PROVE  Replaced(t, m)
<1>1. /\ table'[t][Part(t, m)] = Frame(t, m)
      /\ \A u \in Tables : \A q \in Parts : u # t \/ q # Part(t, m) => table'[u][q] = table[u][q]
  BY WrittenType
<1>2. /\ t \in Snapshots => Part(t, m) = Null
      /\ t \in Partitioned => Part(t, m) = m /\ t \notin Snapshots
  BY PartType
<1>3. \A n \in Months : n \in Parts /\ n # Null
  BY MedallionAssumption DEF Parts
<1>4. Null \in Parts /\ Partitioned \subseteq Tables /\ Snapshots \subseteq Tables
  BY DEF Parts, Tables
<1>5. t \in Partitioned \/ t \in Snapshots
  BY DEF Tables
<1> QED BY <1>1, <1>2, <1>3, <1>4, <1>5 DEF Replaced

(* The notebook that writes a table.                                       *)
LEMMA WriterOf ==
  ASSUME NEW p \in Writers, NEW k \in DOMAIN Rounds(Workflow[p]),
         NEW j \in DOMAIN Rounds(Workflow[p])[k]
  PROVE  /\ TableOf(p, k, j) = "bronze_trips" => p \in {1, 2}
         /\ TableOf(p, k, j) = "bronze_zones" <=> p = 3
         /\ TableOf(p, k, j) = "silver_trips" <=> p = 6 /\ j = 1
         /\ TableOf(p, k, j) = "silver_rejected_trips" <=> p = 6 /\ j = 2
         /\ TableOf(p, k, j) = "silver_zones" <=> p = 7 /\ j = 1
         /\ TableOf(p, k, j) = "dim_date" <=> p = 10
         /\ TableOf(p, k, j) = "dim_location" <=> p = 11
         /\ TableOf(p, k, j) = "gold_trips" <=> p = 12
         /\ TableOf(p, k, j) = "agg_daily_trips" <=> p = 13 /\ k = 1
         /\ TableOf(p, k, j) = "agg_location_trips" <=> p = 13 /\ k = 2
         /\ TableOf(p, k, j) = "agg_hourly_trips" <=> p = 13 /\ k = 3
         /\ (p # 13 => k = 1) /\ (p \notin {6, 7} => j = 1)
<1>1. /\ k \in 1 .. IF p = 13 THEN 3 ELSE 1
      /\ j \in 1 .. IF p \in {6, 7} THEN 2 ELSE 1
  BY WriterFacts
<1>2. /\ p = 13 => (k = 1 \/ k = 2 \/ k = 3) /\ j = 1
      /\ p \in {6, 7} => k = 1 /\ (j = 1 \/ j = 2)
      /\ p \notin {6, 7, 13} => k = 1 /\ j = 1
  BY <1>1
<1>3. CASE p \in {1, 2, 3, 10, 11, 12}
  BY <1>2, <1>3, TableFacts
<1>4. CASE p \in {6, 7}
  BY <1>2, <1>4, TableFacts
<1>5. CASE p = 13
  BY <1>2, <1>5, TableFacts
<1> QED BY <1>3, <1>4, <1>5 DEF Writers

(* Zone tables only gain locations, in the lookup's order.                 *)
LEMMA ZonesReplaced ==
  ASSUME ControlInv, ZonesGrow, NEW t \in Tables, NEW m \in Months, Replaced(t, m),
         UNCHANGED <<uploads, pos>>
  PROVE  /\ ZonesGrow' /\ ValidZones \subseteq ValidZones'
         /\ Present(table["silver_zones"][Null]) \subseteq Present(table'["silver_zones"][Null])
         /\ Present(table["dim_location"][Null]) \subseteq Present(table'["dim_location"][Null])
<1> DEFINE bz == table["bronze_zones"][Null]
           sz == table["silver_zones"][Null]
           dl == table["dim_location"][Null]
           last == uploads[Null]
<1>1. /\ last \in 1 .. ZoneUploads /\ ZoneUploads \in Nat
      /\ \A w \in 1 .. ZoneUploads : RawZones[w] \subseteq Items
  <2>1. \A w \in 1 .. ZoneUploads : RawZones[w] \subseteq Zones
    BY MedallionAssumption
  <2> QED BY <2>1, MedallionAssumption, TripsAreItems DEF ControlInv, Types, DataTypes
<1>2. PICK v \in 0 .. last : bz = Rows(Lookup(v)) /\ ((\E r \in RunIds : pos[r] > 3) => v # 0)
  BY DEF ZonesGrow
<1>3. Present(sz) \subseteq ValidZones /\ Present(dl) \subseteq Present(sz)
  BY DEF ZonesGrow
<1>4. /\ ValidZones' = Present(bz') \ Unlabelled
      /\ ValidZones = Present(bz) \ Unlabelled
      /\ Present(sz)' = Present(sz') /\ Present(dl)' = Present(dl')
  BY DEF ValidZones, Present
<1>5. CASE t = "bronze_zones"
  <2>1. bz' = Rows(RawZones[last]) /\ sz' = sz /\ dl' = dl
    BY <1>5 DEF Replaced, Snapshots, Frame
  <2>2. Lookup(v) \subseteq RawZones[last] /\ Lookup(v) \subseteq Items
    <3>1. v # 0 => v \in 1 .. ZoneUploads /\ v <= last
      BY <1>1
    <3> QED BY <1>1, <3>1, LookupGrows DEF Lookup
  <2>3. Present(bz) = Lookup(v) /\ Present(bz') = RawZones[last]
    BY <1>1, <1>2, <2>1, <2>2, PresentRows
  <2>4. last \in 0 .. last /\ last # 0 /\ Lookup(last) = RawZones[last]
    BY <1>1 DEF Lookup
  <2>5. \E w \in 0 .. last' : bz' = Rows(Lookup(w)) /\ w # 0
    BY <2>1, <2>4
  <2>6. ZonesGrow'
    BY <1>3, <1>4, <2>1, <2>2, <2>3, <2>5 DEF ZonesGrow, Lookup, Rows
  <2> QED BY <1>4, <2>1, <2>2, <2>3, <2>6
<1>6. CASE t # "bronze_zones"
  <2>1. bz' = bz /\ ValidZones' = ValidZones
    BY <1>4, <1>6 DEF Replaced, Snapshots
  <2>2. /\ Present(sz') \subseteq ValidZones /\ Present(dl') \subseteq Present(sz')
        /\ Present(sz) \subseteq Present(sz') /\ Present(dl) \subseteq Present(dl')
    <3>1. CASE t = "silver_zones"
      <4>1. sz' = Rows(ValidZones) /\ dl' = dl
        BY <3>1 DEF Replaced, Snapshots, Frame
      <4>2. Present(sz') = ValidZones
        BY <4>1, PresentRows DEF ValidZones, Present
      <4> QED BY <1>3, <4>1, <4>2
    <3>2. CASE t = "dim_location"
      <4>1. sz' = sz /\ dl' = sz
        BY <3>2 DEF Replaced, Snapshots, Frame
      <4> QED BY <1>3, <4>1
    <3>3. CASE t \notin {"silver_zones", "dim_location"}
      <4>1. sz' = sz /\ dl' = dl
        BY <3>3 DEF Replaced, Snapshots
      <4> QED BY <1>3, <4>1
    <3> QED BY <3>1, <3>2, <3>3
  <2>3. ZonesGrow'
    BY <1>2, <1>4, <2>1, <2>2 DEF ZonesGrow, Lookup, Rows
  <2> QED BY <2>1, <2>2, <2>3
<1> QED BY <1>5, <1>6

LEMMA TripsReplaced ==
  ASSUME BronzeHasTrips, NEW t \in Tables, NEW m \in Months, Replaced(t, m)
  PROVE  BronzeHasTrips'
<1> SUFFICES ASSUME NEW n \in Months PROVE Present(table'["bronze_trips"][n]) \subseteq Trips
  BY DEF BronzeHasTrips, Present
<1>1. CASE t = "bronze_trips" /\ n = m
  <2>1. table'["bronze_trips"][n] =
           [i \in Items |-> IF i \in Trips THEN RawTrips[m][uploads[m]][i] ELSE 0]
    BY <1>1, TablesAre DEF Replaced, Frame
  <2> QED BY <2>1 DEF Present
<1>2. CASE t # "bronze_trips" \/ n # m
  <2>1. table'["bronze_trips"][n] = table["bronze_trips"][n]
    BY <1>2, TablesAre DEF Replaced
  <2> QED BY <2>1 DEF BronzeHasTrips
<1> QED BY <1>1, <1>2

(* A layer that later layers were built from is not written again.         *)
LEMMA LayersReplaced ==
  ASSUME ControlInv, ZonesGrow, NEW r \in RunIds, status[r] = "active", step = "write",
         NEW t \in Tables, t = TableOf(pos[r], round, out), Replaced(t, RunMonth[r]),
         UNCHANGED <<uploads, pos, latest>>,
         NEW n \in Months, Layers(n)
  PROVE  Layers(n)'
<1> DEFINE m == RunMonth[r]
           p == pos[r]
           tn(u) == table[u][n]
<1>1. /\ p \in Writers /\ round \in DOMAIN Rounds(Workflow[p])
      /\ out \in DOMAIN Rounds(Workflow[p])[round] /\ m \in Months
  BY AtTable DEF Writing, Outs
<1>2. /\ t = "bronze_trips" => p \in {1, 2}
      /\ t = "silver_trips" => p = 6
      /\ t = "silver_rejected_trips" => p = 6
      /\ t = "gold_trips" => p = 12
      /\ p \in 1 .. 13
  BY <1>1, WriterOf DEF Writers
<1>3. Reached(n)' = Reached(n) /\ (n = m => Reached(n) = p)
  <2>1. latest[m] = r /\ r # Null
    BY MedallionAssumption DEF ControlInv, RunsInTurn
  <2> QED BY <2>1 DEF Reached
<1>4. n # m \/ p > 6 => /\ table'["bronze_trips"][n] = table["bronze_trips"][n]
                        /\ table'["silver_trips"][n] = table["silver_trips"][n]
                        /\ table'["silver_rejected_trips"][n] = table["silver_rejected_trips"][n]
  BY <1>2, TablesAre DEF Replaced
<1>5. n # m \/ p > 12 => table'["gold_trips"][n] = table["gold_trips"][n]
  BY <1>2, TablesAre DEF Replaced
<1>6. n # m => \A a \in Aggs : table'[a][n] = table[a][n]
  BY DEF Replaced, Partitioned
<1>7. /\ ValidZones \subseteq ValidZones'
      /\ Present(table["silver_zones"][Null]) \subseteq Present(table'["silver_zones"][Null])
      /\ Present(table["dim_location"][Null]) \subseteq Present(table'["dim_location"][Null])
  BY <1>1, ZonesReplaced
<1>8. n = m => ~(Reached(n)' > 13)
  BY <1>2, <1>3
<1>9. Reached(n)' > 6 => n # m \/ p > 6
  BY <1>3
<1>10. Reached(n)' > 6 => \E v \in 1 .. uploads'[Null] : ClassifiedBy(v, n)'
  <2> SUFFICES ASSUME Reached(n) > 6 PROVE \E v \in 1 .. uploads[Null] : ClassifiedBy(v, n)'
    BY <1>3
  <2>1. PICK v \in 1 .. uploads[Null] : ClassifiedBy(v, n)
    BY DEF Layers
  <2>2. ClassifiedBy(v, n)'
    BY <1>3, <1>4, <1>9, <2>1 DEF ClassifiedBy, Present, Rows
  <2> QED BY <2>2
<1>11. Reached(n)' > 6 => LocatedIn(n, ValidZones)'
  BY <1>3, <1>4, <1>7, <1>9 DEF Layers, LocatedIn, Present
<1>12. Reached(n)' > 7 => LocatedIn(n, Present(table["silver_zones"][Null]))'
  <2> SUFFICES ASSUME Reached(n) > 7 PROVE LocatedIn(n, Present(table["silver_zones"][Null]))'
    BY <1>3
  <2>1. LocatedIn(n, Present(table["silver_zones"][Null]))
    BY DEF Layers
  <2>2. table'["silver_trips"][n] = table["silver_trips"][n]
    <3>1. n # m \/ p > 6
      BY <1>2, <1>3
    <3> QED BY <1>4, <3>1
  <2>3. \A i \in Items : table["silver_zones"][Null][i] > 0 => table'["silver_zones"][Null][i] > 0
    BY <1>7 DEF Present
  <2> QED BY <2>1, <2>2, <2>3 DEF LocatedIn, Present
<1>13. Reached(n)' > 11 => LocatedIn(n, Present(table["dim_location"][Null]))'
  <2> SUFFICES ASSUME Reached(n) > 11 PROVE LocatedIn(n, Present(table["dim_location"][Null]))'
    BY <1>3
  <2>1. LocatedIn(n, Present(table["dim_location"][Null]))
    BY DEF Layers
  <2>2. table'["silver_trips"][n] = table["silver_trips"][n]
    <3>1. n # m \/ p > 6
      BY <1>2, <1>3
    <3> QED BY <1>4, <3>1
  <2>3. \A i \in Items : table["dim_location"][Null][i] > 0 => table'["dim_location"][Null][i] > 0
    BY <1>7 DEF Present
  <2> QED BY <2>1, <2>2, <2>3 DEF LocatedIn, Present
<1>14. Reached(n)' > 12 => table'["gold_trips"][n] = table'["silver_trips"][n]
  <2> SUFFICES ASSUME Reached(n) > 12 PROVE table'["gold_trips"][n] = table'["silver_trips"][n]
    BY <1>3
  <2>1. n # m \/ p > 12
    BY <1>3
  <2>2. n # m \/ p > 6
    BY <1>2, <2>1
  <2> QED BY <1>4, <1>5, <2>1, <2>2 DEF Layers
<1>15. Reached(n)' > 13 =>
         /\ table'["agg_daily_trips"][n] = CountBy(DateOf, table'["gold_trips"][n])
         /\ table'["agg_location_trips"][n] = CountBy(ZoneOf, table'["gold_trips"][n])
         /\ table'["agg_hourly_trips"][n] = CountBy(DateOf, table'["gold_trips"][n])
  BY <1>3, <1>5, <1>6, <1>8 DEF Layers, Aggs
<1> QED BY <1>10, <1>11, <1>12, <1>13, <1>14, <1>15 DEF Layers, CountBy, Copies

(* The dates of all months of Silver are in a dim_date built from it.      *)
LEMMA DatesCovered ==
  ASSUME NEW m, NEW n \in Months, NEW x \in Present(table["silver_trips"][n]), x \in Trips
  PROVE  DimDate(m)[DateOf[x]] > 0
<1> DEFINE D == UNION {SilverDates(k) : k \in Months}
<1>1. DateOf[x] \in Dates /\ DateOf[x] \in Nat
  BY MedallionAssumption
<1>2. DateOf[x] \in D
  BY DEF SilverDates
<1> HIDE DEF D
<1>3. DateOf[x] \in Calendar(D)
  BY <1>1, <1>2 DEF Calendar
<1>4. DimDate(m) = Rows(Calendar(D))
  BY DEF DimDate, D
<1>5. DateOf[x] \in Items
  BY <1>1, TripsAreItems
<1> QED BY <1>3, <1>4, <1>5 DEF Rows

LEMMA AcceptedReplaced ==
  ASSUME ControlInv, LayersInv, NEW r \in RunIds, status[r] = "active", step = "write",
         NEW t \in Tables, t = TableOf(pos[r], round, out), Replaced(t, RunMonth[r]),
         UNCHANGED <<uploads, pos, latest>>, NEW n \in accepted
  PROVE  DimensionsCover(n)' /\ AggregatesAddUp(n)'
<1> DEFINE m == RunMonth[r]
<1>1. n \in Months /\ m \in Months /\ n # m /\ latest[n] # Null /\ pos[latest[n]] = 16
  BY MedallionAssumption DEF ControlInv, RunsInTurn, Types, ControlTypes
<1>2. Reached(n) = 16 /\ Layers(n) /\ DimensionsCover(n) /\ AggregatesAddUp(n)
  BY <1>1 DEF Reached, LayersInv
<1>3. /\ \A a \in Aggs : table'[a][n] = table[a][n]
      /\ table'["gold_trips"][n] = table["gold_trips"][n]
  BY <1>1, TablesAre DEF Replaced, Partitioned
<1>4. AggregatesAddUp(n)'
  <2>1. \A f : Total(f)' = Total(f)
    BY DEF Total, Copies
  <2> QED BY <1>2, <1>3, <2>1 DEF AggregatesAddUp, Total, Copies
<1>5. ASSUME NEW x \in Present(table["gold_trips"][n])
      PROVE  table'["dim_date"][Null][DateOf[x]] > 0 /\ table'["dim_location"][Null][ZoneOf[x]] > 0
  <2>1. table["gold_trips"][n] = table["silver_trips"][n] /\ LocatedIn(n, ValidZones)
    BY <1>2 DEF Layers
  <2>2. x \in Trips /\ x \in Present(table["silver_trips"][n]) /\ ZoneOf[x] \in Items
    BY <2>1, MedallionAssumption, TripsAreItems DEF LocatedIn
  <2>3. table["dim_date"][Null][DateOf[x]] > 0 /\ table["dim_location"][Null][ZoneOf[x]] > 0
    BY <1>2, <1>5 DEF DimensionsCover
  <2>4. table'["dim_location"][Null][ZoneOf[x]] > 0
    <3>1. Present(table["dim_location"][Null]) \subseteq Present(table'["dim_location"][Null])
      BY <1>1, ZonesReplaced DEF LayersInv
    <3> QED BY <2>2, <2>3, <3>1 DEF Present
  <2>5. table'["dim_date"][Null][DateOf[x]] > 0
    <3>1. CASE t = "dim_date"
      <4>1. table'["dim_date"][Null] = DimDate(m)
        BY <3>1 DEF Replaced, Snapshots, Frame
      <4> QED BY <1>1, <2>2, <4>1, DatesCovered
    <3>2. CASE t # "dim_date"
      <4>1. table'["dim_date"][Null] = table["dim_date"][Null]
        BY <3>2 DEF Replaced, Snapshots
      <4> QED BY <2>3, <4>1
    <3> QED BY <3>1, <3>2
  <2> QED BY <2>4, <2>5
<1>6. DimensionsCover(n)'
  BY <1>3, <1>5 DEF DimensionsCover, Present
<1> QED BY <1>4, <1>6

(* Every trip of the facts has a location in dim_location, so the left     *)
(* join of build_agg_location_trips loses none.                            *)
LEMMA LocationCounts ==
  ASSUME NEW f \in Bag, NEW d \in Bag,
         \A x \in Present(f) : x \in Trips /\ ZoneOf[x] \in Present(d)
  PROVE  [i \in Items |-> IF d[i] > 0 THEN CountBy(ZoneOf, f)[i] ELSE 0] = CountBy(ZoneOf, f)
<1>1. ASSUME NEW i \in Items, ~(d[i] > 0) PROVE CountBy(ZoneOf, f)[i] = 0
  <2> DEFINE S == {x \in Trips : ZoneOf[x] = i}
  <2>1. ASSUME NEW x \in S PROVE 1 .. f[x] = {}
    <3>1. f[x] \in Nat /\ x \in Items
      BY TripsAreItems DEF Bag
    <3>2. ~(f[x] > 0)
      BY <1>1, <3>1 DEF Present
    <3> QED BY <3>1, <3>2
  <2>2. Copies(f, S) = {}
    BY <2>1 DEF Copies
  <2> QED BY <2>2, FS_EmptySet DEF CountBy
<1> QED BY <1>1 DEF CountBy

(* Every table the active notebook has written is its frame.               *)
LEMMA HasReplaced ==
  ASSUME ControlInv, LayersInv, NEW r \in RunIds, status[r] = "active", WriteTable(r),
         NEW t \in Tables, t = TableOf(pos[r], round, out), Replaced(t, RunMonth[r]),
         UNCHANGED <<uploads, pos>>
  PROVE  HasWritten(r)'
<1> DEFINE m == RunMonth[r]
           p == pos[r]
<1>1. /\ step = "write" /\ round' = round
      /\ \/ out = Len(Outs(r)) /\ step' = "verify" /\ out' = out
         \/ out # Len(Outs(r)) /\ step' = "write" /\ out' = out + 1
  BY DEF WriteTable, Running
<1>2. /\ p \in Writers /\ round \in DOMAIN Rounds(Workflow[p])
      /\ out \in DOMAIN Rounds(Workflow[p])[round] /\ m \in Months
      /\ Outs(r) = Rounds(Workflow[p])[round] /\ round \in 1 .. 3 /\ out \in 1 .. 2
  BY <1>1, AtTable DEF Writing, Outs, ControlInv, Types, ControlTypes
<1>3. Len(Outs(r)) = IF p \in {6, 7} THEN 2 ELSE 1
  BY <1>2, WriterFacts
<1>4. \A k \in 1 .. 3 : \A j \in 1 .. 2 : (j = 1 \/ p \in {6, 7}) =>
         (Has(k, j)' => Has(k, j) \/ (k = round /\ j = out))
  <2> DEFINE n == Len(Outs(r))
  <2> SUFFICES ASSUME NEW k \in 1 .. 3, NEW j \in 1 .. 2, j = 1 \/ p \in {6, 7}, Has(k, j)'
               PROVE  Has(k, j) \/ (k = round /\ j = out)
    OBVIOUS
  <2>1. j <= n /\ n \in 1 .. 2
    BY <1>3
  <2>2. \/ out = n /\ step' = "verify" /\ out' = out
        \/ out # n /\ step' = "write" /\ out' = out + 1
    BY <1>1
  <2> HIDE DEF n
  <2>3. k < round \/ (k = round /\ step' = "verify") \/ (k = round /\ step' = "write" /\ j < out')
    BY <1>1, <2>2 DEF Has, Post
  <2> QED BY <1>1, <1>2, <2>1, <2>2, <2>3 DEF Has
<1>5. HasWritten(r)
  BY DEF LayersInv
<1>6. ~(p = 15) /\ p \in {1, 2, 3, 6, 7, 10, 11, 12, 13}
  BY <1>2 DEF Writers
<1>7. p # 3 => UNCHANGED table["bronze_zones"][Null]
  BY <1>2, WriterOf DEF Replaced, Snapshots
<1>8. p \notin {1, 2} => UNCHANGED table["bronze_trips"][m]
  BY <1>2, WriterOf, TablesAre DEF Replaced
<1>9. p \notin {1, 2, 3} => ValidZones' = ValidZones
  BY <1>7 DEF ValidZones, Present
<1>10. p \notin {1, 2, 3} => SilverTrips(m)' = SilverTrips(m) /\ RejectedTrips(m)' = RejectedTrips(m)
  BY <1>2, <1>8, <1>9 DEF SilverTrips, RejectedTrips, ValidTrips, Present, Rows
<1>11. \A key, f : CountBy(key, f)' = CountBy(key, f)
  BY DEF CountBy, Copies
<1>12. p = 3 => \E v \in 1 .. uploads'[Null] : table'["bronze_zones"][Null] = Rows(RawZones[v])
  <2> SUFFICES ASSUME p = 3
               PROVE  \E v \in 1 .. uploads'[Null] : table'["bronze_zones"][Null] = Rows(RawZones[v])
    OBVIOUS
  <2>1. table'["bronze_zones"][Null] = Rows(RawZones[uploads[Null]])
    BY <1>2, WriterOf DEF Replaced, Snapshots, Frame
  <2>2. uploads[Null] \in 1 .. uploads[Null]
    BY MedallionAssumption DEF ControlInv, Types, DataTypes
  <2> QED BY <2>1, <2>2
<1>13. p = 6 /\ Has(1, 1)' => table'["silver_trips"][m] = SilverTrips(m)
  <2>1. CASE t = "silver_trips"
    BY <1>2, <2>1, TablesAre DEF Replaced, Frame
  <2>2. CASE t # "silver_trips"
    BY <1>2, <1>4, <1>5, <2>2, TablesAre, WriterOf DEF Replaced, HasWritten
  <2> QED BY <2>1, <2>2
<1>14. p = 6 /\ Has(1, 2)' => table'["silver_rejected_trips"][m] = RejectedTrips(m)
  <2>1. CASE t = "silver_rejected_trips"
    BY <1>2, <2>1, TablesAre DEF Replaced, Frame
  <2>2. CASE t # "silver_rejected_trips"
    BY <1>2, <1>4, <1>5, <2>2, TablesAre, WriterOf DEF Replaced, HasWritten
  <2> QED BY <2>1, <2>2
<1>15. p = 7 /\ Has(1, 1)' => table'["silver_zones"][Null] = Rows(ValidZones)
  <2>1. CASE t = "silver_zones"
    BY <1>2, <2>1 DEF Replaced, Snapshots, Frame
  <2>2. CASE t # "silver_zones"
    BY <1>2, <1>4, <1>5, <2>2, WriterOf DEF Replaced, Snapshots, HasWritten
  <2> QED BY <2>1, <2>2
<1>16. p = 11 => table'["dim_location"][Null] = table'["silver_zones"][Null]
  BY <1>2, WriterOf DEF Replaced, Snapshots, Frame
<1>17. p = 12 => table'["gold_trips"][m] = table'["silver_trips"][m]
  BY <1>2, WriterOf, TablesAre DEF Replaced, Frame
<1>18. p = 13 => UNCHANGED table["gold_trips"][m]
  BY <1>2, WriterOf, TablesAre DEF Replaced
<1>19. p = 13 /\ Has(1, 1)' =>
          table'["agg_daily_trips"][m] = CountBy(DateOf, table["gold_trips"][m])
  <2>1. CASE t = "agg_daily_trips"
    BY <1>2, <2>1, TablesAre DEF Replaced, Frame
  <2>2. CASE t # "agg_daily_trips"
    BY <1>2, <1>4, <1>5, <2>2, TablesAre, WriterOf DEF Replaced, HasWritten
  <2> QED BY <2>1, <2>2
<1>20. p = 13 /\ Has(3, 1)' =>
          table'["agg_hourly_trips"][m] = CountBy(DateOf, table["gold_trips"][m])
  <2>1. CASE t = "agg_hourly_trips"
    BY <1>2, <2>1, TablesAre DEF Replaced, Frame
  <2>2. CASE t # "agg_hourly_trips"
    BY <1>2, <1>4, <1>5, <2>2, TablesAre, WriterOf DEF Replaced, HasWritten
  <2> QED BY <2>1, <2>2
<1>21. p = 13 /\ Has(2, 1)' =>
          table'["agg_location_trips"][m] = CountBy(ZoneOf, table["gold_trips"][m])
  <2>1. CASE t = "agg_location_trips"
    <3> SUFFICES ASSUME p = 13
                 PROVE  table'["agg_location_trips"][m] = CountBy(ZoneOf, table["gold_trips"][m])
      OBVIOUS
    <3> DEFINE f == table["gold_trips"][m]
               d == table["dim_location"][Null]
    <3>1. f \in Bag /\ d \in Bag
      BY <1>2, TablesAre DEF ControlInv, Types, DataTypes, Parts
    <3>2. Reached(m) = 13 /\ Layers(m)
      <4>1. latest[m] = r /\ r # Null
        BY MedallionAssumption DEF ControlInv, RunsInTurn
      <4> QED BY <1>2, <4>1 DEF Reached, LayersInv
    <3>3. \A x \in Present(f) : x \in Trips /\ ZoneOf[x] \in Present(d)
      BY <3>2 DEF Layers, LocatedIn
    <3>4. table'["agg_location_trips"][m] =
             [i \in Items |-> IF d[i] > 0 THEN CountBy(ZoneOf, f)[i] ELSE 0]
      BY <1>2, <2>1, TablesAre DEF Replaced, Frame
    <3> QED BY <3>1, <3>3, <3>4, LocationCounts
  <2>2. CASE t # "agg_location_trips"
    BY <1>2, <1>4, <1>5, <2>2, TablesAre, WriterOf DEF Replaced, HasWritten
  <2> QED BY <2>1, <2>2
<1> QED BY <1>6, <1>9, <1>10, <1>11, <1>12, <1>13, <1>14, <1>15, <1>16, <1>17, <1>18, <1>19,
           <1>20, <1>21 DEF HasWritten

LEMMA LayersWriting ==
  ASSUME ControlInv, LayersInv, NEW r \in RunIds, WriteTable(r) \/ WriteRaises(r),
         table' = Written(Outs(r)[out], RunMonth[r])
  PROVE  LayersInv'
<1> DEFINE m == RunMonth[r]
           t == Outs(r)[out]
<1>1. /\ status[r] = "active" /\ UNCHANGED <<status, pos, latest, accepted, uploads>>
  BY NotebookLeavesRuns DEF NotebookStep
<1>2. step = "write"
  BY DEF WriteTable, WriteRaises, Running
<1>3. t \in Tables /\ m \in Months /\ t = TableOf(pos[r], round, out)
  BY <1>1, <1>2, AtTable DEF Writing
<1> HIDE DEF t
<1>4. Replaced(t, m)
  BY <1>3, WrittenReplaces DEF ControlInv, Types, t
<1>5. \A n \in Months : Layers(n)'
  BY <1>1, <1>2, <1>3, <1>4, LayersReplaced DEF LayersInv
<1>6. ZonesGrow' /\ BronzeHasTrips'
  BY <1>1, <1>3, <1>4, ZonesReplaced, TripsReplaced DEF LayersInv
<1>7. \A n \in accepted' : DimensionsCover(n)' /\ AggregatesAddUp(n)'
  BY <1>1, <1>2, <1>3, <1>4, AcceptedReplaced
<1>8. HasWritten(r)'
  <2>1. CASE WriteTable(r)
    BY <1>1, <1>3, <1>4, <2>1, HasReplaced
  <2>2. CASE WriteRaises(r)
    BY <2>2 DEF WriteRaises, HasWritten, Has, Post
  <2> QED BY <2>1, <2>2
<1>9. \A q \in RunIds : status'[q] = "active" => q = r
  BY <1>1 DEF ControlInv, RunsInTurn
<1> QED BY <1>5, <1>6, <1>7, <1>8, <1>9 DEF LayersInv

(***************************************************************************)
(* The months that passed the last validation.                             *)
(***************************************************************************)

LEMMA LayersStep ==
  ASSUME ~LateRepair, ControlInv, LayersInv, [Next]_vars
  PROVE  LayersInv'
<1>1. CASE UNCHANGED vars
  <2>1. /\ UNCHANGED <<uploads, table, status, pos, latest, accepted, step, round, out>>
    BY <1>1 DEF vars, data, local, control, runs
  <2>2. uploads[Null] \in Nat /\ accepted \subseteq Months
    BY DEF ControlInv, Types, DataTypes, ControlTypes, Parts
  <2>3. \A n \in Months : Layers(n)'
    BY <2>1, <2>2, SameLayers DEF LayersInv, Reached
  <2>4. ZonesGrow' /\ BronzeHasTrips'
    BY <2>1, <2>2, SameZones DEF LayersInv
  <2>5. \A n \in accepted' : DimensionsCover(n)' /\ AggregatesAddUp(n)'
    BY <2>1, <2>2, SameTables DEF LayersInv
  <2>6. ASSUME NEW r \in RunIds, status'[r] = "active" PROVE HasWritten(r)'
    <3>1. \A k, j : Has(k, j)' <=> Has(k, j)
      BY <2>1 DEF Has
    <3>2. \A key, f : CountBy(key, f)' = CountBy(key, f)
      BY DEF CountBy, Copies
    <3>3. HasWritten(r) /\ RunMonth[r] \in Months
      BY <2>1, <2>6, MedallionAssumption DEF LayersInv
    <3> QED BY <2>1, <3>1, <3>2, <3>3, SameTables DEF HasWritten
  <2> QED BY <2>3, <2>4, <2>5, <2>6 DEF LayersInv
<1>2. ASSUME NEW r \in RunIds, WriteTable(r) \/ WriteRaises(r) PROVE LayersInv'
  <2>1. CASE table' = Written(Outs(r)[out], RunMonth[r])
    BY <1>2, <2>1, LayersWriting
  <2>2. CASE WriteRaises(r) /\ table' = table
    BY <2>2, LayersReading DEF NotebookStep, WriteRaises
  <2> QED BY <1>2, <2>1, <2>2 DEF WriteTable, WriteRaises
<1>3. ASSUME NEW r \in RunIds, CountFrames(r) \/ VerifyTables(r) \/ AppendAudit(r) \/ Gate(r)
      PROVE  LayersInv'
  <2>1. table' = table
    BY <1>3 DEF CountFrames, VerifyTables, AppendAudit, Gate, data
  <2> QED BY <1>3, <2>1, LayersReading DEF NotebookStep
<1>4. ASSUME NEW r \in RunIds, AppendAuditRaises(r) \/ TaskRaises(r) PROVE LayersInv'
  <2>1. table' = table /\ step' = "raised"
    BY <1>4 DEF AppendAuditRaises, TaskRaises, data
  <2> QED BY <1>4, <2>1, LayersReading DEF NotebookStep
<1> QED BY <1>1, <1>2, <1>3, <1>4, LayersEnvironment, LayersJob DEF Next, RunStep

LEMMA MedallionInvariant == ~LateRepair => (Spec => [](ControlInv /\ LayersInv))
<1> SUFFICES ASSUME ~LateRepair PROVE Spec => [](ControlInv /\ LayersInv)
  OBVIOUS
<1>1. Init => ControlInv /\ LayersInv
  BY InitControl, InitLayers
<1>2. ControlInv /\ LayersInv /\ [Next]_vars => ControlInv' /\ LayersInv'
  BY ControlStep, LayersStep
<1> QED BY <1>1, <1>2, PTL DEF Spec

LEMMA InvariantReconciles == ControlInv /\ LayersInv => AcceptedIsReconciled
<1> SUFFICES ASSUME ControlInv, LayersInv, NEW m \in accepted
             PROVE  /\ Reached(m) = 16 /\ Layers(m)
  BY DEF AcceptedIsReconciled, Layers
<1> QED BY DEF ControlInv, RunsInTurn, Types, ControlTypes, LayersInv, Reached

(* A month whose last run passed every validation is the same through all  *)
(* layers, row by row: Silver and its rejects are the Bronze batch, Gold   *)
(* is Silver, the aggregates are those of Gold.  The validations only      *)
(* compare counts, so this needs that no run is repaired after another run *)
(* of its month has started.                                               *)
THEOREM AcceptedReconciled == ~LateRepair => (Spec => []AcceptedIsReconciled)
BY MedallionInvariant, InvariantReconciles, PTL

(* No run for another month takes a date, a location or an aggregate away  *)
(* from a month that passed every validation.                              *)
THEOREM UnrelatedMonthsIntact == ~LateRepair => (Spec => []UnrelatedMonthsStayIntact)
<1>1. LayersInv => UnrelatedMonthsStayIntact
  BY DEF LayersInv, UnrelatedMonthsStayIntact
<1> QED BY <1>1, MedallionInvariant, PTL
=============================================================================
