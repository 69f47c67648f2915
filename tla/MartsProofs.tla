----------------------------- MODULE MartsProofs -----------------------------
(***************************************************************************)
(* Proofs about Marts: what the marts show of a month stays whole from the *)
(* end of a successful run of the month on, while other months are loaded, *)
(* and dbt's tests pass once every run that was started has finished.      *)
(*                                                                         *)
(* The argument goes from the gates to the reader.  A run that finishes    *)
(* leaves facts whose locations are found and aggregates whose totals are  *)
(* theirs (FinishStep of SnowflakeJobProofs).  Later runs of other months  *)
(* touch that month's rows no more, and a dimension that they replace      *)
(* keeps its keys: DimensionsGrow, a hypothesis of the theorems.  So every *)
(* join of a fact finds a row, and only one: int_trip_enriched is in       *)
(* bijection with the facts.  A row of an aggregate finds one row at most, *)
(* and no gate saw to it that it finds one: sums over its mart are bounded *)
(* by the sums that gate 07 compared, and equal them when all are found.   *)
(***************************************************************************)
EXTENDS Marts, SnowflakeJobProofs, SumTheorems, FunctionTheorems

(***************************************************************************)
(* Loads as a reader sees them.                                            *)
(***************************************************************************)

(* ANALYTICS changes when the active run replaces a slice of its month.    *)
LEMMA LoadCommit ==
  ASSUME ~RollbackMayFail, TypeOK, LoadInv, JobTypes, JobInv, [JobNext]_allvars,
         analytics' # analytics
  PROVE  /\ UNCHANGED <<landing, status, latest>>
         /\ latest \in RunIds /\ status[latest] = "active" /\ Validated(latest)
         /\ Ds \in Datasets /\ Listed(Ds)
         /\ analytics' = [analytics EXCEPT ![Ds] =
                            Replacement(Ds, RunMonth[latest], analytics[Ds])]
<1>1. RunsInTurn /\ StepsOfNotebook
  BY DEF JobInv
<1>2. running /\ (TaskStep \/ TaskFault) /\ UNCHANGED jobvars
  <2>1. ASSUME NEW r \in RunIds, LaunchTask(r) PROVE analytics' = analytics
    BY <2>1 DEF LaunchTask, StartTask, store
  <2> QED BY <1>1, <2>1, JobSteps DEF NotebookStep, NotebookFault
<1>3. pc = "commit" /\ analytics' = [analytics EXCEPT ![Ds] = work]
  BY <1>2 DEF TaskStep, TaskFault, CountGold, ClearLanding, WriteLandingFrame,
     VerifyLanding, ValidateLanding, CountLanding, Begin, DeleteTarget,
     InsertFromLanding, CommitTarget, Rollback, CheckTarget, AppendAudit,
     AppendFailed, QueryRaises, ClearLandingRaises, WriteLandingFrameRaises,
     StatementRaises, CommitUnacknowledged, RollbackRaises, AppendAuditRaises,
     AppendFailedRaises, Crash, store, LoadInv, OpenOnlyInTransaction
<1>4. landing' = landing
  BY <1>2, <1>3, LandingChange
<1>5. /\ latest \in RunIds /\ status[latest] = "active" /\ task.month = RunMonth[latest]
      /\ task.notebook = Workflow[pos[latest]] /\ pos[latest] \in 1 .. 5 \cup 8 .. 12
  BY <1>1, <1>2, RunningTask
<1>6. Validated(latest)
  <2>1. task.notebook \in Loads
    BY <1>1, <1>3 DEF StepsOfNotebook, LoadSteps, TxnSteps
  <2>2. pos[latest] \in 1 .. 15
    BY <1>5
  <2> QED BY <1>5, <2>1, <2>2, WorkflowOrder DEF Validated
<1>7. Ds \in Datasets /\ Listed(Ds)
  <2>1. todo # <<>> /\ todo \in Seq(Datasets)
    BY <1>3 DEF TypeOK, Stopped
  <2>2. 1 \in DOMAIN todo /\ Ds = todo[1] /\ Ds \in Datasets
    BY <2>1 DEF Ds
  <2> QED BY <1>1, <2>2 DEF StepsOfNotebook
<1>8. work = Replacement(Ds, RunMonth[latest], analytics[Ds])
  BY <1>3, <1>5 DEF LoadInv, WorkIsReplacement
<1> QED BY <1>2, <1>3, <1>4, <1>5, <1>6, <1>7, <1>8 DEF jobvars

(* What a replacement holds.                                               *)
LEMMA ReplacementRows ==
  ASSUME TypeOK, NEW d \in Datasets, NEW m
  PROVE  \A x \in Rows : Replacement(d, m, analytics[d])[x] =
            IF x \in Slice(d, m) THEN landing[d][x] ELSE analytics[d][x] + landing[d][x]
<1>1. analytics[d] \in Table /\ landing[d] \in Table
  BY DEF TypeOK
<1> QED BY <1>1 DEF Replacement, Deleted, Inserted, Table

(***************************************************************************)
(* Dimensions keep their keys.                                             *)
(***************************************************************************)

(* The keys of the rows of a table.                                        *)
KeysOf(t) == {x.key : x \in {y \in Rows : t[y] > 0}}

(* A dimension that may be loaded from LANDING keeps its keys.             *)
DimsKept ==
    \A i \in DOMAIN Dims :
        KeysOf(landing[Dims[i]]) = {} \/
        KeysOf(analytics[Dims[i]]) \subseteq KeysOf(landing[Dims[i]])

(* The rows of a dimension carry no month and are one Gold build.          *)
LEMMA DimRows ==
  ASSUME TypeOK, SnapshotRows, SlicesAreBuilds, NEW i \in DOMAIN Dims
  PROVE  /\ Dims[i] \in Datasets /\ IsSnapshot(Dims[i])
         /\ \A x \in Rows : analytics[Dims[i]][x] > 0 =>
               x.month = Null /\ analytics[Dims[i]][x] = 1
         /\ \E v \in 1 .. gold[Dims[i]][Null] : \A x \in Rows : analytics[Dims[i]][x] > 0 =>
               x.ver = v /\ x.key \in GoldKeys[Dims[i], Null, v]
<1> DEFINE d == Dims[i]
           present == {x \in Rows : x.month = Null /\ analytics[d][x] > 0}
<1>1. d \in Datasets /\ IsSnapshot(d)
  BY ContractsAssumption DEF IsSnapshot
<1>2. Null \in Parts /\ gold[d][Null] \in Versions
  BY <1>1 DEF Parts, TypeOK
<1>3. ASSUME NEW x \in Rows, analytics[d][x] > 0 PROVE x \in present
  BY <1>1, <1>3 DEF SnapshotRows
<1>4. /\ present # {} => \E v \in 1 .. gold[d][Null] : present = GoldSlice(d, Null, v)
      /\ \A x \in present : analytics[d][x] = 1
  BY <1>1, <1>2 DEF SlicesAreBuilds
<1>5. \E v \in 1 .. gold[d][Null] : \A x \in present :
         x.ver = v /\ x.key \in GoldKeys[d, Null, v]
  <2>1. CASE present = {}
    <3>1. 1 \in 1 .. gold[d][Null]
      BY <1>2, DataAssumption DEF Versions
    <3> QED BY <2>1, <3>1
  <2>2. CASE present # {}
    BY <1>4, <2>2 DEF GoldSlice
  <2> QED BY <2>1, <2>2
<1> QED BY <1>1, <1>3, <1>4, <1>5

(* Gold's build of a dimension has all keys that ANALYTICS has.            *)
LEMMA GoldHasKeys ==
  ASSUME DimensionsGrow, TypeOK, SnapshotRows, SlicesAreBuilds, NEW i \in DOMAIN Dims, NEW m
  PROVE  KeysOf(analytics[Dims[i]]) \subseteq
            KeysOf(Inserted(EmptyTable, GoldFrame(Dims[i], m)))
<1> DEFINE d == Dims[i]
           g == gold[d][Null]
           t == Inserted(EmptyTable, GoldFrame(d, m))
<1>1. /\ d \in Datasets /\ IsSnapshot(d)
      /\ \E v \in 1 .. g : \A x \in Rows : analytics[d][x] > 0 =>
            x.ver = v /\ x.key \in GoldKeys[d, Null, v]
  BY DimRows
<1>2. PICK v \in 1 .. g : \A x \in Rows : analytics[d][x] > 0 =>
         x.key \in GoldKeys[d, Null, v]
  BY <1>1
<1>3. g \in Versions /\ v \in Versions /\ v <= g
  <2>1. g \in Versions
    BY <1>1 DEF TypeOK, Parts
  <2> QED BY <2>1, DataAssumption DEF Versions
<1>4. GoldKeys[d, Null, v] \subseteq GoldKeys[d, Null, g]
  BY <1>3 DEF DimensionsGrow
<1> SUFFICES ASSUME NEW x \in Rows, analytics[d][x] > 0 PROVE x.key \in KeysOf(t)
  BY DEF KeysOf
<1> DEFINE y == [key |-> x.key, month |-> Null, ver |-> g]
<1>5. x.key \in GoldKeys[d, Null, g] /\ x.key \in Keys
  BY <1>2, <1>4 DEF Rows
<1>6. y \in Rows /\ y.key = x.key /\ y.month = Null /\ y.ver = g
  BY <1>3, <1>5 DEF Rows, Parts
<1>7. Part(d, m) = Null
  BY <1>1 DEF Part
<1>8. GoldFrame(d, m)[y] = 1
  BY <1>5, <1>6, <1>7 DEF GoldFrame
<1>9. t[y] = 1
  BY <1>6, <1>8 DEF Inserted, EmptyTable
<1> QED BY <1>6, <1>9 DEF KeysOf

(* A table with a counted row has a key.                                   *)
LEMMA CountedRow ==
  ASSUME NEW t \in Table, NEW S \in SUBSET Rows, table_count(t, S) > 0
  PROVE  \E x \in S : t[x] > 0
<1> SUFFICES ASSUME \A x \in S : ~(t[x] > 0) PROVE FALSE
  OBVIOUS
<1>1. \A x \in S : 1 .. t[x] = {}
  BY DEF Table
<1>2. Copies(t, S) = {}
  BY <1>1 DEF Copies
<1> QED BY <1>2, FS_EmptySet DEF table_count

(* LANDING of a dimension is only cleared, or filled from Gold, which has  *)
(* all keys by now; a load takes LANDING as it is.                         *)
LEMMA DimsStep ==
  ASSUME DimensionsGrow, ~RollbackMayFail, TypeOK, LoadInv, JobTypes, JobInv, BuildsInv,
         LandedRows, DimsKept, [JobNext]_allvars
  PROVE  DimsKept'
<1> SUFFICES ASSUME NEW i \in DOMAIN Dims
             PROVE  KeysOf(landing'[Dims[i]]) = {} \/
                    KeysOf(analytics'[Dims[i]]) \subseteq KeysOf(landing'[Dims[i]])
  BY DEF DimsKept, KeysOf
<1> DEFINE d == Dims[i]
<1>1. RunsInTurn /\ SnapshotRows /\ SlicesAreBuilds
  BY DEF JobInv, BuildsInv
<1>2. d \in Datasets /\ IsSnapshot(d)
  BY <1>1, DimRows
<1>3. landing[d] \in Table /\ analytics[d] \in Table
  BY <1>2 DEF TypeOK
<1>4. CASE analytics' # analytics
  <2>1. /\ landing' = landing
        /\ Ds # d => analytics'[d] = analytics[d]
        /\ Ds = d => analytics'[d] = Replacement(d, RunMonth[latest], analytics[d])
    BY <1>2, <1>4, LoadCommit DEF TypeOK
  <2>2. CASE Ds = d
    <3>1. \A x \in Rows : analytics'[d][x] = landing[d][x]
      BY <1>2, <2>1, <2>2, ReplacementRows DEF Slice
    <3>2. KeysOf(analytics'[d]) = KeysOf(landing[d])
      BY <3>1 DEF KeysOf
    <3> QED BY <2>1, <3>2
  <2> QED BY <2>1, <2>2 DEF DimsKept
<1>5. CASE analytics' = analytics /\ landing' = landing
  BY <1>5 DEF DimsKept
<1>6. CASE analytics' = analytics /\ landing' # landing
  <2>1. running /\ (TaskStep \/ TaskFault)
    <3>1. ASSUME NEW r \in RunIds, LaunchTask(r) PROVE landing' = landing
      BY <3>1 DEF LaunchTask, StartTask, store
    <3> QED BY <1>1, <1>6, <3>1, JobSteps DEF NotebookStep, NotebookFault
  <2>2. pc \notin Stopped /\ Ds \in Datasets /\ task.month \in Months
    BY <2>1, TaskKept, RecordType
  <2>3. CASE Ds # d
    <3>1. landing'[d] = landing[d]
      BY <1>2, <1>6, <2>1, <2>3, LandingWrite DEF TypeOK
    <3> QED BY <1>6, <3>1 DEF DimsKept
  <2>4. CASE landing' = [landing EXCEPT ![Ds] = EmptyTable] /\ Ds = d
    <3>1. landing'[d] = EmptyTable
      BY <1>2, <2>4 DEF TypeOK
    <3> QED BY <3>1 DEF KeysOf, EmptyTable
  <2>5. CASE /\ pc = "write" /\ Ds = d
             /\ landing' = [landing EXCEPT ![Ds] =
                              Inserted(landing[Ds], GoldFrame(Ds, task.month))]
    <3>1. landing[d] = EmptyTable
      BY <2>5 DEF BuildsInv, LandingOfBuilds
    <3>2. landing'[d] = Inserted(EmptyTable, GoldFrame(d, task.month))
      BY <1>2, <2>5, <3>1 DEF TypeOK
    <3> QED BY <1>1, <1>6, <3>2, GoldHasKeys
  <2> QED BY <1>6, <2>1, <2>3, <2>4, <2>5, LandingWrite
<1> QED BY <1>4, <1>5, <1>6

(* A load of a dimension leaves out no key.                                *)
LEMMA DimKeysGrow ==
  ASSUME ~RollbackMayFail, TypeOK, LoadInv, JobTypes, JobInv, LandedRows, DimsKept,
         [JobNext]_allvars, NEW i \in DOMAIN Dims
  PROVE  KeysOf(analytics[Dims[i]]) \subseteq KeysOf(analytics'[Dims[i]])
<1> DEFINE d == Dims[i]
           m == RunMonth[latest]
<1>1. d \in Datasets /\ IsSnapshot(d)
  BY ContractsAssumption DEF IsSnapshot
<1>2. CASE analytics'[d] = analytics[d]
  BY <1>2
<1>3. CASE analytics'[d] # analytics[d]
  <2>1. /\ latest \in RunIds /\ status[latest] = "active" /\ Validated(latest)
        /\ Ds \in Datasets /\ Listed(Ds)
        /\ analytics' = [analytics EXCEPT ![Ds] = Replacement(Ds, m, analytics[Ds])]
    BY <1>3, LoadCommit
  <2>2. Ds = d /\ analytics'[d] = Replacement(d, m, analytics[d])
    BY <1>1, <1>3, <2>1 DEF TypeOK
  <2>3. \A x \in Rows : analytics'[d][x] = landing[d][x]
    BY <1>1, <2>2, ReplacementRows DEF Slice
  <2>4. table_count(landing[d], Slice(d, m)) > 0
    BY <2>1, <2>2 DEF LandedRows, Current
  <2>5. landing[d] \in Table /\ Slice(d, m) \in SUBSET Rows
    BY <1>1 DEF TypeOK, Slice
  <2>6. KeysOf(landing[d]) # {}
    BY <2>4, <2>5, CountedRow DEF KeysOf
  <2>7. KeysOf(analytics'[d]) = KeysOf(landing[d])
    BY <2>3 DEF KeysOf
  <2> QED BY <2>6, <2>7 DEF DimsKept
<1> QED BY <1>2, <1>3

(* The facts and aggregates of a month come from runs of that month.       *)
RowsOfRuns ==
    \A d \in Datasets : ~IsSnapshot(d) =>
        \A x \in Rows : analytics[d][x] > 0 =>
            \E r \in RunIds : RunMonth[r] = x.month /\ status[r] # "waiting"

(* No run goes back to waiting.                                            *)
LEMMA StartedStays ==
  ASSUME TypeOK, JobTypes, RunsInTurn, [JobNext]_allvars, NEW r \in RunIds,
         status[r] # "waiting"
  PROVE  status'[r] # "waiting"
<1>1. status \in [RunIds -> {"waiting", "active", "failed", "finished"}]
  BY DEF JobTypes
<1>2. ASSUME NEW q \in RunIds, Gates(q) PROVE status'[r] # "waiting"
  BY <1>1, <1>2 DEF Gates, Reconcile, ReconcileRaises, ValidateAudit,
     ValidateIdempotency, GateRaises, GateOutcome
<1>3. ASSUME NEW q \in RunIds, StartRun(q) \/ RepairRun(q) \/ LaunchTask(q)
                               \/ TaskSucceeded(q) \/ TaskFailed(q)
      PROVE  status'[r] # "waiting"
  BY <1>1, <1>3 DEF StartRun, RepairRun, LaunchTask, TaskSucceeded, TaskFailed
<1> QED
  BY <1>2, <1>3 DEF JobNext, RunStep, Gates, NotebookStep, NotebookFault, jobvars, allvars

(* New rows are those of the run that loads them.                          *)
LEMMA RowsOfRunsStep ==
  ASSUME ~RollbackMayFail, TypeOK, LoadInv, JobTypes, JobInv, RowsOfRuns, [JobNext]_allvars
  PROVE  RowsOfRuns'
<1> SUFFICES ASSUME NEW d \in Datasets, ~IsSnapshot(d), NEW x \in Rows, analytics'[d][x] > 0
             PROVE  \E r \in RunIds : RunMonth[r] = x.month /\ status'[r] # "waiting"
  BY DEF RowsOfRuns, IsSnapshot
<1>1. RunsInTurn /\ LandingOfRun
  BY DEF JobInv
<1> SUFFICES \E r \in RunIds : RunMonth[r] = x.month /\ status[r] # "waiting"
  BY <1>1, StartedStays
<1>2. CASE analytics[d][x] > 0
  BY <1>2 DEF RowsOfRuns
<1>3. CASE ~(analytics[d][x] > 0)
  <2>1. /\ latest \in RunIds /\ status[latest] = "active" /\ Validated(latest)
        /\ Ds \in Datasets /\ Listed(Ds)
        /\ analytics' = [analytics EXCEPT ![Ds] =
                           Replacement(Ds, RunMonth[latest], analytics[Ds])]
    BY <1>3, LoadCommit
  <2>2. Ds = d /\ analytics'[d][x] = Replacement(d, RunMonth[latest], analytics[d])[x]
    <3>1. \A e \in Datasets : e # Ds => analytics'[e] = analytics[e]
      BY <2>1 DEF TypeOK
    <3>2. analytics'[Ds] = Replacement(Ds, RunMonth[latest], analytics[Ds])
      BY <2>1 DEF TypeOK
    <3>3. Ds = d
      BY <1>3, <3>1
    <3> QED BY <3>2, <3>3
  <2>3. analytics[d][x] = 0
    BY <1>3 DEF TypeOK, Table
  <2>4. analytics[d] \in Table /\ landing[d] \in Table
    BY DEF TypeOK
  <2>5. landing[d][x] > 0
    <3>1. analytics'[d][x] = landing[d][x] \/ analytics'[d][x] = analytics[d][x] + landing[d][x]
      BY <2>2, ReplacementRows
    <3>2. landing[d][x] \in Nat
      BY <2>4 DEF Table
    <3> QED BY <2>3, <3>1, <3>2
  <2>6. x \in Slice(d, RunMonth[latest])
    BY <1>1, <2>1, <2>2, <2>5 DEF LandingOfRun
  <2>7. x.month = RunMonth[latest]
    BY <2>6 DEF Slice
  <2> QED BY <2>1, <2>7
<1> QED BY <1>2, <1>3

(* What the last gate found unique stays unique until the next run.        *)
Unique == \A d \in Datasets : ~HasDuplicateKey(d, analytics[d])

(* No run is active, and none was left failed.                             *)
AtRest == \A r \in RunIds : status[r] \in {"waiting", "finished"}

(* A run that finishes passed gate 09, which found no key twice.           *)
LEMMA UniqueStep ==
  ASSUME ~RollbackMayFail, TypeOK, LoadInv, JobTypes, JobInv, AtRest => Unique,
         [JobNext]_allvars, AtRest'
  PROVE  Unique'
<1>1. RunsInTurn
  BY DEF JobInv
<1>2. CASE ~AtRest
  <2>1. PICK r \in RunIds : status[r] \notin {"waiting", "finished"}
    BY <1>2 DEF AtRest
  <2>2. status'[r] = "finished"
    BY <1>1, <2>1, StartedStays DEF AtRest
  <2>3. Idempotent(r)
    BY <1>1, <2>1, <2>2, FinishingStep
  <2>4. analytics' = analytics
    BY <2>1, <2>2, LoadCommit
  <2> QED BY <2>3, <2>4 DEF Unique, Idempotent, HasDuplicateKey, SameKey, IsSnapshot
<1>3. CASE AtRest
  <2>1. analytics' = analytics
    BY <1>3, LoadCommit DEF AtRest
  <2> QED BY <1>3, <2>1 DEF Unique, HasDuplicateKey, SameKey, IsSnapshot
<1> QED BY <1>2, <1>3

(***************************************************************************)
(* Finished months stay whole.                                             *)
(***************************************************************************)

(* The facts of m are there, find their locations, and every aggregate     *)
(* adds up to them: what gate 07 checked of it.                            *)
Whole(m) ==
    /\ \E x \in Rows : x.month = m /\ analytics[Fact][x] > 0
    /\ LocationsResolve(m)
    /\ \A i \in DOMAIN Aggs : TotalsReconcile(Aggs[i], m)

(* A month that was loaded, and that no run is loading, is whole.          *)
SettledMonths == \A m \in Months : Settled(m) => Whole(m)

(* Months that other runs load are left as they are but for dimensions,    *)
(* which keep their keys.                                                  *)
LEMMA WholeStays ==
  ASSUME ~RollbackMayFail, TypeOK, LoadInv, JobTypes, JobInv, LandedRows, DimsKept,
         [JobNext]_allvars, NEW m \in Months, Settled(m), Whole(m)
  PROVE  Whole(m)'
<1>1. \A d \in Datasets : \A x \in Rows : x.month = m => analytics'[d][x] = analytics[d][x]
  <2> SUFFICES ASSUME NEW d \in Datasets, NEW x \in Rows, x.month = m,
                      analytics'[d][x] # analytics[d][x]
               PROVE  FALSE
    OBVIOUS
  <2>1. m # Null
    BY DataAssumption
  <2>2. latest # Null /\ RunMonth[latest] = m
    BY <2>1, IsolationStep
  <2>3. latest \in RunIds /\ status[latest] = "active"
    BY LoadCommit
  <2> QED BY <2>2, <2>3 DEF Settled
<1>2. Fact \in Datasets /\ \A i \in DOMAIN Aggs : Aggs[i] \in Datasets
  BY ContractsAssumption
<1>3. ASSUME NEW d \in Datasets, ~IsSnapshot(d)
      PROVE  /\ BatchRows(d, m)' = BatchRows(d, m)
             /\ \A x \in Slice(d, m) : x \in Rows /\ x.month = m
  BY <1>1, <1>3 DEF BatchRows, Slice, IsSnapshot
<1>4. LocationsResolve(m)'
  <2> SUFFICES ASSUME NEW i \in DOMAIN Dims, NEW f \in BatchRows(Fact, m)
               PROVE  \E z \in BatchRows(Dims[i], m)' : z.key = ZoneOf[f.key]
    BY <1>2, <1>3, MartAssumption DEF LocationsResolve
  <2>1. IsSnapshot(Dims[i])
    BY DEF IsSnapshot
  <2>2. PICK z \in BatchRows(Dims[i], m) : z.key = ZoneOf[f.key]
    BY DEF Whole, LocationsResolve
  <2>3. z.key \in KeysOf(analytics[Dims[i]])
    BY DEF BatchRows, Slice, KeysOf
  <2>4. z.key \in KeysOf(analytics'[Dims[i]])
    BY <2>3, DimKeysGrow
  <2>5. PICK y \in Rows : analytics'[Dims[i]][y] > 0 /\ y.key = z.key
    BY <2>4 DEF KeysOf
  <2>6. y \in BatchRows(Dims[i], m)'
    BY <2>1, <2>5 DEF BatchRows, Slice, IsSnapshot
  <2> QED BY <2>2, <2>5, <2>6
<1>5. ASSUME NEW i \in DOMAIN Aggs PROVE TotalsReconcile(Aggs[i], m)'
  <2> DEFINE d == Aggs[i]
  <2>1. Copies(analytics[Fact], Slice(Fact, m)) = Copies(analytics'[Fact], Slice(Fact, m))
    BY <1>1, <1>2, <1>3, MartAssumption DEF Copies
  <2>2. table_count(analytics[Fact], Slice(Fact, m))'
          = table_count(analytics[Fact], Slice(Fact, m))
    BY <2>1 DEF table_count, Slice, IsSnapshot, Copies
  <2>3. BatchRows(d, m)' = BatchRows(d, m)
    BY <1>2, <1>3, MartAssumption
  <2>4. \A r \in BatchRows(d, m) : analytics'[d][r] = analytics[d][r]
    BY <1>1, <1>2, <1>3, MartAssumption DEF BatchRows
  <2>5. [r \in BatchRows(d, m) |-> analytics'[d][r] * TripCount[r.key, m, r.ver]]
          = [r \in BatchRows(d, m) |-> analytics[d][r] * TripCount[r.key, m, r.ver]]
    BY <2>4
  <2> QED BY <2>2, <2>3, <2>5 DEF Whole, TotalsReconcile
<1>6. \E x \in Rows : x.month = m /\ analytics'[Fact][x] > 0
  BY <1>1, <1>2 DEF Whole
<1> QED BY <1>4, <1>5, <1>6 DEF Whole

(* A run that finishes leaves its month whole, and others leave it so.     *)
LEMMA SettledStep ==
  ASSUME ~RollbackMayFail, TypeOK, LoadInv, JobTypes, JobInv, FinishInv, DimsKept,
         SettledMonths, [JobNext]_allvars
  PROVE  SettledMonths'
<1> SUFFICES ASSUME NEW m \in Months, Settled(m)' PROVE Whole(m)'
  BY DEF SettledMonths
<1>1. RunsInTurn /\ LandedRows
  BY DEF JobInv, FinishInv
<1>2. CASE Settled(m)
  BY <1>1, <1>2, WholeStays DEF SettledMonths
<1>3. CASE ~Settled(m)
  <2>1. PICK r \in RunIds : RunMonth[r] = m /\ status[r] # "finished" /\ status'[r] = "finished"
    BY <1>1, <1>3, StartedStays DEF Settled
  <2>2. /\ \A d \in Datasets : table_count(analytics[d], Slice(d, m)) > 0
        /\ LocationsResolve(m)
        /\ \A i \in DOMAIN Aggs : TotalsReconcile(Aggs[i], m)
    BY <1>1, <2>1, FinishStep
  <2>3. analytics' = analytics
    BY <2>1, LoadCommit
  <2>4. Fact \in Datasets /\ analytics[Fact] \in Table /\ Slice(Fact, m) \in SUBSET Rows
    BY ContractsAssumption DEF TypeOK, Slice
  <2>5. \E x \in Slice(Fact, m) : analytics[Fact][x] > 0
    BY <2>2, <2>4, CountedRow
  <2>6. \E x \in Rows : x.month = m /\ analytics[Fact][x] > 0
    BY <2>5, MartAssumption DEF Slice
  <2>7. MonthReconciled(m)'
    BY <2>2, <2>3, SameReconciliation DEF MonthReconciled
  <2> QED BY <2>3, <2>6, <2>7 DEF Whole, MonthReconciled
<1> QED BY <1>2, <1>3

(***************************************************************************)
(* Joins.                                                                  *)
(***************************************************************************)

(* A copy of a row of S is that row with a number.                         *)
LEMMA CopiesOf ==
  ASSUME NEW t, NEW S, NEW e
  PROVE  e \in Copies(t, S) <=> \E r \in S : \E n \in 1 .. t[r] : e = <<r, n>>
BY DEF Copies

(* A row of a staging model is a copy of a row that is there.              *)
LEMMA StagedRow ==
  ASSUME TypeOK, NEW d \in Datasets
  PROVE  /\ \A e \in stg(d) : e[1] \in Rows /\ analytics[d][e[1]] > 0
                              /\ e[2] \in 1 .. analytics[d][e[1]] /\ e = <<e[1], e[2]>>
         /\ \A x \in Rows : analytics[d][x] > 0 => <<x, 1>> \in stg(d)
<1>1. \A x \in Rows : analytics[d][x] \in Nat
  BY DEF TypeOK, Table
<1>2. ASSUME NEW e \in stg(d)
      PROVE  /\ e[1] \in Rows /\ analytics[d][e[1]] > 0
             /\ e[2] \in 1 .. analytics[d][e[1]] /\ e = <<e[1], e[2]>>
  <2>1. PICK r \in Rows : \E n \in 1 .. analytics[d][r] : e = <<r, n>>
    BY CopiesOf DEF stg
  <2>2. e[1] = r /\ e[2] \in 1 .. analytics[d][r] /\ e = <<e[1], e[2]>>
    BY <2>1
  <2>3. analytics[d][r] > 0
    BY <1>1, <2>2
  <2> QED BY <2>1, <2>2, <2>3
<1>3. ASSUME NEW x \in Rows, analytics[d][x] > 0 PROVE <<x, 1>> \in stg(d)
  <2>1. 1 \in 1 .. analytics[d][x]
    BY <1>1, <1>3
  <2> QED BY <2>1, CopiesOf DEF stg
<1> QED BY <1>2, <1>3

(* A staging model has finitely many rows.                                 *)
LEMMA StagedFinite == ASSUME TypeOK, NEW d \in Datasets PROVE IsFiniteSet(stg(d))
<1>1. analytics[d] \in Table
  BY DEF TypeOK
<1> QED BY <1>1, CopiesFinite DEF stg

(* A dimension has one row for a key, in one copy.                         *)
LEMMA OneDimRow ==
  ASSUME TypeOK, SnapshotRows, SlicesAreBuilds, NEW i \in DOMAIN Dims,
         NEW z \in stg(Dims[i]), NEW y \in stg(Dims[i]), z[1].key = y[1].key
  PROVE  z = y
<1> DEFINE d == Dims[i]
<1>1. d \in Datasets
  BY ContractsAssumption
<1>2. PICK v \in 1 .. gold[d][Null] : \A x \in Rows : analytics[d][x] > 0 => x.ver = v
  BY DimRows
<1>3. /\ z[1] \in Rows /\ y[1] \in Rows /\ z = <<z[1], z[2]>> /\ y = <<y[1], y[2]>>
      /\ analytics[d][z[1]] > 0 /\ analytics[d][y[1]] > 0
      /\ z[2] \in 1 .. analytics[d][z[1]] /\ y[2] \in 1 .. analytics[d][y[1]]
  BY <1>1, StagedRow
<1>4. /\ z[1].month = Null /\ analytics[d][z[1]] = 1
      /\ y[1].month = Null /\ analytics[d][y[1]] = 1
  BY <1>3, DimRows
<1>5. z[1] = y[1]
  BY <1>2, <1>3, <1>4 DEF Rows
<1>6. z[2] = 1 /\ y[2] = 1
  BY <1>3, <1>4
<1> QED BY <1>3, <1>5, <1>6

(* A row finds its location (or date, or time) in a dimension.             *)
Found(k, i) == \E z \in stg(Dims[i]) : z[1].key = ZoneOf[k]

(* Trips that find a row for each of the six joins are one for each fact.  *)
LEMMA TripsOfFacts ==
  ASSUME TypeOK, SnapshotRows, SlicesAreBuilds, NEW F \in SUBSET stg(Fact),
         \A t \in F : \A i \in DOMAIN Dims : Found(t[1].key, i),
         NEW E, E = {e \in int_trip_enriched : e[1] \in F}
  PROVE  [e \in E |-> e[1]] \in Bijection(E, F)
<1> DEFINE key == [e \in E |-> e[1]]
           U == UNION {stg(Dims[i]) : i \in DOMAIN Dims}
<1>1. \A e \in E : /\ e \in stg(Fact) \X [Joins -> U] /\ e[1] \in F
                   /\ \A x \in Joins : /\ e[2][x] \in stg(Dims[x[1]])
                                       /\ e[2][x][1].key = ZoneOf[e[1][1].key]
  BY DEF int_trip_enriched
<1>2. \A x \in Joins : x[1] \in DOMAIN Dims
  BY DEF Joins
<1>3. ASSUME NEW e \in E, NEW f \in E, e[1] = f[1] PROVE e = f
  <2>1. \A x \in Joins : e[2][x] = f[2][x]
    BY <1>1, <1>2, <1>3, OneDimRow
  <2>2. e = <<e[1], e[2]>> /\ f = <<f[1], f[2]>>
        /\ e[2] \in [Joins -> U] /\ f[2] \in [Joins -> U]
    BY <1>1
  <2>3. e[2] = f[2]
    BY <2>1, <2>2
  <2> QED BY <1>3, <2>2, <2>3
<1>4. ASSUME NEW t \in F PROVE \E e \in E : e[1] = t
  <2> DEFINE g == [x \in Joins |-> CHOOSE z \in stg(Dims[x[1]]) : z[1].key = ZoneOf[t[1].key]]
             e == <<t, g>>
  <2>1. \A x \in Joins : g[x] \in stg(Dims[x[1]]) /\ g[x][1].key = ZoneOf[t[1].key]
    BY <1>2 DEF Found
  <2>2. \A x \in Joins : g[x] \in U
    BY <1>2, <2>1
  <2>3. g \in [Joins -> U]
    BY <2>2
  <2> HIDE DEF g
  <2>4. e \in stg(Fact) \X [Joins -> U] /\ e[1] = t /\ e[2] = g
    BY <2>3
  <2>5. e \in int_trip_enriched
    BY <2>1, <2>4 DEF int_trip_enriched
  <2> QED BY <2>4, <2>5
<1>5. key \in [E -> F]
  BY <1>1
<1> QED BY <1>3, <1>4, <1>5 DEF Bijection, Injection, Surjection, IsInjective

(* Rows of an aggregate give one row of its mart at most, and one for each *)
(* if all of them find their dimension row.                                *)
LEMMA RowsOfAggregate ==
  ASSUME TypeOK, SnapshotRows, SlicesAreBuilds, NEW i \in DOMAIN Aggs,
         NEW j \in DOMAIN Dims, DescribedBy[i] = Dims[j], NEW A \in SUBSET stg(Aggs[i]),
         NEW E, E = {e \in mart(i) : e[1] \in A}
  PROVE  /\ [e \in E |-> e[1]] \in Injection(E, A)
         /\ (\A a \in A : Found(a[1].key, j)) => [e \in E |-> e[1]] \in Surjection(E, A)
<1>1. \A e \in E : /\ e \in stg(Aggs[i]) \X stg(Dims[j]) /\ e[1] \in A
                   /\ e[2][1].key = ZoneOf[e[1][1].key]
  BY DEF mart
<1>2. ASSUME NEW e \in E, NEW f \in E, e[1] = f[1] PROVE e = f
  <2>1. e = <<e[1], e[2]>> /\ f = <<f[1], f[2]>> /\ e[2] \in stg(Dims[j]) /\ f[2] \in stg(Dims[j])
    BY <1>1
  <2>2. e[2] = f[2]
    BY <1>1, <1>2, <2>1, OneDimRow
  <2> QED BY <1>2, <2>1, <2>2
<1>3. ASSUME NEW a \in A, Found(a[1].key, j) PROVE \E e \in E : e[1] = a
  <2>1. PICK z \in stg(Dims[j]) : z[1].key = ZoneOf[a[1].key]
    BY <1>3 DEF Found
  <2>2. <<a, z>> \in E /\ <<a, z>>[1] = a
    BY <2>1 DEF mart
  <2> QED BY <2>2
<1> QED BY <1>1, <1>2, <1>3 DEF Injection, Surjection, IsInjective

(* In a month that is whole every fact finds its dimension rows.           *)
LEMMA FactsFound ==
  ASSUME TypeOK, NEW m, Whole(m), NEW x \in Rows, x.month = m, analytics[Fact][x] > 0,
         NEW i \in DOMAIN Dims
  PROVE  Found(x.key, i)
<1>1. x \in BatchRows(Fact, m)
  BY DEF BatchRows, Slice
<1>2. PICK z \in BatchRows(Dims[i], m) : z.key = ZoneOf[x.key]
  BY <1>1 DEF Whole, LocationsResolve
<1>3. Dims[i] \in Datasets
  BY ContractsAssumption
<1>4. z \in Rows /\ analytics[Dims[i]][z] > 0
  BY DEF BatchRows, Slice
<1>5. <<z, 1>> \in stg(Dims[i])
  BY <1>3, <1>4, StagedRow
<1>6. <<z, 1>>[1].key = ZoneOf[x.key]
  BY <1>2
<1> QED BY <1>5, <1>6 DEF Found

(* The rows of a month are one Gold build, each row once.                  *)
LEMMA RowsOfBuild ==
  ASSUME TypeOK, SlicesAreBuilds, NEW d \in Datasets, ~IsSnapshot(d), NEW m \in Months
  PROVE  /\ BatchRows(d, m) # {} => \E v \in Versions : BatchRows(d, m) = GoldSlice(d, m, v)
         /\ \A r \in BatchRows(d, m) : r \in Rows /\ r.month = m /\ analytics[d][r] = 1
         /\ IsFiniteSet(BatchRows(d, m))
<1> DEFINE present == {r \in Rows : r.month = m /\ analytics[d][r] > 0}
<1>1. BatchRows(d, m) = present
  BY DEF BatchRows, Slice
<1>2. m \in Parts
  BY DEF Parts
<1>3. /\ present # {} => \E v \in 1 .. gold[d][m] : present = GoldSlice(d, m, v)
      /\ \A r \in present : analytics[d][r] = 1
  BY <1>2 DEF SlicesAreBuilds
<1>4. \A v \in 1 .. gold[d][m] : v \in Versions
  <2>1. gold[d][m] \in Versions
    BY <1>2 DEF TypeOK
  <2> QED BY <2>1, DataAssumption DEF Versions
<1>5. IsFiniteSet(present)
  BY RowsFinite, FS_Subset
<1> QED BY <1>1, <1>3, <1>4, <1>5

(* Facts and aggregates have one copy of each row of a month.              *)
LEMMA CopiesOfMonth ==
  ASSUME TypeOK, SlicesAreBuilds, NEW d \in Datasets, ~IsSnapshot(d), NEW m \in Months,
         NEW C, C = {t \in stg(d) : t[1].month = m}
  PROVE  /\ [t \in C |-> t[1]] \in Bijection(C, BatchRows(d, m))
         /\ IsFiniteSet(C) /\ Cardinality(C) = Cardinality(BatchRows(d, m))
<1> DEFINE row == [t \in C |-> t[1]]
<1>1. \A r \in BatchRows(d, m) :
         r \in Rows /\ r.month = m /\ analytics[d][r] = 1 /\ analytics[d][r] > 0
  BY RowsOfBuild DEF BatchRows
<1>2. \A t \in C : /\ t[1] \in BatchRows(d, m)
                   /\ t[2] \in 1 .. analytics[d][t[1]] /\ t = <<t[1], t[2]>>
  BY StagedRow DEF BatchRows, Slice
<1>3. \A t \in C : t[2] = 1 /\ t = <<t[1], t[2]>>
  BY <1>1, <1>2
<1>4. \A t, u \in C : t[1] = u[1] => t = u
  BY <1>3
<1>5. \A r \in BatchRows(d, m) : \E t \in C : t[1] = r
  <2>1. \A r \in BatchRows(d, m) : <<r, 1>> \in C
    BY <1>1, StagedRow
  <2> QED BY <2>1
<1>6. row \in Bijection(C, BatchRows(d, m))
  BY <1>2, <1>4, <1>5 DEF Bijection, Injection, Surjection, IsInjective
<1>7. IsFiniteSet(C)
  BY StagedFinite, FS_Subset
<1> HIDE DEF row
<1>8. Cardinality(C) = Cardinality(BatchRows(d, m))
  BY <1>6, <1>7, FS_Bijection DEF ExistsBijection
<1> QED BY <1>6, <1>7, <1>8 DEF row

(* These copies of facts are what table_count counts.                      *)
LEMMA FactCount ==
  ASSUME TypeOK, SlicesAreBuilds, NEW m \in Months
  PROVE  table_count(analytics[Fact], Slice(Fact, m)) = Cardinality(BatchRows(Fact, m))
<1> DEFINE copies == {t \in stg(Fact) : t[1].month = m}
<1>1. Fact \in Datasets /\ ~IsSnapshot(Fact)
  BY ContractsAssumption, MartAssumption
<1>2. copies = Copies(analytics[Fact], Slice(Fact, m))
  <2>1. ASSUME NEW t \in copies PROVE t \in Copies(analytics[Fact], Slice(Fact, m))
    <3>1. /\ t[1] \in Rows /\ t[2] \in 1 .. analytics[Fact][t[1]] /\ t = <<t[1], t[2]>>
          /\ t[1].month = m
      BY <1>1, StagedRow
    <3>2. t[1] \in Slice(Fact, m)
      BY <3>1 DEF Slice
    <3> QED BY <3>1, <3>2, CopiesOf
  <2>2. ASSUME NEW t \in Copies(analytics[Fact], Slice(Fact, m)) PROVE t \in copies
    <3>1. PICK r \in Slice(Fact, m) : \E n \in 1 .. analytics[Fact][r] : t = <<r, n>>
      BY CopiesOf
    <3>2. r \in Rows /\ r.month = m /\ t[1] = r
      BY <1>1, <3>1 DEF Slice
    <3>3. t \in stg(Fact)
      BY <3>1, <3>2, CopiesOf DEF stg
    <3> QED BY <3>2, <3>3
  <2> QED BY <2>1, <2>2
<1>3. Cardinality(copies) = Cardinality(BatchRows(Fact, m))
  BY <1>1, CopiesOfMonth
<1> QED BY <1>2, <1>3 DEF table_count

(* An aggregate mart counts no trip that is not a fact of a month that is  *)
(* whole, and every one of them if all its groups are described.           *)
LEMMA MonthCounted ==
  ASSUME TypeOK, SnapshotRows, SlicesAreBuilds, NEW m \in Months, Whole(m),
         NEW i \in DOMAIN Aggs
  PROVE  /\ TripsCounted(i, m) <= Cardinality(BatchRows(Fact, m))
         /\ GroupsAreRelated(i, m) => TripsCounted(i, m) = Cardinality(BatchRows(Fact, m))
<1> DEFINE d == Aggs[i]
           A == {a \in stg(d) : a[1].month = m}
           B == BatchRows(d, m)
           E == OfMonth(mart(i), m)
           C == {e[1][1] : e \in E}
           copy == [e \in E |-> e[1]]
           row == [e \in E |-> e[1][1]]
           perTrip == [e \in E |-> TripCount[e[1][1].key, m, e[1][1].ver]]
           perRow == [r \in B |-> analytics[d][r] * TripCount[r.key, m, r.ver]]
<1>1. d \in Datasets /\ ~IsSnapshot(d)
  BY ContractsAssumption, MartAssumption
<1>2. PICK j \in DOMAIN Dims : DescribedBy[i] = Dims[j]
  BY MartAssumption
<1>3. /\ [t \in A |-> t[1]] \in Bijection(A, B)
      /\ IsFiniteSet(A)
  BY <1>1, CopiesOfMonth
<1>4. /\ \A t \in A : t[1] \in B
      /\ \A t, u \in A : t[1] = u[1] => t = u
      /\ \A r \in B : \E t \in A : t[1] = r
  BY <1>3 DEF Bijection, Injection, Surjection, IsInjective
<1>5. E = {e \in mart(i) : e[1] \in A} /\ A \in SUBSET stg(d)
  BY DEF mart, OfMonth
<1>6. GroupsAreRelated(i, m) => \A a \in A : Found(a[1].key, j)
  BY <1>2 DEF GroupsAreRelated, Found
<1>7. /\ copy \in Injection(E, A)
      /\ GroupsAreRelated(i, m) => copy \in Surjection(E, A)
  <2> HIDE DEF E, A
  <2> QED BY <1>2, <1>5, <1>6, RowsOfAggregate
<1>8. /\ \A e \in E : e[1] \in A
      /\ \A e, f \in E : e[1] = f[1] => e = f
      /\ GroupsAreRelated(i, m) => \A t \in A : \E e \in E : e[1] = t
  BY <1>7 DEF Injection, Surjection, IsInjective
<1>9. row \in Bijection(E, C) /\ C \in SUBSET B /\ (GroupsAreRelated(i, m) => C = B)
  <2> HIDE DEF E, A, B
  <2>1. \A e \in E : e[1][1] \in C
    OBVIOUS
  <2>2. \A c \in C : c \in B /\ \E e \in E : e[1][1] = c
    BY <1>4, <1>8
  <2>3. \A e, f \in E : e[1][1] = f[1][1] => e = f
    BY <1>4, <1>8
  <2>4. GroupsAreRelated(i, m) => \A r \in B : r \in C
    BY <1>4, <1>8
  <2> HIDE DEF C
  <2>5. row \in Bijection(E, C)
    BY <2>1, <2>2, <2>3 DEF Bijection, Injection, Surjection, IsInjective
  <2> QED BY <2>2, <2>4, <2>5
<1>10. IsFiniteSet(B) /\ \A r \in B : r \in Rows /\ r.month = m /\ analytics[d][r] = 1
  BY <1>1, RowsOfBuild
<1>11. IsFiniteSet(E)
  <2> HIDE DEF E, A, copy
  <2> QED BY <1>3, <1>7, FS_Injection
<1>12. ASSUME NEW r \in B
       PROVE  perRow[r] \in Nat /\ perRow[r] = TripCount[r.key, m, r.ver]
  <2> DEFINE count == TripCount[r.key, m, r.ver]
  <2>1. r.key \in Keys /\ r.ver \in Versions /\ analytics[d][r] = 1
    BY <1>10 DEF Rows
  <2>2. count \in Nat
    BY <2>1, JobAssumption
  <2>3. perRow[r] = analytics[d][r] * count
    OBVIOUS
  <2> HIDE DEF B, perRow, count
  <2>4. perRow[r] = 1 * count
    BY <2>1, <2>3
  <2>5. perRow[r] = count
    BY <2>2, <2>4
  <2> QED BY <2>2, <2>5 DEF count
<1>13. \A e \in E : perTrip[e] \in Int /\ perRow[row[e]] = perTrip[e]
  <2> SUFFICES ASSUME NEW e \in E PROVE perTrip[e] \in Int /\ perRow[row[e]] = perTrip[e]
    OBVIOUS
  <2> DEFINE r == e[1][1]
             count == TripCount[r.key, m, r.ver]
  <2>1. r \in B
    BY <1>4, <1>8
  <2>2. row[e] = r /\ perTrip[e] = count
    OBVIOUS
  <2> HIDE DEF E, B, row, perTrip, perRow, r
  <2>3. perRow[r] \in Nat /\ perRow[r] = count
    BY <1>12, <2>1
  <2> HIDE DEF count
  <2> QED BY <2>2, <2>3
<1>14. DOMAIN perTrip = E /\ DOMAIN perRow = B
  OBVIOUS
<1>15. TripsCounted(i, m) = SumFunction(perTrip)
  BY DEF TripsCounted
<1>16. table_count(analytics[Fact], Slice(Fact, m)) = SumFunction(perRow)
  BY DEF Whole, TotalsReconcile
<1> HIDE DEF E, B, C, row, perTrip, perRow
<1>17. TripsCounted(i, m) = SumFunctionOnSet(perRow, C)
  <2>1. IsFiniteSet(C)
    BY <1>9, <1>10, FS_Subset
  <2>2. SumFunctionOnSet(perTrip, E) = SumFunctionOnSet(perRow, C)
    BY <1>9, <1>11, <1>13, <2>1, SumBijection
  <2> QED BY <1>14, <1>15, <2>2 DEF SumFunction
<1>18. SumFunctionOnSet(perRow, B) = Cardinality(BatchRows(Fact, m))
  BY <1>14, <1>16, FactCount DEF SumFunction
<1>19. SumFunctionOnSet(perRow, C) <= SumFunctionOnSet(perRow, B)
  BY <1>9, <1>10, <1>12, SumSubset
<1> QED BY <1>9, <1>17, <1>18, <1>19

(* A month that is whole is what FinishedMonthsStayInMarts says of it.     *)
LEMMA MonthInMarts ==
  ASSUME TypeOK, SnapshotRows, SlicesAreBuilds, NEW m \in Months, Whole(m),
         NEW trips, trips = OfMonth(mart_trip_details, m)
  PROVE  /\ trips # {}
         /\ Cardinality(trips) = Cardinality({t \in stg(Fact) : t[1].month = m})
         /\ {e[1] : e \in trips} = {t \in stg(Fact) : t[1].month = m}
         /\ \A i \in DOMAIN Aggs :
              /\ TripsCounted(i, m) <= Cardinality(trips)
              /\ GroupsAreRelated(i, m) => TripsCounted(i, m) = Cardinality(trips)
<1> DEFINE F == {t \in stg(Fact) : t[1].month = m}
<1>1. Fact \in Datasets /\ ~IsSnapshot(Fact)
  BY ContractsAssumption, MartAssumption
<1>2. trips = {e \in int_trip_enriched : e[1] \in F}
  BY DEF OfMonth, mart_trip_details, int_trip_enriched
<1>3. \A t \in F : \A i \in DOMAIN Dims : Found(t[1].key, i)
  BY <1>1, StagedRow, FactsFound
<1>4. [e \in trips |-> e[1]] \in Bijection(trips, F)
  <2>1. F \in SUBSET stg(Fact)
    OBVIOUS
  <2> HIDE DEF F
  <2> QED BY <1>2, <1>3, <2>1, TripsOfFacts
<1>5. /\ IsFiniteSet(F)
      /\ Cardinality(F) = Cardinality(BatchRows(Fact, m))
  BY <1>1, CopiesOfMonth
<1>6. F # {}
  <2>1. PICK x \in Rows : x.month = m /\ analytics[Fact][x] > 0
    BY DEF Whole
  <2>2. <<x, 1>> \in stg(Fact) /\ <<x, 1>>[1].month = m
    BY <1>1, <2>1, StagedRow
  <2> QED BY <2>2
<1> HIDE DEF F
<1>7. /\ \A e \in trips : e[1] \in F
      /\ \A t \in F : \E e \in trips : e[1] = t
  BY <1>4 DEF Bijection, Surjection
<1>8. {e[1] : e \in trips} = F
  BY <1>7
<1>9. Cardinality(trips) = Cardinality(F)
  <2>1. ExistsBijection(F, trips)
    BY <1>4, Fun_ExistsBijSymmetric DEF ExistsBijection
  <2> QED BY <1>5, <2>1, FS_Bijection
<1>10. \A i \in DOMAIN Aggs :
          /\ TripsCounted(i, m) <= Cardinality(trips)
          /\ GroupsAreRelated(i, m) => TripsCounted(i, m) = Cardinality(trips)
  BY <1>5, <1>9, MonthCounted
<1> QED BY <1>6, <1>7, <1>8, <1>9, <1>10 DEF F

(* At rest every month that has facts or groups is whole.                  *)
LEMMA MonthsAtRest ==
  ASSUME JobTypes, RowsOfRuns, SettledMonths, AtRest, NEW d \in Datasets, ~IsSnapshot(d),
         NEW x \in Rows, analytics[d][x] > 0
  PROVE  x.month \in Months /\ Whole(x.month)
<1>1. PICK r \in RunIds : RunMonth[r] = x.month /\ status[r] # "waiting"
  BY DEF RowsOfRuns
<1>2. status[r] = "finished" /\ RunMonth[r] \in Months
  BY <1>1, JobAssumption DEF AtRest
<1>3. Settled(x.month)
  BY <1>1, <1>2 DEF Settled, AtRest
<1> QED BY <1>1, <1>2, <1>3 DEF SettledMonths

(* Rows of a staging model with the same key are the same row.             *)
LEMMA OneStagedRow ==
  ASSUME TypeOK, Unique, NEW d \in Datasets, NEW t \in stg(d), NEW u \in stg(d),
         SameKey(d, t[1], u[1])
  PROVE  t = u
<1>1. /\ t[1] \in Rows /\ u[1] \in Rows /\ t = <<t[1], t[2]>> /\ u = <<u[1], u[2]>>
      /\ analytics[d][t[1]] > 0 /\ analytics[d][u[1]] > 0
      /\ t[2] \in 1 .. analytics[d][t[1]] /\ u[2] \in 1 .. analytics[d][u[1]]
  BY StagedRow
<1>2. ~HasDuplicateKey(d, analytics[d])
  BY DEF Unique
<1>3. t[1] = u[1]
  BY <1>1, <1>2 DEF HasDuplicateKey
<1>4. ~(analytics[d][t[1]] > 1)
  BY <1>1, <1>2, <1>3 DEF HasDuplicateKey
<1>5. analytics[d][t[1]] \in Nat
  BY <1>1 DEF TypeOK, Table
<1>6. t[2] = 1 /\ u[2] = 1
  BY <1>1, <1>3, <1>4, <1>5
<1> QED BY <1>1, <1>3, <1>6

(* What the gates found at the end of the last run is what dbt tests.      *)
LEMMA TestsAtRest ==
  ASSUME TypeOK, JobTypes, SnapshotRows, SlicesAreBuilds, RowsOfRuns, SettledMonths,
         AtRest, Unique
  PROVE  RowsArePreserved /\ KeysAreUnique /\ FactsAreRelated
<1>1. /\ Fact \in Datasets /\ ~IsSnapshot(Fact)
      /\ \A i \in DOMAIN Aggs : Aggs[i] \in Datasets /\ ~IsSnapshot(Aggs[i])
  BY ContractsAssumption, MartAssumption
<1>2. \A t \in stg(Fact) : \A i \in DOMAIN Dims : Found(t[1].key, i)
  <2> SUFFICES ASSUME NEW t \in stg(Fact), NEW i \in DOMAIN Dims PROVE Found(t[1].key, i)
    OBVIOUS
  <2>1. t[1] \in Rows /\ analytics[Fact][t[1]] > 0
    BY <1>1, StagedRow
  <2>2. Whole(t[1].month)
    BY <1>1, <2>1, MonthsAtRest
  <2> QED BY <2>1, <2>2, FactsFound
<1>3. [e \in int_trip_enriched |-> e[1]] \in Bijection(int_trip_enriched, stg(Fact))
  <2> DEFINE E == {e \in int_trip_enriched : e[1] \in stg(Fact)}
  <2>1. E = int_trip_enriched
    BY DEF int_trip_enriched
  <2>2. [e \in E |-> e[1]] \in Bijection(E, stg(Fact))
    BY <1>2, TripsOfFacts
  <2> HIDE DEF E
  <2> QED BY <2>1, <2>2
<1>4. ASSUME NEW i \in DOMAIN Aggs
      PROVE  [e \in mart(i) |-> e[1]] \in Injection(mart(i), stg(Aggs[i]))
  <2> DEFINE E == {e \in mart(i) : e[1] \in stg(Aggs[i])}
  <2>1. E = mart(i)
    BY DEF mart
  <2>2. PICK j \in DOMAIN Dims : DescribedBy[i] = Dims[j]
    BY MartAssumption
  <2>3. [e \in E |-> e[1]] \in Injection(E, stg(Aggs[i]))
    BY <2>2, RowsOfAggregate
  <2> HIDE DEF E
  <2> QED BY <2>1, <2>3
<1>5. RowsArePreserved
  <2>1. ExistsBijection(stg(Fact), int_trip_enriched)
    BY <1>3, Fun_ExistsBijSymmetric DEF ExistsBijection
  <2> QED BY <1>1, <2>1, StagedFinite, FS_Bijection DEF RowsArePreserved
<1>6. KeysAreUnique
  <2>1. \A d \in Datasets : ~HasDuplicateKey(d, analytics[d])
    BY DEF Unique
  <2>2. ASSUME NEW e \in mart_trip_details, NEW f \in mart_trip_details,
               SameKey(Fact, e[1][1], f[1][1])
        PROVE  e = f
    <3>1. /\ e[1] \in stg(Fact) /\ f[1] \in stg(Fact)
          /\ e[1] = f[1] => e = f
      BY <1>3 DEF mart_trip_details, Bijection, Injection, IsInjective
    <3> QED BY <1>1, <2>2, <3>1, OneStagedRow
  <2>3. ASSUME NEW i \in DOMAIN Aggs, NEW e \in mart(i), NEW f \in mart(i),
               SameKey(Aggs[i], e[1][1], f[1][1])
        PROVE  e = f
    <3>1. /\ e[1] \in stg(Aggs[i]) /\ f[1] \in stg(Aggs[i])
          /\ e[1] = f[1] => e = f
      BY <1>4 DEF Injection, IsInjective
    <3> QED BY <1>1, <2>3, <3>1, OneStagedRow
  <2> QED BY <2>1, <2>2, <2>3 DEF KeysAreUnique
<1>7. FactsAreRelated
  BY <1>2 DEF FactsAreRelated, Found
<1> QED BY <1>5, <1>6, <1>7

(***************************************************************************)
(* The marts.                                                              *)
(***************************************************************************)

(* The inductive invariant, beside those of the job.                       *)
MartsInv ==
    DimsKept /\ RowsOfRuns /\ (AtRest => Unique) /\ SettledMonths

(* No run has started and the tables are empty.                            *)
LEMMA MartsInit == JobInit => MartsInv
<1> SUFFICES ASSUME JobInit PROVE MartsInv
  OBVIOUS
<1>1. /\ \A d \in Datasets : analytics[d] = EmptyTable /\ landing[d] = EmptyTable
      /\ \A r \in RunIds : status[r] = "waiting"
  BY DEF JobInit, Init
<1>2. \A x \in Rows : EmptyTable[x] = 0
  BY DEF EmptyTable
<1>3. DimsKept
  <2>1. \A i \in DOMAIN Dims : Dims[i] \in Datasets
    BY ContractsAssumption
  <2> QED BY <1>1, <1>2, <2>1 DEF DimsKept, KeysOf
<1>4. RowsOfRuns /\ Unique
  BY <1>1, <1>2 DEF RowsOfRuns, Unique, HasDuplicateKey
<1>5. SettledMonths
  BY <1>1 DEF SettledMonths, Settled
<1> QED BY <1>3, <1>4, <1>5 DEF MartsInv

(* Every step of the job keeps it.                                         *)
LEMMA MartsStep ==
  ASSUME DimensionsGrow, ~RollbackMayFail, TypeOK, LoadInv, JobTypes, JobInv, BuildsInv,
         FinishInv, MartsInv, [JobNext]_allvars
  PROVE  MartsInv'
<1>1. DimsKept'
  BY DimsStep DEF MartsInv, FinishInv
<1>2. RowsOfRuns'
  BY RowsOfRunsStep DEF MartsInv
<1>3. (AtRest => Unique)'
  BY UniqueStep DEF MartsInv
<1>4. SettledMonths'
  BY SettledStep DEF MartsInv
<1> QED BY <1>1, <1>2, <1>3, <1>4 DEF MartsInv

(* So it holds throughout, with the invariants of the job it rests on.     *)
LEMMA MartsInvariant == DimensionsGrow /\ ~LateRepair /\ ~RollbackMayFail =>
                          (JobSpec => [](TypeOK /\ JobTypes /\ JobInv /\ BuildsInv /\ MartsInv))
<1> SUFFICES ASSUME DimensionsGrow, ~LateRepair, ~RollbackMayFail
             PROVE  JobSpec => [](TypeOK /\ JobTypes /\ JobInv /\ BuildsInv /\ MartsInv)
  OBVIOUS
<1>1. TypeOK /\ LoadInv /\ JobTypes /\ JobInv /\ BuildsInv /\ FinishInv
      /\ MartsInv /\ [JobNext]_allvars => MartsInv'
  BY MartsStep
<1> QED BY <1>1, MartsInit, JobInvariant, BuildsInvariant, FinishInvariant, PTL DEF JobSpec

(* A month that was loaded successfully stays whole in the marts: a row of *)
(* mart_trip_details for every fact of it and for nothing else, while runs *)
(* of other months replace the dimensions, fail, crash and are repaired.   *)
(* No aggregate mart counts more trips than these, and one whose rows are  *)
(* all described counts all of them; that they are described is not        *)
(* claimed, and no gate checks it.  Provided that Gold drops no row from a *)
(* dimension, which only the data can keep, that a failed run is not       *)
(* repaired once another has started, and that ROLLBACK does not raise.    *)
THEOREM FinishedMonthsCorrect ==
    DimensionsGrow /\ ~LateRepair /\ ~RollbackMayFail =>
        (JobSpec => []FinishedMonthsStayInMarts)
<1>1. TypeOK /\ JobInv /\ BuildsInv /\ MartsInv => FinishedMonthsStayInMarts
  <2> SUFFICES ASSUME TypeOK, SnapshotRows, SlicesAreBuilds, SettledMonths
               PROVE  FinishedMonthsStayInMarts
    BY DEF JobInv, BuildsInv, MartsInv
  <2>1. \A m \in Months : Settled(m) => Whole(m)
    BY DEF SettledMonths
  <2> QED BY <2>1, MonthInMarts DEF FinishedMonthsStayInMarts
<1> QED BY <1>1, MartsInvariant, PTL

(* When every run that was started has finished, these tests of dbt pass:  *)
(* int_trip_enriched has a row for every fact, no table and no mart has a  *)
(* key twice, and every fact finds its dimension rows.  Provided as above. *)
(* The tests of relationships of aggregates are not among them.            *)
THEOREM DbtTestsCorrect ==
    DimensionsGrow /\ ~LateRepair /\ ~RollbackMayFail => (JobSpec => []DbtTestsPass)
<1>1. TypeOK /\ JobTypes /\ JobInv /\ BuildsInv /\ MartsInv => DbtTestsPass
  <2> SUFFICES ASSUME TypeOK, JobTypes, JobInv, BuildsInv, MartsInv, AtRest
               PROVE  RowsArePreserved /\ KeysAreUnique /\ FactsAreRelated
    BY DEF DbtTestsPass, AtRest
  <2> QED BY TestsAtRest DEF JobInv, BuildsInv, MartsInv
<1> QED BY <1>1, MartsInvariant, PTL
==============================================================================
