------------------------- MODULE SnowflakeJobProofs -------------------------
(***************************************************************************)
(* Proofs about SnowflakeJob, for any number of datasets, months, keys,    *)
(* Gold builds, runs, repairs, tasks and faults.                           *)
(***************************************************************************)
EXTENDS SnowflakeJob, SnowflakeLoadProofs, SequenceTheorems

(***************************************************************************)
(* The job implements the notebooks in any order.                          *)
(***************************************************************************)

(* Every step of the job starts a task, is a step of one, or leaves the    *)
(* state of the notebooks alone.                                           *)
LEMMA JobStepIsLoadStep == [JobNext]_allvars => [Next]_vars
<1> SUFFICES ASSUME [JobNext]_allvars PROVE [Next]_vars
  OBVIOUS
<1>1. CASE UNCHANGED allvars
  BY <1>1 DEF allvars
<1>2. ASSUME NEW r \in RunIds, LaunchTask(r) PROVE Next
  <2> DEFINE t == [notebook |-> Workflow[pos[r]], run |-> r,
                   month |-> RunMonth[r], pass |-> PassOf(pos[r])]
  <2>1. t \in Tasks /\ StartTask(t)
    BY <1>2, JobAssumption DEF LaunchTask, Tasks, PassOf
  <2> QED BY <2>1 DEF Next
<1>3. ASSUME NEW r \in RunIds,
             \/ StartRun(r) \/ RepairRun(r) \/ TaskSucceeded(r) \/ TaskFailed(r)
             \/ Reconcile(r) \/ ValidateAudit(r) \/ ValidateIdempotency(r)
             \/ ReconcileRaises(r) \/ GateRaises(r)
      PROVE  UNCHANGED vars
  BY <1>3 DEF StartRun, RepairRun, TaskSucceeded, TaskFailed, Reconcile,
              ValidateAudit, ValidateIdempotency, ReconcileRaises, GateRaises
<1>4. CASE NotebookStep \/ NotebookFault \/ (Publish /\ UNCHANGED jobvars)
  BY <1>4 DEF NotebookStep, NotebookFault, Next
<1> QED BY <1>1, <1>2, <1>3, <1>4 DEF JobNext, RunStep

(* What is proved of the notebooks in any order holds of the job.          *)
THEOREM JobIsLoad == JobSpec => ImplementsLoad
<1>1. JobInit => Init
  BY DEF JobInit
<1> QED BY <1>1, JobStepIsLoadStep, PTL DEF JobSpec, Spec, ImplementsLoad

(* The job replaces slices of ANALYTICS as a whole, unless rollback()      *)
(* itself raises.                                                          *)
THEOREM JobReplacesSlices == ~RollbackMayFail => (JobSpec => ReplacesSlices)
BY JobIsLoad, LoadRefines DEF ImplementsLoad

(***************************************************************************)
(* The order of the tasks.                                                 *)
(***************************************************************************)

(* Both passes and the gate after them, task by task.                      *)
LEMMA WorkflowTasks ==
  /\ Len(Workflow) = 15
  /\ Workflow[1] = "02_load_landing" /\ Workflow[2] = "03_validate_landing"
  /\ Workflow[3] = "04_load_fact_trips" /\ Workflow[4] = "05_load_dimensions"
  /\ Workflow[5] = "06_load_aggregates" /\ Workflow[6] = "07_reconcile_phase7"
  /\ Workflow[7] = "08_validate_audit"
  /\ Workflow[8] = "02_load_landing" /\ Workflow[9] = "03_validate_landing"
  /\ Workflow[10] = "04_load_fact_trips" /\ Workflow[11] = "05_load_dimensions"
  /\ Workflow[12] = "06_load_aggregates" /\ Workflow[13] = "07_reconcile_phase7"
  /\ Workflow[14] = "08_validate_audit" /\ Workflow[15] = "09_validate_idempotency"
<1> DEFINE P == PassNotebooks
           PP == P \o P
           last == <<"09_validate_idempotency">>
           T == Notebooks \cup {"07_reconcile_phase7", "08_validate_audit",
                                "09_validate_idempotency"}
<1>1. P \in Seq(T) /\ Len(P) = 7
  BY DEF PassNotebooks, Notebooks
<1>2. last \in Seq(T) /\ Len(last) = 1 /\ last[1] = "09_validate_idempotency"
  OBVIOUS
<1>3. Workflow = PP \o last
  BY DEF Workflow
<1> HIDE DEF P, last, T
<1>4. /\ PP \in Seq(T) /\ Len(PP) = Len(P) + Len(P)
      /\ \A i \in 1 .. Len(P) + Len(P) :
            PP[i] = IF i <= Len(P) THEN P[i] ELSE P[i - Len(P)]
  BY <1>1, ConcatProperties
<1> HIDE DEF PP
<1>5. PP \in Seq(T) /\ last \in Seq(T)
  BY <1>2, <1>4
<1>6. /\ Len(PP \o last) = Len(PP) + Len(last)
      /\ \A i \in 1 .. Len(PP) + Len(last) :
            (PP \o last)[i] = IF i <= Len(PP) THEN PP[i] ELSE last[i - Len(PP)]
  BY <1>5, ConcatProperties
<1>7. /\ Len(Workflow) = Len(PP) + Len(last)
      /\ \A i \in 1 .. Len(PP) + Len(last) :
            Workflow[i] = IF i <= Len(PP) THEN PP[i] ELSE last[i - Len(PP)]
  BY <1>3, <1>6, Zenon
<1>8. Len(P) + Len(P) = 14 /\ Len(PP) = 14 /\ Len(PP) + Len(last) = 15
  BY <1>1, <1>2, <1>4
<1>9. /\ Len(Workflow) = 15
      /\ \A i \in 1 .. 15 :
            Workflow[i] = CASE i = 15 -> "09_validate_idempotency"
                            [] i <= 7 -> P[i]
                            [] OTHER  -> P[i - 7]
  BY <1>1, <1>2, <1>4, <1>7, <1>8
<1>10. /\ P[1] = "02_load_landing" /\ P[2] = "03_validate_landing"
      /\ P[3] = "04_load_fact_trips" /\ P[4] = "05_load_dimensions"
      /\ P[5] = "06_load_aggregates" /\ P[6] = "07_reconcile_phase7"
      /\ P[7] = "08_validate_audit"
  BY DEF P, PassNotebooks
<1>11. /\ Workflow[1] = P[1] /\ Workflow[2] = P[2] /\ Workflow[3] = P[3]
      /\ Workflow[4] = P[4] /\ Workflow[5] = P[5] /\ Workflow[6] = P[6]
      /\ Workflow[7] = P[7] /\ Workflow[8] = P[1] /\ Workflow[9] = P[2]
      /\ Workflow[10] = P[3] /\ Workflow[11] = P[4] /\ Workflow[12] = P[5]
      /\ Workflow[13] = P[6] /\ Workflow[14] = P[7]
      /\ Workflow[15] = "09_validate_idempotency"
  BY <1>9
<1> QED BY <1>9, <1>10, <1>11

Loads == {"04_load_fact_trips", "05_load_dimensions", "06_load_aggregates"}

(* The positions of these notebooks in the workflow.                       *)
Reload(i) == i \in {3, 4, 5, 10, 11, 12}

LEMMA WorkflowOrder ==
  /\ Len(Workflow) = 15
  /\ \A i \in 1 .. 15 : Workflow[i] \in Notebooks => i \in 1 .. 5 \cup 8 .. 12
  /\ \A i \in 1 .. 15 : Workflow[i] = "02_load_landing" => i \in {1, 8}
  /\ \A i \in 1 .. 15 : Workflow[i] = "03_validate_landing" <=> i \in {2, 9}
  /\ \A i \in 1 .. 15 : Workflow[i] \in Loads <=> Reload(i)
  /\ \A i \in 1 .. 15 : Workflow[i] = "07_reconcile_phase7" => i \in {6, 13}
  /\ \A i \in 1 .. 15 : Workflow[i] = "08_validate_audit" => i \in {7, 14}
  /\ \A i \in 1 .. 15 : Workflow[i] = "09_validate_idempotency" <=> i = 15
<1>1. \A i \in 1 .. 15 : i \in {1, 2, 3, 4, 5, 6, 7, 8, 9, 10, 11, 12, 13, 14, 15}
  OBVIOUS
<1> QED BY <1>1, WorkflowTasks DEF Notebooks, Loads, Reload

(* Every contract a notebook processes is one of TABLE_CONTRACTS.          *)
Listed(d) == \E i \in DOMAIN TABLE_CONTRACTS : TABLE_CONTRACTS[i] = d

LEMMA ContractsListed ==
  ASSUME NEW nb \in Notebooks
  PROVE  \A i \in DOMAIN Contracts(nb) : Listed(Contracts(nb)[i])
<1> DEFINE F == <<Fact>>
           FD == F \o Dims
<1>1. F \in Seq(Datasets) /\ Len(F) = 1 /\ F[1] = Fact
  BY ContractsAssumption
<1>2. Dims \in Seq(Datasets) /\ Aggs \in Seq(Datasets)
  BY ContractsAssumption
<1>3. TABLE_CONTRACTS = FD \o Aggs
  BY DEF TABLE_CONTRACTS
<1> HIDE DEF F
<1>4. /\ FD \in Seq(Datasets) /\ Len(FD) = Len(F) + Len(Dims)
      /\ \A i \in 1 .. Len(F) + Len(Dims) :
            FD[i] = IF i <= Len(F) THEN F[i] ELSE Dims[i - Len(F)]
  BY <1>1, <1>2, ConcatProperties
<1> HIDE DEF FD
<1>5. FD \in Seq(Datasets)
  BY <1>4
<1>6. /\ Len(FD \o Aggs) = Len(FD) + Len(Aggs)
      /\ \A i \in 1 .. Len(FD) + Len(Aggs) :
            (FD \o Aggs)[i] = IF i <= Len(FD) THEN FD[i] ELSE Aggs[i - Len(FD)]
      /\ FD \o Aggs \in Seq(Datasets)
  BY <1>2, <1>5, ConcatProperties
<1>7. DOMAIN TABLE_CONTRACTS = 1 .. Len(FD) + Len(Aggs)
  BY <1>3, <1>6
<1>8. Listed(Fact)
  <2>1. /\ 1 \in 1 .. Len(FD) + Len(Aggs) /\ 1 \in 1 .. Len(F) + Len(Dims)
        /\ 1 <= Len(FD) /\ 1 <= Len(F)
    BY <1>1, <1>2, <1>4
  <2>2. TABLE_CONTRACTS[1] = Fact
    BY <1>1, <1>3, <1>4, <1>6, <2>1
  <2> QED BY <1>7, <2>1, <2>2 DEF Listed
<1>9. ASSUME NEW i \in DOMAIN Dims PROVE Listed(Dims[i])
  <2>1. i \in 1 .. Len(Dims)
    BY <1>2
  <2>2. /\ i + 1 \in 1 .. Len(FD) + Len(Aggs) /\ i + 1 \in 1 .. Len(F) + Len(Dims)
        /\ i + 1 <= Len(FD) /\ ~(i + 1 <= Len(F)) /\ (i + 1) - Len(F) = i
    BY <1>1, <1>2, <1>4, <2>1
  <2>3. TABLE_CONTRACTS[i + 1] = Dims[i]
    BY <1>3, <1>4, <1>6, <2>2
  <2> QED BY <1>7, <2>2, <2>3 DEF Listed
<1>10. ASSUME NEW i \in DOMAIN Aggs PROVE Listed(Aggs[i])
  <2>1. i \in 1 .. Len(Aggs)
    BY <1>2
  <2> DEFINE j == Len(FD) + i
  <2>2. j \in 1 .. Len(FD) + Len(Aggs) /\ ~(j <= Len(FD)) /\ j - Len(FD) = i
    BY <1>2, <1>5, <2>1
  <2>3. TABLE_CONTRACTS[j] = Aggs[i]
    BY <1>3, <1>6, <2>2
  <2> QED BY <1>7, <2>2, <2>3 DEF Listed
<1>11. \A i \in DOMAIN <<Fact>> : Listed(<<Fact>>[i])
  BY <1>8
<1>12. \A i \in DOMAIN TABLE_CONTRACTS : Listed(TABLE_CONTRACTS[i])
  BY DEF Listed
<1> QED BY <1>9, <1>10, <1>11, <1>12 DEF Contracts

(***************************************************************************)
(* The inductive invariant.                                                *)
(***************************************************************************)

(* Only the latest run is active; a task runs with its month and at its    *)
(* position, and a run that has not finished has a task to go on with.     *)
RunsInTurn ==
    /\ \A r \in RunIds : status[r] = "waiting" => pos[r] = 1
    /\ \A r \in RunIds : status[r] # "finished" => pos[r] <= 15
    /\ \A r \in RunIds : status[r] = "active" => r = latest
    /\ ~running => pc \in Stopped
    /\ running => /\ latest \in RunIds /\ status[latest] = "active"
                  /\ task \in Tasks
                  /\ task.month = RunMonth[latest]
                  /\ task.notebook = Workflow[pos[latest]]

StepsOfNotebook ==
    /\ \A i \in DOMAIN todo : Listed(todo[i])
    /\ pc \in LandingSteps => task.notebook = "02_load_landing"
    /\ pc = "validate" => /\ task.notebook = "03_validate_landing"
                          /\ todo = TABLE_CONTRACTS
    /\ pc \in LoadSteps => task.notebook \in Loads

(* The rows of a snapshot carry no month.                                  *)
SnapshotRows ==
    \A d \in Datasets : IsSnapshot(d) =>
        \A x \in Rows : x.month # Null => landing[d][x] = 0 /\ analytics[d][x] = 0

(* From the end of notebook 03 to that of 06, across repairs, LANDING       *)
(* holds rows of the run's month only.                                     *)
Validated(r) ==
    \/ Reload(pos[r])
    \/ running /\ pc = "done" /\ task.notebook = "03_validate_landing"

LandingOfRun ==
    latest \in RunIds /\ status[latest] \in {"active", "failed"} /\ Validated(latest) =>
        \A d \in Datasets : Listed(d) =>
            \A x \in Rows \ Slice(d, RunMonth[latest]) : landing[d][x] = 0

(* An open transaction has changed rows of the task's month only.          *)
WorkOfRun ==
    open => \A x \in Rows :
        x.month # Null /\ (IsSnapshot(Ds) \/ x.month # task.month) =>
            work[x] = analytics[Ds][x]

JobInv ==
    RunsInTurn /\ StepsOfNotebook /\ SnapshotRows /\ LandingOfRun /\ WorkOfRun

JobTypes ==
    /\ status \in [RunIds -> {"waiting", "active", "failed", "finished"}]
    /\ pos \in [RunIds -> 1 .. Len(Workflow) + 1]
    /\ running \in BOOLEAN
    /\ latest \in RunIds \cup {Null}
    /\ recon \in [RunIds -> Seq(BOOLEAN)]
    /\ repairs \in 0 .. MaxRepairs /\ gatefaults \in 0 .. MaxFaults

LEMMA InitJob == JobInit => JobTypes /\ RunsInTurn /\ StepsOfNotebook
                            /\ SnapshotRows /\ LandingOfRun /\ WorkOfRun
<1> SUFFICES ASSUME JobInit
             PROVE  JobTypes /\ RunsInTurn /\ StepsOfNotebook
                    /\ SnapshotRows /\ LandingOfRun /\ WorkOfRun
  OBVIOUS
<1> USE DEF JobInit, Init
<1>1. JobTypes
  <2>1. 1 \in 1 .. Len(Workflow) + 1
    BY WorkflowOrder
  <2>2. 0 \in 0 .. MaxRepairs /\ 0 \in 0 .. MaxFaults
    BY JobAssumption, BoundAssumption
  <2>3. <<>> \in Seq(BOOLEAN)
    OBVIOUS
  <2>4. /\ pos \in [RunIds -> 1 .. Len(Workflow) + 1]
        /\ repairs \in 0 .. MaxRepairs /\ gatefaults \in 0 .. MaxFaults
    BY <2>1, <2>2
  <2>5. recon \in [RunIds -> Seq(BOOLEAN)] /\ running \in BOOLEAN
    BY <2>3
  <2> QED BY <2>4, <2>5 DEF JobTypes
<1>2. RunsInTurn
  BY DEF RunsInTurn, Stopped
<1>3. StepsOfNotebook
  BY DEF StepsOfNotebook, LandingSteps, LoadSteps, TxnSteps
<1>4. SnapshotRows
  BY DEF SnapshotRows, EmptyTable
<1>5. LandingOfRun /\ WorkOfRun
  BY JobAssumption DEF LandingOfRun, WorkOfRun
<1> QED BY <1>1, <1>2, <1>3, <1>4, <1>5

(* What a notebook leaves alone while it runs.                             *)
LEMMA TaskKept ==
  ASSUME TypeOK, TaskStep \/ TaskFault
  PROVE  task' = task /\ pc \notin Stopped
BY DEF TaskStep, TaskFault, CountGold, ClearLanding, WriteLandingFrame, VerifyLanding,
       ValidateLanding, CountLanding, Begin, DeleteTarget, InsertFromLanding,
       CommitTarget, Rollback, CheckTarget, AppendAudit, AppendFailed, QueryRaises,
       ClearLandingRaises, WriteLandingFrameRaises, StatementRaises,
       CommitUnacknowledged, RollbackRaises, AppendAuditRaises, AppendFailedRaises,
       Crash, Goto, NextContract, local, Stopped, TxnSteps

(* Tables in LANDING are cleared or filled from Gold, by notebook 02.      *)
LEMMA LandingChange ==
  ASSUME TypeOK, TaskStep \/ TaskFault
  PROVE  \/ landing' = landing
         \/ /\ pc \in {"clear", "write"}
            /\ \/ landing' = [landing EXCEPT ![Ds] = EmptyTable]
               \/ landing' = [landing EXCEPT ![Ds] =
                                Inserted(landing[Ds], GoldFrame(Ds, task.month))]
BY DEF TaskStep, TaskFault, CountGold, ClearLanding, WriteLandingFrame, VerifyLanding,
       ValidateLanding, CountLanding, Begin, DeleteTarget, InsertFromLanding,
       CommitTarget, Rollback, CheckTarget, AppendAudit, AppendFailed, QueryRaises,
       ClearLandingRaises, WriteLandingFrameRaises, StatementRaises,
       CommitUnacknowledged, RollbackRaises, AppendAuditRaises, AppendFailedRaises,
       Crash, store

(* ANALYTICS changes only by the commit of an open transaction.            *)
LEMMA AnalyticsChange ==
  ASSUME TypeOK, LoadInv, TaskStep \/ TaskFault
  PROVE  \/ analytics' = analytics
         \/ open /\ ~open' /\ analytics' = [analytics EXCEPT ![Ds] = work]
BY DEF TaskStep, TaskFault, CountGold, ClearLanding, WriteLandingFrame, VerifyLanding,
       ValidateLanding, CountLanding, Begin, DeleteTarget, InsertFromLanding,
       CommitTarget, Rollback, CheckTarget, AppendAudit, AppendFailed, QueryRaises,
       ClearLandingRaises, WriteLandingFrameRaises, StatementRaises,
       CommitUnacknowledged, RollbackRaises, AppendAuditRaises, AppendFailedRaises,
       Crash, store, LoadInv, WorkIsReplacement

(* How a transaction comes about and goes on.                              *)
LEMMA WorkChange ==
  ASSUME TypeOK, LoadInv, TaskStep \/ TaskFault
  PROVE  \/ ~open'
         \/ /\ todo' = todo /\ analytics' = analytics
            /\ \/ work' = analytics[Ds]
               \/ open /\ work' = work
               \/ open /\ work' = Deleted(work, Slice(Ds, task.month))
               \/ open /\ pc = "insert" /\ work' = Inserted(work, landing[Ds])
BY DEF TaskStep, TaskFault, CountGold, ClearLanding, WriteLandingFrame, VerifyLanding,
       ValidateLanding, CountLanding, Begin, DeleteTarget, InsertFromLanding,
       CommitTarget, Rollback, CheckTarget, AppendAudit, AppendFailed, QueryRaises,
       ClearLandingRaises, WriteLandingFrameRaises, StatementRaises,
       CommitUnacknowledged, RollbackRaises, AppendAuditRaises, AppendFailedRaises,
       Crash, store, session, Goto, NextContract, LoadInv, OpenOnlyInTransaction

(* The rows notebook 07 records.                                           *)
LEMMA RowsType ==
  ASSUME NEW m
  PROVE  ReconciliationRows(m) \in Seq(BOOLEAN)
<1> DEFINE counts == [i \in DOMAIN TABLE_CONTRACTS |-> CountsReconcile(TABLE_CONTRACTS[i], m)]
           totals == [i \in DOMAIN Aggs |-> TotalsReconcile(Aggs[i], m)]
           places == <<LocationsResolve(m)>>
<1>1. TABLE_CONTRACTS \in Seq(Datasets) /\ Aggs \in Seq(Datasets)
  BY ContractsType, ContractsAssumption DEF Contracts, Notebooks
<1>2. \A i \in DOMAIN TABLE_CONTRACTS : CountsReconcile(TABLE_CONTRACTS[i], m) \in BOOLEAN
  BY DEF CountsReconcile
<1>3. \A i \in DOMAIN Aggs : TotalsReconcile(Aggs[i], m) \in BOOLEAN
  BY DEF TotalsReconcile
<1>4. LocationsResolve(m) \in BOOLEAN
  BY DEF LocationsResolve
<1>5. counts \in Seq(BOOLEAN)
  BY <1>1, <1>2
<1>6. totals \in Seq(BOOLEAN)
  BY <1>1, <1>3
<1>7. places \in Seq(BOOLEAN)
  BY <1>4
<1> HIDE DEF counts, totals, places
<1>8. (counts \o places) \o totals \in Seq(BOOLEAN)
  BY <1>5, <1>6, <1>7
<1>9. ReconciliationRows(m) = (counts \o places) \o totals
  BY DEF ReconciliationRows, counts, totals, places
<1> QED BY <1>8, <1>9

(* A step of a notebook leaves the job's own variables alone.              *)
LEMMA NotebookTurn ==
  ASSUME TypeOK, RunsInTurn, TaskStep \/ TaskFault, running, UNCHANGED jobvars
  PROVE  RunsInTurn'
BY TaskKept DEF RunsInTurn, jobvars

(* The outcome of a gate moves its run on or fails it.                     *)
LEMMA GateTurn ==
  ASSUME JobTypes, RunsInTurn, NEW r \in RunIds, NEW passes \in BOOLEAN,
         NEW nb \in {"07_reconcile_phase7", "08_validate_audit", "09_validate_idempotency"},
         AtGate(r, nb), GateOutcome(r, passes),
         UNCHANGED <<vars, running, latest>>
  PROVE  /\ RunsInTurn'
         /\ status' \in [RunIds -> {"waiting", "active", "failed", "finished"}]
         /\ pos' \in [RunIds -> 1 .. Len(Workflow) + 1]
         /\ pos' = pos \/ (pos' = [pos EXCEPT ![r] = @ + 1] /\ pos[r] \in {6, 7, 13, 14, 15})
<1>1. /\ status[r] = "active" /\ ~running /\ r = latest
      /\ pos[r] \in 1 .. 15 /\ Len(Workflow) = 15
  BY WorkflowOrder DEF AtGate, RunsInTurn, JobTypes
<1>2. pos[r] \in {6, 7, 13, 14, 15} /\ (nb = "09_validate_idempotency" <=> pos[r] = 15)
  BY <1>1, WorkflowOrder DEF AtGate
<1>3. CASE passes /\ pos[r] = 15
  <2>1. pos' = [pos EXCEPT ![r] = 16] /\ status' = [status EXCEPT ![r] = "finished"]
    BY <1>1, <1>3 DEF GateOutcome
  <2> QED BY <1>1, <1>2, <1>3, <2>1 DEF RunsInTurn, JobTypes, vars, GateOutcome
<1>4. CASE passes /\ pos[r] # 15
  <2>1. pos' = [pos EXCEPT ![r] = @ + 1] /\ status' = status
    BY <1>1, <1>4 DEF GateOutcome
  <2> QED BY <1>1, <1>2, <1>4, <2>1 DEF RunsInTurn, JobTypes, vars
<1>5. CASE ~passes
  BY <1>1, <1>5 DEF GateOutcome, RunsInTurn, JobTypes, vars
<1> QED BY <1>3, <1>4, <1>5

Gates(r) ==
    \/ Reconcile(r) \/ ReconcileRaises(r)
    \/ ValidateAudit(r) \/ ValidateIdempotency(r) \/ GateRaises(r)

(* What the gates have in common.                                          *)
LEMMA GateStep ==
  ASSUME TypeOK, JobTypes, RunsInTurn, NEW r \in RunIds, Gates(r)
  PROVE  /\ UNCHANGED <<vars, running, latest>> /\ ~running
         /\ RunsInTurn' /\ JobTypes'
         /\ \/ pos' = pos
            \/ pos' = [pos EXCEPT ![r] = @ + 1] /\ pos[r] \in {6, 7, 13, 14, 15}
         /\ status[r] = "active" /\ \A q \in RunIds : q # r => status'[q] = status[q]
<1>1. /\ UNCHANGED <<vars, running, latest>>
      /\ \E nb \in {"07_reconcile_phase7", "08_validate_audit",
                    "09_validate_idempotency"}, passes \in BOOLEAN :
            AtGate(r, nb) /\ GateOutcome(r, passes)
  <2>1. ASSUME Reconcile(r) PROVE <1>1!2
    <3>1. (\A i \in DOMAIN ReconciliationRows(RunMonth[r]) :
              ReconciliationRows(RunMonth[r])[i]) \in BOOLEAN
      OBVIOUS
    <3> QED BY <2>1, <3>1 DEF Reconcile
  <2>2. ASSUME ValidateAudit(r) PROVE <1>1!2
    BY <2>2 DEF ValidateAudit, AuditComplete
  <2>3. ASSUME ValidateIdempotency(r) PROVE <1>1!2
    BY <2>3 DEF ValidateIdempotency, Idempotent
  <2>4. ASSUME ReconcileRaises(r) \/ GateRaises(r) PROVE <1>1!2
    BY <2>4 DEF ReconcileRaises, GateRaises
  <2>5. UNCHANGED <<vars, running, latest>>
    BY DEF Gates, Reconcile, ReconcileRaises, ValidateAudit, ValidateIdempotency, GateRaises
  <2> QED BY <2>1, <2>2, <2>3, <2>4, <2>5 DEF Gates
<1>2. PICK nb \in {"07_reconcile_phase7", "08_validate_audit", "09_validate_idempotency"},
           passes \in BOOLEAN : AtGate(r, nb) /\ GateOutcome(r, passes)
  BY <1>1
<1>3. /\ RunsInTurn'
      /\ status' \in [RunIds -> {"waiting", "active", "failed", "finished"}]
      /\ pos' \in [RunIds -> 1 .. Len(Workflow) + 1]
      /\ pos' = pos \/ (pos' = [pos EXCEPT ![r] = @ + 1] /\ pos[r] \in {6, 7, 13, 14, 15})
  BY <1>1, <1>2, GateTurn
<1>4. ~running /\ status[r] = "active" /\ \A q \in RunIds : q # r => status'[q] = status[q]
  BY <1>2 DEF AtGate, GateOutcome, JobTypes
<1>5. recon' \in [RunIds -> Seq(BOOLEAN)]
  <2> DEFINE rows == ReconciliationRows(RunMonth[r])
  <2>1. rows \in Seq(BOOLEAN)
    BY RowsType
  <2> HIDE DEF rows
  <2>2. recon[r] \in Seq(BOOLEAN)
    BY DEF JobTypes
  <2>3. recon[r] \o rows \in Seq(BOOLEAN)
    BY <2>1, <2>2
  <2>4. \A n \in 0 .. Len(rows) : SubSeq(rows, 1, n) \in Seq(BOOLEAN)
    BY <2>1
  <2>5. \A n \in 0 .. Len(rows) : recon[r] \o SubSeq(rows, 1, n) \in Seq(BOOLEAN)
    BY <2>2, <2>4
  <2>6. CASE Reconcile(r)
    BY <2>3, <2>6 DEF Reconcile, JobTypes, rows
  <2>7. CASE ReconcileRaises(r)
    <3>1. PICK n \in 0 .. Len(rows) : recon' = [recon EXCEPT ![r] = @ \o SubSeq(rows, 1, n)]
      BY <2>7 DEF ReconcileRaises, rows
    <3> QED BY <2>5, <3>1 DEF JobTypes
  <2> QED
    BY <2>6, <2>7 DEF Gates, ValidateAudit, ValidateIdempotency, GateRaises, JobTypes
<1>6. repairs' \in 0 .. MaxRepairs
  BY DEF Gates, Reconcile, ReconcileRaises, ValidateAudit, ValidateIdempotency,
         GateRaises, JobTypes
<1>7. gatefaults' \in 0 .. MaxFaults
  <2>1. CASE GateFault
    BY <2>1, BoundAssumption DEF GateFault, JobTypes, TypeOK
  <2>2. CASE gatefaults' = gatefaults
    BY <2>2 DEF JobTypes
  <2> QED
    BY <2>1, <2>2 DEF Gates, Reconcile, ReconcileRaises, ValidateAudit,
       ValidateIdempotency, GateRaises
<1> QED BY <1>1, <1>3, <1>4, <1>5, <1>6, <1>7 DEF JobTypes

(* A run is started or repaired when no run is active.                     *)
LEMMA ActivateTurn ==
  ASSUME JobTypes, RunsInTurn, NEW r \in RunIds, NoActiveRun,
         status[r] # "finished",
         status' = [status EXCEPT ![r] = "active"], latest' = r,
         UNCHANGED <<vars, pos, running>>
  PROVE  /\ RunsInTurn' /\ ~running
         /\ status' \in [RunIds -> {"waiting", "active", "failed", "finished"}]
<1>1. ~running
  BY DEF NoActiveRun, RunsInTurn
<1>2. /\ status' \in [RunIds -> {"waiting", "active", "failed", "finished"}]
      /\ status'[r] = "active"
      /\ \A q \in RunIds : q # r => status'[q] = status[q] /\ status'[q] # "active"
  BY DEF JobTypes, NoActiveRun
<1>3. UNCHANGED <<pc, pos, running>>
  BY DEF vars
<1>4. \A q \in RunIds : status'[q] = "waiting" => pos'[q] = 1
  BY <1>2, <1>3 DEF RunsInTurn
<1>5. \A q \in RunIds : status'[q] # "finished" => pos'[q] <= 15
  BY <1>2, <1>3 DEF RunsInTurn
<1>6. \A q \in RunIds : status'[q] = "active" => q = latest'
  BY <1>2
<1> QED BY <1>1, <1>2, <1>3, <1>4, <1>5, <1>6 DEF RunsInTurn

(* Starting, repairing and advancing runs.                                 *)
LEMMA TurnStep ==
  ASSUME TypeOK, JobTypes, RunsInTurn, [JobNext]_allvars
  PROVE  JobTypes' /\ RunsInTurn'
<1>1. Len(Workflow) = 15
  BY WorkflowOrder
<1>2. ASSUME NEW r \in RunIds, StartRun(r) PROVE JobTypes' /\ RunsInTurn'
  <2>1. UNCHANGED <<vars, pos, running, recon, repairs, gatefaults>>
    BY <1>2 DEF StartRun
  <2>2. /\ RunsInTurn' /\ latest' = r
        /\ status' \in [RunIds -> {"waiting", "active", "failed", "finished"}]
    BY <1>2, <2>1, ActivateTurn DEF StartRun
  <2> QED BY <2>1, <2>2 DEF JobTypes
<1>3. ASSUME NEW r \in RunIds, RepairRun(r) PROVE JobTypes' /\ RunsInTurn'
  <2>1. UNCHANGED <<vars, pos, running, recon, gatefaults>>
    BY <1>3 DEF RepairRun
  <2>2. repairs' \in 0 .. MaxRepairs
    BY <1>3, JobAssumption DEF RepairRun, JobTypes
  <2>3. /\ RunsInTurn' /\ latest' = r
        /\ status' \in [RunIds -> {"waiting", "active", "failed", "finished"}]
    BY <1>3, <2>1, ActivateTurn DEF RepairRun
  <2> QED BY <2>1, <2>2, <2>3 DEF JobTypes
<1>4. ASSUME NEW r \in RunIds, LaunchTask(r) PROVE JobTypes' /\ RunsInTurn'
  <2> DEFINE t == [notebook |-> Workflow[pos[r]], run |-> r,
                   month |-> RunMonth[r], pass |-> PassOf(pos[r])]
  <2>1. t \in Tasks
    BY <1>4, JobAssumption DEF LaunchTask, Tasks, PassOf
  <2>2. task' = t /\ running' /\ r = latest /\ status[r] = "active"
        /\ UNCHANGED <<status, pos, latest, recon, repairs, gatefaults>>
    BY <1>4 DEF LaunchTask, StartTask, RunsInTurn
  <2>3. t.month = RunMonth[r] /\ t.notebook = Workflow[pos[r]]
    OBVIOUS
  <2> HIDE DEF t
  <2>4. running' = TRUE
    BY <1>4 DEF LaunchTask
  <2> QED BY <2>1, <2>2, <2>3, <2>4 DEF JobTypes, RunsInTurn
<1>5. ASSUME NEW r \in RunIds, TaskSucceeded(r) PROVE JobTypes' /\ RunsInTurn'
  <2>1. /\ status[r] = "active" /\ running /\ pc = "done" /\ ~running'
        /\ running' \in BOOLEAN
        /\ pos' = [pos EXCEPT ![r] = pos[r] + 1]
        /\ UNCHANGED <<pc, status, latest, recon, repairs, gatefaults>>
    BY <1>5 DEF TaskSucceeded, vars
  <2>2. r = latest
    BY <2>1 DEF RunsInTurn
  <2>3. task.notebook = Workflow[pos[r]] /\ task \in Tasks
    BY <2>1, <2>2 DEF RunsInTurn
  <2>4. pos[r] \in 1 .. 15 /\ pos \in [RunIds -> 1 .. 16]
    <3>1. Len(Workflow) + 1 = 16
      BY <1>1
    <3>2. pos \in [RunIds -> 1 .. 16]
      BY <3>1 DEF JobTypes
    <3>3. pos[r] <= 15
      BY <2>1 DEF RunsInTurn
    <3> QED BY <3>2, <3>3
  <2>5. pos[r] \in 1 .. 5 \cup 8 .. 12
    BY <2>3, <2>4, WorkflowOrder DEF Tasks
  <2>6. pos' \in [RunIds -> 1 .. 16] /\ pos'[r] <= 15
        /\ \A q \in RunIds : q # r => pos'[q] = pos[q]
    BY <2>1, <2>4, <2>5
  <2>7. JobTypes'
    BY <1>1, <2>1, <2>6 DEF JobTypes
  <2>8. RunsInTurn'
    <3>1. \A q \in RunIds : status'[q] = "waiting" => pos'[q] = 1
      BY <2>1, <2>6 DEF RunsInTurn
    <3>2. \A q \in RunIds : status'[q] # "finished" => pos'[q] <= 15
      BY <2>1, <2>6 DEF RunsInTurn
    <3>3. \A q \in RunIds : status'[q] = "active" => q = latest'
      BY <2>1 DEF RunsInTurn
    <3>4. pc' \in Stopped
      BY <2>1 DEF Stopped
    <3> QED BY <2>1, <3>1, <3>2, <3>3, <3>4 DEF RunsInTurn
  <2> QED BY <2>7, <2>8
<1>6. ASSUME NEW r \in RunIds, TaskFailed(r) PROVE JobTypes' /\ RunsInTurn'
  BY <1>6 DEF TaskFailed, JobTypes, RunsInTurn, vars, Stopped
<1>7. ASSUME NEW r \in RunIds, Gates(r) PROVE JobTypes' /\ RunsInTurn'
  BY <1>7, GateStep
<1>8. CASE NotebookStep \/ NotebookFault
  BY <1>8, NotebookTurn DEF NotebookStep, NotebookFault, JobTypes, jobvars
<1>9. CASE Publish /\ UNCHANGED jobvars
  BY <1>9 DEF Publish, GoldPublish, jobvars, local, JobTypes, RunsInTurn
<1>10. CASE UNCHANGED allvars
  BY <1>10 DEF allvars, vars, jobvars, JobTypes, RunsInTurn
<1> QED
  BY <1>2, <1>3, <1>4, <1>5, <1>6, <1>7, <1>8, <1>9, <1>10
  DEF JobNext, RunStep, Gates

(* Type correctness of the job: in particular never two active runs.       *)
THEOREM JobTypeCorrect == JobSpec => []JobTypeOK
<1>1. JobTypes /\ RunsInTurn /\ TypeOK => JobTypeOK
  <2> SUFFICES ASSUME JobTypes, RunsInTurn, TypeOK PROVE JobTypeOK
    OBVIOUS
  <2> DEFINE A == {r \in RunIds : status[r] = "active"}
  <2>1. A = {} \/ A = {latest}
    BY DEF RunsInTurn
  <2>2. Cardinality({}) = 0 /\ Cardinality({latest}) = 1
    BY FS_EmptySet, FS_Singleton
  <2>3. Cardinality(A) <= 1
    BY <2>1, <2>2
  <2> QED BY <2>3 DEF JobTypeOK, JobTypes
<1>2. JobInit => JobTypes /\ RunsInTurn
  BY InitJob
<1>3. TypeOK /\ JobTypes /\ RunsInTurn /\ [JobNext]_allvars => JobTypes' /\ RunsInTurn'
  BY TurnStep
<1>4. JobSpec => []TypeOK
  BY JobIsLoad, TypeCorrect, PTL DEF ImplementsLoad
<1> QED BY <1>1, <1>2, <1>3, <1>4, PTL DEF JobSpec

(***************************************************************************)
(* Isolation of the source periods.                                        *)
(***************************************************************************)

(* Which steps leave the notebooks alone.                                  *)
LEMMA JobSteps ==
  ASSUME TypeOK, JobTypes, RunsInTurn, [JobNext]_allvars
  PROVE  \/ UNCHANGED <<landing, analytics, open, work, pc, task, todo>>
         \/ \E r \in RunIds : LaunchTask(r)
         \/ NotebookStep \/ NotebookFault
<1>1. CASE UNCHANGED allvars
  BY <1>1 DEF allvars, vars
<1>2. ASSUME NEW r \in RunIds, StartRun(r) \/ RepairRun(r) PROVE UNCHANGED vars
  BY <1>2 DEF StartRun, RepairRun
<1>3. ASSUME NEW r \in RunIds, TaskSucceeded(r) \/ TaskFailed(r) PROVE UNCHANGED vars
  BY <1>3 DEF TaskSucceeded, TaskFailed
<1>4. ASSUME NEW r \in RunIds, Gates(r) PROVE UNCHANGED vars
  BY <1>4, GateStep
<1>5. CASE Publish /\ UNCHANGED jobvars
  BY <1>5 DEF Publish, GoldPublish, session, local
<1> QED BY <1>1, <1>2, <1>3, <1>4, <1>5 DEF JobNext, RunStep, Gates, vars

(* Every step of a notebook works on a listed contract.                    *)
LEMMA StepsStep ==
  ASSUME TypeOK, JobTypes, RunsInTurn, StepsOfNotebook, [JobNext]_allvars
  PROVE  StepsOfNotebook'
<1>1. CASE UNCHANGED <<landing, analytics, open, work, pc, task, todo>>
  BY <1>1 DEF StepsOfNotebook
<1>2. ASSUME NEW r \in RunIds, LaunchTask(r) PROVE StepsOfNotebook'
  <2> DEFINE nb == Workflow[pos[r]]
  <2>1. /\ nb \in Notebooks /\ todo' = Contracts(nb) /\ pc' = FirstStep(nb)
        /\ task'.notebook = nb
    BY <1>2 DEF LaunchTask, StartTask
  <2> HIDE DEF nb
  <2>2. \A i \in DOMAIN todo' : Listed(todo'[i])
    BY <2>1, ContractsListed
  <2>3. CASE nb = "02_load_landing"
    BY <2>1, <2>2, <2>3 DEF StepsOfNotebook, FirstStep, LandingSteps, LoadSteps, TxnSteps
  <2>4. CASE nb = "03_validate_landing"
    BY <2>1, <2>2, <2>4
       DEF StepsOfNotebook, FirstStep, LandingSteps, LoadSteps, TxnSteps, Contracts
  <2>5. CASE nb \in Loads
    BY <2>1, <2>2, <2>5
       DEF StepsOfNotebook, FirstStep, LandingSteps, LoadSteps, TxnSteps, Loads
  <2> QED BY <2>1, <2>3, <2>4, <2>5 DEF Notebooks, Loads
<1>3. ASSUME TaskStep \/ TaskFault PROVE StepsOfNotebook'
  <2>1. task' = task /\ pc \notin Stopped
    BY <1>3, TaskKept
  <2>2. \/ todo' = todo /\ pc' # "validate"
        \/ todo' = Tail(todo) /\ pc \in {"landed", "succeeded"}
    BY <1>3 DEF TaskStep, TaskFault, CountGold, ClearLanding, WriteLandingFrame,
       VerifyLanding, ValidateLanding, CountLanding, Begin, DeleteTarget,
       InsertFromLanding, CommitTarget, Rollback, CheckTarget, AppendAudit,
       AppendFailed, QueryRaises, ClearLandingRaises, WriteLandingFrameRaises,
       StatementRaises, CommitUnacknowledged, RollbackRaises, AppendAuditRaises,
       AppendFailedRaises, Crash, Goto, NextContract, local
  <2>3. \A i \in DOMAIN todo' : Listed(todo'[i])
    <3>1. todo \in Seq(Datasets) /\ todo # <<>>
      BY <2>1 DEF TypeOK
    <3>2. CASE todo' = Tail(todo)
      <4>1. \A i \in DOMAIN Tail(todo) : i + 1 \in DOMAIN todo /\ Tail(todo)[i] = todo[i + 1]
        BY <3>1
      <4> QED BY <3>2, <4>1 DEF StepsOfNotebook
    <3> QED BY <2>2, <3>2 DEF StepsOfNotebook
  <2>4. /\ pc' \in LandingSteps => task.notebook = "02_load_landing"
        /\ pc' \in LoadSteps => task.notebook \in Loads
        /\ pc' # "validate"
    <3>1. CASE TaskFault
      BY <3>1 DEF TaskFault, QueryRaises, ClearLandingRaises, WriteLandingFrameRaises,
         StatementRaises, CommitUnacknowledged, RollbackRaises, AppendAuditRaises,
         AppendFailedRaises, Crash, Goto, StepsOfNotebook, LandingSteps, LoadSteps,
         TxnSteps
    <3>2. CASE AppendAudit
      <4>1. pc \in {"landed", "succeeded"} /\ pc' \in {"done", FirstStep(task.notebook)}
        BY <3>2 DEF AppendAudit, NextContract
      <4>2. CASE task.notebook = "02_load_landing"
        BY <4>1, <4>2 DEF FirstStep, LandingSteps, LoadSteps, TxnSteps
      <4>3. CASE task.notebook \in Loads
        BY <4>1, <4>3 DEF FirstStep, Loads, LandingSteps, LoadSteps, TxnSteps
      <4> QED BY <4>1, <4>2, <4>3 DEF StepsOfNotebook, LandingSteps, LoadSteps
    <3>3. CASE TaskStep /\ ~AppendAudit
      BY <3>3 DEF TaskStep, CountGold, ClearLanding, WriteLandingFrame,
         VerifyLanding, ValidateLanding, CountLanding, Begin, DeleteTarget,
         InsertFromLanding, CommitTarget, Rollback, CheckTarget, AppendFailed, Goto,
         StepsOfNotebook, LandingSteps, LoadSteps, TxnSteps
    <3> QED BY <1>3, <3>1, <3>2, <3>3
  <2> QED BY <2>1, <2>3, <2>4 DEF StepsOfNotebook
<1> QED BY <1>1, <1>2, <1>3, JobSteps DEF NotebookStep, NotebookFault

(* The tables a task works on while it has a transaction open.             *)
LEMMA OpenTask ==
  ASSUME TypeOK, LoadInv, open
  PROVE  pc \notin Stopped /\ Ds \in Datasets /\ todo # <<>>
<1>1. pc \notin Stopped
  BY DEF LoadInv, OpenOnlyInTransaction, Stopped
<1> QED BY <1>1, RecordType DEF TypeOK

(* A snapshot never holds a row of a month.                                *)
LEMMA SnapshotStep ==
  ASSUME TypeOK, LoadInv, JobTypes, RunsInTurn, SnapshotRows, WorkOfRun,
         [JobNext]_allvars
  PROVE  SnapshotRows'
<1>1. CASE UNCHANGED <<landing, analytics>>
  BY <1>1 DEF SnapshotRows
<1>2. ASSUME NEW r \in RunIds, LaunchTask(r) PROVE UNCHANGED <<landing, analytics>>
  BY <1>2 DEF LaunchTask, StartTask, store
<1>3. ASSUME TaskStep \/ TaskFault,
             NEW d \in Datasets, IsSnapshot(d), NEW x \in Rows, x.month # Null
      PROVE  landing'[d][x] = 0 /\ analytics'[d][x] = 0
  <2>1. landing[d][x] = 0 /\ analytics[d][x] = 0
    BY <1>3 DEF SnapshotRows
  <2>2. Ds \in Datasets
    BY <1>3, TaskKept, RecordType
  <2>3. landing'[d][x] = 0
    <3>1. EmptyTable[x] = 0
      BY DEF EmptyTable
    <3>2. d = Ds => Inserted(landing[Ds], GoldFrame(Ds, task.month))[x] = 0
      BY <1>3, <2>1 DEF Inserted, GoldFrame, Part
    <3>3. landing \in [Datasets -> Table]
      BY DEF TypeOK
    <3> QED BY <1>3, <2>1, <2>2, <3>1, <3>2, <3>3, LandingChange
  <2>4. analytics'[d][x] = 0
    <3>1. open /\ d = Ds => work[x] = 0
      BY <1>3, <2>1 DEF WorkOfRun
    <3>2. analytics \in [Datasets -> Table]
      BY DEF TypeOK
    <3> QED BY <1>3, <2>1, <2>2, <3>1, <3>2, AnalyticsChange
  <2> QED BY <2>3, <2>4
<1>4. ASSUME TaskStep \/ TaskFault PROVE SnapshotRows'
  BY <1>3, <1>4 DEF SnapshotRows
<1> QED BY <1>1, <1>2, <1>4, JobSteps DEF NotebookStep, NotebookFault

(* A task that inserts finds rows of its own month only in LANDING.        *)
LEMMA InsertedMonth ==
  ASSUME TypeOK, JobTypes, RunsInTurn, StepsOfNotebook, SnapshotRows, LandingOfRun,
         running, pc = "insert", NEW x \in Rows,
         IF IsSnapshot(Ds) THEN x.month # Null ELSE x.month # task.month
  PROVE  landing[Ds][x] = 0
<1>1. Ds \in Datasets /\ todo \in Seq(Datasets) /\ todo # <<>>
  BY RecordType DEF TypeOK, Stopped
<1>2. CASE IsSnapshot(Ds)
  BY <1>1, <1>2 DEF SnapshotRows
<1>3. CASE ~IsSnapshot(Ds)
  <2>1. task.notebook \in Loads
    BY DEF StepsOfNotebook, LoadSteps, TxnSteps
  <2>2. /\ latest \in RunIds /\ status[latest] = "active"
        /\ task.month = RunMonth[latest] /\ Workflow[pos[latest]] \in Loads
    BY <2>1 DEF RunsInTurn
  <2>3. pos[latest] \in 1 .. 15
    <3>1. pos[latest] \in 1 .. Len(Workflow) + 1
      BY <2>2 DEF JobTypes
    <3>2. pos[latest] <= 15
      BY <2>2 DEF RunsInTurn
    <3> QED BY <3>1, <3>2, WorkflowOrder
  <2>4. Validated(latest)
    BY <2>2, <2>3, WorkflowOrder DEF Validated
  <2>5. Listed(Ds)
    <3>1. 1 \in DOMAIN todo /\ Ds = todo[1]
      BY <1>1 DEF Ds
    <3> QED BY <3>1 DEF StepsOfNotebook
  <2>6. x \in Rows \ Slice(Ds, RunMonth[latest])
    BY <1>3, <2>2 DEF Slice
  <2> QED BY <1>1, <2>2, <2>4, <2>5, <2>6 DEF LandingOfRun
<1> QED BY <1>2, <1>3

(* Every row a transaction changes is one of the task's month.             *)
LEMMA WorkStep ==
  ASSUME TypeOK, LoadInv, JobTypes, RunsInTurn, StepsOfNotebook, SnapshotRows,
         LandingOfRun, WorkOfRun, [JobNext]_allvars
  PROVE  WorkOfRun'
<1>1. CASE UNCHANGED <<landing, analytics, open, work, pc, task, todo>>
  <2>1. Ds' = Ds
    BY <1>1 DEF Ds
  <2> QED BY <1>1, <2>1 DEF WorkOfRun
<1>2. ASSUME NEW r \in RunIds, LaunchTask(r) PROVE WorkOfRun'
  <2>1. open' = FALSE
    BY <1>2 DEF LaunchTask, StartTask
  <2> QED BY <2>1 DEF WorkOfRun
<1>3. ASSUME running, TaskStep \/ TaskFault, open',
             NEW x \in Rows, x.month # Null, IsSnapshot(Ds) \/ x.month # task.month,
             todo' = todo, analytics' = analytics
      PROVE  work'[x] = analytics[Ds][x]
  <2>1. pc \notin Stopped /\ Ds \in Datasets
    BY <1>3, TaskKept, RecordType
  <2>2. open => work[x] = analytics[Ds][x]
    BY <1>3 DEF WorkOfRun
  <2>3. IsSnapshot(Ds) => analytics[Ds][x] = 0 /\ landing[Ds][x] = 0
    BY <1>3, <2>1 DEF SnapshotRows
  <2>4. open => Deleted(work, Slice(Ds, task.month))[x] = analytics[Ds][x]
    BY <1>3, <2>2, <2>3 DEF Deleted, Slice
  <2>5. pc = "insert" => landing[Ds][x] = 0
    BY <1>3, InsertedMonth
  <2>6. open /\ pc = "insert" => Inserted(work, landing[Ds])[x] = analytics[Ds][x]
    <3>1. work[x] \in Nat
      BY DEF TypeOK, Table
    <3> QED BY <2>2, <2>5, <3>1 DEF Inserted
  <2> QED BY <1>3, <2>2, <2>4, <2>6, WorkChange
<1>4. ASSUME running, TaskStep \/ TaskFault PROVE WorkOfRun'
  <2>1. task' = task
    BY <1>4, TaskKept
  <2>2. CASE ~open'
    BY <2>2 DEF WorkOfRun
  <2>3. CASE open' /\ todo' = todo /\ analytics' = analytics
    <3>1. \A x \in Rows :
            x.month # Null /\ (IsSnapshot(Ds) \/ x.month # task.month) =>
               work'[x] = analytics[Ds][x]
      BY <1>3, <1>4, <2>3
    <3>2. Ds' = Ds
      BY <2>3 DEF Ds
    <3> QED BY <2>1, <2>3, <3>1, <3>2 DEF WorkOfRun
  <2> QED BY <1>4, <2>2, <2>3, WorkChange
<1> QED BY <1>1, <1>2, <1>4, JobSteps DEF NotebookStep, NotebookFault

(* Notebook 03 ends well only over a LANDING that holds the run's month.   *)
LEMMA ValidatedStep ==
  ASSUME TypeOK, JobTypes, RunsInTurn, StepsOfNotebook, LandingOfRun,
         running, TaskStep \/ TaskFault, UNCHANGED jobvars, Validated(latest)'
  PROVE  LandingOfRun'
<1>1. /\ latest \in RunIds /\ status[latest] = "active" /\ task' = task
      /\ task.month = RunMonth[latest] /\ task.notebook = Workflow[pos[latest]]
      /\ pos' = pos /\ status' = status /\ latest' = latest /\ pc \notin Stopped
  BY TaskKept DEF RunsInTurn, jobvars
<1>2. pos[latest] \in 1 .. 15
  <2>1. pos[latest] \in 1 .. Len(Workflow) + 1
    BY <1>1 DEF JobTypes
  <2>2. pos[latest] <= 15
    BY <1>1 DEF RunsInTurn
  <2> QED BY <2>1, <2>2, WorkflowOrder
<1>3. CASE Reload(pos[latest])
  <2>1. task.notebook \in Loads
    BY <1>1, <1>2, <1>3, WorkflowOrder
  <2>2. landing' = landing
    BY <2>1, LandingChange DEF StepsOfNotebook, LandingSteps, Loads
  <2>3. Validated(latest)
    BY <1>3 DEF Validated
  <2> QED BY <1>1, <2>2, <2>3 DEF LandingOfRun
<1>4. CASE ~Reload(pos[latest])
  <2>1. pc' = "done" /\ task.notebook = "03_validate_landing"
    BY <1>1, <1>4 DEF Validated
  <2>2. pc \in {"validate", "failed"}
    BY <1>1, <2>1 DEF TypeOK, Steps, StepsOfNotebook, Loads
  <2>3. ValidateLanding
    BY <2>1, <2>2 DEF TaskStep, TaskFault, CountGold, ClearLanding, WriteLandingFrame,
       VerifyLanding, CountLanding, Begin, DeleteTarget, InsertFromLanding,
       CommitTarget, Rollback, CheckTarget, AppendAudit, AppendFailed, QueryRaises,
       ClearLandingRaises, WriteLandingFrameRaises, StatementRaises,
       CommitUnacknowledged, RollbackRaises, AppendAuditRaises, AppendFailedRaises,
       Crash, Goto
  <2>4. /\ todo = TABLE_CONTRACTS /\ landing' = landing
        /\ \A i \in DOMAIN todo : LandingIsValid(todo[i], task.month)
    BY <2>1, <2>3 DEF ValidateLanding, Goto, store, StepsOfNotebook
  <2>5. ASSUME NEW d \in Datasets, Listed(d),
               NEW x \in Rows \ Slice(d, RunMonth[latest])
        PROVE  landing[d][x] = 0
    <3>1. LandingIsValid(d, task.month)
      BY <2>4, <2>5 DEF Listed
    <3> QED BY <1>1, <2>5, <3>1 DEF LandingIsValid
  <2> QED BY <1>1, <2>4, <2>5 DEF LandingOfRun
<1> QED BY <1>3, <1>4

(* Between the runs and their tasks LANDING stays as validated, provided   *)
(* that only the latest run is repaired.                                   *)
LEMMA LandingStep ==
  ASSUME ~LateRepair, TypeOK, JobTypes, RunsInTurn, StepsOfNotebook, LandingOfRun,
         [JobNext]_allvars
  PROVE  LandingOfRun'
<1>1. CASE UNCHANGED allvars
  BY <1>1 DEF allvars, vars, jobvars, LandingOfRun, Validated
<1>2. ASSUME NEW r \in RunIds, StartRun(r) PROVE LandingOfRun'
  <2>1. /\ ~running /\ ~running' /\ latest' = r /\ pos' = pos
    BY <1>2, ActivateTurn DEF StartRun
  <2>2. pos[r] = 1
    BY <1>2 DEF StartRun, RunsInTurn
  <2>3. ~Reload(1)
    BY DEF Reload
  <2> QED BY <2>1, <2>2, <2>3 DEF LandingOfRun, Validated
<1>3. ASSUME NEW r \in RunIds, RepairRun(r) PROVE LandingOfRun'
  <2>1. ~running /\ ~running'
    BY <1>3, ActivateTurn DEF RepairRun
  <2>2. /\ latest = r /\ latest' = r /\ pos' = pos /\ landing' = landing
        /\ status[r] = "failed"
    BY <1>3 DEF RepairRun, vars
  <2> QED BY <2>1, <2>2 DEF LandingOfRun, Validated
<1>4. ASSUME NEW r \in RunIds, LaunchTask(r) PROVE LandingOfRun'
  <2>1. /\ r = latest /\ status[r] = "active" /\ status' = status /\ pos' = pos
        /\ latest' = latest /\ landing' = landing /\ Workflow[pos[r]] \in Notebooks
        /\ pc' = FirstStep(Workflow[pos[r]])
    BY <1>4 DEF LaunchTask, StartTask, store, RunsInTurn
  <2>2. pc' # "done"
    BY <2>1, FirstStepType
  <2> QED BY <2>1, <2>2 DEF LandingOfRun, Validated
<1>5. ASSUME NEW r \in RunIds, TaskSucceeded(r) PROVE LandingOfRun'
  <2>1. /\ status[r] = "active" /\ running /\ pc = "done" /\ ~running'
        /\ pos' = [pos EXCEPT ![r] = pos[r] + 1]
        /\ UNCHANGED <<status, latest, landing>>
    BY <1>5 DEF TaskSucceeded, vars
  <2>2. r = latest /\ task.notebook = Workflow[pos[r]]
    BY <2>1 DEF RunsInTurn
  <2>3. pos[r] \in 1 .. 15 /\ pos'[r] = pos[r] + 1
    <3>1. pos[r] \in 1 .. Len(Workflow) + 1 /\ pos'[r] = pos[r] + 1
      BY <2>1 DEF JobTypes
    <3>2. pos[r] <= 15
      BY <2>1 DEF RunsInTurn
    <3> QED BY <3>1, <3>2, WorkflowOrder
  <2>4. Reload(pos[r] + 1) => Reload(pos[r]) \/ pos[r] \in {2, 9}
    BY <2>3 DEF Reload
  <2>5. pos[r] \in {2, 9} => task.notebook = "03_validate_landing"
    BY <2>2, <2>3, WorkflowOrder
  <2>6. Validated(latest)' => Validated(latest)
    BY <2>1, <2>2, <2>3, <2>4, <2>5 DEF Validated
  <2> QED BY <2>1, <2>6 DEF LandingOfRun
<1>6. ASSUME NEW r \in RunIds, TaskFailed(r) PROVE LandingOfRun'
  <2>1. /\ status[r] = "active" /\ ~running' /\ pos' = pos
        /\ UNCHANGED <<latest, landing>>
    BY <1>6 DEF TaskFailed, vars
  <2>2. r = latest
    BY <2>1 DEF RunsInTurn
  <2> QED BY <2>1, <2>2 DEF LandingOfRun, Validated
<1>7. ASSUME NEW r \in RunIds, Gates(r) PROVE LandingOfRun'
  <2>1. /\ landing' = landing /\ latest' = latest /\ ~running /\ ~running'
        /\ status[r] = "active"
        /\ \/ pos' = pos
           \/ pos' = [pos EXCEPT ![r] = @ + 1] /\ pos[r] \in {6, 7, 13, 14, 15}
    BY <1>7, GateStep DEF vars
  <2>2. r = latest
    BY <2>1 DEF RunsInTurn
  <2>3. Reload(pos'[r]) => Reload(pos[r])
    BY <2>1 DEF Reload, JobTypes
  <2> QED BY <2>1, <2>2, <2>3 DEF LandingOfRun, Validated
<1>8. CASE NotebookStep \/ NotebookFault
  <2>1. running /\ (TaskStep \/ TaskFault) /\ UNCHANGED jobvars
    BY <1>8 DEF NotebookStep, NotebookFault
  <2>2. CASE ~Validated(latest)'
    BY <2>2 DEF LandingOfRun
  <2> QED BY <2>1, <2>2, ValidatedStep
<1>9. CASE Publish /\ UNCHANGED jobvars
  BY <1>9 DEF Publish, GoldPublish, local, jobvars, LandingOfRun, Validated
<1> QED
  BY <1>1, <1>2, <1>3, <1>4, <1>5, <1>6, <1>7, <1>8, <1>9
  DEF JobNext, RunStep, Gates

(* A step of the job changes no row of another month than its run's.       *)
LEMMA IsolationStep ==
  ASSUME TypeOK, LoadInv, JobTypes, JobInv, [JobNext]_allvars
  PROVE  \A d \in Datasets : \A x \in Rows :
            analytics'[d][x] # analytics[d][x] /\ x.month # Null
            => latest # Null /\ RunMonth[latest] = x.month
<1> SUFFICES ASSUME NEW d \in Datasets, NEW x \in Rows,
                    analytics'[d][x] # analytics[d][x], x.month # Null
             PROVE  latest # Null /\ RunMonth[latest] = x.month
  OBVIOUS
<1>1. RunsInTurn /\ WorkOfRun
  BY DEF JobInv
<1>2. running /\ (TaskStep \/ TaskFault)
  <2>1. ~UNCHANGED <<landing, analytics, open, work, pc, task, todo>>
    OBVIOUS
  <2>2. ASSUME NEW r \in RunIds, LaunchTask(r) PROVE analytics' = analytics
    BY <2>2 DEF LaunchTask, StartTask, store
  <2> QED BY <1>1, <2>1, <2>2, JobSteps DEF NotebookStep, NotebookFault
<1>3. open /\ analytics' = [analytics EXCEPT ![Ds] = work]
  BY <1>2, AnalyticsChange
<1>4. d = Ds /\ work[x] # analytics[Ds][x]
  BY <1>3 DEF TypeOK
<1>5. x.month = task.month
  BY <1>1, <1>3, <1>4 DEF WorkOfRun
<1>6. latest \in RunIds /\ task.month = RunMonth[latest]
  BY <1>1, <1>2 DEF RunsInTurn
<1> QED BY <1>5, <1>6, JobAssumption

(* The invariant of the job, provided that a failed run is not repaired    *)
(* once another has started.                                               *)
LEMMA JobInvariant == ~LateRepair => (JobSpec => [](TypeOK /\ LoadInv /\ JobTypes /\ JobInv))
<1> SUFFICES ASSUME ~LateRepair PROVE JobSpec => [](TypeOK /\ LoadInv /\ JobTypes /\ JobInv)
  OBVIOUS
<1>1. JobInit => JobTypes /\ JobInv
  BY InitJob DEF JobInv
<1>2. TypeOK /\ LoadInv /\ JobTypes /\ JobInv /\ [JobNext]_allvars
      => JobTypes' /\ JobInv'
  BY TurnStep, StepsStep, SnapshotStep, LandingStep, WorkStep DEF JobInv
<1>3. JobSpec => []TypeOK /\ []LoadInv
  BY JobIsLoad, TypeCorrect, LoadCorrect, PTL DEF ImplementsLoad
<1> QED BY <1>1, <1>2, <1>3, PTL DEF JobSpec

(* A run changes no rows of another source period, provided that a failed  *)
(* run is not repaired once another has started.                           *)
THEOREM JobIsolation == ~LateRepair => (JobSpec => BatchIsolation)
<1> SUFFICES ASSUME ~LateRepair PROVE JobSpec => BatchIsolation
  OBVIOUS
<1> DEFINE A == \A d \in Datasets : \A r \in Rows :
                   analytics'[d][r] # analytics[d][r] /\ r.month # Null
                   => latest # Null /\ RunMonth[latest] = r.month
<1>1. TypeOK /\ LoadInv /\ JobTypes /\ JobInv /\ [JobNext]_allvars => A
  BY IsolationStep
<1> QED BY <1>1, JobInvariant, PTL DEF JobSpec, BatchIsolation
(***************************************************************************)
(* Whole builds.                                                           *)
(***************************************************************************)

(* Slice p of table t is empty or one of the first g Gold builds of it,    *)
(* each row once.                                                          *)
Present(t, p) == {x \in Rows : x.month = p /\ t[x] > 0}

IsBuild(t, d, p, g) ==
    /\ Present(t, p) # {} => \E v \in 1 .. g : Present(t, p) = GoldSlice(d, p, v)
    /\ \A x \in Present(t, p) : t[x] = 1

HoldsBuilds(t, d, g) == \A p \in Parts : IsBuild(t, d, p, g[d][p])

(* LANDING too holds whole builds, as notebook 02 clears a table before it *)
(* evaluates the Gold frame, and so does an open transaction.              *)
LandingOfBuilds ==
    /\ \A d \in Datasets : HoldsBuilds(landing[d], d, gold)
    /\ pc = "write" => landing[Ds] = EmptyTable

WorkOfBuilds == open => HoldsBuilds(work, Ds, gold)

BuildsInv == SlicesAreBuilds /\ LandingOfBuilds /\ WorkOfBuilds

LEMMA SlicesHoldBuilds ==
  SlicesAreBuilds <=> \A d \in Datasets : HoldsBuilds(analytics[d], d, gold)
BY DEF SlicesAreBuilds, HoldsBuilds, IsBuild, Present

(* Tables that agree on a slice, empty slices, and later Gold builds.      *)
LEMMA BuildOps ==
  ASSUME NEW d, NEW p, NEW t \in Table, NEW g \in Nat
  PROVE  /\ \A u \in Table : (\A x \in Rows : x.month = p => u[x] = t[x])
                             /\ IsBuild(t, d, p, g) => IsBuild(u, d, p, g)
         /\ (\A x \in Rows : x.month = p => t[x] = 0) => IsBuild(t, d, p, g)
         /\ \A h \in Nat : g <= h /\ IsBuild(t, d, p, g) => IsBuild(t, d, p, h)
<1>1. ASSUME NEW u \in Table, \A x \in Rows : x.month = p => u[x] = t[x],
             IsBuild(t, d, p, g)
      PROVE  IsBuild(u, d, p, g)
  <2>1. Present(u, p) = Present(t, p)
    BY <1>1 DEF Present
  <2>2. \A x \in Present(t, p) : u[x] = t[x]
    BY <1>1 DEF Present
  <2> QED BY <1>1, <2>1, <2>2 DEF IsBuild
<1>2. ASSUME \A x \in Rows : x.month = p => t[x] = 0 PROVE IsBuild(t, d, p, g)
  <2>1. Present(t, p) = {}
    BY <1>2 DEF Present
  <2> QED BY <2>1 DEF IsBuild
<1>3. ASSUME NEW h \in Nat, g <= h, IsBuild(t, d, p, g) PROVE IsBuild(t, d, p, h)
  <2>1. \A v \in 1 .. g : v \in 1 .. h
    BY <1>3
  <2> QED BY <1>3, <2>1 DEF IsBuild
<1> QED BY <1>1, <1>2, <1>3

(* An empty table that a Gold frame is appended to.                        *)
LEMMA FrameIsBuild ==
  ASSUME TypeOK, NEW d \in Datasets, NEW m \in Months
  PROVE  HoldsBuilds(Inserted(EmptyTable, GoldFrame(d, m)), d, gold)
<1> DEFINE t == Inserted(EmptyTable, GoldFrame(d, m))
<1> SUFFICES ASSUME NEW p \in Parts PROVE IsBuild(t, d, p, gold[d][p])
  BY DEF HoldsBuilds
<1>1. gold[d][p] \in Nat /\ gold[d][p] \in 1 .. gold[d][p]
  <2>1. gold[d][p] \in Versions
    BY DEF TypeOK
  <2>2. gold[d][p] \in Nat /\ 1 <= gold[d][p]
    BY <2>1, DataAssumption DEF Versions
  <2> QED BY <2>2
<1> DEFINE F == {x \in Rows : /\ x.month = Part(d, m) /\ x.ver = gold[d][Part(d, m)]
                               /\ x.key \in GoldKeys[d, Part(d, m), x.ver]}
<1>2. \A x \in Rows : t[x] = IF x \in F THEN 1 ELSE 0
  BY DEF Inserted, EmptyTable, GoldFrame
<1>3. \A x \in F : x \in Rows /\ x.month = Part(d, m)
  OBVIOUS
<1>4. p = Part(d, m) => F = GoldSlice(d, p, gold[d][p])
  BY DEF GoldSlice
<1> HIDE DEF t, F
<1>5. \A x \in Rows : (t[x] > 0 <=> x \in F) /\ (x \in F => t[x] = 1)
  BY <1>2
<1>6. Present(t, p) = {x \in F : x.month = p}
  BY <1>3, <1>5 DEF Present
<1>7. \A x \in Present(t, p) : t[x] = 1
  BY <1>3, <1>5, <1>6
<1>8. Present(t, p) # {} => Present(t, p) = GoldSlice(d, p, gold[d][p])
  BY <1>3, <1>4, <1>6
<1> QED BY <1>1, <1>7, <1>8 DEF IsBuild

(* Gold keeps its builds while a notebook runs, and never goes back.       *)
LEMMA GoldGrows ==
  ASSUME TypeOK, TypeOK', [JobNext]_allvars
  PROVE  \A d \in Datasets : \A p \in Parts :
            gold[d][p] \in Nat /\ gold'[d][p] \in Nat /\ gold[d][p] <= gold'[d][p]
<1>1. \A d \in Datasets : \A p \in Parts : gold[d][p] \in Nat /\ gold'[d][p] \in Nat
  BY BoundAssumption DEF TypeOK, Versions
<1>2. CASE gold' = gold
  BY <1>1, <1>2
<1>3. ASSUME NEW e \in Datasets, NEW q \in Parts, GoldPublish(e, q)
      PROVE  \A d \in Datasets : \A p \in Parts : gold[d][p] <= gold'[d][p]
  <2>1. gold' = [gold EXCEPT ![e] = [gold[e] EXCEPT ![q] = gold[e][q] + 1]]
    BY <1>3 DEF GoldPublish
  <2>2. gold \in [Datasets -> [Parts -> Versions]]
    BY DEF TypeOK
  <2>3. \A d \in Datasets : \A p \in Parts :
          gold'[d][p] = IF d = e /\ p = q THEN gold[d][p] + 1 ELSE gold[d][p]
    BY <2>1, <2>2
  <2> QED BY <1>1, <2>3
<1>4. [Next]_vars
  BY JobStepIsLoadStep
<1>5. CASE ~Publish
  <2>1. gold' = gold
    BY <1>4, <1>5 DEF Next, StartTask, TaskStep, TaskFault, CountGold, ClearLanding,
       WriteLandingFrame, VerifyLanding, ValidateLanding, CountLanding, Begin,
       DeleteTarget, InsertFromLanding, CommitTarget, Rollback, CheckTarget,
       AppendAudit, AppendFailed, QueryRaises, ClearLandingRaises,
       WriteLandingFrameRaises, StatementRaises, CommitUnacknowledged,
       RollbackRaises, AppendAuditRaises, AppendFailedRaises, Crash, store, vars
  <2> QED BY <1>2, <2>1
<1> QED BY <1>1, <1>3, <1>5 DEF Publish

(* What holds builds holds builds of a Gold that has grown.                *)
LEMMA BuildsStay ==
  ASSUME TypeOK, TypeOK', [JobNext]_allvars, NEW d \in Datasets, NEW t \in Table,
         HoldsBuilds(t, d, gold)
  PROVE  HoldsBuilds(t, d, gold')
<1> SUFFICES ASSUME NEW p \in Parts PROVE IsBuild(t, d, p, gold'[d][p])
  BY DEF HoldsBuilds
<1>1. gold[d][p] \in Nat /\ gold'[d][p] \in Nat /\ gold[d][p] <= gold'[d][p]
  BY GoldGrows
<1>2. IsBuild(t, d, p, gold[d][p])
  BY DEF HoldsBuilds
<1> QED BY <1>1, <1>2, BuildOps

(* How notebook 02 changes LANDING.                                        *)
LEMMA LandingWrite ==
  ASSUME TypeOK, TaskStep \/ TaskFault
  PROVE  /\ \/ landing' = landing
            \/ landing' = [landing EXCEPT ![Ds] = EmptyTable]
            \/ /\ pc = "write"
               /\ landing' = [landing EXCEPT ![Ds] =
                                Inserted(landing[Ds], GoldFrame(Ds, task.month))]
         /\ pc' = "write" => todo' = todo /\ landing' = [landing EXCEPT ![Ds] = EmptyTable]
<1>1. FirstStep(task.notebook) # "write"
  BY DEF FirstStep
<1> QED
  BY <1>1 DEF TaskStep, TaskFault, CountGold, ClearLanding, WriteLandingFrame,
     VerifyLanding, ValidateLanding, CountLanding, Begin, DeleteTarget,
     InsertFromLanding, CommitTarget, Rollback, CheckTarget, AppendAudit,
     AppendFailed, QueryRaises, ClearLandingRaises, WriteLandingFrameRaises,
     StatementRaises, CommitUnacknowledged, RollbackRaises, AppendAuditRaises,
     AppendFailedRaises, Crash, store, Goto, NextContract

(* DELETE leaves nothing of the slice and INSERT adds what LANDING has, so *)
(* that the transaction goes from builds to builds.                        *)
LEMMA WorkHoldsBuilds ==
  ASSUME TypeOK, LoadInv, JobTypes, JobInv, BuildsInv, running,
         TaskStep \/ TaskFault, open'
  PROVE  HoldsBuilds(work', Ds, gold)
<1>1. pc \notin Stopped /\ Ds \in Datasets /\ task \in Tasks
  BY TaskKept, RecordType DEF TypeOK
<1>2. /\ work \in Table /\ landing[Ds] \in Table /\ analytics[Ds] \in Table
      /\ gold \in [Datasets -> [Parts -> Nat]]
  BY <1>1, BoundAssumption DEF TypeOK, Versions
<1>3. CASE work' = analytics[Ds]
  BY <1>1, <1>3, SlicesHoldBuilds DEF BuildsInv
<1>4. CASE open /\ work' = work
  BY <1>4 DEF BuildsInv, WorkOfBuilds
<1>5. ASSUME NEW t \in Table, HoldsBuilds(t, Ds, gold)
      PROVE  HoldsBuilds(Deleted(t, Slice(Ds, task.month)), Ds, gold)
  <2> DEFINE u == Deleted(t, Slice(Ds, task.month))
  <2> SUFFICES ASSUME NEW p \in Parts PROVE IsBuild(u, Ds, p, gold[Ds][p])
    BY DEF HoldsBuilds
  <2>1. u \in Table /\ \A x \in Rows : u[x] = IF x \in Slice(Ds, task.month) THEN 0 ELSE t[x]
    BY <1>5 DEF Deleted, Table
  <2>2. gold[Ds][p] \in Nat
    BY <1>1, <1>2
  <2> HIDE DEF u
  <2>3. CASE IsSnapshot(Ds) \/ p = task.month
    <3>1. \A x \in Rows : x.month = p => u[x] = 0
      BY <2>1, <2>3 DEF Slice
    <3> QED BY <2>1, <2>2, <3>1, BuildOps
  <2>4. CASE ~(IsSnapshot(Ds) \/ p = task.month)
    <3>1. \A x \in Rows : x.month = p => u[x] = t[x]
      BY <2>1, <2>4 DEF Slice
    <3>2. IsBuild(t, Ds, p, gold[Ds][p])
      BY <1>5 DEF HoldsBuilds
    <3> QED BY <1>5, <2>1, <2>2, <3>1, <3>2, BuildOps
  <2> QED BY <2>3, <2>4
<1>6. CASE open /\ work' = Deleted(work, Slice(Ds, task.month))
  BY <1>2, <1>5, <1>6 DEF BuildsInv, WorkOfBuilds
<1>7. CASE open /\ pc = "insert" /\ work' = Inserted(work, landing[Ds])
  <2> DEFINE u == Inserted(work, landing[Ds])
  <2> SUFFICES ASSUME NEW p \in Parts PROVE IsBuild(u, Ds, p, gold[Ds][p])
    BY <1>7 DEF HoldsBuilds
  <2>1. u \in Table /\ \A x \in Rows : u[x] = work[x] + landing[Ds][x]
    BY <1>2 DEF Inserted, Table
  <2>2. gold[Ds][p] \in Nat
    BY <1>1, <1>2
  <2>3. \A x \in Slice(Ds, task.month) : work[x] = 0
    BY <1>7 DEF LoadInv, WorkIsReplacement, Deleted, Slice
  <2>4. /\ IsBuild(work, Ds, p, gold[Ds][p])
        /\ IsBuild(landing[Ds], Ds, p, gold[Ds][p])
    BY <1>1, <1>7 DEF BuildsInv, WorkOfBuilds, LandingOfBuilds, HoldsBuilds
  <2> HIDE DEF u
  <2>5. CASE IsSnapshot(Ds) \/ p = task.month
    <3>1. \A x \in Rows : x.month = p => u[x] = landing[Ds][x]
      <4> SUFFICES ASSUME NEW x \in Rows, x.month = p PROVE u[x] = landing[Ds][x]
        OBVIOUS
      <4>1. work[x] = 0
        BY <2>3, <2>5 DEF Slice
      <4>2. landing[Ds][x] \in Nat
        BY <1>2 DEF Table
      <4> QED BY <2>1, <4>1, <4>2
    <3> QED BY <1>2, <2>1, <2>2, <2>4, <3>1, BuildOps
  <2>6. CASE ~(IsSnapshot(Ds) \/ p = task.month)
    <3>1. \A x \in Rows : x.month = p => u[x] = work[x]
      <4> SUFFICES ASSUME NEW x \in Rows, x.month = p PROVE u[x] = work[x]
        OBVIOUS
      <4>1. landing[Ds][x] = 0
        BY <1>7, <2>6, InsertedMonth DEF JobInv
      <4>2. work[x] \in Nat
        BY <1>2 DEF Table
      <4> QED BY <2>1, <4>1, <4>2
    <3> QED BY <1>2, <2>1, <2>2, <2>4, <3>1, BuildOps
  <2> QED BY <2>5, <2>6
<1> QED BY <1>3, <1>4, <1>6, <1>7, WorkChange

(* Every step takes tables from builds to builds.                          *)
LEMMA BuildsStep ==
  ASSUME TypeOK, TypeOK', LoadInv, JobTypes, JobInv, BuildsInv, [JobNext]_allvars
  PROVE  BuildsInv'
<1>1. /\ landing \in [Datasets -> Table] /\ analytics \in [Datasets -> Table]
      /\ landing' \in [Datasets -> Table] /\ analytics' \in [Datasets -> Table]
      /\ work \in Table /\ work' \in Table /\ EmptyTable \in Table
  BY DEF TypeOK, EmptyTable, Table
<1>2. /\ \A d \in Datasets : HoldsBuilds(landing[d], d, gold) /\ HoldsBuilds(analytics[d], d, gold)
      /\ open => HoldsBuilds(work, Ds, gold)
      /\ RunsInTurn
  BY SlicesHoldBuilds DEF BuildsInv, LandingOfBuilds, WorkOfBuilds, JobInv
<1> DEFINE Kept == /\ \A d \in Datasets : HoldsBuilds(landing'[d], d, gold)
                   /\ \A d \in Datasets : HoldsBuilds(analytics'[d], d, gold)
                   /\ open' => Ds' \in Datasets /\ HoldsBuilds(work', Ds', gold)
                   /\ pc' = "write" => landing'[Ds'] = EmptyTable
<1>3. Kept => BuildsInv'
  <2> SUFFICES ASSUME Kept PROVE BuildsInv'
    OBVIOUS
  <2>1. \A d \in Datasets : \A t \in Table :
            HoldsBuilds(t, d, gold) => HoldsBuilds(t, d, gold')
    BY BuildsStay
  <2>2. \A d \in Datasets : HoldsBuilds(landing'[d], d, gold')
                              /\ HoldsBuilds(analytics'[d], d, gold')
    BY <1>1, <2>1
  <2>3. open' => HoldsBuilds(work', Ds', gold')
    BY <1>1, <2>1
  <2>4. SlicesAreBuilds'
    BY <2>2 DEF SlicesAreBuilds, HoldsBuilds, IsBuild, Present
  <2>5. LandingOfBuilds'
    BY <2>2 DEF LandingOfBuilds, HoldsBuilds
  <2>6. WorkOfBuilds'
    BY <2>3 DEF WorkOfBuilds, HoldsBuilds
  <2> QED BY <2>4, <2>5, <2>6 DEF BuildsInv
<1>4. ASSUME UNCHANGED <<landing, analytics, open, work, pc, task, todo>> PROVE Kept
  <2>1. Ds' = Ds
    BY <1>4 DEF Ds
  <2>2. open => Ds \in Datasets
    BY OpenTask
  <2> QED BY <1>2, <1>4, <2>1, <2>2 DEF BuildsInv, LandingOfBuilds
<1>5. ASSUME NEW r \in RunIds, LaunchTask(r) PROVE Kept
  <2>1. /\ landing' = landing /\ analytics' = analytics /\ ~open'
        /\ pc' = FirstStep(Workflow[pos[r]])
    BY <1>5 DEF LaunchTask, StartTask, store
  <2>2. pc' # "write"
    BY <2>1 DEF FirstStep
  <2> QED BY <1>2, <2>1, <2>2
<1>6. ASSUME running, TaskStep \/ TaskFault PROVE Kept
  <2>1. Ds \in Datasets /\ task \in Tasks
    BY <1>6, TaskKept, RecordType DEF TypeOK
  <2>2. \A d \in Datasets : HoldsBuilds(landing'[d], d, gold)
    <3>1. HoldsBuilds(EmptyTable, Ds, gold)
      <4> SUFFICES ASSUME NEW p \in Parts PROVE IsBuild(EmptyTable, Ds, p, gold[Ds][p])
        BY DEF HoldsBuilds
      <4>1. gold[Ds][p] \in Nat
        BY <2>1, BoundAssumption DEF TypeOK, Versions
      <4>2. \A x \in Rows : EmptyTable[x] = 0
        BY DEF EmptyTable
      <4> QED BY <1>1, <4>1, <4>2, BuildOps
    <3>2. pc = "write" => HoldsBuilds(Inserted(landing[Ds], GoldFrame(Ds, task.month)), Ds, gold)
      BY <2>1, FrameIsBuild DEF BuildsInv, LandingOfBuilds, Tasks
    <3> QED BY <1>1, <1>2, <1>6, <2>1, <3>1, <3>2, LandingWrite
  <2>3. \A d \in Datasets : HoldsBuilds(analytics'[d], d, gold)
    BY <1>1, <1>2, <1>6, <2>1, AnalyticsChange
  <2>4. open' => Ds' \in Datasets /\ HoldsBuilds(work', Ds', gold)
    <3> SUFFICES ASSUME open' PROVE Ds' = Ds /\ HoldsBuilds(work', Ds, gold)
      BY <2>1
    <3>1. todo' = todo
      BY <1>6, WorkChange
    <3> QED BY <1>6, <3>1, WorkHoldsBuilds DEF Ds
  <2>5. pc' = "write" => landing'[Ds'] = EmptyTable
    BY <1>1, <1>6, <2>1, LandingWrite DEF Ds
  <2> QED BY <2>2, <2>3, <2>4, <2>5
<1> HIDE DEF Kept
<1> QED BY <1>2, <1>3, <1>4, <1>5, <1>6, JobSteps DEF NotebookStep, NotebookFault

(* Every slice of LANDING and ANALYTICS, and of a load's own, is a build.   *)
LEMMA BuildsInvariant == ~LateRepair => (JobSpec => []BuildsInv)
<1> SUFFICES ASSUME ~LateRepair PROVE JobSpec => []BuildsInv
  OBVIOUS
<1>1. JobInit => BuildsInv
  <2> SUFFICES ASSUME JobInit PROVE BuildsInv
    OBVIOUS
  <2>1. EmptyTable \in Table /\ \A x \in Rows : EmptyTable[x] = 0
    BY DEF EmptyTable, Table
  <2>2. ASSUME NEW d \in Datasets PROVE HoldsBuilds(EmptyTable, d, gold)
    <3>1. \A p \in Parts : gold[d][p] \in Nat
      BY <2>2 DEF JobInit, Init
    <3> QED BY <2>1, <3>1, BuildOps DEF HoldsBuilds
  <2>3. /\ \A d \in Datasets : landing[d] = EmptyTable /\ analytics[d] = EmptyTable
        /\ ~open /\ pc = "idle"
    BY DEF JobInit, Init
  <2> QED BY <2>2, <2>3, SlicesHoldBuilds DEF BuildsInv, LandingOfBuilds, WorkOfBuilds
<1>2. TypeOK /\ TypeOK' /\ LoadInv /\ JobTypes /\ JobInv /\ BuildsInv /\ [JobNext]_allvars
      => BuildsInv'
  BY BuildsStep
<1> QED BY <1>1, <1>2, JobInvariant, PTL DEF JobSpec

(* Every slice of ANALYTICS is empty or one Gold build of it, whatever     *)
(* calls raise and whenever Gold is rebuilt, provided that a failed run is *)
(* not repaired once another has started.                                  *)
THEOREM SlicesCorrect == ~LateRepair => (JobSpec => []SlicesAreBuilds)
<1>1. BuildsInv => SlicesAreBuilds
  BY DEF BuildsInv
<1> QED BY <1>1, BuildsInvariant, PTL

(***************************************************************************)
(* What holds when a run finishes.                                         *)
(***************************************************************************)

InList(d, s) == \E k \in DOMAIN s : s[k] = d

(* A task works through its contracts, and a load ends well only after the *)
(* last one.                                                               *)
TodoOfTask ==
    running =>
        /\ \A k \in DOMAIN todo : InList(todo[k], Contracts(task.notebook))
        /\ pc = "done" /\ task.notebook \in Loads => todo = <<>>

(* A SUCCEEDED record is that of a listed contract in one of the passes.   *)
AuditOfLoads ==
    \A i \in DOMAIN audit : audit[i].status = "SUCCEEDED" =>
        audit[i].pass \in Passes /\ Listed(audit[i].dataset)

(* The latest run has not finished.                                        *)
Current == latest \in RunIds /\ status[latest] \in {"active", "failed"}

(* Once notebook 03 has validated it, LANDING has rows of the run's month  *)
(* for every contract.                                                     *)
LandedRows ==
    Current /\ (Validated(latest) \/ pos[latest] >= 10) =>
        \A d \in Datasets : Listed(d) =>
            table_count(landing[d], Slice(d, RunMonth[latest])) > 0

(* In the second pass a slice of ANALYTICS is that of LANDING unless its   *)
(* load is still to come: d is a contract of a later task or one the task  *)
(* at position i has still to process.                                     *)
Same(d, m) == \A x \in Slice(d, m) : analytics[d][x] = landing[d][x]

ToDo == IF running THEN todo ELSE Contracts(Workflow[pos[latest]])

Pending(d, i, rest) ==
    \/ \E j \in 10 .. 12 : j > i /\ InList(d, Contracts(Workflow[j]))
    \/ i \in 10 .. 12 /\ InList(d, rest)

Reloaded ==
    Current /\ pos[latest] >= 10 =>
        \A d \in Datasets : Listed(d) =>
            Same(d, RunMonth[latest]) \/ Pending(d, pos[latest], ToDo)

(* What the second notebook 07 found stays true.                           *)
MonthReconciled(m) ==
    LocationsResolve(m) /\ \A i \in DOMAIN Aggs : TotalsReconcile(Aggs[i], m)

Reconciled == Current /\ pos[latest] >= 14 => MonthReconciled(RunMonth[latest])

FinishInv == TodoOfTask /\ AuditOfLoads /\ LandedRows /\ Reloaded /\ Reconciled

LEMMA FinishInit == JobInit => FinishInv
<1> SUFFICES ASSUME JobInit PROVE FinishInv
  OBVIOUS
<1>1. ~running /\ audit = <<>> /\ latest \notin RunIds
  BY JobAssumption DEF JobInit, Init
<1> QED
  BY <1>1 DEF FinishInv, TodoOfTask, AuditOfLoads, LandedRows, Reloaded, Reconciled, Current

(* How the latest run goes on, once it has finished its first task.        *)
LEMMA RunMoves ==
  ASSUME ~LateRepair, TypeOK, JobTypes, RunsInTurn, [JobNext]_allvars,
         Current', pos'[latest'] >= 2
  PROVE  /\ Current /\ latest' = latest
         /\ pos[latest] \in 1 .. 15 /\ pos'[latest] \in 1 .. 15
         /\ \/ UNCHANGED <<landing, analytics, pc, task, todo, running, pos>>
            \/ LaunchTask(latest) \/ TaskSucceeded(latest) \/ TaskFailed(latest)
            \/ /\ Gates(latest) /\ UNCHANGED <<landing, analytics>>
               /\ ~running /\ ~running'
               /\ pos' = [pos EXCEPT ![latest] = @ + 1] /\ pos[latest] \in {6, 7, 13, 14}
            \/ running /\ (TaskStep \/ TaskFault) /\ UNCHANGED jobvars
<1>1. JobTypes' /\ RunsInTurn'
  BY TurnStep
<1>2. /\ latest' \in RunIds /\ pos'[latest'] \in 1 .. 15
      /\ \A r \in RunIds : status[r] # "finished" => pos[r] \in 1 .. 15
  <2>1. /\ \A r \in RunIds : pos[r] \in 1 .. Len(Workflow) + 1
        /\ \A r \in RunIds : pos'[r] \in 1 .. Len(Workflow)' + 1
    BY <1>1 DEF JobTypes
  <2>2. Len(Workflow) = 15 /\ Len(Workflow)' = 15
    BY WorkflowOrder DEF Workflow, PassNotebooks
  <2>3. /\ \A r \in RunIds : status[r] # "finished" => pos[r] <= 15
        /\ \A r \in RunIds : status'[r] # "finished" => pos'[r] <= 15
    BY <1>1 DEF RunsInTurn
  <2> QED BY <2>1, <2>2, <2>3 DEF Current
<1> DEFINE Goal == /\ Current /\ latest' = latest
                   /\ pos[latest] \in 1 .. 15 /\ pos'[latest] \in 1 .. 15
                   /\ \/ UNCHANGED <<landing, analytics, pc, task, todo, running, pos>>
                      \/ LaunchTask(latest) \/ TaskSucceeded(latest) \/ TaskFailed(latest)
                      \/ /\ Gates(latest) /\ UNCHANGED <<landing, analytics>>
                         /\ ~running /\ ~running'
                         /\ pos' = [pos EXCEPT ![latest] = @ + 1]
                         /\ pos[latest] \in {6, 7, 13, 14}
                      \/ running /\ (TaskStep \/ TaskFault) /\ UNCHANGED jobvars
<1>3. CASE UNCHANGED allvars
  BY <1>2, <1>3 DEF allvars, vars, jobvars, Current
<1>4. ASSUME NEW r \in RunIds, StartRun(r) PROVE Goal
  <2>1. latest' = r /\ pos' = pos /\ pos[r] = 1
    BY <1>4 DEF StartRun, RunsInTurn
  <2> QED BY <2>1
<1>5. ASSUME NEW r \in RunIds, RepairRun(r) PROVE Goal
  BY <1>2, <1>5 DEF RepairRun, vars, Current
<1>6. ASSUME NEW r \in RunIds, LaunchTask(r) \/ TaskSucceeded(r) \/ TaskFailed(r) PROVE Goal
  <2>1. status[r] = "active" /\ latest' = latest
    BY <1>6 DEF LaunchTask, TaskSucceeded, TaskFailed
  <2>2. r = latest
    BY <2>1 DEF RunsInTurn
  <2> QED BY <1>2, <1>6, <2>1, <2>2 DEF Current
<1>7. ASSUME NEW r \in RunIds, Gates(r) PROVE Goal
  <2>1. /\ UNCHANGED <<vars, running, latest>> /\ ~running /\ status[r] = "active"
        /\ \/ pos' = pos
           \/ pos' = [pos EXCEPT ![r] = @ + 1] /\ pos[r] \in {6, 7, 13, 14, 15}
    BY <1>7, GateStep
  <2>2. r = latest /\ pos[r] \in 1 .. 15 /\ latest' = latest
    BY <1>2, <2>1 DEF RunsInTurn
  <2>3. UNCHANGED <<landing, analytics, pc, task, todo, running>>
    BY <2>1 DEF vars
  <2>4. pos' = [pos EXCEPT ![r] = @ + 1] => pos[r] # 15
    BY <1>2, <2>2 DEF JobTypes
  <2> QED BY <1>2, <1>7, <2>1, <2>2, <2>3, <2>4 DEF Current
<1>8. CASE NotebookStep \/ NotebookFault
  <2>1. running /\ (TaskStep \/ TaskFault) /\ UNCHANGED jobvars
    BY <1>8 DEF NotebookStep, NotebookFault
  <2>2. UNCHANGED <<latest, status, pos>>
    BY <2>1 DEF jobvars
  <2> QED BY <1>2, <2>1, <2>2 DEF Current
<1>9. CASE Publish /\ UNCHANGED jobvars
  BY <1>2, <1>9 DEF Publish, GoldPublish, local, jobvars, Current
<1> QED
  BY <1>3, <1>4, <1>5, <1>6, <1>7, <1>8, <1>9 DEF JobNext, RunStep, Gates

(* The latest run is at the task that is running.                          *)
LEMMA RunningTask ==
  ASSUME JobTypes, RunsInTurn, running
  PROVE  /\ latest \in RunIds /\ status[latest] = "active"
         /\ task \in Tasks /\ task.month = RunMonth[latest]
         /\ task.notebook = Workflow[pos[latest]]
         /\ pos[latest] \in 1 .. 5 \cup 8 .. 12
         /\ pos[latest] >= 10 => task.notebook \in Loads
<1>1. /\ latest \in RunIds /\ status[latest] = "active"
      /\ task \in Tasks /\ task.month = RunMonth[latest]
      /\ task.notebook = Workflow[pos[latest]] /\ pos[latest] <= 15
  BY DEF RunsInTurn
<1>2. pos[latest] \in 1 .. 15
  <2>1. pos[latest] \in 1 .. Len(Workflow) + 1
    BY <1>1 DEF JobTypes
  <2> QED BY <1>1, <2>1, WorkflowOrder
<1>3. task.notebook \in Notebooks
  BY <1>1 DEF Tasks
<1>4. pos[latest] \in 1 .. 5 \cup 8 .. 12
  BY <1>1, <1>2, <1>3, WorkflowOrder
<1>5. pos[latest] >= 10 => Reload(pos[latest])
  BY <1>4 DEF Reload
<1> QED BY <1>1, <1>2, <1>4, <1>5, WorkflowOrder

(* Notebooks 04 to 06 leave LANDING alone.                                 *)
LEMMA LoadsKeepLanding ==
  ASSUME TypeOK, StepsOfNotebook, task.notebook \in Loads, TaskStep \/ TaskFault
  PROVE  landing' = landing
BY LandingChange DEF StepsOfNotebook, LandingSteps, Loads

(* Notebook 03 ends well only over a LANDING that is valid.                *)
LEMMA ValidationDone ==
  ASSUME TypeOK, StepsOfNotebook, task.notebook = "03_validate_landing",
         TaskStep \/ TaskFault, pc' = "done"
  PROVE  /\ landing' = landing
         /\ \A d \in Datasets : Listed(d) => LandingIsValid(d, task.month)
<1>1. pc \notin Stopped
  BY TaskKept
<1>2. pc \in {"validate", "failed"}
  BY <1>1 DEF TypeOK, Steps, StepsOfNotebook, Loads
<1>3. ValidateLanding
  BY <1>2 DEF TaskStep, TaskFault, CountGold, ClearLanding, WriteLandingFrame,
     VerifyLanding, CountLanding, Begin, DeleteTarget, InsertFromLanding,
     CommitTarget, Rollback, CheckTarget, AppendAudit, AppendFailed, QueryRaises,
     ClearLandingRaises, WriteLandingFrameRaises, StatementRaises,
     CommitUnacknowledged, RollbackRaises, AppendAuditRaises, AppendFailedRaises,
     Crash, Goto
<1>4. /\ todo = TABLE_CONTRACTS /\ landing' = landing
      /\ \A i \in DOMAIN todo : LandingIsValid(todo[i], task.month)
  BY <1>3 DEF ValidateLanding, Goto, store, StepsOfNotebook
<1> QED BY <1>4 DEF Listed

(* How a task goes through its contracts.                                  *)
LEMMA TodoChange ==
  ASSUME TypeOK, TaskStep \/ TaskFault
  PROVE  \/ todo' = todo /\ (pc' = "done" => pc = "validate")
         \/ /\ todo' = Tail(todo) /\ UNCHANGED <<landing, analytics>>
            /\ pc \in {"landed", "succeeded"}
            /\ pc' = "done" => Tail(todo) = <<>>
<1>1. FirstStep(task.notebook) # "done"
  BY DEF FirstStep
<1> QED
  BY <1>1 DEF TaskStep, TaskFault, CountGold, ClearLanding, WriteLandingFrame,
     VerifyLanding, ValidateLanding, CountLanding, Begin, DeleteTarget,
     InsertFromLanding, CommitTarget, Rollback, CheckTarget, AppendAudit,
     AppendFailed, QueryRaises, ClearLandingRaises, WriteLandingFrameRaises,
     StatementRaises, CommitUnacknowledged, RollbackRaises, AppendAuditRaises,
     AppendFailedRaises, Crash, store, local, Goto, NextContract

(* The contracts left after one is done.                                   *)
LEMMA TailOfTodo ==
  ASSUME TypeOK, todo # <<>>
  PROVE  /\ \A k \in DOMAIN Tail(todo) : k + 1 \in DOMAIN todo /\ Tail(todo)[k] = todo[k + 1]
         /\ \A k \in DOMAIN todo : todo[k] = Ds \/ InList(todo[k], Tail(todo))
         /\ InList(Ds, todo)
<1>1. todo \in Seq(Datasets)
  BY DEF TypeOK
<1>2. /\ Len(todo) \in Nat \ {0} /\ DOMAIN todo = 1 .. Len(todo)
      /\ DOMAIN Tail(todo) = 1 .. Len(todo) - 1
      /\ \A k \in 1 .. Len(todo) - 1 : Tail(todo)[k] = todo[k + 1]
      /\ Head(todo) = todo[1]
  BY <1>1
<1>3. ASSUME NEW k \in DOMAIN todo, k # 1 PROVE InList(todo[k], Tail(todo))
  <2>1. k - 1 \in DOMAIN Tail(todo) /\ (k - 1) + 1 = k
    BY <1>2, <1>3
  <2>2. Tail(todo)[k - 1] = todo[k]
    BY <1>2, <2>1
  <2> QED BY <2>1, <2>2 DEF InList
<1>4. 1 \in DOMAIN todo
  BY <1>2
<1> QED BY <1>2, <1>3, <1>4 DEF InList, Ds

LEMMA TodoStep ==
  ASSUME TypeOK, JobTypes, RunsInTurn, StepsOfNotebook, TodoOfTask, [JobNext]_allvars
  PROVE  TodoOfTask'
<1>1. CASE UNCHANGED allvars
  BY <1>1 DEF allvars, vars, jobvars, TodoOfTask
<1>2. ASSUME NEW r \in RunIds, StartRun(r) \/ RepairRun(r) PROVE TodoOfTask'
  BY <1>2 DEF StartRun, RepairRun, vars, TodoOfTask
<1>3. ASSUME NEW r \in RunIds, LaunchTask(r) PROVE TodoOfTask'
  <2> DEFINE nb == Workflow[pos[r]]
  <2>1. /\ nb \in Notebooks /\ todo' = Contracts(nb) /\ task'.notebook = nb
        /\ pc' = FirstStep(nb)
    BY <1>3 DEF LaunchTask, StartTask
  <2> HIDE DEF nb
  <2>2. pc' # "done"
    BY <2>1, FirstStepType
  <2>3. \A k \in DOMAIN todo' : InList(todo'[k], Contracts(nb))
    BY <2>1 DEF InList
  <2> QED BY <2>1, <2>2, <2>3 DEF TodoOfTask
<1>4. ASSUME NEW r \in RunIds, TaskSucceeded(r) \/ TaskFailed(r) PROVE TodoOfTask'
  BY <1>4 DEF TaskSucceeded, TaskFailed, TodoOfTask
<1>5. ASSUME NEW r \in RunIds, Gates(r) PROVE TodoOfTask'
  <2>1. ~running'
    BY <1>5, GateStep
  <2> QED BY <2>1 DEF TodoOfTask
<1>6. CASE NotebookStep \/ NotebookFault
  <2>1. running /\ (TaskStep \/ TaskFault) /\ running' = running
    BY <1>6 DEF NotebookStep, NotebookFault, jobvars
  <2>2. task' = task /\ pc \notin Stopped
    BY <2>1, TaskKept
  <2>3. todo # <<>>
    BY <2>2 DEF TypeOK
  <2>4. \A k \in DOMAIN todo' : InList(todo'[k], Contracts(task.notebook))
    BY <2>1, <2>3, TodoChange, TailOfTodo DEF TodoOfTask
  <2>5. pc' = "done" /\ task.notebook \in Loads => todo' = <<>>
    BY <2>1, TodoChange DEF StepsOfNotebook, Loads
  <2> QED BY <2>1, <2>2, <2>4, <2>5 DEF TodoOfTask
<1>7. CASE Publish /\ UNCHANGED jobvars
  BY <1>7 DEF Publish, GoldPublish, local, jobvars, TodoOfTask
<1> QED
  BY <1>1, <1>2, <1>3, <1>4, <1>5, <1>6, <1>7 DEF JobNext, RunStep, Gates

(* AUDIT.LOAD_AUDIT only grows.                                            *)
LEMMA AuditGrows ==
  ASSUME TypeOK, [Next]_vars
  PROVE  audit' = audit \/ \E a \in AuditRow : audit' = Append(audit, a)
<1>1. ASSUME pc \notin Stopped PROVE FailedRecord \in AuditRow /\ SuccessRecord \in AuditRow
  BY <1>1, RecordType
<1>2. CASE AppendAudit \/ AppendAuditRaises
  BY <1>1, <1>2 DEF AppendAudit, AppendAuditRaises, Stopped
<1>3. CASE AppendFailed \/ AppendFailedRaises
  BY <1>1, <1>3 DEF AppendFailed, AppendFailedRaises, Stopped
<1> QED
  BY <1>2, <1>3 DEF Next, TaskStep, TaskFault, StartTask, CountGold, ClearLanding,
     WriteLandingFrame, VerifyLanding, ValidateLanding, CountLanding, Begin,
     DeleteTarget, InsertFromLanding, CommitTarget, Rollback, CheckTarget,
     QueryRaises, ClearLandingRaises, WriteLandingFrameRaises, StatementRaises,
     CommitUnacknowledged, RollbackRaises, Crash, Publish, GoldPublish, store, vars

LEMMA AuditStep ==
  ASSUME TypeOK, StepsOfNotebook, AuditOfLoads, [JobNext]_allvars
  PROVE  AuditOfLoads'
<1>1. [Next]_vars
  BY JobStepIsLoadStep
<1>2. CASE audit' = audit
  BY <1>2 DEF AuditOfLoads
<1>3. ASSUME NEW a \in AuditRow, audit' = Append(audit, a) PROVE AuditOfLoads'
  <2>1. /\ audit \in Seq(AuditRow) /\ Len(audit') = Len(audit) + 1
        /\ DOMAIN audit' = 1 .. Len(audit) + 1 /\ DOMAIN audit = 1 .. Len(audit)
        /\ audit'[Len(audit')] = a /\ audit' # audit /\ Len(audit) \in Nat
        /\ \A i \in 1 .. Len(audit) : audit'[i] = audit[i]
    BY <1>3 DEF TypeOK
  <2>2. a.status = "SUCCEEDED" => a.pass \in Passes /\ Listed(a.dataset)
    <3> SUFFICES ASSUME a.status = "SUCCEEDED" PROVE a.pass \in Passes /\ Listed(a.dataset)
      OBVIOUS
    <3>1. Succeeds
      BY <2>1 DEF Succeeds
    <3>2. pc = "succeeded" /\ a = SuccessRecord
      BY <1>1, <2>1, <3>1, SucceededStep
    <3>3. task \in Tasks /\ todo # <<>>
      BY <3>2 DEF TypeOK, Stopped
    <3>4. a.pass = task.pass /\ a.dataset = Ds
      BY <3>2 DEF SuccessRecord, Record
    <3>5. Listed(Ds)
      BY <3>3, TailOfTodo DEF StepsOfNotebook, InList
    <3> QED BY <3>3, <3>4, <3>5 DEF Tasks
  <2>3. \A i \in DOMAIN audit' : i \in DOMAIN audit \/ i = Len(audit')
    BY <2>1
  <2> QED BY <2>1, <2>2, <2>3 DEF AuditOfLoads
<1> QED BY <1>1, <1>2, <1>3, AuditGrows

(* From notebook 03 on LANDING keeps rows for every contract.              *)
LEMMA LandedStep ==
  ASSUME ~LateRepair, TypeOK, JobTypes, RunsInTurn, StepsOfNotebook, LandedRows,
         [JobNext]_allvars
  PROVE  LandedRows'
<1> DEFINE m == RunMonth[latest]
           Rich(t) == \A d \in Datasets : Listed(d) => table_count(t[d], Slice(d, m)) > 0
<1> SUFFICES ASSUME Current', Validated(latest)' \/ pos'[latest'] >= 10
             PROVE  latest' = latest /\ Rich(landing')
  BY DEF LandedRows
<1>1. JobTypes' /\ RunsInTurn'
  BY TurnStep
<1>2. pos'[latest'] \in {2, 9} \/ Reload(pos'[latest']) \/ pos'[latest'] >= 10
  <2>1. CASE running' /\ pc' = "done" /\ task'.notebook = "03_validate_landing"
    <3>1. /\ latest' \in RunIds /\ pos'[latest'] <= 15
          /\ Workflow[pos'[latest']] = "03_validate_landing"
      BY <1>1, <2>1 DEF RunsInTurn, Workflow, PassNotebooks
    <3>2. pos'[latest'] \in 1 .. Len(Workflow) + 1
      BY <1>1, <3>1 DEF JobTypes, Workflow, PassNotebooks
    <3>3. pos'[latest'] \in 1 .. 15
      BY <3>1, <3>2, WorkflowOrder
    <3> QED BY <3>1, <3>3, WorkflowOrder
  <2> QED BY <2>1 DEF Validated
<1>3. pos'[latest'] >= 2
  <2>1. pos'[latest'] \in 1 .. Len(Workflow) + 1
    BY <1>1 DEF Current, JobTypes, Workflow, PassNotebooks
  <2>2. pos'[latest'] \in Int
    BY <2>1
  <2> QED BY <1>2, <2>2 DEF Reload
<1>4. /\ Current /\ latest' = latest
      /\ pos[latest] \in 1 .. 15 /\ pos'[latest] \in 1 .. 15
      /\ \/ UNCHANGED <<landing, analytics, pc, task, todo, running, pos>>
         \/ LaunchTask(latest) \/ TaskSucceeded(latest) \/ TaskFailed(latest)
         \/ /\ Gates(latest) /\ UNCHANGED <<landing, analytics>>
            /\ ~running /\ ~running'
            /\ pos' = [pos EXCEPT ![latest] = @ + 1] /\ pos[latest] \in {6, 7, 13, 14}
         \/ running /\ (TaskStep \/ TaskFault) /\ UNCHANGED jobvars
  BY <1>3, RunMoves
<1>5. latest \in RunIds /\ pos \in [RunIds -> Int]
  <2>1. pos \in [RunIds -> 1 .. Len(Workflow) + 1] /\ 1 .. Len(Workflow) + 1 \subseteq Int
    BY DEF JobTypes
  <2> QED BY <1>4, <2>1 DEF Current
<1>6. ASSUME landing' = landing, Validated(latest) \/ pos[latest] >= 10 PROVE Rich(landing')
  BY <1>4, <1>6 DEF LandedRows
<1> HIDE DEF Rich
<1>7. CASE UNCHANGED <<landing, analytics, pc, task, todo, running, pos>>
  BY <1>4, <1>6, <1>7 DEF Validated
<1>8. CASE LaunchTask(latest)
  <2>1. /\ landing' = landing /\ pos' = pos /\ Workflow[pos[latest]] \in Notebooks
        /\ pc' = FirstStep(Workflow[pos[latest]])
    BY <1>8 DEF LaunchTask, StartTask, store
  <2>2. pc' # "done"
    BY <2>1, FirstStepType
  <2> QED BY <1>4, <1>6, <2>1, <2>2 DEF Validated
<1>9. CASE TaskSucceeded(latest)
  <2>1. /\ running /\ pc = "done" /\ ~running' /\ landing' = landing
        /\ pos'[latest] = pos[latest] + 1
    BY <1>5, <1>9 DEF TaskSucceeded, vars
  <2>2. Reload(pos[latest] + 1) \/ pos[latest] + 1 >= 10
    BY <1>4, <2>1 DEF Validated
  <2>3. pos[latest] \in {2, 9} \/ Reload(pos[latest]) \/ pos[latest] >= 10
    BY <1>4, <2>2 DEF Reload
  <2>4. pos[latest] \in {2, 9} => Validated(latest)
    BY <1>4, <2>1, RunningTask, WorkflowOrder DEF Validated
  <2> QED BY <1>4, <1>6, <2>1, <2>3, <2>4 DEF Validated
<1>10. CASE TaskFailed(latest)
  <2>1. landing' = landing /\ pos' = pos /\ ~running'
    BY <1>10 DEF TaskFailed, vars
  <2> QED BY <1>4, <1>6, <2>1 DEF Validated
<1>11. CASE /\ Gates(latest) /\ UNCHANGED <<landing, analytics>> /\ ~running /\ ~running'
            /\ pos' = [pos EXCEPT ![latest] = @ + 1] /\ pos[latest] \in {6, 7, 13, 14}
  <2>1. pos'[latest] = pos[latest] + 1
    BY <1>5, <1>11
  <2>2. pos[latest] >= 10
    BY <1>4, <1>11, <2>1 DEF Validated, Reload
  <2> QED BY <1>4, <1>6, <1>11, <2>2
<1>12. CASE running /\ (TaskStep \/ TaskFault) /\ UNCHANGED jobvars
  <2>1. /\ pos' = pos /\ task' = task /\ task.month = m
        /\ task.notebook = Workflow[pos[latest]]
        /\ pos[latest] \in 1 .. 5 \cup 8 .. 12
    BY <1>12, RunningTask, TaskKept DEF jobvars
  <2>2. CASE Reload(pos[latest])
    <3>1. landing' = landing
      BY <1>4, <1>12, <2>1, <2>2, WorkflowOrder, LoadsKeepLanding
    <3> QED BY <1>4, <1>6, <2>2, <3>1 DEF Validated
  <2>3. CASE ~Reload(pos[latest])
    <3>1. pc' = "done" /\ task.notebook = "03_validate_landing"
      BY <1>4, <2>1, <2>3 DEF Validated, Reload
    <3>2. landing' = landing /\ \A d \in Datasets : Listed(d) => LandingIsValid(d, m)
      BY <1>12, <2>1, <3>1, ValidationDone
    <3> QED BY <1>4, <3>2 DEF LandingIsValid, Rich
  <2> QED BY <2>2, <2>3
<1> QED BY <1>4, <1>7, <1>8, <1>9, <1>10, <1>11, <1>12

(* Every contract is loaded by notebook 04, 05 or 06.                      *)
LEMMA ListedLoads ==
  ASSUME NEW d \in Datasets, Listed(d)
  PROVE  \E j \in 10 .. 12 : InList(d, Contracts(Workflow[j]))
<1> DEFINE F == <<Fact>>
           FD == F \o Dims
<1>1. /\ F \in Seq(Datasets) /\ Len(F) = 1 /\ F[1] = Fact
      /\ Dims \in Seq(Datasets) /\ Aggs \in Seq(Datasets)
  BY ContractsAssumption
<1>2. TABLE_CONTRACTS = FD \o Aggs
  BY DEF TABLE_CONTRACTS
<1>3. /\ Contracts(Workflow[10]) = F /\ Contracts(Workflow[11]) = Dims
      /\ Contracts(Workflow[12]) = Aggs
  BY WorkflowTasks DEF Contracts
<1> HIDE DEF F
<1>4. /\ FD \in Seq(Datasets) /\ Len(FD) = Len(F) + Len(Dims)
      /\ \A i \in 1 .. Len(F) + Len(Dims) :
            FD[i] = IF i <= Len(F) THEN F[i] ELSE Dims[i - Len(F)]
  BY <1>1, ConcatProperties
<1> HIDE DEF FD
<1>5. FD \in Seq(Datasets)
  BY <1>4
<1>6. /\ Len(FD \o Aggs) = Len(FD) + Len(Aggs)
      /\ \A i \in 1 .. Len(FD) + Len(Aggs) :
            (FD \o Aggs)[i] = IF i <= Len(FD) THEN FD[i] ELSE Aggs[i - Len(FD)]
      /\ FD \o Aggs \in Seq(Datasets)
  BY <1>1, <1>5, ConcatProperties
<1>7. DOMAIN TABLE_CONTRACTS = 1 .. Len(FD) + Len(Aggs)
  BY <1>2, <1>6
<1>8. PICK i \in 1 .. Len(FD) + Len(Aggs) : (FD \o Aggs)[i] = d
  BY <1>2, <1>7 DEF Listed
<1>9. Len(F) \in Nat /\ Len(Dims) \in Nat /\ Len(Aggs) \in Nat /\ Len(FD) \in Nat
  BY <1>1, <1>4
<1>10. CASE i > Len(FD)
  <2>1. i - Len(FD) \in DOMAIN Aggs /\ Aggs[i - Len(FD)] = d
    BY <1>1, <1>6, <1>8, <1>9, <1>10
  <2>2. InList(d, Contracts(Workflow[12]))
    BY <1>3, <2>1 DEF InList
  <2> QED BY <2>2
<1>11. CASE i <= Len(FD) /\ i > Len(F)
  <2>1. i - Len(F) \in DOMAIN Dims /\ Dims[i - Len(F)] = d
    BY <1>1, <1>4, <1>6, <1>8, <1>9, <1>11
  <2>2. InList(d, Contracts(Workflow[11]))
    BY <1>3, <2>1 DEF InList
  <2> QED BY <2>2
<1>12. CASE i <= Len(FD) /\ i <= Len(F)
  <2>1. i \in DOMAIN F /\ F[i] = d
    BY <1>1, <1>4, <1>6, <1>8, <1>9, <1>12
  <2>2. InList(d, Contracts(Workflow[10]))
    BY <1>3, <2>1 DEF InList
  <2> QED BY <2>2
<1> QED BY <1>8, <1>9, <1>10, <1>11, <1>12

(* In the second pass a load leaves the slice as it is in LANDING.         *)
LEMMA ReloadedStep ==
  ASSUME ~LateRepair, TypeOK, LoadInv, JobTypes, RunsInTurn, StepsOfNotebook,
         TodoOfTask, Reloaded, [JobNext]_allvars
  PROVE  Reloaded'
<1> DEFINE m == RunMonth[latest]
<1> SUFFICES ASSUME Current', pos'[latest'] >= 10, NEW d \in Datasets, Listed(d)
             PROVE  latest' = latest /\ (Same(d, m)' \/ Pending(d, pos'[latest], ToDo'))
  BY DEF Reloaded, Listed, Pending
<1>1. JobTypes'
  BY TurnStep
<1>2. pos'[latest'] >= 2
  <2>1. pos'[latest'] \in 1 .. Len(Workflow) + 1
    BY <1>1 DEF Current, JobTypes, Workflow, PassNotebooks
  <2>2. pos'[latest'] \in Int
    BY <2>1
  <2> QED BY <2>2
<1>3. /\ Current /\ latest' = latest
      /\ pos[latest] \in 1 .. 15 /\ pos'[latest] \in 1 .. 15
      /\ \/ UNCHANGED <<landing, analytics, pc, task, todo, running, pos>>
         \/ LaunchTask(latest) \/ TaskSucceeded(latest) \/ TaskFailed(latest)
         \/ /\ Gates(latest) /\ UNCHANGED <<landing, analytics>>
            /\ ~running /\ ~running'
            /\ pos' = [pos EXCEPT ![latest] = @ + 1] /\ pos[latest] \in {6, 7, 13, 14}
         \/ running /\ (TaskStep \/ TaskFault) /\ UNCHANGED jobvars
  BY <1>2, RunMoves
<1>4. latest \in RunIds /\ pos \in [RunIds -> Int]
  <2>1. pos \in [RunIds -> 1 .. Len(Workflow) + 1] /\ 1 .. Len(Workflow) + 1 \subseteq Int
    BY DEF JobTypes
  <2> QED BY <1>3, <2>1 DEF Current
<1>5. pos[latest] >= 10 => Same(d, m) \/ Pending(d, pos[latest], ToDo)
  BY <1>3 DEF Reloaded
<1>6. UNCHANGED <<landing, analytics>> => (Same(d, m) => Same(d, m)')
  BY <1>3 DEF Same, Slice
<1> DEFINE Goal == Same(d, m)' \/ Pending(d, pos'[latest], ToDo')
<1>7. CASE UNCHANGED <<landing, analytics, pc, task, todo, running, pos>>
  <2>1. ToDo' = ToDo
    BY <1>3, <1>7 DEF ToDo, Contracts, Workflow, PassNotebooks, TABLE_CONTRACTS
  <2> QED BY <1>3, <1>5, <1>6, <1>7, <2>1
<1>8. CASE LaunchTask(latest)
  <2>1. /\ UNCHANGED <<landing, analytics, pos>> /\ ~running /\ running'
        /\ todo' = Contracts(Workflow[pos[latest]])
    BY <1>8 DEF LaunchTask, StartTask, store
  <2>2. ToDo' = ToDo
    BY <1>3, <2>1 DEF ToDo
  <2> QED BY <1>3, <1>5, <1>6, <2>1, <2>2
<1>9. CASE TaskSucceeded(latest)
  <2>1. /\ running /\ pc = "done" /\ ~running' /\ UNCHANGED <<landing, analytics>>
        /\ pos'[latest] = pos[latest] + 1
    BY <1>4, <1>9 DEF TaskSucceeded, vars
  <2>2. ToDo' = Contracts(Workflow[pos[latest] + 1])
    BY <1>3, <2>1 DEF ToDo, Workflow, PassNotebooks, Contracts, TABLE_CONTRACTS
  <2>3. CASE pos[latest] = 9
    <3>1. PICK j \in 10 .. 12 : InList(d, Contracts(Workflow[j]))
      BY ListedLoads
    <3>2. j > 10 \/ j = 10
      OBVIOUS
    <3> QED BY <1>3, <2>1, <2>2, <2>3, <3>1, <3>2 DEF Pending
  <2>4. CASE pos[latest] >= 10
    <3>1. todo = <<>>
      BY <2>1, <2>4, RunningTask DEF TodoOfTask
    <3>2. ~InList(d, ToDo)
      BY <2>1, <3>1 DEF InList, ToDo
    <3>3. Pending(d, pos[latest], ToDo) => Pending(d, pos[latest] + 1, ToDo')
      <4> SUFFICES ASSUME Pending(d, pos[latest], ToDo)
                   PROVE  Pending(d, pos[latest] + 1, ToDo')
        OBVIOUS
      <4>1. PICK j \in 10 .. 12 : j > pos[latest] /\ InList(d, Contracts(Workflow[j]))
        BY <3>2 DEF Pending
      <4>2. j > pos[latest] + 1 \/ j = pos[latest] + 1
        BY <1>3, <4>1
      <4> QED BY <2>2, <4>1, <4>2 DEF Pending
    <3> QED BY <1>3, <1>5, <1>6, <2>1, <2>4, <3>3
  <2> QED BY <1>3, <2>1, <2>3, <2>4
<1>10. CASE TaskFailed(latest)
  <2>1. /\ running /\ ~running' /\ UNCHANGED <<landing, analytics, pos>>
    BY <1>10 DEF TaskFailed, vars
  <2>2. ToDo = todo /\ ToDo' = Contracts(Workflow[pos[latest]])
    BY <1>3, <2>1 DEF ToDo, Workflow, PassNotebooks, Contracts, TABLE_CONTRACTS
  <2>3. InList(d, todo) => InList(d, Contracts(Workflow[pos[latest]]))
    BY <2>1, RunningTask DEF TodoOfTask, InList
  <2> QED BY <1>3, <1>5, <1>6, <2>1, <2>2, <2>3 DEF Pending
<1>11. CASE /\ Gates(latest) /\ UNCHANGED <<landing, analytics>> /\ ~running /\ ~running'
            /\ pos' = [pos EXCEPT ![latest] = @ + 1] /\ pos[latest] \in {6, 7, 13, 14}
  <2>1. pos'[latest] = pos[latest] + 1
    BY <1>4, <1>11
  <2>2. pos[latest] \in {13, 14}
    BY <1>3, <1>11, <2>1
  <2>3. ~Pending(d, pos[latest], ToDo)
    BY <2>2 DEF Pending
  <2> QED BY <1>3, <1>5, <1>6, <1>11, <2>2, <2>3
<1>12. CASE running /\ (TaskStep \/ TaskFault) /\ UNCHANGED jobvars
  <2>1. /\ pos' = pos /\ running' = running /\ task' = task /\ task.month = m
        /\ pos[latest] \in 10 .. 12 /\ task.notebook \in Loads
    BY <1>3, <1>12, RunningTask, TaskKept DEF jobvars
  <2>2. landing' = landing
    BY <1>12, <2>1, LoadsKeepLanding
  <2>3. ToDo = todo /\ ToDo' = todo'
    BY <1>12, <2>1 DEF ToDo
  <2>4. pc \notin Stopped /\ todo # <<>> /\ Ds \in Datasets
    BY <1>12, TaskKept, RecordType DEF TypeOK
  <2>5. CASE todo' = todo
    <3>1. d # Ds => analytics'[d] = analytics[d]
      BY <1>12, <2>4, AnalyticsChange DEF TypeOK
    <3>2. d = Ds => Pending(d, pos'[latest], ToDo')
      BY <2>1, <2>3, <2>4, <2>5, TailOfTodo DEF Pending
    <3>3. d # Ds => (Same(d, m) => Same(d, m)')
      BY <1>3, <2>2, <3>1 DEF Same, Slice
    <3> QED BY <1>3, <1>5, <2>1, <2>3, <2>5, <3>2, <3>3
  <2>6. CASE /\ todo' = Tail(todo) /\ UNCHANGED <<landing, analytics>>
             /\ pc \in {"landed", "succeeded"}
    <3>1. pc = "succeeded"
      BY <2>1, <2>6 DEF StepsOfNotebook, LandingSteps, Loads
    <3>2. d = Ds => Same(d, m)
      <4>1. analytics[Ds] = Replacement(Ds, m, prior)
        BY <2>1, <3>1 DEF LoadInv, WorkIsReplacement
      <4>2. prior \in Table /\ landing[Ds] \in Table
        BY <2>4 DEF TypeOK
      <4> QED BY <2>4, <4>1, <4>2, ReplacedSlice DEF Same
    <3>3. InList(d, todo) => d = Ds \/ InList(d, Tail(todo))
      BY <2>4, TailOfTodo DEF InList
    <3>4. Pending(d, pos[latest], todo) => d = Ds \/ Pending(d, pos[latest], Tail(todo))
      BY <3>3 DEF Pending
    <3> QED BY <1>3, <1>5, <1>6, <2>1, <2>3, <2>6, <3>2, <3>4
  <2> QED BY <1>12, <2>5, <2>6, TodoChange
<1> QED BY <1>3, <1>7, <1>8, <1>9, <1>10, <1>11, <1>12

(* What the rows of a reconciliation that passes say.                      *)
LEMMA RowsPass ==
  ASSUME NEW m, \A i \in DOMAIN ReconciliationRows(m) : ReconciliationRows(m)[i]
  PROVE  MonthReconciled(m)
<1> DEFINE counts == [i \in DOMAIN TABLE_CONTRACTS |-> CountsReconcile(TABLE_CONTRACTS[i], m)]
           totals == [i \in DOMAIN Aggs |-> TotalsReconcile(Aggs[i], m)]
           places == <<LocationsResolve(m)>>
           cp == counts \o places
<1>1. TABLE_CONTRACTS \in Seq(Datasets) /\ Aggs \in Seq(Datasets)
  BY ContractsType, ContractsAssumption DEF Contracts, Notebooks
<1>2. counts \in Seq(BOOLEAN)
  <2>1. \A i \in DOMAIN TABLE_CONTRACTS : CountsReconcile(TABLE_CONTRACTS[i], m) \in BOOLEAN
    BY DEF CountsReconcile
  <2> QED BY <1>1, <2>1
<1>3. totals \in Seq(BOOLEAN) /\ DOMAIN totals = DOMAIN Aggs
      /\ \A i \in DOMAIN Aggs : totals[i] = TotalsReconcile(Aggs[i], m)
  <2>1. \A i \in DOMAIN Aggs : TotalsReconcile(Aggs[i], m) \in BOOLEAN
    BY DEF TotalsReconcile
  <2> QED BY <1>1, <2>1
<1>4. places \in Seq(BOOLEAN) /\ Len(places) = 1 /\ places[1] = LocationsResolve(m)
  BY DEF LocationsResolve
<1>5. ReconciliationRows(m) = cp \o totals
  BY DEF ReconciliationRows
<1> HIDE DEF counts, totals, places
<1>6. /\ cp \in Seq(BOOLEAN) /\ Len(cp) = Len(counts) + Len(places)
      /\ \A i \in 1 .. Len(counts) + Len(places) :
            cp[i] = IF i <= Len(counts) THEN counts[i] ELSE places[i - Len(counts)]
  BY <1>2, <1>4, ConcatProperties
<1> HIDE DEF cp
<1>7. cp \in Seq(BOOLEAN)
  BY <1>6
<1>8. /\ cp \o totals \in Seq(BOOLEAN) /\ Len(cp \o totals) = Len(cp) + Len(totals)
      /\ \A i \in 1 .. Len(cp) + Len(totals) :
            (cp \o totals)[i] = IF i <= Len(cp) THEN cp[i] ELSE totals[i - Len(cp)]
  BY <1>3, <1>7, ConcatProperties
<1>9. Len(counts) \in Nat /\ Len(cp) = Len(counts) + 1 /\ Len(totals) \in Nat
  BY <1>2, <1>3, <1>4, <1>6
<1>10. \A i \in 1 .. Len(cp) + Len(totals) : (cp \o totals)[i]
  BY <1>5, <1>8
<1>11. LocationsResolve(m)
  <2>1. cp[Len(cp)] = LocationsResolve(m)
    BY <1>4, <1>6, <1>9
  <2>2. (cp \o totals)[Len(cp)] = cp[Len(cp)]
    BY <1>8, <1>9
  <2> QED BY <1>9, <1>10, <2>1, <2>2
<1>12. ASSUME NEW i \in DOMAIN Aggs PROVE TotalsReconcile(Aggs[i], m)
  <2>1. i \in 1 .. Len(totals)
    BY <1>3
  <2>2. (cp \o totals)[Len(cp) + i] = totals[i]
    BY <1>8, <1>9, <2>1
  <2> QED BY <1>3, <1>9, <1>10, <2>1, <2>2
<1> QED BY <1>11, <1>12 DEF MonthReconciled

(* Nothing the rows compare changes between notebook 07 and the end.       *)
LEMMA SameReconciliation ==
  ASSUME UNCHANGED analytics, NEW m
  PROVE  MonthReconciled(m) => MonthReconciled(m)'
<1>1. \A d : BatchRows(d, m)' = BatchRows(d, m)
  BY DEF BatchRows, Slice, IsSnapshot
<1>2. table_count(analytics[Fact], Slice(Fact, m))' = table_count(analytics[Fact], Slice(Fact, m))
  BY DEF table_count, Copies, Slice, IsSnapshot
<1>3. LocationsResolve(m)' = LocationsResolve(m)
  BY <1>1 DEF LocationsResolve
<1>4. ASSUME NEW d PROVE TotalsReconcile(d, m)' = TotalsReconcile(d, m)
  BY <1>1, <1>2 DEF TotalsReconcile
<1> QED BY <1>3, <1>4 DEF MonthReconciled

LEMMA ReconciledStep ==
  ASSUME ~LateRepair, TypeOK, JobTypes, RunsInTurn, Reconciled, [JobNext]_allvars
  PROVE  Reconciled'
<1> DEFINE m == RunMonth[latest]
<1> SUFFICES ASSUME Current', pos'[latest'] >= 14
             PROVE  latest' = latest /\ MonthReconciled(m)'
  BY DEF Reconciled, MonthReconciled, LocationsResolve, TotalsReconcile, BatchRows, Slice,
         table_count, Copies
<1>1. JobTypes'
  BY TurnStep
<1>2. pos'[latest'] >= 2
  <2>1. pos'[latest'] \in 1 .. Len(Workflow) + 1
    BY <1>1 DEF Current, JobTypes, Workflow, PassNotebooks
  <2>2. pos'[latest'] \in Int
    BY <2>1
  <2> QED BY <2>2
<1>3. /\ Current /\ latest' = latest
      /\ pos[latest] \in 1 .. 15 /\ pos'[latest] \in 1 .. 15
      /\ \/ UNCHANGED <<landing, analytics, pc, task, todo, running, pos>>
         \/ LaunchTask(latest) \/ TaskSucceeded(latest) \/ TaskFailed(latest)
         \/ /\ Gates(latest) /\ UNCHANGED <<landing, analytics>>
            /\ ~running /\ ~running'
            /\ pos' = [pos EXCEPT ![latest] = @ + 1] /\ pos[latest] \in {6, 7, 13, 14}
         \/ running /\ (TaskStep \/ TaskFault) /\ UNCHANGED jobvars
  BY <1>2, RunMoves
<1>4. latest \in RunIds /\ pos \in [RunIds -> Int]
  <2>1. pos \in [RunIds -> 1 .. Len(Workflow) + 1] /\ 1 .. Len(Workflow) + 1 \subseteq Int
    BY DEF JobTypes
  <2> QED BY <1>3, <2>1 DEF Current
<1>5. pos[latest] >= 14 => MonthReconciled(m)
  BY <1>3 DEF Reconciled
<1>6. CASE UNCHANGED <<landing, analytics, pc, task, todo, running, pos>>
  BY <1>3, <1>5, <1>6, SameReconciliation
<1>7. CASE LaunchTask(latest)
  <2>1. pos' = pos /\ Workflow[pos[latest]] \in Notebooks
    BY <1>7 DEF LaunchTask
  <2> QED BY <1>3, <2>1, WorkflowOrder
<1>8. CASE TaskSucceeded(latest) \/ TaskFailed(latest)
  <2>1. running /\ pos'[latest] \in {pos[latest], pos[latest] + 1}
    BY <1>4, <1>8 DEF TaskSucceeded, TaskFailed
  <2> QED BY <1>3, <2>1, RunningTask
<1>9. CASE /\ Gates(latest) /\ UNCHANGED <<landing, analytics>> /\ ~running /\ ~running'
           /\ pos' = [pos EXCEPT ![latest] = @ + 1] /\ pos[latest] \in {6, 7, 13, 14}
  <2>1. pos'[latest] = pos[latest] + 1
    BY <1>4, <1>9
  <2>2. CASE pos[latest] = 14
    BY <1>3, <1>5, <1>9, <2>2, SameReconciliation
  <2>3. CASE pos[latest] = 13
    <3>1. pos' # pos
      BY <1>4, <2>1
    <3>2. Workflow[pos[latest]] = "07_reconcile_phase7"
      BY <2>3, WorkflowTasks
    <3>3. Reconcile(latest)
      BY <1>9, <3>1, <3>2 DEF Gates, ReconcileRaises, ValidateAudit, ValidateIdempotency,
         GateRaises, AtGate, GateOutcome
    <3>4. \A i \in DOMAIN ReconciliationRows(m) : ReconciliationRows(m)[i]
      BY <3>1, <3>3 DEF Reconcile, GateOutcome
    <3>5. MonthReconciled(m)
      BY <3>4, RowsPass
    <3> QED BY <1>3, <1>9, <3>5, SameReconciliation
  <2> QED BY <1>3, <1>9, <2>1, <2>2, <2>3
<1>10. CASE running /\ (TaskStep \/ TaskFault) /\ UNCHANGED jobvars
  BY <1>3, <1>10, RunningTask DEF jobvars
<1> QED BY <1>3, <1>6, <1>7, <1>8, <1>9, <1>10

(* Two copies of equal rows are counted alike.                             *)
LEMMA SameCount ==
  ASSUME NEW t, NEW u, NEW S, \A x \in S : t[x] = u[x]
  PROVE  table_count(t, S) = table_count(u, S)
<1>1. Copies(t, S) = Copies(u, S)
  BY DEF Copies
<1> QED BY <1>1 DEF table_count

(* Two different passes among 1 and 2 are both.                            *)
LEMMA BothPasses ==
  ASSUME NEW S, S \subseteq {1, 2}, Cardinality(S) >= 2
  PROVE  S = {1, 2}
<1>1. IsFiniteSet({1, 2}) /\ Cardinality({1, 2}) = 2
  <2>1. IsFiniteSet({1}) /\ Cardinality({1}) = 1
    BY FS_Singleton
  <2>2. IsFiniteSet({1} \cup {2}) /\ Cardinality({1} \cup {2}) = Cardinality({1}) + 1
    BY <2>1, ~(2 \in {1}), FS_AddElement
  <2>3. {1} \cup {2} = {1, 2}
    OBVIOUS
  <2> QED BY <2>1, <2>2, <2>3
<1>2. IsFiniteSet(S) /\ Cardinality(S) <= 2 /\ (2 = Cardinality(S) => {1, 2} = S)
  BY <1>1, FS_Subset
<1>3. Cardinality(S) \in Nat
  BY <1>2, FS_CardinalityType
<1> QED BY <1>2, <1>3

(* A contract that was stable was loaded in each pass.                     *)
LEMMA StableLoads ==
  ASSUME AuditOfLoads, NEW r \in RunIds, NEW d \in Datasets, NEW m, StableSucceeded(r, d, m)
  PROVE  /\ Listed(d)
         /\ \A p \in Passes : \E i \in Audited(r, "SUCCEEDED") :
               audit[i].dataset = d /\ audit[i].pass = p
<1> DEFINE I == {i \in Audited(r, "SUCCEEDED") :
                    audit[i].dataset = d /\ audit[i].month = Part(d, m)}
           rows == {audit[i] : i \in I}
           P == {a.pass : a \in rows}
<1>1. Cardinality(P) >= 2
  BY DEF StableSucceeded
<1>2. \A i \in I : audit[i].pass \in {1, 2} /\ Listed(audit[i].dataset)
  BY JobAssumption DEF AuditOfLoads, Audited
<1>3. P \subseteq {1, 2}
  BY <1>2
<1>4. P = {1, 2}
  BY <1>1, <1>3, BothPasses
<1>5. \A p \in {1, 2} : \E i \in I : audit[i].pass = p
  BY <1>4
<1> QED BY <1>2, <1>5, JobAssumption

(* The only step that finishes a run is a notebook 09 that passes.         *)
LEMMA FinishingStep ==
  ASSUME TypeOK, JobTypes, RunsInTurn, [JobNext]_allvars, NEW r \in RunIds,
         status[r] # "finished", status'[r] = "finished"
  PROVE  r = latest /\ status[r] = "active" /\ pos[r] = 15 /\ ~running /\ Idempotent(r)
<1>1. status \in [RunIds -> {"waiting", "active", "failed", "finished"}]
  BY DEF JobTypes
<1>2. ~(UNCHANGED status)
  OBVIOUS
<1>3. PICK q \in RunIds : Gates(q)
  <2>1. ASSUME NEW q \in RunIds, StartRun(q) \/ RepairRun(q) \/ LaunchTask(q)
                                 \/ TaskSucceeded(q) \/ TaskFailed(q)
        PROVE  FALSE
    BY <1>1, <2>1 DEF StartRun, RepairRun, LaunchTask, TaskSucceeded, TaskFailed
  <2> QED
    BY <1>2, <2>1 DEF JobNext, RunStep, Gates, NotebookStep, NotebookFault, jobvars, allvars
<1>4. q = r /\ status[r] = "active" /\ ~running
  BY <1>3, GateStep
<1>5. r = latest /\ pos[r] \in 1 .. 15
  <2>1. pos[r] \in 1 .. Len(Workflow) + 1
    BY DEF JobTypes
  <2> QED BY <1>4, <2>1, WorkflowTasks DEF RunsInTurn
<1>6. pos[r] = 15
  BY <1>1, <1>3, <1>4, WorkflowTasks DEF Gates, Reconcile, ReconcileRaises, ValidateAudit,
     ValidateIdempotency, GateRaises, GateOutcome
<1>7. Workflow[pos[r]] = "09_validate_idempotency"
  BY <1>6, WorkflowTasks
<1>8. Idempotent(r)
  BY <1>1, <1>3, <1>4, <1>7 DEF Gates, Reconcile, ReconcileRaises, ValidateAudit,
     ValidateIdempotency, GateRaises, GateOutcome, AtGate
<1> QED BY <1>4, <1>5, <1>6, <1>8

(* What a run has shown when it finishes.                                  *)
LEMMA FinishStep ==
  ASSUME TypeOK, JobTypes, RunsInTurn, FinishInv, [JobNext]_allvars, NEW r \in RunIds,
         status[r] # "finished", status'[r] = "finished"
  PROVE  LET m == RunMonth[r] IN
         /\ \A d \in Datasets :
              /\ \A x \in Slice(d, m) : analytics[d][x] = landing[d][x]
              /\ table_count(analytics[d], Slice(d, m)) > 0
              /\ \A p \in Passes : \E i \in Audited(r, "SUCCEEDED") :
                    audit[i].dataset = d /\ audit[i].pass = p
         /\ LocationsResolve(m)
         /\ \A i \in DOMAIN Aggs : TotalsReconcile(Aggs[i], m)
<1> DEFINE m == RunMonth[r]
<1>1. r = latest /\ status[r] = "active" /\ pos[r] = 15 /\ ~running /\ Idempotent(r)
  BY FinishingStep
<1>2. Current
  BY <1>1 DEF Current
<1>3. ASSUME NEW d \in Datasets
      PROVE  /\ \A x \in Slice(d, m) : analytics[d][x] = landing[d][x]
             /\ table_count(analytics[d], Slice(d, m)) > 0
             /\ \A p \in Passes : \E i \in Audited(r, "SUCCEEDED") :
                   audit[i].dataset = d /\ audit[i].pass = p
  <2>1. StableSucceeded(r, d, m)
    BY <1>1 DEF Idempotent
  <2>2. /\ Listed(d)
        /\ \A p \in Passes : \E i \in Audited(r, "SUCCEEDED") :
              audit[i].dataset = d /\ audit[i].pass = p
    BY <2>1, StableLoads DEF FinishInv
  <2>3. Same(d, m)
    BY <1>1, <1>2, <2>2 DEF FinishInv, Reloaded, Pending
  <2>4. table_count(landing[d], Slice(d, m)) > 0
    BY <1>1, <1>2, <2>2 DEF FinishInv, LandedRows
  <2>5. table_count(analytics[d], Slice(d, m)) = table_count(landing[d], Slice(d, m))
    BY <2>3, SameCount DEF Same
  <2> QED BY <2>2, <2>3, <2>4, <2>5 DEF Same
<1>4. MonthReconciled(m)
  BY <1>1, <1>2 DEF FinishInv, Reconciled
<1> QED BY <1>3, <1>4 DEF MonthReconciled

(* The invariant behind it, across every fault and repair.                 *)
LEMMA FinishKept ==
  ASSUME ~LateRepair, TypeOK, LoadInv, JobTypes, JobInv, FinishInv, [JobNext]_allvars
  PROVE  FinishInv'
BY TodoStep, AuditStep, LandedStep, ReloadedStep, ReconciledStep DEF FinishInv, JobInv

(* The invariant of finishing.                                             *)
LEMMA FinishInvariant == ~LateRepair => (JobSpec => []FinishInv)
<1> SUFFICES ASSUME ~LateRepair PROVE JobSpec => []FinishInv
  OBVIOUS
<1>1. TypeOK /\ LoadInv /\ JobTypes /\ JobInv /\ FinishInv /\ [JobNext]_allvars
      => FinishInv'
  BY FinishKept
<1> QED BY <1>1, FinishInit, JobInvariant, PTL DEF JobSpec

(* A run finishes only over a batch that is whole: ANALYTICS holds the     *)
(* month's slice of every contract as LANDING does, not empty, and every   *)
(* contract was loaded in both passes; every trip finds its location and   *)
(* the aggregates add up to the facts.  This is so whatever calls raise,   *)
(* whenever Gold is rebuilt and however often the run was repaired,        *)
(* provided that it is not repaired once another has started.              *)
THEOREM FinishedRunCorrect == ~LateRepair => (JobSpec => FinishedRunIsConsistent)
<1> SUFFICES ASSUME ~LateRepair PROVE JobSpec => FinishedRunIsConsistent
  OBVIOUS
<1> DEFINE A == \A r \in RunIds :
          status[r] # "finished" /\ status'[r] = "finished" =>
            LET m == RunMonth[r] IN
            /\ \A d \in Datasets :
                 /\ \A x \in Slice(d, m) : analytics[d][x] = landing[d][x]
                 /\ table_count(analytics[d], Slice(d, m)) > 0
                 /\ \A p \in Passes : \E i \in Audited(r, "SUCCEEDED") :
                       audit[i].dataset = d /\ audit[i].pass = p
            /\ LocationsResolve(m)
            /\ \A i \in DOMAIN Aggs : TotalsReconcile(Aggs[i], m)
<1>1. JobSpec => [](TypeOK /\ LoadInv /\ JobTypes /\ JobInv)
  BY JobInvariant
<1>2. JobSpec => []FinishInv
  BY FinishInvariant
<1>3. TypeOK /\ LoadInv /\ JobTypes /\ JobInv /\ FinishInv /\ [JobNext]_allvars => A
  <2> SUFFICES ASSUME TypeOK, JobTypes, RunsInTurn, FinishInv, [JobNext]_allvars PROVE A
    BY DEF JobInv
  <2> QED BY FinishStep
<1> QED BY <1>1, <1>2, <1>3, PTL DEF JobSpec, FinishedRunIsConsistent
=============================================================================
