---------------------------- MODULE SnowflakeJob ----------------------------
(***************************************************************************)
(* The Phase 7 workflow around SnowflakeLoad: for each of the two          *)
(* idempotency passes the notebooks 02 to 08, then 09.  One workflow run   *)
(* is active at a time; a run whose task failed may be repaired, which     *)
(* starts it again at the failed task.  Notebooks 07, 08 and 09 are the    *)
(* gates between what was loaded and a successful run.                     *)
(***************************************************************************)
EXTENDS SnowflakeLoad, FiniteSetsExt

CONSTANTS
    RunMonth,    \* RunMonth[r]: the source period run r loads
    ZoneOf,      \* ZoneOf[k]: the dimension key a trip or an aggregate row refers to
    TripCount,   \* TripCount[k, m, v]: the trip_count of an aggregate row
    MaxRepairs,  \* bound: repairs that load or reconcile again
    LateRepair   \* whether a run is repaired after another run has started

ASSUME JobAssumption ==
    /\ Null \notin RunIds
    /\ RunMonth \in [RunIds -> Months]
    /\ ZoneOf \in [Keys -> Keys]
    /\ TripCount \in [Keys \X Months \X Versions -> Nat]
    /\ Passes = {1, 2}
    /\ MaxRepairs \in Nat
    /\ LateRepair \in BOOLEAN

PassNotebooks == <<"02_load_landing", "03_validate_landing", "04_load_fact_trips",
                   "05_load_dimensions", "06_load_aggregates",
                   "07_reconcile_phase7", "08_validate_audit">>

(* The tasks of a run: both passes, then the idempotency gate.             *)
Workflow == PassNotebooks \o PassNotebooks \o <<"09_validate_idempotency">>

PassOf(i) == IF i <= Len(PassNotebooks) THEN 1 ELSE 2

VARIABLES
    status,   \* status[r]: waiting, active, failed or finished
    pos,      \* pos[r]: the workflow task r is at
    running,  \* whether a task of SnowflakeLoad is running for the active run
    latest,   \* the run that was activated last
    recon,    \* recon[r]: rows of AUDIT.RECONCILIATION_RESULTS, TRUE for PASS
    repairs,  \* repairs so far
    gatefaults \* gate queries that raised so far; faults counts the others

jobvars == <<status, pos, running, latest, recon, repairs, gatefaults>>
allvars == <<vars, jobvars>>

JobInit ==
    /\ Init
    /\ status = [r \in RunIds |-> "waiting"]
    /\ pos = [r \in RunIds |-> 1]
    /\ running = FALSE
    /\ latest = Null
    /\ recon = [r \in RunIds |-> <<>>]
    /\ repairs = 0 /\ gatefaults = 0

NoActiveRun == \A r \in RunIds : status[r] # "active"

-----------------------------------------------------------------------------
(* Starting, repairing and advancing a run. *)

(* Faulty variant: a second run may start beside an active one.            *)
StartRunBeside(r) ==
    /\ status[r] = "waiting"
    /\ status' = [status EXCEPT ![r] = "active"]
    /\ latest' = r
    /\ UNCHANGED <<vars, pos, running, recon, repairs, gatefaults>>

StartRun(r) ==
    /\ NoActiveRun
    /\ status[r] = "waiting"
    /\ status' = [status EXCEPT ![r] = "active"]
    /\ latest' = r
    /\ UNCHANGED <<vars, pos, running, recon, repairs, gatefaults>>

(* Repair starts a failed run again at its failed task.  Repairs at the    *)
(* gates 08 and 09, which only read, are not bounded.                      *)
OnlyReads(nb) == nb \in {"08_validate_audit", "09_validate_idempotency"}

RepairRun(r) ==
    /\ NoActiveRun
    /\ status[r] = "failed"
    /\ LateRepair \/ latest = r
    /\ IF OnlyReads(Workflow[pos[r]])
       THEN repairs' = repairs
       ELSE repairs < MaxRepairs /\ repairs' = repairs + 1
    /\ status' = [status EXCEPT ![r] = "active"]
    /\ latest' = r
    /\ UNCHANGED <<vars, pos, running, recon, gatefaults>>

(* Faulty variant: the position of the task is passed on as its pass.      *)
LaunchTaskWithPosition(r) ==
    /\ status[r] = "active" /\ ~running
    /\ Workflow[pos[r]] \in Notebooks
    /\ StartTask([notebook |-> Workflow[pos[r]], run |-> r,
                  month |-> RunMonth[r], pass |-> pos[r]])
    /\ running' = TRUE
    /\ UNCHANGED <<status, pos, latest, recon, repairs, gatefaults>>

LaunchTask(r) ==
    /\ status[r] = "active" /\ ~running
    /\ Workflow[pos[r]] \in Notebooks
    /\ StartTask([notebook |-> Workflow[pos[r]], run |-> r,
                  month |-> RunMonth[r], pass |-> PassOf(pos[r])])
    /\ running' = TRUE
    /\ UNCHANGED <<status, pos, latest, recon, repairs, gatefaults>>

TaskSucceeded(r) ==
    /\ status[r] = "active" /\ running /\ pc = "done"
    /\ running' = FALSE
    /\ pos' = [pos EXCEPT ![r] = @ + 1]
    /\ UNCHANGED <<vars, status, latest, recon, repairs, gatefaults>>

(* Faulty variant: a task that failed with contracts left is not noticed.  *)
TaskFailedUnnoticed(r) ==
    /\ status[r] = "active" /\ running /\ pc = "raised" /\ todo = <<>>
    /\ running' = FALSE
    /\ status' = [status EXCEPT ![r] = "failed"]
    /\ UNCHANGED <<vars, pos, latest, recon, repairs, gatefaults>>

TaskFailed(r) ==
    /\ status[r] = "active" /\ running /\ pc = "raised"
    /\ running' = FALSE
    /\ status' = [status EXCEPT ![r] = "failed"]
    /\ UNCHANGED <<vars, pos, latest, recon, repairs, gatefaults>>

-----------------------------------------------------------------------------
(* The gates. *)

(* A gate that passes ends its task; one that raises fails the run.        *)
GateOutcome(r, passes) ==
    IF passes
    THEN /\ pos' = [pos EXCEPT ![r] = @ + 1]
         /\ status' = IF pos[r] = Len(Workflow)
                      THEN [status EXCEPT ![r] = "finished"] ELSE status
    ELSE status' = [status EXCEPT ![r] = "failed"] /\ UNCHANGED pos

AtGate(r, nb) == status[r] = "active" /\ ~running /\ Workflow[pos[r]] = nb

(* Rows of LANDING and of ANALYTICS agree in number, keys are unique.      *)
CountsReconcile(d, m) ==
    /\ table_count(analytics[d], Slice(d, m)) = table_count(landing[d], Slice(d, m))
    /\ ~HasDuplicateKey(d, analytics[d])

BatchRows(d, m) == {r \in Slice(d, m) : analytics[d][r] > 0}

(* Faulty variant: an inner join hides the trips that find no location.    *)
KnownLocationsResolve(m) ==
    \A i \in DOMAIN Dims : \A f \in BatchRows(Fact, m), z \in BatchRows(Dims[i], m) :
        z.key = ZoneOf[f.key] => analytics[Dims[i]][z] > 0

(* Every trip of the batch finds its location.                             *)
LocationsResolve(m) ==
    \A i \in DOMAIN Dims : \A f \in BatchRows(Fact, m) :
        \E z \in BatchRows(Dims[i], m) : z.key = ZoneOf[f.key]

(* The trip counts of an aggregate add up to the facts of the batch.       *)
TotalsReconcile(d, m) ==
    table_count(analytics[Fact], Slice(Fact, m)) =
    SumFunction([r \in BatchRows(d, m) |->
                    analytics[d][r] * TripCount[r.key, m, r.ver]])

(* Faulty variant: an aggregate is compared with its LANDING only.         *)
RowsWithoutTotals(m) ==
    [i \in DOMAIN TABLE_CONTRACTS |-> CountsReconcile(TABLE_CONTRACTS[i], m)]
    \o <<LocationsResolve(m)>>
    \o [i \in DOMAIN Aggs |-> CountsReconcile(Aggs[i], m)]

(* The rows notebook 07 records, in order: one per contract, one for the   *)
(* relationships, one per aggregate total.                                 *)
ReconciliationRows(m) ==
    [i \in DOMAIN TABLE_CONTRACTS |-> CountsReconcile(TABLE_CONTRACTS[i], m)]
    \o <<LocationsResolve(m)>>
    \o [i \in DOMAIN Aggs |-> TotalsReconcile(Aggs[i], m)]

Checks == Len(TABLE_CONTRACTS) + 1 + Len(Aggs)

GateFault == faults + gatefaults < MaxFaults /\ gatefaults' = gatefaults + 1

(* Notebook 07: every row is inserted before a failed one raises.          *)
Reconcile(r) ==
    LET rows == ReconciliationRows(RunMonth[r]) IN
    /\ AtGate(r, "07_reconcile_phase7")
    /\ recon' = [recon EXCEPT ![r] = @ \o rows]
    /\ GateOutcome(r, \A i \in DOMAIN rows : rows[i])
    /\ UNCHANGED <<vars, running, latest, repairs, gatefaults>>

(* A statement of notebook 07 raises: the rows inserted so far stay.       *)
ReconcileRaises(r) ==
    LET rows == ReconciliationRows(RunMonth[r]) IN
    /\ AtGate(r, "07_reconcile_phase7")
    /\ GateFault
    /\ \E n \in 0 .. Len(rows) : recon' = [recon EXCEPT ![r] = @ \o SubSeq(rows, 1, n)]
    /\ GateOutcome(r, FALSE)
    /\ UNCHANGED <<vars, running, latest, repairs>>

Audited(r, st) == {i \in DOMAIN audit : audit[i].run = r /\ audit[i].status = st}

(* Notebook 08.                                                            *)
AuditComplete(r) ==
    /\ Audited(r, "FAILED") = {}
    /\ Cardinality(Audited(r, "SUCCEEDED")) >= Len(TABLE_CONTRACTS)
    /\ \A i \in DOMAIN recon[r] : recon[r][i]
    /\ Len(recon[r]) >= Checks

ValidateAudit(r) ==
    /\ AtGate(r, "08_validate_audit")
    /\ GateOutcome(r, AuditComplete(r))
    /\ UNCHANGED <<vars, running, latest, recon, repairs, gatefaults>>

(* Notebook 09: no duplicates now, and at least two passes that all ended  *)
(* with the same target count.                                             *)
StableSucceeded(r, d, m) ==
    LET rows == {audit[i] : i \in {j \in Audited(r, "SUCCEEDED") :
                     audit[j].dataset = d /\ audit[j].month = Part(d, m)}}
    IN  /\ Cardinality({a.pass : a \in rows}) >= 2
        /\ Cardinality({a.target : a \in rows}) = 1

Idempotent(r) ==
    \A d \in Datasets : /\ ~HasDuplicateKey(d, analytics[d])
                        /\ StableSucceeded(r, d, RunMonth[r])

ValidateIdempotency(r) ==
    /\ AtGate(r, "09_validate_idempotency")
    /\ GateOutcome(r, Idempotent(r))
    /\ UNCHANGED <<vars, running, latest, recon, repairs, gatefaults>>

(* A query of notebook 08 or 09 raises.                                    *)
GateRaises(r) ==
    /\ AtGate(r, "08_validate_audit") \/ AtGate(r, "09_validate_idempotency")
    /\ GateFault
    /\ GateOutcome(r, FALSE)
    /\ UNCHANGED <<vars, running, latest, recon, repairs>>

-----------------------------------------------------------------------------
(* What the active run does next, faults aside.                            *)
RunStep(r) ==
    \/ LaunchTask(r) \/ TaskSucceeded(r) \/ TaskFailed(r)
    \/ Reconcile(r) \/ ValidateAudit(r) \/ ValidateIdempotency(r)

NotebookStep == running /\ TaskStep /\ UNCHANGED jobvars

NotebookFault ==
    running /\ faults + gatefaults < MaxFaults /\ TaskFault /\ UNCHANGED jobvars

JobNext ==
    \/ \E r \in RunIds : StartRun(r) \/ RepairRun(r) \/ RunStep(r)
                         \/ ReconcileRaises(r) \/ GateRaises(r)
    \/ NotebookStep
    \/ NotebookFault
    \/ (Publish /\ UNCHANGED jobvars)

(* A started task goes on and the workflow launches the next one; nobody   *)
(* has to repair a run.                                                    *)
JobSpec == /\ JobInit /\ [][JobNext]_allvars
           /\ WF_allvars(NotebookStep)
           /\ \A r \in RunIds : WF_allvars(RunStep(r))

(* The same where an operator repairs every failed run while he may.       *)
RepairedSpec == JobSpec /\ \A r \in RunIds : WF_allvars(RepairRun(r) \/ StartRun(r))

-----------------------------------------------------------------------------
(* Properties. *)

JobTypeOK ==
    /\ TypeOK
    /\ status \in [RunIds -> {"waiting", "active", "failed", "finished"}]
    /\ pos \in [RunIds -> 1 .. Len(Workflow) + 1]
    /\ running \in BOOLEAN
    /\ latest \in RunIds \cup {Null}
    /\ recon \in [RunIds -> Seq(BOOLEAN)]
    /\ repairs \in 0 .. MaxRepairs /\ gatefaults \in 0 .. MaxFaults
    /\ Cardinality({r \in RunIds : status[r] = "active"}) <= 1

(* The workflow runs the notebooks as SnowflakeLoad allows: what is proved *)
(* of every order of notebooks holds for it.                               *)
ImplementsLoad == Spec

(* A run changes no rows of another source period: "Backfill or retry must *)
(* ... not disturb unrelated periods" (docs/Design.md:186).                *)
BatchIsolation ==
    [][\A d \in Datasets : \A r \in Rows :
          analytics'[d][r] # analytics[d][r] /\ r.month # Null
          => latest # Null /\ RunMonth[latest] = r.month]_allvars

(* Every slice of ANALYTICS is empty or exactly one Gold build of it, each *)
(* row once: no load leaves a mixture of builds, a part of one or a row of *)
(* a slice that was never published.                                       *)
GoldSlice(d, p, v) ==
    {r \in Rows : r.month = p /\ r.ver = v /\ r.key \in GoldKeys[d, p, v]}

SlicesAreBuilds ==
    \A d \in Datasets : \A p \in Parts :
        LET present == {r \in Rows : r.month = p /\ analytics[d][r] > 0} IN
        /\ present # {} => \E v \in 1 .. gold[d][p] : present = GoldSlice(d, p, v)
        /\ \A r \in present : analytics[d][r] = 1

(* A run finishes only when ANALYTICS holds its whole batch as LANDING     *)
(* does, every trip of the batch finds its location, the aggregates add up *)
(* to the facts and every contract was loaded in both passes.              *)
FinishedRunIsConsistent ==
    [][\A r \in RunIds :
          status[r] # "finished" /\ status'[r] = "finished" =>
            LET m == RunMonth[r] IN
            /\ \A d \in Datasets :
                 /\ \A x \in Slice(d, m) : analytics[d][x] = landing[d][x]
                 /\ table_count(analytics[d], Slice(d, m)) > 0
                 /\ \A p \in Passes : \E i \in Audited(r, "SUCCEEDED") :
                       audit[i].dataset = d /\ audit[i].pass = p
            /\ LocationsResolve(m)
            /\ \A i \in DOMAIN Aggs : TotalsReconcile(Aggs[i], m)]_allvars

(* A FAILED audit record of a load means that the load left ANALYTICS as   *)
(* it was ("Failed Snowflake target work rolls back", docs/Design.md:186). *)
FailedLoadChangesNothing ==
    [][audit' # audit /\ audit'[Len(audit')].status = "FAILED"
       /\ task.notebook # "02_load_landing"
       => analytics'[audit'[Len(audit')].dataset] = prior]_allvars

(* An active run does not stay active: it finishes or fails.               *)
ActiveRunEnds == \A r \in RunIds : status[r] = "active" ~> status[r] # "active"

(* "Every pipeline step must be safe to retry for the same batch"          *)
(* (docs/Rules.md:47): a run that is repaired after a fault finishes.      *)
RepairedRunFinishes == \A r \in RunIds : <>(status[r] = "finished")
=============================================================================
