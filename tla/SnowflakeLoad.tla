--------------------------- MODULE SnowflakeLoad ---------------------------
(***************************************************************************)
(* The Snowflake loading notebooks 02 to 06: each run of a notebook is a   *)
(* task that walks over its table contracts, one control connection per    *)
(* task.  Notebook 02 fills LANDING from Gold, 03 validates LANDING, and   *)
(* 04, 05 and 06 replace the fact, dimension and aggregate slices of       *)
(* ANALYTICS from LANDING, each in an explicit transaction.                *)
(*                                                                         *)
(* At most one task runs at a time, the concurrency docs/Design.md demands *)
(* of the workflow ("a single concurrent Phase 7 run"); which notebook is  *)
(* started next, and for which month, is left open here.  SnowflakeJob     *)
(* adds the order of the workflow.                                         *)
(*                                                                         *)
(* A table is a bag of rows.  A row is known by its contract key, its      *)
(* source month and the Gold build it came from (gold_run_id); all other   *)
(* columns are functions of these three.                                   *)
(***************************************************************************)
EXTENDS Naturals, Sequences, FiniteSets

CONSTANTS
    Datasets,     \* the datasets of TABLE_CONTRACTS
    Fact,         \* fact_trips
    Dims,         \* the SNAPSHOT contracts, in the order of TABLE_CONTRACTS
    Aggs,         \* the aggregate contracts, in the order of TABLE_CONTRACTS
    Months,       \* source periods (source_year, source_month)
    Keys,         \* contract key values other than the source period
    Null,         \* SQL NULL
    MaxVersion,   \* bound: Gold builds of any slice
    Builds,       \* bound: Builds[d, p], Gold builds of slice p of d
    GoldKeys,     \* GoldKeys[d, p, v]: the keys of build v of slice p of d
    RunIds,       \* run_id widget values
    Passes,       \* idempotency_pass widget values
    MaxTasks,     \* bound: tasks started
    MaxFaults,    \* bound: failing calls and crashes
    RollbackMayFail  \* whether connection.rollback() may itself raise

Versions == 1 .. MaxVersion
Parts    == Months \cup {Null}
Rows     == [key : Keys, month : Parts, ver : Versions]

ASSUME ContractsAssumption ==
    /\ Fact \in Datasets
    /\ Dims \in Seq(Datasets) /\ Dims # <<>>
    /\ Aggs \in Seq(Datasets) /\ Aggs # <<>>

ASSUME DataAssumption ==
    /\ IsFiniteSet(Months) /\ IsFiniteSet(Keys)
    /\ Null \notin Nat /\ Null \notin Months
    /\ MaxVersion \in Nat \ {0}
    /\ Builds \in [Datasets \X Parts -> Versions]
    /\ GoldKeys \in [Datasets \X Parts \X Versions -> SUBSET Keys]

ASSUME BoundAssumption ==
    /\ MaxTasks \in Nat /\ MaxFaults \in Nat
    /\ RollbackMayFail \in BOOLEAN

Notebooks == {"02_load_landing", "03_validate_landing", "04_load_fact_trips",
              "05_load_dimensions", "06_load_aggregates"}

TABLE_CONTRACTS == <<Fact>> \o Dims \o Aggs

(* The datasets a notebook loops over, in order. *)
Contracts(nb) ==
    CASE nb = "04_load_fact_trips" -> <<Fact>>
      [] nb = "05_load_dimensions" -> Dims
      [] nb = "06_load_aggregates" -> Aggs
      [] OTHER                     -> TABLE_CONTRACTS

IsSnapshot(d) == \E i \in DOMAIN Dims : Dims[i] = d

(* The source period a row or an audit record of d carries: the columns    *)
(* are NULL for a SNAPSHOT contract.                                       *)
Part(d, m) == IF IsSnapshot(d) THEN Null ELSE m

(* The rows the predicate of the replacement plan, and of table_count,     *)
(* selects: 1 = 1 for a snapshot, the source period for a partition.       *)
Slice(d, m) == {r \in Rows : IsSnapshot(d) \/ r.month = m}

(* The columns that identify a row: aggregates count the period among      *)
(* their key columns, facts and dimensions do not.                         *)
SameKey(d, r, s) ==
    /\ r.key = s.key
    /\ (d # Fact /\ ~IsSnapshot(d)) => r.month = s.month

-----------------------------------------------------------------------------
(* Tables as bags of rows. *)

Table      == [Rows -> Nat]
EmptyTable == [r \in Rows |-> 0]

Copies(t, S) == UNION {{<<r, i>> : i \in 1 .. t[r]} : r \in S}
table_count(t, S) == Cardinality(Copies(t, S))

Deleted(t, S)  == [r \in Rows |-> IF r \in S THEN 0 ELSE t[r]]
Inserted(t, u) == [r \in Rows |-> t[r] + u[r]]

(* duplicate_key_count is positive. *)
HasDuplicateKey(d, t) ==
    \E r, s \in Rows :
        /\ SameKey(d, r, s)
        /\ IF r = s THEN t[r] > 1 ELSE t[r] > 0 /\ t[s] > 0

-----------------------------------------------------------------------------
VARIABLES
    gold,       \* gold[d][p]: the build Gold holds for slice p of d
    landing,    \* LANDING tables
    analytics,  \* ANALYTICS tables, as committed
    audit,      \* AUDIT.LOAD_AUDIT, in order of insertion
    open,       \* whether the control connection has an open transaction
    work,       \* the target table as that transaction sees it
    pc,         \* what the task does next
    task,       \* the notebook and widget values of the task
    todo,       \* contracts the task still has to process, current one first
    src,        \* source_count (02) or landing_count (04, 05, 06)
    tgt,        \* landing_count (02) or target_count (04, 05, 06)
    tasks,      \* tasks started so far
    faults,     \* faults so far
    prior       \* history: the committed target when its load began

store   == <<gold, landing, analytics, audit>>
session == <<open, work>>
local   == <<task, todo, src, tgt, prior>>
vars    == <<gold, landing, analytics, audit, open, work, pc, task, todo,
             src, tgt, tasks, faults, prior>>

Ds == Head(todo)

Tasks == [notebook : Notebooks, run : RunIds, month : Months, pass : Passes]

Counts   == Nat \cup {Null}
AuditRow == [run : RunIds, dataset : Datasets, month : Parts,
             source : Counts, landing : Counts, target : Counts,
             status : {"LANDED", "SUCCEEDED", "FAILED"},
             pass : Passes \cup {Null}]

LandingSteps == {"count", "clear", "write", "verify", "landed"}
TxnSteps     == {"begin", "delete", "insert", "commit"}
LoadSteps    == {"precount"} \cup TxnSteps \cup {"rollback", "postcheck", "succeeded"}
Stopped      == {"idle", "done", "raised"}
Steps        == LandingSteps \cup LoadSteps \cup {"validate", "failed"} \cup Stopped

(* Type invariant: every table stays a bag of rows, every audit record     *)
(* satisfies SnowflakeAuditRecord.as_row, and a running task has a         *)
(* contract to work on.                                                    *)
TypeOK ==
    /\ gold \in [Datasets -> [Parts -> Versions]]
    /\ landing \in [Datasets -> Table]
    /\ analytics \in [Datasets -> Table]
    /\ audit \in Seq(AuditRow)
    /\ open \in BOOLEAN
    /\ work \in Table
    /\ pc \in Steps
    /\ todo \in Seq(Datasets)
    /\ pc \notin Stopped => task \in Tasks /\ todo # <<>>
    /\ src \in Nat /\ tgt \in Nat
    /\ tasks \in 0 .. MaxTasks
    /\ faults \in 0 .. MaxFaults
    /\ prior \in Table

Init ==
    /\ gold = [d \in Datasets |-> [p \in Parts |-> 1]]
    /\ landing = [d \in Datasets |-> EmptyTable]
    /\ analytics = [d \in Datasets |-> EmptyTable]
    /\ audit = <<>>
    /\ open = FALSE /\ work = EmptyTable
    /\ pc = "idle" /\ task = Null /\ todo = <<>>
    /\ src = 0 /\ tgt = 0
    /\ tasks = 0 /\ faults = 0
    /\ prior = EmptyTable

-----------------------------------------------------------------------------
(* The environment. *)

(* Phase 6 rebuilds a Gold slice: a new build replaces the old one.        *)
GoldPublish(d, p) ==
    /\ p = Null <=> IsSnapshot(d)
    /\ gold[d][p] < Builds[d, p]
    /\ gold' = [gold EXCEPT ![d][p] = @ + 1]
    /\ UNCHANGED <<landing, analytics, audit, session, pc, local, tasks, faults>>

(* The Gold frame of the current contract, read when it is evaluated.      *)
GoldFrame(d, m) ==
    LET p == Part(d, m) IN
    [r \in Rows |-> IF /\ r.month = p
                       /\ r.ver = gold[d][p]
                       /\ r.key \in GoldKeys[d, p, r.ver]
                    THEN 1 ELSE 0]

FirstStep(nb) ==
    CASE nb = "02_load_landing"     -> "count"
      [] nb = "03_validate_landing" -> "validate"
      [] OTHER                      -> "precount"

(* A notebook is started with its widget values and opens its connection.  *)
StartTask(t) ==
    /\ pc \in Stopped
    /\ tasks < MaxTasks
    /\ tasks' = tasks + 1
    /\ task' = t
    /\ todo' = Contracts(t.notebook)
    /\ pc' = FirstStep(t.notebook)
    /\ open' = FALSE /\ work' = EmptyTable
    /\ UNCHANGED <<store, src, tgt, prior, faults>>

Fault == faults < MaxFaults /\ faults' = faults + 1

(* The driver dies: the connection is gone and Snowflake drops an open     *)
(* transaction.  Nothing is audited.                                       *)
Crash ==
    /\ pc \notin Stopped
    /\ Fault
    /\ pc' = "raised" /\ open' = FALSE /\ work' = EmptyTable
    /\ UNCHANGED <<store, local, tasks>>

-----------------------------------------------------------------------------
(* Steps shared by the notebooks. *)

Goto(step) == pc' = step /\ UNCHANGED <<task, todo, prior, tasks>>

(* The body of the loop is over for the current contract.                  *)
NextContract ==
    /\ todo' = Tail(todo)
    /\ pc' = IF Tail(todo) = <<>> THEN "done" ELSE FirstStep(task.notebook)
    /\ UNCHANGED <<task, prior, tasks>>

(* The audit record append_audit writes for the current contract.          *)
Record(status, s, l, t, p) ==
    [run |-> task.run, dataset |-> Ds, month |-> Part(Ds, task.month),
     source |-> s, landing |-> l, target |-> t, status |-> status, pass |-> p]

SuccessRecord ==
    IF pc = "landed"
    THEN Record("LANDED", src, tgt, Null, Null)
    ELSE Record("SUCCEEDED", src, src, tgt, task.pass)

(* Faulty variant: a status AUDIT.LOAD_AUDIT does not know.                *)
UnknownStatusRecord == Record("ERROR", Null, Null, Null, Null)

FailedRecord == Record("FAILED", Null, Null, Null, Null)

(* A query raises and control reaches the except clause of the notebook.   *)
(* Notebook 03 has none: the task ends without an audit record.            *)
QueryRaises ==
    /\ pc \in {"count", "verify", "validate", "precount", "postcheck"}
    /\ Fault
    /\ Goto(IF pc = "validate" THEN "raised" ELSE "failed")
    /\ UNCHANGED <<store, session, src, tgt>>

(* append_audit after a processed contract.  No transaction is open here:  *)
(* the INSERT commits on its own and the commit that follows does nothing. *)
AppendAudit ==
    /\ pc \in {"landed", "succeeded"}
    /\ audit' = Append(audit, SuccessRecord)
    /\ NextContract
    /\ UNCHANGED <<gold, landing, analytics, session, src, tgt, faults>>

(* append_audit raises inside the try block, before or after its record    *)
(* became durable; either way the except clause runs.                      *)
AppendAuditRaises ==
    /\ pc \in {"landed", "succeeded"}
    /\ Fault
    /\ audit' \in {audit, Append(audit, SuccessRecord)}
    /\ Goto("failed")
    /\ UNCHANGED <<gold, landing, analytics, session, src, tgt>>

(* The except clause: append_audit of a FAILED record on the same          *)
(* connection.  Its commit ends a transaction that is still open, with     *)
(* whatever that transaction did so far.                                   *)
AppendFailed ==
    /\ pc = "failed"
    /\ audit' = Append(audit, FailedRecord)
    /\ analytics' = IF open THEN [analytics EXCEPT ![Ds] = work] ELSE analytics
    /\ open' = FALSE /\ work' = EmptyTable
    /\ Goto("raised")
    /\ UNCHANGED <<gold, landing, src, tgt, faults>>

(* The except clause itself raises.  The record is durable only if the     *)
(* INSERT committed on its own; connection.close() ends the session, which *)
(* drops an open transaction.                                              *)
AppendFailedRaises ==
    /\ pc = "failed"
    /\ Fault
    /\ audit' \in {audit} \cup (IF open THEN {} ELSE {Append(audit, FailedRecord)})
    /\ open' = FALSE /\ work' = EmptyTable
    /\ Goto("raised")
    /\ UNCHANGED <<gold, landing, analytics, src, tgt>>

-----------------------------------------------------------------------------
(* Notebook 02: load LANDING. *)

CountGold ==
    /\ pc = "count"
    /\ src' = table_count(GoldFrame(Ds, task.month), Rows)
    /\ Goto(IF src' = 0 THEN "failed" ELSE "clear")
    /\ UNCHANGED <<store, session, tgt, faults>>

(* clear_landing: DELETE FROM the whole landing table, committed.          *)
ClearLanding ==
    /\ pc = "clear"
    /\ landing' = [landing EXCEPT ![Ds] = EmptyTable]
    /\ Goto("write")
    /\ UNCHANGED <<gold, analytics, audit, session, src, tgt, faults>>

ClearLandingRaises ==
    /\ pc = "clear"
    /\ Fault
    /\ landing' \in {landing, [landing EXCEPT ![Ds] = EmptyTable]}
    /\ Goto("failed")
    /\ UNCHANGED <<gold, analytics, audit, session, src, tgt>>

(* write_landing_frame: the lazy frame is evaluated again and appended, in *)
(* a session of the Spark connector.                                       *)
WriteLandingFrame ==
    /\ pc = "write"
    /\ landing' = [landing EXCEPT ![Ds] = Inserted(@, GoldFrame(Ds, task.month))]
    /\ Goto("verify")
    /\ UNCHANGED <<gold, analytics, audit, session, src, tgt, faults>>

WriteLandingFrameRaises ==
    /\ pc = "write"
    /\ Fault
    /\ landing' \in {landing,
                     [landing EXCEPT ![Ds] = Inserted(@, GoldFrame(Ds, task.month))]}
    /\ Goto("failed")
    /\ UNCHANGED <<gold, analytics, audit, session, src, tgt>>

VerifyLanding ==
    /\ pc = "verify"
    /\ tgt' = table_count(landing[Ds], Slice(Ds, task.month))
    /\ Goto(IF tgt' = src THEN "landed" ELSE "failed")
    /\ UNCHANGED <<store, session, src, faults>>

-----------------------------------------------------------------------------
(* Notebook 03: validate LANDING.  It only reads, and no other task runs,  *)
(* so its queries form one step.                                           *)

LandingIsValid(d, m) ==
    /\ table_count(landing[d], Slice(d, m)) > 0
    /\ ~HasDuplicateKey(d, landing[d])
    /\ \A r \in Rows \ Slice(d, m) : landing[d][r] = 0

ValidateLanding ==
    /\ pc = "validate"
    /\ Goto(IF \A i \in DOMAIN todo : LandingIsValid(todo[i], task.month)
            THEN "done" ELSE "raised")
    /\ UNCHANGED <<store, session, src, tgt, faults>>

-----------------------------------------------------------------------------
(* Notebooks 04, 05 and 06: replace one slice of ANALYTICS. *)

(* landing_count and, for a dimension, the duplicate check on LANDING.     *)
CountLanding ==
    /\ pc = "precount"
    /\ src' = table_count(landing[Ds], Slice(Ds, task.month))
    /\ pc' = IF IsSnapshot(Ds) /\ HasDuplicateKey(Ds, landing[Ds])
             THEN "failed" ELSE "begin"
    /\ prior' = analytics[Ds]
    /\ UNCHANGED <<store, session, task, todo, tgt, tasks, faults>>

Begin ==
    /\ pc = "begin"
    /\ open' = TRUE /\ work' = analytics[Ds]
    /\ Goto("delete")
    /\ UNCHANGED <<store, src, tgt, faults>>

(* Faulty variant: the old slice is not deleted before the insert.         *)
KeepTarget ==
    /\ pc = "delete"
    /\ Goto("insert")
    /\ UNCHANGED <<store, session, src, tgt, faults>>

(* Faulty variant: DELETE without the predicate of the replacement plan.   *)
DeleteWholeTarget ==
    /\ pc = "delete"
    /\ work' = EmptyTable
    /\ Goto("insert")
    /\ UNCHANGED <<store, open, src, tgt, faults>>

DeleteTarget ==
    /\ pc = "delete"
    /\ work' = Deleted(work, Slice(Ds, task.month))
    /\ Goto("insert")
    /\ UNCHANGED <<store, open, src, tgt, faults>>

(* INSERT ... SELECT FROM LANDING carries no predicate.                    *)
InsertFromLanding ==
    /\ pc = "insert"
    /\ work' = Inserted(work, landing[Ds])
    /\ Goto("commit")
    /\ UNCHANGED <<store, open, src, tgt, faults>>

CommitTarget ==
    /\ pc = "commit"
    /\ analytics' = [analytics EXCEPT ![Ds] = work]
    /\ open' = FALSE /\ work' = EmptyTable
    /\ Goto("postcheck")
    /\ UNCHANGED <<gold, landing, audit, src, tgt, faults>>

(* A statement raises without effect, and execute_transaction goes to its  *)
(* rollback.                                                               *)
StatementRaises ==
    /\ pc \in TxnSteps
    /\ Fault
    /\ Goto("rollback")
    /\ UNCHANGED <<store, session, src, tgt>>

(* COMMIT takes effect but its acknowledgement is lost.                    *)
CommitUnacknowledged ==
    /\ pc = "commit"
    /\ Fault
    /\ analytics' = [analytics EXCEPT ![Ds] = work]
    /\ open' = FALSE /\ work' = EmptyTable
    /\ Goto("rollback")
    /\ UNCHANGED <<gold, landing, audit, src, tgt>>

(* Faulty variant: execute_transaction without its rollback.               *)
NoRollback ==
    /\ pc = "rollback"
    /\ Goto("failed")
    /\ UNCHANGED <<store, session, src, tgt, faults>>

Rollback ==
    /\ pc = "rollback"
    /\ open' = FALSE /\ work' = EmptyTable
    /\ Goto("failed")
    /\ UNCHANGED <<store, src, tgt, faults>>

(* rollback() raises in the except clause of execute_transaction: the      *)
(* notebook's except clause runs with the transaction still open.          *)
RollbackRaises ==
    /\ pc = "rollback"
    /\ RollbackMayFail
    /\ Fault
    /\ Goto("failed")
    /\ UNCHANGED <<store, session, src, tgt>>

(* Faulty variant: the duplicate check runs for dimensions only.           *)
CheckTargetCount ==
    /\ pc = "postcheck"
    /\ tgt' = table_count(analytics[Ds], Slice(Ds, task.month))
    /\ Goto(IF tgt' # src THEN "failed" ELSE "succeeded")
    /\ UNCHANGED <<store, session, src, faults>>

(* target_count, and for the fact the duplicate check on the whole target. *)
CheckTarget ==
    /\ pc = "postcheck"
    /\ tgt' = table_count(analytics[Ds], Slice(Ds, task.month))
    /\ Goto(IF tgt' # src \/ (Ds = Fact /\ HasDuplicateKey(Ds, analytics[Ds]))
            THEN "failed" ELSE "succeeded")
    /\ UNCHANGED <<store, session, src, faults>>

-----------------------------------------------------------------------------
TaskStep ==
    \/ CountGold \/ ClearLanding \/ WriteLandingFrame \/ VerifyLanding
    \/ ValidateLanding
    \/ CountLanding \/ Begin \/ DeleteTarget \/ InsertFromLanding \/ CommitTarget
    \/ Rollback \/ CheckTarget
    \/ AppendAudit \/ AppendFailed

TaskFault ==
    \/ QueryRaises \/ ClearLandingRaises \/ WriteLandingFrameRaises
    \/ StatementRaises \/ CommitUnacknowledged \/ RollbackRaises
    \/ AppendAuditRaises \/ AppendFailedRaises
    \/ Crash

Publish == \E d \in Datasets, p \in Parts : GoldPublish(d, p)

Next ==
    \/ \E t \in Tasks : StartTask(t)
    \/ TaskStep
    \/ TaskFault
    \/ Publish

Spec == Init /\ [][Next]_vars

-----------------------------------------------------------------------------
(* Properties. *)

(* What a reader of LANDING and ANALYTICS is promised.                     *)
Promise == INSTANCE SliceReplacement
             WITH Slices <- [d \in Datasets |-> [m \in Months |-> Slice(d, m)]]

(* The committed ANALYTICS tables change only by complete slice            *)
(* replacements from LANDING, whatever fails in between (docs/Design.md:   *)
(* "Exceptions cause rollback").                                           *)
ReplacesSlices == Promise!Spec

(* A SUCCEEDED record of notebooks 04 to 06 is appended only when the      *)
(* committed target slice is, row by row, the slice in LANDING, and a      *)
(* SUCCEEDED fact load only when no trip_id occurs twice in FACT_TRIPS.    *)
Succeeds == audit' # audit /\ audit'[Len(audit')].status = "SUCCEEDED"

SucceededLoadIsWhole ==
    [][Succeeds =>
         LET a == audit'[Len(audit')] IN
         /\ \A r \in Slice(a.dataset, a.month) :
               analytics[a.dataset][r] = landing[a.dataset][r]
         /\ a.dataset = Fact => ~HasDuplicateKey(Fact, analytics[Fact])]_vars

(* The inductive invariant behind both.  Before COMMIT the committed target *)
(* is what it was when its load began, and the transaction holds that      *)
(* table, the same without the slice, or the finished replacement; after   *)
(* COMMIT the target is the replacement.                                   *)
Replacement(d, m, t) == Inserted(Deleted(t, Slice(d, m)), landing[d])

WorkIsReplacement ==
    LET m == task.month IN
    /\ pc = "begin"  => analytics[Ds] = prior
    /\ pc \in {"delete", "insert", "commit"} => open /\ analytics[Ds] = prior
    /\ pc = "delete" => work = prior
    /\ pc = "insert" => work = Deleted(prior, Slice(Ds, m))
    /\ pc = "commit" => work = Replacement(Ds, m, prior)
    /\ pc \in {"postcheck", "succeeded"} =>
          analytics[Ds] = Replacement(Ds, m, prior)

(* A transaction is open only between BEGIN and the rollback that follows  *)
(* a failure, unless that rollback fails.                                  *)
OpenOnlyInTransaction ==
    open => \/ pc \in {"delete", "insert", "commit", "rollback"}
            \/ RollbackMayFail /\ pc = "failed"

(* The fact load reaches its SUCCEEDED record only past the duplicate check.*)
FactIsChecked ==
    pc = "succeeded" /\ Ds = Fact => ~HasDuplicateKey(Fact, analytics[Fact])

(* The strengthening that makes ReplacesSlices and SucceededLoadIsWhole    *)
(* inductive: between its first and last step a load knows how the target, *)
(* the open transaction and LANDING relate, whatever call raises.          *)
LoadInv == WorkIsReplacement /\ OpenOnlyInTransaction /\ FactIsChecked
=============================================================================
