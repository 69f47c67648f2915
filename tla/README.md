# UrbanFlow: TLA+ models, checks and proofs

UrbanFlow moves New York taxi and weather data from public servers to a Snowflake
warehouse: a Python command downloads files, another uploads them to ADLS,
Databricks notebooks refine them through Bronze, Silver and Gold Delta tables, a
set of notebooks loads Gold into Snowflake, and dbt publishes views. Nothing in the
repository coordinates these parts; each relies on what the one before left in a
shared store, and on retries by an operator. This project models what may happen
in between: calls that raise, answers that are lost, killed processes, sources that
change while they are read, commands that overlap, and rows whose missing values
make two formulations of a rule disagree.

## Inventory

| Component | State | Operations | Hard behaviour | What makes it correct |
|---|---|---|---|---|
| Local acquisition, `src/ingestion` | destination and `.part` files, JSONL audit | `run_source`: TLC, taxi zones (streamed), weather (paginated) | kills, broken streams, a second command on the same `.part`, changing servers, wrong or missing page counts | a destination is a complete download and changes only when forced; every attempt is audited |
| ADLS upload, `src/azure_storage` | remote objects, staging objects, JSONL audit | `run_upload`, `upload_file`, cleanup | lost answers, delete and rename in two calls, local file replaced, two commands | only measured files are published; existing objects need `--overwrite`; no staging objects pile up |
| Bronze, `notebooks/bronze` | Delta tables, pipeline and quality audit | ingest trips and zones, quality, validation | kill between write and audit, audits of other batches | a batch is replaced as a whole, row counts agree |
| Silver, `notebooks/silver` | valid and rejected Delta tables, audit | transform trips and zones, quality, validation | valid and rejected written by two commits, each evaluating a lazy frame whose `row_number` breaks ties anew; three-valued logic and rounding casts in front of the rules; duplicate trips over months | valid and rejected partition the batch; `trip_id` is unique per month; the rules are those of the pure functions the tests use, applied to rounded rows |
| Gold, `notebooks/gold` | fact, dimensions, aggregates, audit | five builds, quality, validation | tables of different builds, dimensions replaced as a whole by the run of any month, NULLs in sums and averages | aggregates add up to facts, in every measure; accepted months keep their dates and locations |
| Snowflake load, notebooks 02 to 06 | LANDING, ANALYTICS, `LOAD_AUDIT` | land, validate, replace slices | failure at every call, lost COMMIT, open transaction, Gold rebuilt while landing, LANDING of another month | slices are replaced whole or not at all; a SUCCEEDED record is true |
| Snowflake gates 07 to 09 and the job | `RECONCILIATION_RESULTS`, job state | reconcile, validate audit, validate idempotency, repair | partial dimension and aggregate loads, repairs, audit of earlier attempts | a finished run is consistent; runs touch only their month and end |
| dbt models and tests, `dbt` | none: views over ANALYTICS | staging, six inner joins, three aggregate marts | readers see ANALYTICS while a job loads it, or after it failed; dimensions replaced under finished months | finished months stay whole; after finished runs the tests pass |
| Configuration, secrets, DDL | static | | | |

They interact through stores only: the destination files (acquisition to upload),
the remote raw objects (upload to Bronze), the Delta tables (Bronze to Silver to
Gold to LANDING) and ANALYTICS (to dbt). The hazards these stores are exposed to
are listed with their lines in `PROJECT.json`.

## Modules

| Module | Models | Built on |
|---|---|---|
| `SliceReplacement` | what a reader of ANALYTICS is promised: a table changes only by replacing one slice by the LANDING table | |
| `SnowflakeLoad` | notebooks 02 to 06, `snowflake_runtime.py`, `snowflake_common.py` | refines `SliceReplacement` |
| `SnowflakeJob` | the two passes of the job, repairs, gates 07 to 09 | extends and implements `SnowflakeLoad` |
| `Marts` | the dbt models and tests as functions of ANALYTICS | extends `SnowflakeJob` |
| `LocalDownload` | `run_source`, `_download_stream`, `fetch_observations`, `_run_and_audit` | |
| `AdlsUpload` | `run_upload`, `upload_file` | |
| `Medallion` | the Bronze, Silver and Gold notebooks, their quality and validation gates, for several months | |
| `TripRules` | the row rules of Silver and Gold, as Spark evaluates them and as the pure functions of `silver_common.py` and `gold_common.py` | |
| `TripRecords` | the rows of one batch through Silver, Gold and LANDING | extends `TripRules` |
| `SumTheorems` | laws of sums over finite sets | TLAPS |
| `SnowflakeLoadProofs`, `SnowflakeJobProofs`, `MartsProofs`, `LocalDownloadProofs`, `AdlsUploadProofs`, `MedallionProofs`, `TripRecordsProofs` | theorems about the module they extend | TLAPS |
| `MC...` | small instances for TLC | |

Definitions named "Faulty variant" are plausible bugs of the definition after them. No
specification uses them; they serve to show that each property can fail.

### SnowflakeLoad

A table is a bag of rows; a row is its contract key, its source month (NULL in a
dimension) and the Gold build (`gold_run_id`) it was taken from. That is all the
code's predicates, counts and duplicate checks distinguish. `pc` is the line a
notebook is at: 02 counts Gold (`count`), clears LANDING (`clear`), appends the frame
(`write`), counts LANDING (`verify`), audits (`landed`); 04, 05 and 06 count LANDING
(`precount`), run the four statements of the replacement plan (`begin`, `delete`,
`insert`, `commit`), count the target (`postcheck`) and audit (`succeeded`);
`rollback` is the except clause of `execute_transaction` and `failed` that of the
notebook. `open` and `work` are the transaction of the control connection: the
connector autocommits, so single statements are durable at once, and `commit()` in
`append_audit` matters only when a transaction was left open. The frame of notebook
02 is lazy, hence read twice (`CountGold`, `WriteLandingFrame`), and `GoldPublish` may
come between. Every call may raise, before or after it took effect where that is
possible; `Crash` ends the task anywhere. `RollbackMayFail` says whether
`connection.rollback()` may raise as well.

Notebooks start in any order and for any month: `SnowflakeJob` orders them, and
what is proved holds for manual starts too. One task runs at a time, as
`docs/Design.md` requires of Phase 7. `gold` starts with one build of every slice; a
build with no keys stands for a slice that was not built.

### SnowflakeJob and Marts

The repository has no job definition; the order is that of the notebook numbers, in
two passes with one `run_id`, followed by 09, which asks for two passes. A failed
task fails its run. `RepairRun` starts the run again at that task; `LateRepair` says
whether this may happen after another run was started. The gates read in one step,
because no other task writes ANALYTICS meanwhile. Six foreign key checks are one
(`LocationsResolve`), trip count and revenue totals are one per aggregate
(`TotalsReconcile`), so `Checks` is the number of rows one run of 07 records, as 20 is
in notebook 08.

`Marts` adds no step: the dbt models are views, so that a reader always sees what is
committed. `int_trip_enriched` joins a fact with every dimension in two roles, a mart
joins an aggregate with its dimension; rows of views are copies of table rows, so that
a repeated dimension row repeats trips as it does in SQL.

Gate 07 looks for the locations of facts (`notebooks/snowflake/07_reconcile_phase7.py:83-106`)
but for none of aggregates, whose totals it compares with the facts. An aggregate of another
Gold build than the facts passes if the totals agree, also when one of its groups is at a
location that the loaded dimension does not have; its mart then lacks the trips of that group
until the dimension is loaded again. So `FinishedMonthsStayInMarts` claims of an aggregate mart
only that it counts no trip too many, and all of them if its groups are all described
(`GroupsAreRelated`), and `DbtTestsPass` has the relationship tests of facts but not those of
aggregates (`dbt/models/staging/staging.yml:116`, `137`, `158`). The `job` instance has such a
rebuild of the aggregate: with equality claimed of every finished month, or with the
relationships of aggregates among the tests, TLC finds a counterexample.

`DimensionsGrow` says that a rebuilt Gold dimension keeps its keys. It is a hypothesis of the two
theorems about marts, and true of the instance; no code enforces it, and `Medallion` shows
what it rests on.

### LocalDownload

Names refer to inodes, as on POSIX: `unlink` and `os.replace` change names, an open
file goes on writing to its inode, opening an existing `.part` truncates it. A chunk
is known by the version of the source it was served from, so that a mixed or partial
file can be told from a whole one. A streamed response is one version; every weather
page is of the version served when it is requested. `Responses` are the pages a server
may answer with: the announced count may be missing or too large, the last page full.
The loop ends as the code's does (`EndsLoop`): at an empty page, at a page that is
not full, or when `CountReached`, which is always so when no count was announced. The
history variable `seen` is the one version all responses of a run came from, if they
all announced a count. A truncated response is taken to raise, as `requests` 2.32
with urllib3 2 does. The JSON parse of an existing weather file is left out.

`_run_and_audit` takes whatever raises for a failure of the source: a request, a write, the
`os.replace`, but also the look at the destination and the append of a skipped or finished
result (`CheckRaises`, `AuditRaises`), after which the record says failed, the command ends,
and a file that was published stays where it is. The removal of the `.part` file in the except
clause may raise as well (`CleanupRaises`): the file is then left behind by a command that
ended by itself. `PartsAreTemporary` says of which commands a `.part` file can be, and that at
most one is left for each fault.

### AdlsUpload

An upload stats the local file, looks up the object, creates and flushes a staging
object of its own name, measures it, deletes the old object if `--overwrite` was given
and one was seen, renames, and measures again. `LocalPublish` replaces the local file
in between. A raised call may have had its effect. `RenameReplaces` is how ADLS Gen2
renames by default: onto an existing path.

### Medallion

A run executes the notebooks of Phases 4 to 6 in the order of their numbers for one
month; Bronze ingestion comes twice, because its gate asks for two audits. A
notebook works in rounds: it counts its output frames (`CountFrames`), replaces one Delta
table per frame (`WriteTable`, one commit each, `out` is the table it is at), counts what
it wrote (`VerifyTables`) and appends an audit record (`AppendAudit`);
`05_build_aggregations` has three rounds, the others one. Frames are
lazy: `CountFrames` and `WriteTable` each evaluate `Frame`, and `Upload` may replace a raw
file in between. Any of these calls may raise, `save` with or without its commit; the
run then fails and may be repaired at that notebook. Gates read tables that no other
notebook writes meanwhile, hence in one step each (`Gate`).

A table part is a bag of trips, zones or dates, an aggregate maps dates or zones to
trip counts. A trip has one date and one zone, standing for its pickup and drop-off;
`Unsound` are the trips that a rule on their own columns rejects (`TripRules` has the
rules). The hourly aggregate is grouped like the daily one. `audits` keeps the last two
error-free records of a notebook, which is all the gates look at; whose month they are
of, the gates do not ask. `accepted` remembers the months whose last run passed the
last gate.

Two conditions are named. `LateRepair` = FALSE: a failed run is repaired only until
another run of its month starts. The gates compare counts, so that a repair that comes
later continues with tables of the other run and, where the counts happen to agree,
has a month accepted whose layers are of different uploads; TLC finds that with two
faults. `LookupGrows`: a later zone lookup has the locations of an earlier one. A run of
any month replaces `dim_location`, and one with a lookup that lost a location leaves
accepted facts of other months without theirs. Nothing in the code enforces either.

### TripRules and TripRecords

`TripRules` has every rejection rule and every Gold measure twice: as the Spark
expressions of `silver_transformations.py` and `gold_transformations.py`, with SQL's third
truth value and with NaN greater than every number, and as the Python functions the tests use.
Raw amounts and passenger counts are in units of which `Hundredth` make one hundredth. Spark
casts them before it applies a rule: to `decimal(18,2)` and `decimal(10,2)`, rounding half up
(`HalfUp`), with NULL for what does not fit (`Cast`, `CastCount`). The pure functions do not
round. They are therefore compared on the recorded row (`Recorded`: two decimals, amounts that
do not fit still there), where they agree, and what they may say otherwise of the raw row is
part of the properties:

- `classify_trip_record` rejects a negative passenger count that the cast turns into 0.00
  (-0.001) or into NULL (one that does not fit): Spark accepts both rows. No other rule
  differs (`ClassifiersAgree`), although the docstring calls the function the "pure equivalent
  of the Spark rejection contract" (`notebooks/utilities/silver_common.py:157`).
- `is_financial_adjustment` is TRUE of a raw amount of -0.004, and the flag that is landed is
  FALSE: it is computed from 0.00. They differ only where every negative amount is less than
  half a cent (`FlagsAgree`, `LandedFlagMatchesPure`).
- `aggregate_daily_records` does not round the average passenger count, Gold rounds it to avg's
  own scale (`AvgUnit`) and then to two decimals: `DailyMatchesPure` states the bound.

Assumed is that ANSI mode is off, as a cast that fails raises otherwise. Doubles are integers
and the special values; timestamps are whole seconds, so that the fraction of a second that
`cast("long")` drops from a duration (`gold_transformations.py:99-101`) and
`total_seconds()` keeps is not seen.

A batch is a sequence of raw
rows, and a row is known by its position. In `TripRecords` each notebook is one step, as
`Medallion` has the calls. `Evaluations` are the ways `row_number` may break ties: its
ORDER BY is over lineage columns that are equal in all rows of a month
(`docs/Design.md:301` says "ranked deterministically by source lineage"), so each
evaluation of the frame chooses anew, and notebook 01 evaluates it four times.
`Settled` are the rows whose fate does not depend on that choice: among rows with one
`trip_id` it may matter which is first when one of them has an amount that does not fit,
and among zone rows with one id when one lacks a name. SUM, AVG and COUNT skip NULLs
and give NULL for nothing else.

## Runs

| Run | Instance | Shows |
|---|---|---|
| `load` | one fact, dimension, aggregate; two months that share a trip; two builds; three tasks, two faults, `RollbackMayFail` | `LoadInv` (the inductive invariant), `SucceededLoadIsWhole`, `TypeOK` |
| `job` | two runs for two months, a second build of the aggregate of one month, with a group at another location, and of the dimension, one fault, one repair | `ReplacesSlices` (the refinement of `SliceReplacement`), `SlicesAreBuilds`, `BatchIsolation`, `FinishedRunIsConsistent`, `ImplementsLoad`, `ActiveRunEnds`, `FinishedMonthsStayInMarts`, `DbtTestsPass`, `JobTypeOK` |
| `download` | one streamed source and weather; versions of 2, 1 and 0 chunks; two commands in turn, two faults | `PublishedWhole`, `WeatherIsWhole`, `KeptUnlessForced`, `PartsAreTemporary`, `AuditIsComplete`, `DownloadedIsPublished`, `RunEnds`, `TypeOK` |
| `upload` | two commands at once, trip file and weather, two versions of different size, two faults | `PublishesWhatItMeasured`, `ReplacesOnlyWhatItSaw`, `ReportedObjectsStay`, `StagingIsTemporary`, `AuditIsComplete`, `TypeOK` |
| `medallion` | two months and a backfill; a duplicate, an unsound trip, a nameless zone; a second upload of one month with the same count, or of the lookup with one location more; one fault, one repair | `AcceptedIsReconciled`, `UnrelatedMonthsStayIntact`, `ActiveRunEnds`, `TypeOK` |
| `records` | every row that deviates from a sound one in up to two columns, also by fractions of a hundredth; every bag of up to five of seven interacting rows; three zone lookups, with a repeated and with an incomplete location | `ClassificationAgrees`, `TripsAreKept`, `AggregatesAddUp`, `DailyMatchesPure`, `MeasuresMatchPure`, `LandedFlagMatchesPure`, `TypeOK` |

Runs that violate a claim of the repository:

| Run | Claim | What happens |
|---|---|---|
| `rollback_raises` | `execute_transaction` guarantees rollback (`snowflake_runtime.py:148`) | `rollback()` raises, the FAILED audit record is committed on the same connection, and with it the half-done replacement |
| `failed_load` | "Failed Snowflake target work rolls back" (`docs/Design.md:186`) | `trip_id` does not depend on the month; a trip in two months makes the check after COMMIT fail, and the load stays |
| `late_repair` | a retry "must not disturb unrelated periods" (`docs/Design.md:186`) | INSERT has no month predicate; LANDING holds another month by now, whose rows are added again |
| `retried_run` | "Every pipeline step must be safe to retry" (`docs/Rules.md:47`) | the FAILED record of the first attempt stays in the audit, and 08 refuses the run for good |
| `overwrite_upload` | "atomic remote publication" (`docs/Architecture.md:44`) | `--overwrite` deletes the object before the rename |
| `revenue_split` | the revenue columns "make the two revenue views explicit without filtering a trip" (`docs/Design.md:321`) | without a negative amount and with a missing optional one the adjustment flag is NULL, and the trip's total is in neither view; `docs/Memory.md:163` counts 955,293 such rows |

**Bounds.** `MaxTasks`, `MaxRuns`, `MaxFaults`, `MaxRepairs`, `MaxUploads`, `MaxVersion` and
`Builds` bound what would otherwise repeat. Three tasks are enough for land, load and retry
of one contract in every order, and 26 for two complete passes of two runs with a repair;
two months suffice because every statement tells one month from the others; two
commands because the `.part` file and the object are shared by pairs; two faults
because the code handles a failure once (rollback, except clause, cleanup) and the
second fault hits the handler. One dataset of each kind stands for the fact, the
three dimensions and the three aggregates: the notebooks treat those of a kind alike,
one after the other. In `job` one fault bounds the state space; `load` and the proofs
cover more. Of its facts there is one
build: `load` and the proofs have rebuilds of everything. Its Gold dimension grows
(`DimensionsGrow`): with one that loses a location, the marts of a finished month lose trips. In `download` commands run in turn (`MaxActive` = 1):
two that share a `.part` file break `PublishedWhole`, as the first to finish publishes what
the other has written so far. In `medallion` `LookupGrows` is true of the two zone uploads,
and a lookup that loses a location breaks `UnrelatedMonthsStayIntact`; one upload and one fault
bound the state space, and the proofs cover more. Two uploads of one month suffice for a
count and a write that see different files, three runs for a month that is rerun after
another was accepted, and `RequiredFactAudits` is the 1 that the widgets default to. In
`records` two deviations are enough for a rule to hide another, hours of 2 and days of 4
units for trips within and across both, and five rows for two days, two ways and a
duplicate; locations are three because a rule tells known from unknown ones. `Hundredth` = 4
has amounts that are rounded up, down and to nothing, ties included; `AvgUnit` is the 10^4 that
lie between the scales of `avg` and of the cast.

**Deadlock** is not checked: commands, tasks and runs come to an end and the bounds
stop new ones, so every instance ends in a state without successors.

**Fairness.** `JobSpec` assumes that a started notebook and the job go on
(`WF(NotebookStep)`, `WF(RunStep(r))`): both are sequential programs, and the queries they
wait for end or raise. Faults, Gold builds and starts are not fair, and repairs only in
`RepairedSpec`, which asks what an operator who repairs whenever he can gets.
`LocalDownload` assumes that a started command goes on (`WF(Step(r))`); its calls have
timeouts. In `Medallion` the active run goes on (`WF(\E r : RunStep(r))`); uploads, faults,
starts and repairs are not fair. `AdlsUpload`, `SnowflakeLoad` and `TripRecords` have no
liveness property.

## Proofs

What is proved holds for any number of datasets, months, keys, builds, runs, commands,
uploads, repairs and faults, from the named assumptions of each module, which TLC evaluates
on every run. Each proof module has the same shape: the initial states satisfy the
invariant, one lemma per kind of step shows that it stays, and the last step of a theorem
combines them with what was proved before.

**`SnowflakeLoadProofs`** (there is a fact and at least one dimension and aggregate, months
and keys are finite):

- `TypeCorrect`. Counts are numbers because the rows are a finite set (`RowsFinite`,
  `CountType`), and the contract lists of a notebook are never empty (`ContractsType`).
- `LoadCorrect`: `Spec => []LoadInv`. Neither `ReplacesSlices` nor `SucceededLoadIsWhole`
  is inductive: what `CommitTarget` publishes depends on three earlier statements.
  `LoadInv` remembers them: the committed target is what it was when the load began
  (`prior`), and the transaction holds that table, that table without the slice, or the
  finished replacement (`WorkIsReplacement`); a transaction is open only between BEGIN
  and the rollback (`OpenOnlyInTransaction`); the SUCCEEDED record of a fact load comes
  after the duplicate check (`FactIsChecked`).
- `SucceededCorrect`: `Spec => SucceededLoadIsWhole`, also when `rollback()` may raise. The
  equality row by row follows from the equality of counts: the slice of the
  replacement is LANDING's slice, as the deleted rows are gone.
- `LoadRefines`: `~RollbackMayFail => (Spec => ReplacesSlices)`. `COMMIT`, acknowledged or not,
  is a `Load` of the abstract specification, landing steps are `Stage`, all else stutters.
  The run `rollback_raises` shows that the condition is needed.

**`SnowflakeJobProofs`**:

- `JobIsLoad`: every behaviour of the job is one of the notebooks in any order, so that the
  theorems above hold of it; `JobReplacesSlices` is the refinement for the job.
- `JobTypeCorrect`: also that at most one run is active (`RunsInTurn`).
- `JobIsolation`: `~LateRepair => (JobSpec => BatchIsolation)`. INSERT copies all of LANDING, so
  the invariant has to say what is there: from the end of notebook 03 to that of 06, across
  repairs, only rows of the run's month (`LandingOfRun`), no row of a month in a snapshot
  (`SnapshotRows`), and in the open transaction no other change (`WorkOfRun`). `late_repair`
  shows that the condition is needed.
- `SlicesCorrect`: `~LateRepair => (JobSpec => []SlicesAreBuilds)`, by `BuildsInv`: LANDING holds
  whole builds at any time, because notebook 02 clears a table before it evaluates the
  frame, and so does an open transaction, even one that is committed half-done by the
  FAILED audit record.
- `FinishedRunCorrect`: `~LateRepair => (JobSpec => FinishedRunIsConsistent)`. The last gate reads
  counts of audit rows, none of LANDING; that the slices are equal row by row follows from
  `FinishInv`, which follows the latest run through its second pass: LANDING keeps rows of
  the month for every contract from notebook 03 on (`LandedRows`); a slice of ANALYTICS is
  LANDING's unless its contract is still to come, in this task or a later one (`Reloaded`,
  `Pending`), across failures and repairs of each task; a task has only contracts of its
  notebook left and a load ends well after the last one (`TodoOfTask`); a SUCCEEDED record is
  that of a contract in pass 1 or 2 (`AuditOfLoads`), so that two different passes are both;
  what the second notebook 07 found stays true (`Reconciled`). TLC found `FinishInv` invariant on
  the `job` instance before it was proved.

**`MartsProofs`**, for `~LateRepair` and `~RollbackMayFail` (without either a load of one month may
change another, as `late_repair` and `rollback_raises` show) and for `DimensionsGrow` (a dimension
that loses a row takes trips from every month that is joined with it).

- `FinishedMonthsCorrect`: a month that a finished run loaded, and no other run is loading, stays
  whole in the marts. What gate 07 found of it is a statement about tables (`Whole`), and has to
  survive every load of another month, which replaces the dimensions: LANDING of a
  dimension is empty or has all keys that ANALYTICS has (`DimsKept`), since Gold's builds grow
  and notebook 02 fills a table only after it cleared it, and no load is of an empty LANDING
  (`LandedRows` of `FinishInv`). From tables to views the argument is one of
  bijections. By `SlicesAreBuilds` a dimension has one row for a key (`OneDimRow`), so that a trip that
  finds a row for each of its six joins is one for its fact (`TripsOfFacts`). A group finds one
  row at most, and it is not known to find one: an aggregate mart is in bijection with a part of its
  groups (`RowsOfAggregate`), and its sum with the sum over that part, which is no more than that over
  all (`SumBijection` and `SumSubset` of `SumTheorems`, `MonthCounted`).
- `DbtTestsCorrect`: with no run active or failed, rows of every month come from runs that finished
  (`RowsOfRuns`), so that all months are whole; what gate 09 found unique is so until the next run
  starts (`AtRest => Unique`). The counts and keys of the views follow by the same bijections. The
  relationships of aggregates are not among these tests.

`MartsInv` is the conjunction of these parts; TLC found it invariant on the `job` instance first.

**`LocalDownloadProofs`**. `DownloadTypeCorrect`, `DownloadAuditComplete` (by `Progress`: the
records of a command are those of the sources it has passed, and `UnrecordedInv`, which counts
commands whose failure is not recorded against faults) and `PartsRemoved` (by `PartsInv`, which
counts the `.part` files left behind against faults) hold for any number of commands at the same
time. `PublishedWholeCorrect`,
`WeatherWholeCorrect`, `KeptCorrect` and `DownloadedCorrect` need `MaxActive <= 1`: their
invariant `TransfersInv` says that the one command that runs owns the `.part` file it has open
(`Alone`), which chunks of its response are in it (`Received`, `Written`), and that nothing else
refers to that inode (`Fresh`).

**`AdlsUploadProofs`**, for any number of commands at the same time: `UploadTypeCorrect` with
`TransfersReady` (a transfer comes to its rename only with a flushed staging object of the
size it measured), from which `PublishedIsMeasured` and `ReplacedWasSeen` follow;
`UploadAuditComplete` by `AuditInv`; `ReportedCorrect` by `AboutToReport` (between rename and
report the object is there); `StagingCorrect` by `DebrisInv`, which counts staging objects
against faults.

**`MedallionProofs`**. `MedallionTypeCorrect`; `AcceptedReconciled` and `UnrelatedMonthsIntact`,
both for `~LateRepair` and, as everywhere in the module, `LookupGrows`. The gates compare
counts only, so that `AcceptedIsReconciled` cannot follow from what they check. The
invariant follows the run instead: `ControlInv` ties `pos`, `step` and `round` to the notebook,
and `LayersInv` says which layers are those of the latest run of a month, row by row, once
it has reached a notebook (`Layers`, `Reached`) and what it has written of the current one
(`HasWritten`), that Bronze and Silver zones only grow (`ZonesGrow`) and that accepted
months stay covered by `dim_date` and `dim_location`.

**`TripRecordsProofs`**, for every `Hundredth` and `AvgUnit`. What the casts preserve is a matter of
signs (`HalfUpValues`, `CastValues`, `CountValues`): a rounded amount is negative only if the raw one
is, and then the raw one is at least half a hundredth. From that `EveryRowAgrees` compares the
Spark rules with the pure functions for every row, zone set and duplicate flag, and
`EveryFlagAgrees` the flags; `AcceptedMeasuresAgree` compares the measures. `ClassificationCorrect`,
`MeasuresCorrect` and `LandedFlagCorrect` carry them along the notebooks by `RowsInv` (what is
valid has usable columns, facts are the Gold rows of valid trips, landed rows those of facts),
with `RecordsTypeCorrect`. What is counted and summed up:

- `AggregatesCorrect` and `DailyCorrect`, by `AggregatesInvariant`: an aggregation that is there is
  that of the current facts. The groups of its keys cover the facts, and no fact is in two
  (`SumGroups`); a fact that Gold accepts has no NULL that SUM would skip (`FactColumns`). An average
  rounded twice is close to the quotient by `AverageOfKnown`, from `Division`.
- `TripsKept`, by `SilverInvariant`: valid and rejected rows belong to two evaluations that may rank
  duplicates differently. A row whose fate is settled is judged alike with every choice of
  zone rows, and among its copies the first of either ranking is the one that counts
  (`OneCopyAccepted`, `DuplicateRejected`).

**`SumTheorems`**. `SumFunctionOnSet` is a recursive function, and its laws need induction over
finite sets. The induction theorems of the library cannot be instantiated, but strict
inclusion is well-founded on finite subsets, and a set of counterexamples has a smallest one
(`SmallestSubset`): each law is proved by looking at that one. From the empty sum, one
element more (`SumRemove`) and disjoint unions (`SumUnion`) follow sums of ones, which are
cardinalities (`SumCounts`), sums of a part (`SumSubset`), and `SumGroups`: summing up by groups is
summing up.

Every invariant and every safety property of the passing runs is stated by one of these
theorems. Model-checked only is liveness (`ActiveRunEnds`, `RunEnds`): it rests on `ENABLED`, which is out of
the provers' reach.

## Not modelled

- Snowflake bootstrap, DDL, the schema check of LANDING, credentials and key conversion:
  they keep no state that steps share.
- `upload_directory`, which no command calls; a local file that changes without changing
  its size, as sizes are all the upload compares.
- `dim_time`, which is constant; the calendar attributes of `dim_date`; the average columns
  of the aggregates besides that of passengers, computed like it; checks of schemas,
  partitions and null keys.
- dbt tests of accepted values and ranges, which follow from Gold's own gate, and dbt's
  runs: a view has no state.
- Two runs of Phases 4 to 6 at once: one at a time is assumed, as `docs/Design.md` requires
  of Phase 7. The second to write `dim_date` could have read Silver before the other month
  was there.
- Wording and timestamps of audit records, logging, configuration parsing.
- A Spark `save` to LANDING that leaves some of its rows: it is taken to be one COPY. Texts, fractions
  of seconds, and fractions of distances.

## Plan

Done: `SnowflakeLoad` with `SliceReplacement`, `SnowflakeJob`, `Marts`, `LocalDownload`, `AdlsUpload`,
`Medallion`, `TripRules`, `TripRecords`, and proofs about all of them.

Left, in this order:

1. An abstract specification of a month that is accepted as a whole, implemented by
   `Medallion`, and the composition with `SnowflakeJob` through `gold`: a build is what an
   accepted run left, instead of any set of keys with `DimensionsGrow`.
2. Two active medallion runs: a stale `dim_date` overwrites a newer one.
