------------------------ MODULE SnowflakeLoadProofs ------------------------
(***************************************************************************)
(* Proofs about SnowflakeLoad, for any number of datasets, months, keys,   *)
(* Gold builds, tasks and faults.                                          *)
(***************************************************************************)
EXTENDS SnowflakeLoad, FiniteSetTheorems, TLAPS

(***************************************************************************)
(* Tables.                                                                 *)
(***************************************************************************)

(* A task sees finitely many rows.                                         *)
LEMMA RowsFinite == IsFiniteSet(Rows)
<1> DEFINE P == (Keys \X Parts) \X Versions
           f == [x \in P |-> [key |-> x[1][1], month |-> x[1][2], ver |-> x[2]]]
<1>1. IsFiniteSet(Parts)
  BY DataAssumption, FS_Singleton, FS_Union DEF Parts
<1>2. IsFiniteSet(Versions)
  BY DataAssumption, FS_Interval DEF Versions
<1>3. IsFiniteSet(P)
  BY <1>1, <1>2, DataAssumption, FS_Product
<1>4. f \in Surjection(P, Rows)
  <2>1. f \in [P -> Rows]
    BY DEF Rows
  <2>2. ASSUME NEW r \in Rows PROVE \E x \in P : f[x] = r
    <3>1. <<<<r.key, r.month>>, r.ver>> \in P
      BY DEF Rows
    <3>2. f[<<<<r.key, r.month>>, r.ver>>] = r
      BY <3>1 DEF Rows
    <3> QED BY <3>1, <3>2
  <2> QED BY <2>1, <2>2 DEF Surjection
<1> QED BY <1>3, <1>4, FS_Surjection

(* The copies of rows are finitely many, so that they can be counted.      *)
LEMMA CopiesFinite ==
  ASSUME NEW t \in Table, NEW S \in SUBSET Rows
  PROVE  IsFiniteSet(Copies(t, S))
<1> DEFINE Copy(r) == {<<r, i>> : i \in 1 .. t[r]}
           C == {Copy(r) : r \in S}
           g == [r \in S |-> Copy(r)]
<1>1. IsFiniteSet(S)
  BY RowsFinite, FS_Subset
<1>2. IsFiniteSet(C)
  <2>1. g \in Surjection(S, C)
    BY Zenon DEF Surjection
  <2> QED BY <1>1, <2>1, FS_Surjection
<1>3. ASSUME NEW T \in C PROVE IsFiniteSet(T)
  <2>1. PICK r \in S : T = Copy(r)
    OBVIOUS
  <2> DEFINE h == [i \in 1 .. t[r] |-> <<r, i>>]
  <2>2. t[r] \in Int
    BY DEF Table
  <2>3. IsFiniteSet(1 .. t[r])
    BY <2>2, FS_Interval
  <2>4. h \in Surjection(1 .. t[r], T)
    BY <2>1, Zenon DEF Surjection
  <2> QED BY <2>3, <2>4, FS_Surjection
<1>4. IsFiniteSet(UNION C)
  BY <1>2, <1>3, FS_UNION
<1> QED BY <1>4 DEF Copies

(* A count of rows is a natural number.                                    *)
LEMMA CountType ==
  ASSUME NEW t \in Table, NEW S \in SUBSET Rows
  PROVE  table_count(t, S) \in Nat
BY CopiesFinite, FS_CardinalityType DEF table_count

(* Deleting, inserting and reading Gold yield tables.                      *)
LEMMA TableOps ==
  ASSUME NEW t \in Table, NEW u \in Table, NEW S, NEW d \in Datasets, NEW m
  PROVE  /\ Deleted(t, S) \in Table
         /\ Inserted(t, u) \in Table
         /\ GoldFrame(d, m) \in Table
         /\ EmptyTable \in Table
         /\ Slice(d, m) \in SUBSET Rows
BY DEF Deleted, Inserted, GoldFrame, EmptyTable, Table, Slice

(***************************************************************************)
(* Contracts and audit records.                                            *)
(***************************************************************************)

(* Every notebook has at least one contract to process.                    *)
LEMMA ContractsType ==
  ASSUME NEW nb \in Notebooks
  PROVE  Contracts(nb) \in Seq(Datasets) /\ Contracts(nb) # <<>>
<1>1. <<Fact>> \in Seq(Datasets) /\ <<Fact>> # <<>>
  BY ContractsAssumption
<1>2. TABLE_CONTRACTS \in Seq(Datasets) /\ TABLE_CONTRACTS # <<>>
  <2>1. <<Fact>> \o Dims \in Seq(Datasets) /\ Len(<<Fact>> \o Dims) = 1 + Len(Dims)
    BY <1>1, ContractsAssumption
  <2>2. /\ (<<Fact>> \o Dims) \o Aggs \in Seq(Datasets)
        /\ Len((<<Fact>> \o Dims) \o Aggs) = Len(<<Fact>> \o Dims) + Len(Aggs)
    BY <2>1, ContractsAssumption
  <2>3. Len(TABLE_CONTRACTS) > 0
    BY <2>1, <2>2, ContractsAssumption DEF TABLE_CONTRACTS
  <2> QED BY <2>2, <2>3 DEF TABLE_CONTRACTS
<1> QED BY <1>1, <1>2, ContractsAssumption DEF Contracts, Notebooks

(* The step a notebook starts with.                                        *)
LEMMA FirstStepType ==
  ASSUME NEW nb \in Notebooks
  PROVE  FirstStep(nb) \in {"count", "validate", "precount"}
BY DEF FirstStep

(* The audit records of a running task satisfy the record's checks.        *)
LEMMA RecordType ==
  ASSUME TypeOK, pc \notin Stopped
  PROVE  /\ Ds \in Datasets
         /\ task.month \in Months
         /\ task.notebook \in Notebooks
         /\ FailedRecord \in AuditRow
         /\ SuccessRecord \in AuditRow
<1>1. Ds \in Datasets
  BY DEF TypeOK, Ds
<1>2. /\ task.month \in Months /\ task.notebook \in Notebooks
      /\ task.run \in RunIds /\ task.pass \in Passes
  BY DEF TypeOK, Tasks
<1>3. Part(Ds, task.month) \in Parts
  BY <1>2 DEF Part, Parts
<1>4. src \in Counts /\ tgt \in Counts /\ Null \in Counts
  BY DEF TypeOK, Counts
<1> QED
  BY <1>1, <1>2, <1>3, <1>4
  DEF FailedRecord, SuccessRecord, Record, AuditRow

(***************************************************************************)
(* Type correctness.                                                       *)
(***************************************************************************)

LEMMA InitType == Init => TypeOK
<1>1. EmptyTable \in Table
  BY DEF EmptyTable, Table
<1>2. MaxVersion \in Nat /\ MaxVersion > 0
  BY DataAssumption
<1>3. 1 \in Versions
  BY <1>2 DEF Versions
<1>4. Init => gold \in [Datasets -> [Parts -> Versions]]
  BY <1>3 DEF Init
<1>5. Init => /\ landing \in [Datasets -> Table] /\ analytics \in [Datasets -> Table]
              /\ work \in Table /\ prior \in Table
  BY <1>1 DEF Init
<1>6. Init => audit \in Seq(AuditRow) /\ todo \in Seq(Datasets)
  BY DEF Init
<1>7. Init => /\ tasks \in 0 .. MaxTasks /\ faults \in 0 .. MaxFaults
              /\ src \in Nat /\ tgt \in Nat
  BY BoundAssumption DEF Init
<1> QED
  BY <1>4, <1>5, <1>6, <1>7 DEF Init, TypeOK, Steps, Stopped

(* The steps of the environment and the start of a task.                   *)
LEMMA TypeEnvironment ==
  ASSUME TypeOK, Publish \/ (\E t \in Tasks : StartTask(t))
  PROVE  TypeOK'
<1>1. ASSUME NEW d \in Datasets, NEW p \in Parts, GoldPublish(d, p) PROVE TypeOK'
  <2>1. PICK b \in Versions : gold[d][p] < b
    <3>1. Builds[d, p] \in Versions
      BY DataAssumption
    <3> QED BY <1>1, <3>1, Zenon DEF GoldPublish
  <2>2. gold[d][p] + 1 \in Versions
    BY <2>1, DataAssumption DEF TypeOK, Versions
  <2>3. gold' \in [Datasets -> [Parts -> Versions]]
    BY <1>1, <2>2 DEF GoldPublish, TypeOK
  <2> QED BY <1>1, <2>3 DEF GoldPublish, TypeOK, session, local
<1>2. ASSUME NEW t \in Tasks, StartTask(t) PROVE TypeOK'
  <2>1. t.notebook \in Notebooks
    BY DEF Tasks
  <2>2. /\ Contracts(t.notebook) \in Seq(Datasets) /\ Contracts(t.notebook) # <<>>
        /\ FirstStep(t.notebook) \in {"count", "validate", "precount"}
    BY <2>1, ContractsType, FirstStepType
  <2>3. EmptyTable \in Table
    BY DEF EmptyTable, Table
  <2>4. tasks' \in 0 .. MaxTasks
    BY <1>2, BoundAssumption DEF StartTask, TypeOK
  <2> QED
    BY <1>2, <2>2, <2>3, <2>4
    DEF StartTask, TypeOK, store, Steps, LandingSteps, LoadSteps
<1> QED BY <1>1, <1>2 DEF Publish

(* The steps of a running task.                                            *)
LEMMA TypeTask ==
  ASSUME TypeOK, TaskStep
  PROVE  TypeOK'
<1> USE DEF Goto, Steps, LandingSteps, LoadSteps, TxnSteps, Stopped, store, session
<1>1. pc \notin Stopped
  BY DEF TaskStep, CountGold, ClearLanding, WriteLandingFrame, VerifyLanding,
         ValidateLanding, CountLanding, Begin, DeleteTarget, InsertFromLanding,
         CommitTarget, Rollback, CheckTarget, AppendAudit, AppendFailed
<1>2. /\ Ds \in Datasets /\ task.month \in Months /\ task.notebook \in Notebooks
      /\ FailedRecord \in AuditRow /\ SuccessRecord \in AuditRow
  BY <1>1, RecordType
<1>3. /\ EmptyTable \in Table
      /\ GoldFrame(Ds, task.month) \in Table
      /\ Slice(Ds, task.month) \in SUBSET Rows
      /\ Deleted(work, Slice(Ds, task.month)) \in Table
      /\ Inserted(work, landing[Ds]) \in Table
      /\ Inserted(landing[Ds], GoldFrame(Ds, task.month)) \in Table
  <2>1. EmptyTable \in Table
    BY DEF EmptyTable, Table
  <2>2. work \in Table /\ landing[Ds] \in Table
    BY <1>2 DEF TypeOK
  <2>3. GoldFrame(Ds, task.month) \in Table
    BY <1>2, <2>1, TableOps
  <2> QED BY <1>2, <2>1, <2>2, <2>3, TableOps
<1>4. CASE CountGold
  <2>1. src' \in Nat
    BY <1>3, <1>4, CountType DEF CountGold
  <2> QED BY <1>4, <2>1 DEF CountGold, TypeOK
<1>5. CASE ClearLanding
  BY <1>3, <1>5 DEF ClearLanding, TypeOK
<1>6. CASE WriteLandingFrame
  BY <1>3, <1>6 DEF WriteLandingFrame, TypeOK
<1>7. CASE VerifyLanding
  <2>1. tgt' \in Nat
    BY <1>2, <1>3, <1>7, CountType DEF VerifyLanding, TypeOK
  <2> QED BY <1>7, <2>1 DEF VerifyLanding, TypeOK
<1>8. CASE ValidateLanding
  BY <1>8 DEF ValidateLanding, TypeOK
<1>9. CASE CountLanding
  <2>1. src' \in Nat /\ prior' \in Table
    BY <1>2, <1>3, <1>9, CountType DEF CountLanding, TypeOK
  <2> QED BY <1>9, <2>1 DEF CountLanding, TypeOK
<1>10. CASE Begin
  BY <1>2, <1>10 DEF Begin, TypeOK
<1>11. CASE DeleteTarget
  BY <1>3, <1>11 DEF DeleteTarget, TypeOK
<1>12. CASE InsertFromLanding
  BY <1>3, <1>12 DEF InsertFromLanding, TypeOK
<1>13. CASE CommitTarget
  BY <1>3, <1>13 DEF CommitTarget, TypeOK
<1>14. CASE Rollback
  BY <1>3, <1>14 DEF Rollback, TypeOK
<1>15. CASE CheckTarget
  <2>1. tgt' \in Nat
    BY <1>2, <1>3, <1>15, CountType DEF CheckTarget, TypeOK
  <2> QED BY <1>15, <2>1 DEF CheckTarget, TypeOK
<1>16. CASE AppendAudit
  <2>1. audit' \in Seq(AuditRow)
    BY <1>2, <1>16 DEF AppendAudit, TypeOK
  <2>2. todo # <<>> /\ todo \in Seq(Datasets)
    BY <1>1 DEF TypeOK
  <2>3. Tail(todo) \in Seq(Datasets)
    BY <2>2
  <2>4. FirstStep(task.notebook) \in {"count", "validate", "precount"}
    BY <1>2, FirstStepType
  <2>5. /\ todo' = Tail(todo)
        /\ pc' \in Steps
        /\ pc' \notin Stopped => Tail(todo) # <<>>
    BY <1>16, <2>4 DEF AppendAudit, NextContract
  <2>6. UNCHANGED <<gold, landing, analytics, open, work, task, src, tgt,
                    faults, tasks, prior>>
    BY <1>16 DEF AppendAudit, NextContract
  <2>7. task \in Tasks
    BY <1>1 DEF TypeOK
  <2> QED BY <2>1, <2>3, <2>5, <2>6, <2>7 DEF TypeOK
<1>17. CASE AppendFailed
  <2>1. audit' \in Seq(AuditRow)
    BY <1>2, <1>17 DEF AppendFailed, TypeOK
  <2>2. analytics' \in [Datasets -> Table]
    BY <1>17 DEF AppendFailed, TypeOK
  <2> QED BY <1>3, <1>17, <2>1, <2>2 DEF AppendFailed, TypeOK
<1> QED
  BY <1>4, <1>5, <1>6, <1>7, <1>8, <1>9, <1>10, <1>11, <1>12, <1>13, <1>14,
     <1>15, <1>16, <1>17
  DEF TaskStep

(* The failing steps.                                                      *)
LEMMA TypeFault ==
  ASSUME TypeOK, TaskFault
  PROVE  TypeOK'
<1> USE DEF Goto, Steps, LandingSteps, LoadSteps, TxnSteps, Stopped, store, session
<1>1. pc \notin Stopped /\ Fault
  BY DEF TaskFault, QueryRaises, ClearLandingRaises, WriteLandingFrameRaises,
         StatementRaises, CommitUnacknowledged, RollbackRaises,
         AppendAuditRaises, AppendFailedRaises, Crash
<1>2. /\ Ds \in Datasets /\ task.month \in Months
      /\ FailedRecord \in AuditRow /\ SuccessRecord \in AuditRow
  BY <1>1, RecordType
<1>3. faults' \in 0 .. MaxFaults
  BY <1>1, BoundAssumption DEF Fault, TypeOK
<1>4. EmptyTable \in Table
  BY DEF EmptyTable, Table
<1>5. Inserted(landing[Ds], GoldFrame(Ds, task.month)) \in Table
  <2>1. landing[Ds] \in Table
    BY <1>2 DEF TypeOK
  <2> QED BY <1>2, <1>4, <2>1, TableOps
<1>6. CASE QueryRaises
  BY <1>3, <1>6 DEF QueryRaises, TypeOK
<1>7. CASE ClearLandingRaises
  <2>1. landing' \in [Datasets -> Table]
    BY <1>4, <1>7 DEF ClearLandingRaises, TypeOK
  <2> QED BY <1>3, <1>7, <2>1 DEF ClearLandingRaises, TypeOK
<1>8. CASE WriteLandingFrameRaises
  <2>1. landing' \in [Datasets -> Table]
    BY <1>5, <1>8 DEF WriteLandingFrameRaises, TypeOK
  <2> QED BY <1>3, <1>8, <2>1 DEF WriteLandingFrameRaises, TypeOK
<1>9. CASE StatementRaises
  BY <1>3, <1>9 DEF StatementRaises, TypeOK
<1>10. CASE CommitUnacknowledged
  BY <1>3, <1>4, <1>10 DEF CommitUnacknowledged, TypeOK
<1>11. CASE RollbackRaises
  BY <1>3, <1>11 DEF RollbackRaises, TypeOK
<1>12. CASE AppendAuditRaises
  <2>1. audit \in Seq(AuditRow) /\ Append(audit, SuccessRecord) \in Seq(AuditRow)
    BY <1>2 DEF TypeOK
  <2>2. audit' = audit \/ audit' = Append(audit, SuccessRecord)
    BY <1>12 DEF AppendAuditRaises
  <2>3. audit' \in Seq(AuditRow)
    BY <2>1, <2>2
  <2> QED BY <1>3, <1>12, <2>3 DEF AppendAuditRaises, TypeOK
<1>13. CASE AppendFailedRaises
  <2>1. audit \in Seq(AuditRow) /\ Append(audit, FailedRecord) \in Seq(AuditRow)
    BY <1>2 DEF TypeOK
  <2>2. audit' = audit \/ audit' = Append(audit, FailedRecord)
    BY <1>13 DEF AppendFailedRaises
  <2>3. audit' \in Seq(AuditRow)
    BY <2>1, <2>2
  <2> QED BY <1>3, <1>4, <1>13, <2>3 DEF AppendFailedRaises, TypeOK
<1>14. CASE Crash
  BY <1>3, <1>4, <1>14 DEF Crash, TypeOK, local
<1> QED
  BY <1>6, <1>7, <1>8, <1>9, <1>10, <1>11, <1>12, <1>13, <1>14 DEF TaskFault

LEMMA TypeStep == TypeOK /\ [Next]_vars => TypeOK'
<1> SUFFICES ASSUME TypeOK, [Next]_vars PROVE TypeOK'
  OBVIOUS
<1>1. CASE UNCHANGED vars
  BY <1>1 DEF TypeOK, vars
<1> QED BY <1>1, TypeEnvironment, TypeTask, TypeFault DEF Next

(* Tables stay bags of rows, audit records stay legal and a running task   *)
(* always has a contract to work on.                                       *)
THEOREM TypeCorrect == Spec => []TypeOK
BY InitType, TypeStep, PTL DEF Spec

(***************************************************************************)
(* The invariant of a load.                                                *)
(***************************************************************************)

LEMMA InitLoad == Init => LoadInv
BY DEF Init, LoadInv, WorkIsReplacement, OpenOnlyInTransaction, FactIsChecked

(* Environment steps and failures leave what the invariant speaks of alone,*)
(* or end the load.                                                        *)
LEMMA LoadEnvironment ==
  ASSUME LoadInv, Publish \/ (\E t \in Tasks : StartTask(t)) \/ TaskFault
  PROVE  LoadInv'
<1> USE DEF LoadInv, WorkIsReplacement, OpenOnlyInTransaction, FactIsChecked,
            Goto, store, session, Ds, Replacement, TxnSteps
<1>1. ASSUME NEW d \in Datasets, NEW p \in Parts, GoldPublish(d, p) PROVE LoadInv'
  BY <1>1 DEF GoldPublish, local
<1>2. ASSUME NEW t \in Tasks, StartTask(t) PROVE LoadInv'
  <2>1. pc' \in {"count", "validate", "precount"} /\ ~open'
    BY <1>2, FirstStepType DEF StartTask, Tasks
  <2> QED BY <2>1
<1>3. CASE QueryRaises
  BY <1>3 DEF QueryRaises
<1>4. CASE ClearLandingRaises
  BY <1>4 DEF ClearLandingRaises
<1>5. CASE WriteLandingFrameRaises
  BY <1>5 DEF WriteLandingFrameRaises
<1>6. CASE StatementRaises
  BY <1>6 DEF StatementRaises
<1>7. CASE CommitUnacknowledged
  BY <1>7 DEF CommitUnacknowledged
<1>8. CASE RollbackRaises
  BY <1>8 DEF RollbackRaises
<1>9. CASE AppendAuditRaises
  BY <1>9 DEF AppendAuditRaises
<1>10. CASE AppendFailedRaises
  BY <1>10 DEF AppendFailedRaises
<1>11. CASE Crash
  BY <1>11 DEF Crash
<1> QED
  BY <1>1, <1>2, <1>3, <1>4, <1>5, <1>6, <1>7, <1>8, <1>9, <1>10, <1>11
  DEF Publish, TaskFault

(* The steps of a running task.                                            *)
LEMMA LoadTask ==
  ASSUME TypeOK, LoadInv, TaskStep
  PROVE  LoadInv'
<1> USE DEF LoadInv, WorkIsReplacement, OpenOnlyInTransaction, FactIsChecked,
            Goto, store, session, Ds, Replacement
<1>1. CASE CountGold
  BY <1>1 DEF CountGold
<1>2. CASE ClearLanding
  BY <1>2 DEF ClearLanding
<1>3. CASE WriteLandingFrame
  BY <1>3 DEF WriteLandingFrame
<1>4. CASE VerifyLanding
  BY <1>4 DEF VerifyLanding
<1>5. CASE ValidateLanding
  BY <1>5 DEF ValidateLanding
<1>6. CASE CountLanding
  BY <1>6 DEF CountLanding
<1>7. CASE Begin
  BY <1>7 DEF Begin
<1>8. CASE DeleteTarget
  BY <1>8 DEF DeleteTarget, Slice
<1>9. CASE InsertFromLanding
  BY <1>9 DEF InsertFromLanding, Slice
<1>10. CASE CommitTarget
  <2>1. Ds \in Datasets
    BY <1>10, RecordType DEF CommitTarget, Stopped
  <2>2. analytics'[Ds] = work
    BY <1>10, <2>1 DEF CommitTarget, TypeOK
  <2> QED BY <1>10, <2>2 DEF CommitTarget, Slice
<1>11. CASE Rollback
  BY <1>11 DEF Rollback
<1>12. CASE CheckTarget
  BY <1>12 DEF CheckTarget, Slice, HasDuplicateKey
<1>13. CASE AppendAudit
  <2>1. task.notebook \in Notebooks
    BY <1>13, RecordType DEF AppendAudit, Stopped
  <2>2. pc' \in {"done", "count", "validate", "precount"}
    BY <1>13, <2>1, FirstStepType DEF AppendAudit, NextContract
  <2>3. ~open'
    BY <1>13 DEF AppendAudit
  <2> QED BY <2>2, <2>3
<1>14. CASE AppendFailed
  BY <1>14 DEF AppendFailed
<1> QED
  BY <1>1, <1>2, <1>3, <1>4, <1>5, <1>6, <1>7, <1>8, <1>9, <1>10, <1>11, <1>12,
     <1>13, <1>14
  DEF TaskStep

LEMMA LoadStep == TypeOK /\ LoadInv /\ [Next]_vars => LoadInv'
<1> SUFFICES ASSUME TypeOK, LoadInv, [Next]_vars PROVE LoadInv'
  OBVIOUS
<1>1. CASE UNCHANGED vars
  BY <1>1 DEF vars, LoadInv, WorkIsReplacement, OpenOnlyInTransaction,
              FactIsChecked, Ds, Replacement
<1> QED BY <1>1, LoadEnvironment, LoadTask DEF Next

(* A transaction only ever holds a stage of the replacement of one slice,  *)
(* nothing is committed before the last stage, and the fact's load is      *)
(* recorded only past its duplicate check.                                 *)
THEOREM LoadCorrect == Spec => []LoadInv
<1>1. TypeOK /\ LoadInv /\ [Next]_vars => LoadInv'
  BY LoadStep
<1> QED BY InitLoad, TypeCorrect, <1>1, PTL DEF Spec

(***************************************************************************)
(* What a SUCCEEDED record means.                                          *)
(***************************************************************************)

(* After the replacement the slice of the target is the slice of LANDING.  *)
LEMMA ReplacedSlice ==
  ASSUME NEW d \in Datasets, NEW m, NEW t \in Table, landing[d] \in Table
  PROVE  \A r \in Slice(d, m) : Replacement(d, m, t)[r] = landing[d][r]
BY DEF Replacement, Deleted, Inserted, Slice, Table

(* Only AppendAudit and AppendAuditRaises append a SUCCEEDED record, and   *)
(* they append the current contract's.                                     *)
LEMMA SucceededStep ==
  ASSUME TypeOK, [Next]_vars, Succeeds
  PROVE  /\ pc = "succeeded"
         /\ audit'[Len(audit')] = SuccessRecord
<1> DEFINE last == audit'[Len(audit')]
<1> USE DEF store, Goto
<1>1. ASSUME NEW a, audit' = Append(audit, a)
      PROVE  last = a
  BY <1>1 DEF TypeOK
<1>2. ASSUME audit' = Append(audit, FailedRecord) PROVE FALSE
  BY <1>1, <1>2 DEF Succeeds, FailedRecord, Record
<1>3. ASSUME pc \in {"landed", "succeeded"}, audit' = Append(audit, SuccessRecord)
      PROVE  pc = "succeeded" /\ last = SuccessRecord
  BY <1>1, <1>3 DEF Succeeds, SuccessRecord, Record
<1>4. audit' # audit
  BY DEF Succeeds
<1>5. ASSUME NEW t \in Tasks, StartTask(t) PROVE FALSE
  BY <1>4, <1>5 DEF StartTask
<1>6. CASE Publish
  BY <1>4, <1>6 DEF Publish, GoldPublish
<1>7. CASE UNCHANGED vars
  BY <1>4, <1>7 DEF vars
<1>8. CASE TaskStep
  <2>1. CASE AppendAudit
    BY <1>3, <2>1 DEF AppendAudit
  <2>2. CASE AppendFailed
    BY <1>2, <2>2 DEF AppendFailed
  <2> QED
    BY <1>4, <1>8, <2>1, <2>2
    DEF TaskStep, CountGold, ClearLanding, WriteLandingFrame, VerifyLanding,
        ValidateLanding, CountLanding, Begin, DeleteTarget, InsertFromLanding,
        CommitTarget, Rollback, CheckTarget
<1>9. CASE TaskFault
  <2>1. CASE AppendAuditRaises
    BY <1>3, <1>4, <2>1 DEF AppendAuditRaises
  <2>2. CASE AppendFailedRaises
    BY <1>2, <1>4, <2>2 DEF AppendFailedRaises
  <2> QED
    BY <1>4, <1>9, <2>1, <2>2
    DEF TaskFault, QueryRaises, ClearLandingRaises, WriteLandingFrameRaises,
        StatementRaises, CommitUnacknowledged, RollbackRaises, Crash
<1> QED BY <1>5, <1>6, <1>7, <1>8, <1>9 DEF Next

(* When a SUCCEEDED record is appended, the committed target slice is the  *)
(* slice in LANDING, row by row, and FACT_TRIPS has no duplicate trip_id.  *)
THEOREM SucceededCorrect == Spec => SucceededLoadIsWhole
<1> DEFINE a == audit'[Len(audit')]
           Whole == Succeeds =>
             /\ \A r \in Slice(a.dataset, a.month) :
                   analytics[a.dataset][r] = landing[a.dataset][r]
             /\ a.dataset = Fact => ~HasDuplicateKey(Fact, analytics[Fact])
<1>1. TypeOK /\ LoadInv /\ [Next]_vars => Whole
  <2> SUFFICES ASSUME TypeOK, LoadInv, [Next]_vars, Succeeds
               PROVE  /\ \A r \in Slice(a.dataset, a.month) :
                            analytics[a.dataset][r] = landing[a.dataset][r]
                      /\ a.dataset = Fact => ~HasDuplicateKey(Fact, analytics[Fact])
    OBVIOUS
  <2>1. pc = "succeeded" /\ a = SuccessRecord
    BY SucceededStep
  <2>2. a.dataset = Ds /\ a.month = Part(Ds, task.month)
    BY <2>1 DEF SuccessRecord, Record
  <2>3. Ds \in Datasets /\ landing[Ds] \in Table /\ prior \in Table
    BY <2>1, RecordType DEF Stopped, TypeOK
  <2>4. Slice(a.dataset, a.month) = Slice(Ds, task.month)
    BY <2>2 DEF Slice, Part
  <2>5. analytics[Ds] = Replacement(Ds, task.month, prior)
    BY <2>1 DEF LoadInv, WorkIsReplacement
  <2>6. \A r \in Slice(Ds, task.month) : analytics[Ds][r] = landing[Ds][r]
    BY <2>3, <2>5, ReplacedSlice
  <2>7. Ds = Fact => ~HasDuplicateKey(Fact, analytics[Fact])
    BY <2>1 DEF LoadInv, FactIsChecked
  <2> QED BY <2>2, <2>4, <2>6, <2>7
<1> QED
  BY <1>1, TypeCorrect, LoadCorrect, PTL DEF Spec, SucceededLoadIsWhole

(***************************************************************************)
(* Refinement of SliceReplacement.                                         *)
(***************************************************************************)

LEMMA InitPromise == Init => Promise!Init
BY DEF Init, Promise!Init, EmptyTable

(* Committing a finished replacement is the abstract Load.                 *)
LEMMA CommitIsLoad ==
  ASSUME TypeOK, LoadInv, pc = "commit",
         analytics' = [analytics EXCEPT ![Ds] = work],
         landing' = landing
  PROVE  Promise!Next
<1> DEFINE m == task.month
<1>1. Ds \in Datasets /\ m \in Months
  BY RecordType DEF Stopped
<1>2. work = Replacement(Ds, m, analytics[Ds])
  BY DEF LoadInv, WorkIsReplacement
<1>3. work = [r \in Rows |-> (IF r \in Slice(Ds, m) THEN 0 ELSE analytics[Ds][r])
                             + landing[Ds][r]]
  BY <1>2 DEF Replacement, Inserted, Deleted
<1>4. Promise!Load(Ds, m)
  BY <1>1, <1>3 DEF Promise!Load
<1> QED BY <1>1, <1>4 DEF Promise!Next

(* A change of one landing table is the abstract Stage.                    *)
LEMMA LandingIsStage ==
  ASSUME TypeOK, Ds \in Datasets, NEW t,
         landing' = landing \/ landing' = [landing EXCEPT ![Ds] = t],
         analytics' = analytics
  PROVE  [Promise!Next]_<<landing, analytics>>
<1>1. CASE landing' = [landing EXCEPT ![Ds] = t]
  <2>1. landing' = [landing EXCEPT ![Ds] = landing'[Ds]]
    BY <1>1 DEF TypeOK
  <2> QED BY <2>1 DEF Promise!Next, Promise!Stage
<1> QED BY <1>1

LEMMA PromiseStep ==
  ASSUME ~RollbackMayFail, TypeOK, LoadInv, [Next]_vars
  PROVE  [Promise!Next]_<<landing, analytics>>
<1> USE DEF store, Goto
<1>1. ASSUME UNCHANGED <<landing, analytics>>
      PROVE  [Promise!Next]_<<landing, analytics>>
  BY <1>1
<1>2. pc \notin Stopped => Ds \in Datasets
  BY RecordType
<1>3. CASE UNCHANGED vars
  BY <1>1, <1>3 DEF vars
<1>4. CASE Publish \/ (\E t \in Tasks : StartTask(t))
  BY <1>1, <1>4 DEF Publish, GoldPublish, StartTask
<1>5. CASE TaskStep
  <2>1. CASE ClearLanding
    BY <1>2, <2>1, LandingIsStage DEF ClearLanding, Stopped
  <2>2. CASE WriteLandingFrame
    <3>1. landing' = [landing EXCEPT ![Ds] =
                        Inserted(landing[Ds], GoldFrame(Ds, task.month))]
      BY <2>2 DEF WriteLandingFrame
    <3> QED
      BY <1>2, <2>2, <3>1, LandingIsStage DEF WriteLandingFrame, Stopped
  <2>3. CASE CommitTarget
    BY <2>3, CommitIsLoad DEF CommitTarget
  <2>4. CASE AppendFailed
    <3>1. ~open
      BY <2>4 DEF AppendFailed, LoadInv, OpenOnlyInTransaction
    <3> QED BY <1>1, <2>4, <3>1 DEF AppendFailed
  <2> QED
    BY <1>1, <1>5, <2>1, <2>2, <2>3, <2>4
    DEF TaskStep, CountGold, VerifyLanding, ValidateLanding, CountLanding,
        Begin, DeleteTarget, InsertFromLanding, Rollback, CheckTarget, AppendAudit
<1>6. CASE TaskFault
  <2>1. CASE ClearLandingRaises
    <3>1. landing' = landing \/ landing' = [landing EXCEPT ![Ds] = EmptyTable]
      BY <2>1 DEF ClearLandingRaises
    <3> QED
      BY <1>2, <2>1, <3>1, LandingIsStage DEF ClearLandingRaises, Stopped
  <2>2. CASE WriteLandingFrameRaises
    <3>1. \/ landing' = landing
          \/ landing' = [landing EXCEPT ![Ds] =
                           Inserted(landing[Ds], GoldFrame(Ds, task.month))]
      BY <2>2 DEF WriteLandingFrameRaises
    <3> QED
      BY <1>2, <2>2, <3>1, LandingIsStage DEF WriteLandingFrameRaises, Stopped
  <2>3. CASE CommitUnacknowledged
    BY <2>3, CommitIsLoad DEF CommitUnacknowledged
  <2> QED
    BY <1>1, <1>6, <2>1, <2>2, <2>3
    DEF TaskFault, QueryRaises, StatementRaises, RollbackRaises,
        AppendAuditRaises, AppendFailedRaises, Crash
<1> QED BY <1>3, <1>4, <1>5, <1>6 DEF Next

(* If rollback() never raises, ANALYTICS changes only by replacing one     *)
(* whole slice from LANDING, whatever else fails and wherever a task dies. *)
THEOREM LoadRefines == ~RollbackMayFail => (Spec => ReplacesSlices)
<1> SUFFICES ASSUME ~RollbackMayFail PROVE Spec => ReplacesSlices
  OBVIOUS
<1>1. TypeOK /\ LoadInv /\ [Next]_vars => [Promise!Next]_<<landing, analytics>>
  BY PromiseStep
<1> QED
  BY <1>1, InitPromise, TypeCorrect, LoadCorrect, PTL
  DEF Spec, ReplacesSlices, Promise!Spec
=============================================================================
