-------------------------- MODULE AdlsUploadProofs --------------------------
(***************************************************************************)
(* Proofs about AdlsUpload, for any number of targets, versions, commands, *)
(* commands at the same time and faults.                                   *)
(***************************************************************************)
EXTENDS AdlsUpload, FiniteSetTheorems, TLAPS

(***************************************************************************)
(* What the steps of a command have in common.                             *)
(***************************************************************************)

(* A running command has a target.                                         *)
LEMMA TgtType ==
  ASSUME TypeOK, NEW r \in Active
  PROVE  /\ r \in Runs /\ todo[r] # <<>> /\ Tgt(r) \in Targets
         /\ Tail(todo[r]) \in Seq(Targets)
<1>1. r \in Runs /\ todo[r] \in Seq(Targets) /\ todo[r] # <<>>
  BY DEF Active, TypeOK
<1>2. Head(todo[r]) \in Targets /\ Tail(todo[r]) \in Seq(Targets)
  BY <1>1
<1> QED BY <1>1, <1>2 DEF Tgt

(* A command goes on with its target, or it ends without having finished.  *)
Moves(r) ==
    /\ \E step \in Steps \cup {"raised", "crashed"} : Goto(r, step)
    /\ UNCHANGED <<todo, report>>

(* A command records the outcome of its target.                            *)
Records1(r) ==
    \E status \in {"uploaded", "skipped", "failed"}, message \in BOOLEAN :
        /\ Audited(r, status, message)
        /\ failed' = IF status = "failed" THEN [failed EXCEPT ![r] = TRUE] ELSE failed
        /\ status = "failed" <=> pc[r] = "auditfail"
        /\ status # "failed" /\ ~message => pc[r] \in {"skipped", "uploaded"}
        /\ pc[r] \notin TrySteps \cup {"cleanup"}
        /\ UNCHANGED <<remote, staging>>

LEMMA StepShape ==
  ASSUME TypeOK, NEW r \in Runs, Step(r) \/ StepFails(r)
  PROVE  /\ r \in Active /\ UNCHANGED <<local, overwrite>>
         /\ Moves(r) \/ Records1(r)
<1> USE DEF Steps, TrySteps, report, seen
<1>1. CASE SkipOptional(r) \/ AuditResult(r) \/ AuditFailure(r)
  <2>1. r \in Active /\ UNCHANGED <<local, overwrite>>
    BY <1>1 DEF SkipOptional, AuditResult, AuditFailure, Active
  <2>2. CASE SkipOptional(r)
    <3>1. "skipped" # "failed" /\ pc[r] # "auditfail"
      BY <2>2 DEF SkipOptional
    <3> QED BY <2>1, <2>2, <3>1 DEF SkipOptional, Records1
  <2>3. CASE AuditResult(r)
    <3>1. /\ pc[r] \in {"skipped", "uploaded"} /\ Audited(r, pc[r], FALSE)
          /\ UNCHANGED <<remote, staging, failed>>
      BY <2>3 DEF AuditResult
    <3> QED BY <2>1, <3>1 DEF Records1
  <2>4. CASE AuditFailure(r)
    <3>1. /\ pc[r] = "auditfail" /\ Audited(r, "failed", TRUE)
          /\ failed' = [failed EXCEPT ![r] = TRUE] /\ UNCHANGED <<remote, staging>>
      BY <2>4 DEF AuditFailure
    <3> QED BY <2>1, <3>1 DEF Records1
  <2> QED BY <1>1, <2>1, <2>2, <2>3, <2>4
<1>2. CASE ~(SkipOptional(r) \/ AuditResult(r) \/ AuditFailure(r))
  <2>1. r \in Active /\ UNCHANGED <<local, overwrite>> /\ UNCHANGED <<todo, report>>
    BY <1>2 DEF Step, StepFails, StatLocal, LookUp, CreateStaging, OpenLocal,
       FlushStaging, VerifyStaged, DeleteRemote, RenameStaging, ConfirmRemote, Cleanup,
       SkipOptionalRaises, LookUpRaises, TransferRaises, CleanupRaises, AuditRaises,
       Crash, Active
  <2>2. \E step \in Steps \cup {"raised", "crashed"} : Goto(r, step)
    BY <1>2 DEF Step, StepFails, StatLocal, LookUp, CreateStaging, OpenLocal,
       FlushStaging, VerifyStaged, DeleteRemote, RenameStaging, ConfirmRemote, Cleanup,
       SkipOptionalRaises, LookUpRaises, TransferRaises, CleanupRaises, AuditRaises,
       Crash
  <2> QED BY <2>1, <2>2 DEF Moves
<1> QED BY <1>1, <1>2

(***************************************************************************)
(* Type correctness.  What is renamed must have been flushed, so that the  *)
(* types hold only together with what a transfer knows at each step.       *)
(***************************************************************************)

(* A transfer has a local file to open, a staging object that holds it,    *)
(* and, from the verification on, the size that was measured; it overwrites *)
(* only where it may.                                                      *)
Ready(r) ==
    LET staged == staging[<<r, Tgt(r)>>] IN
    /\ pc[r] \in {"lookup", "create", "open"} => local[Tgt(r)] # Absent
    /\ pc[r] = "flush" => source[r] # Absent
    /\ pc[r] = "verify" => staged \in Versions
    /\ pc[r] \in {"delete", "rename"} => staged \in Versions /\ Size[staged] = size[r]
    /\ pc[r] \in {"create", "open", "flush", "verify", "delete", "rename"} /\ exists[r] =>
          overwrite[r]
    /\ pc[r] = "delete" => exists[r] /\ overwrite[r]

TransfersReady == \A r \in Active : Ready(r)

LEMMA UploadInit == Init => TypeOK /\ TransfersReady
<1> SUFFICES ASSUME Init PROVE TypeOK /\ TransfersReady
  OBVIOUS
<1>1. Active = {}
  BY DEF Init, Active, Steps, TrySteps
<1>2. <<>> \in Seq(Targets) /\ <<>> \in Seq(Records)
  OBVIOUS
<1>3. TypeOK
  BY <1>1, <1>2, RunAssumption DEF Init, TypeOK
<1> QED BY <1>1, <1>3 DEF TransfersReady

(* The control state of a command stays well typed.                        *)
LEMMA ControlType ==
  ASSUME TypeOK, NEW r \in Runs, Step(r) \/ StepFails(r)
  PROVE  /\ local' \in [Targets -> Versions \cup {Absent}]
         /\ pc' \in [Runs -> {"idle"} \cup Steps \cup Ended]
         /\ todo' \in [Runs -> Seq(Targets)]
         /\ overwrite' \in [Runs -> BOOLEAN] /\ failed' \in [Runs -> BOOLEAN]
         /\ audit' \in [Runs -> Seq(Records)]
         /\ \A q \in Active' : q \in Active /\ todo'[q] # <<>>
<1>1. /\ local' = local /\ overwrite' = overwrite /\ r \in Active
      /\ Moves(r) \/ Records1(r)
  BY StepShape
<1>2. CASE Moves(r)
  BY <1>1, <1>2 DEF Moves, Goto, report, TypeOK, Active, Ended
<1>3. CASE Records1(r)
  <2>1. PICK status \in {"uploaded", "skipped", "failed"}, message \in BOOLEAN :
          /\ Audited(r, status, message)
          /\ failed' = IF status = "failed" THEN [failed EXCEPT ![r] = TRUE] ELSE failed
    BY <1>3 DEF Records1
  <2> DEFINE record == [target |-> Tgt(r), status |-> status, message |-> message]
  <2>2. record \in Records /\ Tail(todo[r]) \in Seq(Targets)
    BY <1>1, TgtType DEF Records
  <2> HIDE DEF record
  <2>3. audit' = [audit EXCEPT ![r] = Append(audit[r], record)]
    BY <2>1 DEF Audited, record
  <2>4. Append(audit[r], record) \in Seq(Records)
    BY <2>2 DEF TypeOK
  <2>5. audit' \in [Runs -> Seq(Records)]
    BY <2>3, <2>4 DEF TypeOK
  <2>6. /\ todo' = [todo EXCEPT ![r] = Tail(todo[r])]
        /\ pc' = [pc EXCEPT ![r] = IF Tail(todo[r]) = <<>> THEN "done" ELSE "check"]
    BY <2>1 DEF Audited, Goto
  <2>7. todo' \in [Runs -> Seq(Targets)] /\ pc' \in [Runs -> {"idle"} \cup Steps \cup Ended]
    BY <2>2, <2>6 DEF TypeOK, Steps, Ended
  <2>8. \A q \in Active' : q \in Active /\ todo'[q] # <<>>
    BY <1>1, <2>6 DEF TypeOK, Active, Steps, TrySteps, Ended
  <2>9. failed' \in [Runs -> BOOLEAN]
    BY <2>1 DEF TypeOK
  <2> QED BY <1>1, <2>5, <2>7, <2>8, <2>9 DEF TypeOK
<1> QED BY <1>1, <1>2, <1>3

(* The objects and what a command knows of them stay well typed.           *)
LEMMA StoreType ==
  ASSUME TypeOK, TransfersReady, NEW r \in Runs, Step(r) \/ StepFails(r)
  PROVE  /\ remote' \in [Targets -> Versions \cup {Absent}]
         /\ staging' \in [Runs \X Targets -> Versions \cup {0, Absent}]
         /\ size' \in [Runs -> Nat] /\ exists' \in [Runs -> BOOLEAN]
         /\ source' \in [Runs -> Versions \cup {Absent}]
         /\ faults' \in 0 .. MaxFaults
<1>1. r \in Active /\ Tgt(r) \in Targets
  BY StepShape, TgtType
<1>2. pc[r] = "rename" => staging[<<r, Tgt(r)>>] \in Versions
  BY <1>1 DEF TransfersReady, Ready
<1>3. remote' \in [Targets -> Versions \cup {Absent}]
  <2>1. \/ remote' = remote
        \/ remote' = [remote EXCEPT ![Tgt(r)] = Absent]
        \/ pc[r] = "rename" /\ remote' = [remote EXCEPT ![Tgt(r)] = staging[<<r, Tgt(r)>>]]
    BY StepShape DEF Step, StepFails, StatLocal, LookUp, CreateStaging, OpenLocal,
       FlushStaging, VerifyStaged, DeleteRemote, RenameStaging, Renamed, ConfirmRemote,
       Cleanup, SkipOptionalRaises, LookUpRaises, TransferRaises, CleanupRaises,
       AuditRaises, Crash, SkipOptional, AuditResult, AuditFailure
  <2> QED BY <1>1, <1>2, <2>1 DEF TypeOK
<1>4. staging' \in [Runs \X Targets -> Versions \cup {0, Absent}]
  <2>1. source[r] \in Versions \cup {Absent} /\ <<r, Tgt(r)>> \in Runs \X Targets
    BY <1>1 DEF TypeOK
  <2>2. \/ staging' = staging
        \/ \E v \in {0, Absent, source[r]} : staging' = [staging EXCEPT ![<<r, Tgt(r)>>] = v]
    BY DEF Step, StepFails, StatLocal, LookUp, CreateStaging, OpenLocal,
       FlushStaging, VerifyStaged, DeleteRemote, RenameStaging, Renamed, ConfirmRemote,
       Cleanup, SkipOptionalRaises, LookUpRaises, TransferRaises, CleanupRaises,
       AuditRaises, Crash, SkipOptional, AuditResult, AuditFailure
  <2> QED BY <2>1, <2>2 DEF TypeOK
<1>5. size' \in [Runs -> Nat] /\ exists' \in [Runs -> BOOLEAN]
      /\ source' \in [Runs -> Versions \cup {Absent}]
  <2>1. /\ local[Tgt(r)] \in Versions \cup {Absent}
        /\ local[Tgt(r)] # Absent => Size[local[Tgt(r)]] \in Nat
    BY <1>1, TargetAssumption DEF TypeOK
  <2>2. \/ UNCHANGED seen
        \/ StatLocal(r) \/ LookUp(r) \/ OpenLocal(r)
    BY DEF Step, StepFails, CreateStaging,
       FlushStaging, VerifyStaged, DeleteRemote, RenameStaging, ConfirmRemote,
       Cleanup, SkipOptionalRaises, LookUpRaises, TransferRaises, CleanupRaises,
       AuditRaises, Crash, SkipOptional, AuditResult, AuditFailure
  <2>3. CASE StatLocal(r)
    BY <2>1, <2>3 DEF StatLocal, TypeOK
  <2>4. CASE LookUp(r)
    BY <2>4 DEF LookUp, TypeOK
  <2>5. CASE OpenLocal(r)
    BY <2>1, <2>5 DEF OpenLocal, TypeOK
  <2> QED BY <2>2, <2>3, <2>4, <2>5 DEF seen, TypeOK
<1>6. faults' \in 0 .. MaxFaults
  <2>1. faults' = faults \/ Fault
    BY DEF Step, StepFails, StatLocal, LookUp, CreateStaging, OpenLocal,
       FlushStaging, VerifyStaged, DeleteRemote, RenameStaging, ConfirmRemote,
       Cleanup, SkipOptionalRaises, LookUpRaises, TransferRaises, CleanupRaises,
       AuditRaises, Crash, SkipOptional, AuditResult, AuditFailure
  <2> QED BY <2>1, RunAssumption DEF Fault, TypeOK
<1> QED BY <1>3, <1>4, <1>5, <1>6

(* A command disturbs no other command's transfer.                         *)
LEMMA OthersReady ==
  ASSUME TypeOK, TransfersReady, NEW r \in Runs, Step(r) \/ StepFails(r),
         NEW q \in Active', q # r
  PROVE  Ready(q)'
<1>1. /\ UNCHANGED <<local, overwrite>> /\ r \in Active /\ Tgt(r) \in Targets
      /\ Moves(r) \/ Records1(r)
  BY StepShape, TgtType
<1>2. pc'[q] = pc[q] /\ todo'[q] = todo[q] /\ q \in Active
  BY <1>1 DEF Moves, Records1, Audited, Goto, TypeOK, Active
<1>3. Tgt(q)' = Tgt(q)
  BY <1>2 DEF Tgt
<1>4. size'[q] = size[q] /\ exists'[q] = exists[q] /\ source'[q] = source[q]
  <2>1. \/ UNCHANGED seen
        \/ StatLocal(r) \/ LookUp(r) \/ OpenLocal(r)
    BY DEF Step, StepFails, CreateStaging,
       FlushStaging, VerifyStaged, DeleteRemote, RenameStaging, ConfirmRemote,
       Cleanup, SkipOptionalRaises, LookUpRaises, TransferRaises, CleanupRaises,
       AuditRaises, Crash, SkipOptional, AuditResult, AuditFailure
  <2> QED BY <1>2, <2>1 DEF Active, StatLocal, LookUp, OpenLocal, seen, TypeOK
<1>5. staging'[<<q, Tgt(q)>>] = staging[<<q, Tgt(q)>>]
  <2>1. \/ staging' = staging
        \/ \E v \in {0, Absent, source[r]} : staging' = [staging EXCEPT ![<<r, Tgt(r)>>] = v]
    BY DEF Step, StepFails, StatLocal, LookUp, CreateStaging, OpenLocal,
       FlushStaging, VerifyStaged, DeleteRemote, RenameStaging, Renamed, ConfirmRemote,
       Cleanup, SkipOptionalRaises, LookUpRaises, TransferRaises, CleanupRaises,
       AuditRaises, Crash, SkipOptional, AuditResult, AuditFailure
  <2>2. <<q, Tgt(q)>> # <<r, Tgt(r)>> /\ <<q, Tgt(q)>> \in Runs \X Targets
    BY <1>2, TgtType
  <2> QED BY <2>1, <2>2 DEF TypeOK
<1>6. Ready(q)
  BY <1>2 DEF TransfersReady
<1> QED BY <1>1, <1>2, <1>3, <1>4, <1>5, <1>6 DEF Ready

(* A command's own next step finds its transfer ready.                     *)
LEMMA OwnReady ==
  ASSUME TypeOK, TransfersReady, NEW r \in Runs, Step(r) \/ StepFails(r), r \in Active'
  PROVE  Ready(r)'
<1> USE DEF Goto
<1>1. r \in Active /\ Tgt(r) \in Targets /\ <<r, Tgt(r)>> \in Runs \X Targets
  BY StepShape, TgtType
<1>2. Ready(r)
  BY <1>1 DEF TransfersReady
<1>3. CASE Records1(r)
  <2>1. pc'[r] \in {"check", "done"}
    BY <1>3 DEF Records1, Audited, TypeOK
  <2> QED BY <2>1 DEF Ready
<1>4. CASE UNCHANGED todo
  <2>1. Tgt(r)' = Tgt(r)
    BY <1>4 DEF Tgt
  <2>2. CASE StatLocal(r)
    BY <1>1, <2>1, <2>2 DEF StatLocal, Ready, TypeOK
  <2>3. CASE LookUp(r)
    BY <1>1, <1>2, <2>1, <2>3 DEF LookUp, Ready, TypeOK
  <2>4. CASE CreateStaging(r) \/ OpenLocal(r)
    BY <1>1, <1>2, <2>1, <2>4 DEF CreateStaging, OpenLocal, Ready, TypeOK, seen
  <2>5. CASE FlushStaging(r)
    <3>1. source[r] \in Versions
      BY <1>2, <2>5 DEF FlushStaging, Ready, TypeOK
    <3> QED BY <1>1, <1>2, <2>1, <2>5, <3>1 DEF FlushStaging, Ready, TypeOK, seen
  <2>6. CASE VerifyStaged(r)
    <3>1. /\ staging' = staging /\ size' = size /\ exists' = exists
          /\ overwrite' = overwrite /\ pc[r] = "verify" /\ staging[<<r, Tgt(r)>>] \in Versions
      BY <1>2, <2>6 DEF VerifyStaged, Ready, seen
    <3>2. SizeOf(staging[<<r, Tgt(r)>>]) = Size[staging[<<r, Tgt(r)>>]]
      BY <3>1 DEF SizeOf, Versions
    <3>3. \/ pc'[r] = "cleanup"
          \/ /\ pc'[r] = "delete" /\ exists[r] /\ overwrite[r]
             /\ SizeOf(staging[<<r, Tgt(r)>>]) = size[r]
          \/ /\ pc'[r] = "rename" /\ SizeOf(staging[<<r, Tgt(r)>>]) = size[r]
      BY <2>6 DEF VerifyStaged, TypeOK
    <3> QED BY <1>2, <2>1, <3>1, <3>2, <3>3 DEF Ready
  <2>7. CASE DeleteRemote(r)
    BY <1>1, <1>2, <2>1, <2>7 DEF DeleteRemote, Ready, TypeOK, seen
  <2>8. CASE ~(StatLocal(r) \/ LookUp(r) \/ CreateStaging(r) \/ OpenLocal(r)
               \/ FlushStaging(r) \/ VerifyStaged(r) \/ DeleteRemote(r))
    <3>1. pc'[r] \in {"cleanup", "confirm", "uploaded", "auditfail", "raised", "crashed",
                      "check", "done"}
      BY <2>8 DEF Step, StepFails, RenameStaging, ConfirmRemote,
         Cleanup, SkipOptionalRaises, LookUpRaises, TransferRaises, CleanupRaises,
         AuditRaises, Crash, SkipOptional, AuditResult, AuditFailure, Audited, TypeOK
    <3> QED BY <3>1 DEF Ready
  <2> QED BY <2>2, <2>3, <2>4, <2>5, <2>6, <2>7, <2>8
<1> QED BY <1>3, <1>4, StepShape DEF Moves

(* The environment and the start of a command.                             *)
LEMMA UploadEnvironment ==
  ASSUME TypeOK, TransfersReady,
         (\E r \in Runs : StartRun(r)) \/ (\E t \in Targets : LocalPublish(t))
  PROVE  TypeOK' /\ TransfersReady'
<1>1. ASSUME NEW r \in Runs, StartRun(r) PROVE TypeOK' /\ TransfersReady'
  <2>1. /\ pc[r] = "idle" /\ pc' = [pc EXCEPT ![r] = "check"]
        /\ todo' = [todo EXCEPT ![r] = Selection]
        /\ \E o \in BOOLEAN : overwrite' = [overwrite EXCEPT ![r] = o]
        /\ UNCHANGED <<local, remote, staging, size, exists, source, failed, audit, faults>>
    BY <1>1 DEF StartRun, Goto, seen, report
  <2>2. Selection \in Seq(Targets) /\ Selection # <<>>
    BY TargetAssumption
  <2>3. /\ pc' \in [Runs -> {"idle"} \cup Steps \cup Ended]
        /\ todo' \in [Runs -> Seq(Targets)] /\ overwrite' \in [Runs -> BOOLEAN]
    BY <2>1, <2>2 DEF TypeOK, Steps
  <2>4. \A q \in Active' : todo'[q] # <<>> /\
           (q # r => /\ q \in Active /\ pc'[q] = pc[q] /\ todo'[q] = todo[q]
                     /\ overwrite'[q] = overwrite[q])
    BY <2>1, <2>2 DEF TypeOK, Active
  <2>5. TypeOK'
    BY <2>1, <2>3, <2>4 DEF TypeOK
  <2>6. ASSUME NEW q \in Active' PROVE Ready(q)'
    <3>1. CASE q = r
      BY <2>1, <3>1 DEF Ready, TypeOK
    <3>2. CASE q # r
      <4>1. Ready(q) /\ Tgt(q)' = Tgt(q)
        BY <2>4, <3>2 DEF TransfersReady, Tgt
      <4> QED BY <2>1, <2>4, <2>6, <3>2, <4>1 DEF Ready
    <3> QED BY <3>1, <3>2
  <2> QED BY <2>5, <2>6 DEF TransfersReady
<1>2. ASSUME NEW t \in Targets, LocalPublish(t) PROVE TypeOK' /\ TransfersReady'
  <2>1. /\ \E v \in Versions : local' = [local EXCEPT ![t] = v]
        /\ UNCHANGED <<remote, staging, pc, todo, overwrite, size, exists, source,
                       failed, audit, faults>>
    BY <1>2 DEF LocalPublish, seen, report
  <2>2. TypeOK'
    BY <2>1 DEF TypeOK, Active
  <2>3. Absent \notin Versions
    BY TargetAssumption DEF Versions
  <2>4. \A s \in Targets : local[s] # Absent => local'[s] # Absent
    BY <2>1, <2>3 DEF TypeOK
  <2>5. ASSUME NEW q \in Active' PROVE Ready(q)'
    <3>1. q \in Active /\ Ready(q) /\ Tgt(q)' = Tgt(q) /\ Tgt(q) \in Targets
      BY <2>1, TgtType DEF Active, TransfersReady, Tgt
    <3> QED BY <2>1, <2>4, <3>1 DEF Ready
  <2> QED BY <2>2, <2>5 DEF TransfersReady
<1> QED BY <1>1, <1>2

LEMMA UploadStep ==
  TypeOK /\ TransfersReady /\ [Next]_vars => TypeOK' /\ TransfersReady'
<1> SUFFICES ASSUME TypeOK, TransfersReady, [Next]_vars PROVE TypeOK' /\ TransfersReady'
  OBVIOUS
<1>1. CASE UNCHANGED vars
  <2>1. TypeOK'
    BY <1>1 DEF vars, TypeOK, Active
  <2>2. ASSUME NEW q \in Active' PROVE Ready(q)'
    <3>1. q \in Active /\ Ready(q) /\ Tgt(q)' = Tgt(q)
      BY <1>1 DEF vars, Active, TransfersReady, Tgt
    <3> QED BY <1>1, <3>1 DEF vars, Ready
  <2> QED BY <2>1, <2>2 DEF TransfersReady
<1>2. ASSUME NEW r \in Runs, Step(r) \/ StepFails(r) PROVE TypeOK' /\ TransfersReady'
  <2>1. TypeOK'
    BY <1>2, ControlType, StoreType DEF TypeOK
  <2>2. TransfersReady'
    BY <1>2, OthersReady, OwnReady DEF TransfersReady
  <2> QED BY <2>1, <2>2
<1> QED BY <1>1, <1>2, UploadEnvironment DEF Next

(* Type correctness, and that a transfer reaches the rename only with a    *)
(* flushed staging object of the size that was measured.                   *)
THEOREM UploadTypeCorrect == Spec => [](TypeOK /\ TransfersReady)
BY UploadInit, UploadStep, PTL DEF Spec

(***************************************************************************)
(* Published objects.                                                      *)
(***************************************************************************)

(* Who may change the object t, and to what.                               *)
Deletes(r, t) == exists[r] /\ overwrite[r] /\ remote'[t] = Absent
Publishes(r, t) ==
    /\ remote'[t] \in Versions /\ Size[remote'[t]] = size[r]
    /\ exists[r] => overwrite[r]

LEMMA RemoteStep ==
  ASSUME TypeOK, TransfersReady, [Next]_vars, NEW t \in Targets, remote'[t] # remote[t]
  PROVE  \E r \in Active : /\ Tgt(r) = t /\ pc[r] \in {"delete", "rename"}
                           /\ Step(r) \/ StepFails(r)
                           /\ Deletes(r, t) \/ Publishes(r, t)
<1>1. PICK r \in Runs : Step(r) \/ StepFails(r)
  BY DEF Next, vars, StartRun, LocalPublish
<1>2. r \in Active /\ Tgt(r) \in Targets
  BY <1>1, StepShape, TgtType
<1>3. \/ pc[r] = "delete" /\ remote' = [remote EXCEPT ![Tgt(r)] = Absent]
      \/ pc[r] = "rename" /\ remote' = [remote EXCEPT ![Tgt(r)] = staging[<<r, Tgt(r)>>]]
  BY <1>1, StepShape DEF Step, StepFails, StatLocal, LookUp, CreateStaging, OpenLocal,
     FlushStaging, VerifyStaged, DeleteRemote, RenameStaging, Renamed, ConfirmRemote,
     Cleanup, SkipOptionalRaises, LookUpRaises, TransferRaises, CleanupRaises,
     AuditRaises, Crash, SkipOptional, AuditResult, AuditFailure
<1>4. t = Tgt(r) /\ (remote'[t] = Absent \/ remote'[t] = staging[<<r, Tgt(r)>>])
  BY <1>2, <1>3 DEF TypeOK
<1>5. Ready(r)
  BY <1>2 DEF TransfersReady
<1>6. CASE pc[r] = "delete"
  <2>1. Deletes(r, t)
    BY <1>2, <1>3, <1>4, <1>5, <1>6 DEF Ready, Deletes, TypeOK
  <2> QED BY <1>1, <1>2, <1>4, <1>6, <2>1
<1>7. CASE pc[r] = "rename"
  <2>1. Publishes(r, t)
    BY <1>2, <1>3, <1>4, <1>5, <1>7 DEF Ready, Publishes, TypeOK
  <2> QED BY <1>1, <1>2, <1>4, <1>7, <2>1
<1> QED BY <1>3, <1>6, <1>7

(* An object appears only with the size its run had measured, whatever     *)
(* becomes of the local file meanwhile.                                    *)
THEOREM PublishedIsMeasured == Spec => PublishesWhatItMeasured
<1> DEFINE A == \A t \in Targets : remote'[t] \notin {remote[t], Absent} =>
                  \E r \in Active : Tgt(r) = t /\ Size[remote'[t]] = size[r]
<1>1. TypeOK /\ TransfersReady /\ [Next]_vars => A
  BY RemoteStep DEF Deletes, Publishes
<1> QED BY <1>1, UploadTypeCorrect, PTL DEF Spec, PublishesWhatItMeasured

(* An existing object is changed only by --overwrite or by a run that      *)
(* found none.                                                             *)
THEOREM ReplacedWasSeen == Spec => ReplacesOnlyWhatItSaw
<1> DEFINE A == \A t \in Targets : remote[t] # Absent /\ remote'[t] # remote[t] =>
                  \E r \in Active : /\ Tgt(r) = t
                                    /\ IF exists[r] THEN overwrite[r] ELSE remote'[t] # Absent
<1>1. TypeOK /\ TransfersReady /\ [Next]_vars => A
  <2>1. Absent \notin Versions
    BY TargetAssumption DEF Versions
  <2> QED BY <2>1, RemoteStep DEF Deletes, Publishes
<1> QED BY <1>1, UploadTypeCorrect, PTL DEF Spec, ReplacesOnlyWhatItSaw

(***************************************************************************)
(* The audit.                                                              *)
(***************************************************************************)

(* The targets a run has recorded and those it has left make up its        *)
(* selection; a run that has not started has recorded nothing.             *)
Progress(r) ==
    /\ pc[r] = "idle" => audit[r] = <<>> /\ ~overwrite[r]
    /\ pc[r] # "idle" =>
          /\ Len(audit[r]) + Len(todo[r]) = Len(Selection)
          /\ \A i \in DOMAIN todo[r] : todo[r][i] = Selection[Len(audit[r]) + i]
    /\ pc[r] = "done" => todo[r] = <<>>
    /\ \A i \in DOMAIN audit[r] : audit[r][i].target = Selection[i]
    /\ failed[r] <=> \E i \in DOMAIN audit[r] : audit[r][i].status = "failed"

AuditInv == \A r \in Runs : Progress(r)

LEMMA ProgressStep ==
  ASSUME TypeOK, NEW r \in Runs, Progress(r), Step(r) \/ StepFails(r)
  PROVE  Progress(r)'
<1>1. /\ r \in Active /\ overwrite' = overwrite /\ (Moves(r) \/ Records1(r))
      /\ todo[r] # <<>> /\ pc[r] \in Steps
  BY StepShape, TgtType DEF Active
<1>2. CASE Moves(r)
  <2>1. /\ audit' = audit /\ failed' = failed /\ todo' = todo
        /\ pc'[r] \in Steps \cup {"raised", "crashed"}
    BY <1>2 DEF Moves, Goto, report, TypeOK
  <2> QED BY <1>1, <2>1 DEF Progress, Steps, TrySteps
<1>3. CASE Records1(r)
  <2>1. PICK status \in {"uploaded", "skipped", "failed"}, message \in BOOLEAN :
          /\ Audited(r, status, message)
          /\ failed' = IF status = "failed" THEN [failed EXCEPT ![r] = TRUE] ELSE failed
    BY <1>3 DEF Records1
  <2> DEFINE record == [target |-> Tgt(r), status |-> status, message |-> message]
  <2>2. record.target = Tgt(r) /\ record.status = status
    OBVIOUS
  <2> HIDE DEF record
  <2>3. /\ audit'[r] = Append(audit[r], record) /\ todo'[r] = Tail(todo[r])
        /\ pc'[r] = IF Tail(todo[r]) = <<>> THEN "done" ELSE "check"
        /\ failed'[r] = (failed[r] \/ status = "failed")
    BY <2>1 DEF Audited, Goto, TypeOK, record
  <2> DEFINE old == audit[r]
             left == todo[r]
             n == Len(old)
  <2>4. old \in Seq(Records) /\ left \in Seq(Targets) /\ left # <<>>
        /\ Selection \in Seq(Targets)
    BY <1>1, TargetAssumption DEF TypeOK
  <2>5. /\ n + Len(left) = Len(Selection)
        /\ \A i \in DOMAIN left : left[i] = Selection[n + i]
        /\ \A i \in DOMAIN old : old[i].target = Selection[i]
        /\ failed[r] <=> \E i \in DOMAIN old : old[i].status = "failed"
    BY <1>1 DEF Progress, Steps, TrySteps
  <2>6. Tgt(r) = Selection[n + 1]
    <3>1. 1 \in DOMAIN left /\ Tgt(r) = left[1]
      BY <2>4 DEF Tgt
    <3> QED BY <2>5, <3>1
  <2> DEFINE new == Append(old, record)
  <2> HIDE DEF old, left
  <2>7. /\ Len(new) = n + 1 /\ DOMAIN new = 1 .. n + 1 /\ DOMAIN old = 1 .. n /\ n \in Nat
        /\ new[n + 1] = record /\ \A i \in 1 .. n : new[i] = old[i]
    BY <2>4
  <2>8. /\ Len(Tail(left)) = Len(left) - 1
        /\ \A i \in DOMAIN Tail(left) : i \in Nat /\ Tail(left)[i] = left[i + 1] /\ i + 1 \in DOMAIN left
        /\ Len(left) \in Nat
    BY <2>4
  <2> HIDE DEF new, n
  <2>9. /\ Len(new) + Len(Tail(left)) = Len(Selection)
        /\ \A i \in DOMAIN Tail(left) : Tail(left)[i] = Selection[Len(new) + i]
    <3>1. ASSUME NEW i \in DOMAIN Tail(left) PROVE Tail(left)[i] = Selection[Len(new) + i]
      <4>1. i + 1 \in DOMAIN left /\ Tail(left)[i] = left[i + 1] /\ i \in Nat
        BY <2>8
      <4>2. left[i + 1] = Selection[n + (i + 1)]
        BY <2>5, <4>1
      <4>3. n + (i + 1) = Len(new) + i
        BY <2>7, <4>1
      <4> QED BY <4>1, <4>2, <4>3
    <3>2. n + Len(left) = Len(Selection)
      BY <2>5
    <3>3. (n + 1) + (Len(left) - 1) = n + Len(left)
      BY <2>7, <2>8
    <3> QED BY <2>7, <2>8, <3>1, <3>2, <3>3
  <2>10. \A i \in DOMAIN new : new[i].target = Selection[i]
    BY <2>2, <2>5, <2>6, <2>7
  <2>11. (failed[r] \/ status = "failed") <=> \E i \in DOMAIN new : new[i].status = "failed"
    <3>1. DOMAIN new = DOMAIN old \cup {n + 1}
      BY <2>7
    <3>2. \A i \in DOMAIN old : new[i] = old[i]
      BY <2>7
    <3> QED BY <2>2, <2>5, <2>7, <3>1, <3>2
  <2>12. /\ audit'[r] = new /\ todo'[r] = Tail(left)
         /\ pc'[r] = IF Tail(left) = <<>> THEN "done" ELSE "check"
    BY <2>3 DEF new, old, left
  <2> QED BY <2>3, <2>9, <2>10, <2>11, <2>12 DEF Progress
<1> QED BY <1>1, <1>2, <1>3

LEMMA AuditInit == Init => AuditInv
<1> SUFFICES ASSUME Init, NEW r \in Runs PROVE Progress(r)
  BY DEF AuditInv
<1>1. pc[r] = "idle" /\ audit[r] = <<>> /\ ~overwrite[r] /\ failed[r] = FALSE
  BY DEF Init
<1> QED BY <1>1 DEF Progress

LEMMA AuditStep == TypeOK /\ AuditInv /\ [Next]_vars => AuditInv'
<1> SUFFICES ASSUME TypeOK, AuditInv, [Next]_vars, NEW q \in Runs PROVE Progress(q)'
  BY DEF AuditInv
<1>1. Progress(q)
  BY DEF AuditInv
<1>2. CASE /\ pc'[q] = pc[q] /\ todo'[q] = todo[q] /\ overwrite'[q] = overwrite[q]
           /\ audit'[q] = audit[q] /\ failed'[q] = failed[q]
  BY <1>1, <1>2 DEF Progress
<1>3. ASSUME NEW r \in Runs, Step(r) \/ StepFails(r) PROVE Progress(q)'
  <2>1. CASE q = r
    BY <1>1, <1>3, <2>1, ProgressStep
  <2>2. CASE q # r
    <3>1. overwrite' = overwrite /\ (Moves(r) \/ Records1(r))
      BY <1>3, StepShape
    <3>2. CASE Moves(r)
      BY <1>2, <2>2, <3>1, <3>2 DEF Moves, Goto, report, TypeOK
    <3>3. CASE Records1(r)
      BY <1>2, <2>2, <3>1, <3>3 DEF Records1, Audited, Goto, TypeOK
    <3> QED BY <3>1, <3>2, <3>3
  <2> QED BY <2>1, <2>2
<1>4. ASSUME NEW r \in Runs, StartRun(r) PROVE Progress(q)'
  <2>1. /\ pc[r] = "idle" /\ pc' = [pc EXCEPT ![r] = "check"]
        /\ todo' = [todo EXCEPT ![r] = Selection]
        /\ \E o \in BOOLEAN : overwrite' = [overwrite EXCEPT ![r] = o]
        /\ failed' = failed /\ audit' = audit
    BY <1>4 DEF StartRun, Goto, report
  <2>2. CASE q # r
    BY <1>2, <2>1, <2>2 DEF TypeOK
  <2>3. CASE q = r
    <3>1. /\ audit'[q] = <<>> /\ todo'[q] = Selection /\ pc'[q] = "check"
          /\ failed'[q] = failed[q] /\ Selection \in Seq(Targets)
      BY <1>1, <2>1, <2>3, TargetAssumption DEF Progress, TypeOK
    <3>2. Len(<<>>) = 0 /\ DOMAIN <<>> = {} /\ Len(Selection) \in Nat
          /\ \A i \in DOMAIN Selection : 0 + i = i
      BY <3>1
    <3>3. audit[q] = <<>> /\ ~failed[q]
      BY <1>1, <2>1, <2>3, <3>2 DEF Progress
    <3> QED BY <3>1, <3>2, <3>3 DEF Progress
  <2> QED BY <2>2, <2>3
<1>5. CASE UNCHANGED vars \/ \E t \in Targets : LocalPublish(t)
  BY <1>2, <1>5 DEF vars, LocalPublish, report
<1> QED BY <1>3, <1>4, <1>5 DEF Next

LEMMA AuditCorrect == Spec => []AuditInv
<1>1. Spec => []TypeOK
  BY UploadTypeCorrect, PTL
<1> QED BY <1>1, AuditInit, AuditStep, PTL DEF Spec

(* A command that ends by itself has one record for each target, in order, *)
(* and reports failure exactly if one of them failed.                      *)
THEOREM UploadAuditComplete == Spec => []AuditIsComplete
<1>1. TypeOK /\ AuditInv => AuditIsComplete
  <2> SUFFICES ASSUME TypeOK, AuditInv, NEW r \in Runs
               PROVE  /\ \A i \in DOMAIN audit[r] : audit[r][i].target = Selection[i]
                      /\ pc[r] = "done" =>
                           /\ Len(audit[r]) = Len(Selection)
                           /\ failed[r] <=> \E i \in DOMAIN audit[r] :
                                              audit[r][i].status = "failed"
    BY DEF AuditIsComplete
  <2>1. Progress(r)
    BY DEF AuditInv
  <2>2. Len(audit[r]) \in Nat /\ Len(<<>>) = 0
    BY DEF TypeOK
  <2>3. pc[r] = "done" => Len(audit[r]) = Len(Selection)
    BY <2>1, <2>2 DEF Progress
  <2> QED BY <2>1, <2>3 DEF Progress
<1> QED BY <1>1, UploadTypeCorrect, AuditCorrect, PTL

(***************************************************************************)
(* What was reported.                                                      *)
(***************************************************************************)

Kept(r, t) == remote[t] # Absent \/ \E q \in Runs \ {r} : overwrite[q]

(* A run that is about to report an object has just seen it there.         *)
AboutToReport ==
    \A r \in Active : pc[r] \in {"skipped", "uploaded"} => Kept(r, Tgt(r))

(* Only a run that overwrites takes an object away, and not one that it    *)
(* has reported itself: no target occurs twice in its selection.           *)
LEMMA KeptStep ==
  ASSUME TypeOK, TransfersReady, AuditInv, [Next]_vars,
         NEW r \in Runs, NEW t \in Targets, Kept(r, t),
         \/ \E i \in DOMAIN audit[r] : audit[r][i].target = t
         \/ r \in Active /\ pc[r] \notin {"delete", "rename"} /\ Tgt(r) = t
  PROVE  Kept(r, t)'
<1>1. \A q \in Runs : overwrite[q] => overwrite'[q]
  <2>1. CASE \E q \in Runs : StartRun(q)
    <3>1. PICK q \in Runs : StartRun(q)
      BY <2>1
    <3>2. ~overwrite[q]
      BY <3>1 DEF StartRun, AuditInv, Progress
    <3> QED BY <3>1, <3>2 DEF StartRun, TypeOK
  <2>2. CASE ~\E q \in Runs : StartRun(q)
    BY <2>2, StepShape DEF Next, LocalPublish, vars
  <2> QED BY <2>1, <2>2
<1>2. CASE \E q \in Runs \ {r} : overwrite[q]
  BY <1>1, <1>2 DEF Kept
<1>3. CASE remote'[t] # Absent
  BY <1>3 DEF Kept
<1>4. CASE remote[t] # Absent /\ remote'[t] = Absent
  <2>1. PICK q \in Active : /\ Tgt(q) = t /\ pc[q] \in {"delete", "rename"}
                            /\ Deletes(q, t) \/ Publishes(q, t)
    BY <1>4, RemoteStep
  <2>2. Absent \notin Versions
    BY TargetAssumption DEF Versions
  <2>3. overwrite[q]
    BY <1>4, <2>1, <2>2 DEF Deletes, Publishes
  <2>4. q # r
    <3> SUFFICES ASSUME q = r, NEW i \in DOMAIN audit[r], audit[r][i].target = t
                 PROVE  FALSE
      BY <2>1
    <3>1. audit[r] \in Seq(Records) /\ todo[r] \in Seq(Targets) /\ todo[r] # <<>>
          /\ Selection \in Seq(Targets)
      BY TgtType, TargetAssumption DEF TypeOK
    <3>2. /\ Len(audit[r]) + Len(todo[r]) = Len(Selection)
          /\ todo[r][1] = Selection[Len(audit[r]) + 1] /\ Selection[i] = t
      <4>1. pc[r] # "idle" /\ 1 \in DOMAIN todo[r]
        BY <2>1, <3>1
      <4> QED BY <4>1 DEF AuditInv, Progress
    <3>3. todo[r][1] = t
      BY <2>1, <3>1 DEF Tgt
    <3>4. /\ i \in DOMAIN Selection /\ Len(audit[r]) + 1 \in DOMAIN Selection
          /\ i # Len(audit[r]) + 1
      <4>1. /\ i \in 1 .. Len(audit[r]) /\ Len(audit[r]) \in Nat
            /\ Len(todo[r]) \in Nat /\ Len(todo[r]) > 0
            /\ DOMAIN Selection = 1 .. Len(Selection)
        BY <3>1
      <4>2. Len(audit[r]) + Len(todo[r]) = Len(Selection)
        BY <3>2
      <4> DEFINE n == Len(audit[r])
                 k == Len(todo[r])
                 m == Len(Selection)
      <4>3. i \in 1 .. n /\ n \in Nat /\ k \in Nat /\ k > 0 /\ n + k = m
        BY <4>1, <4>2
      <4> HIDE DEF n, k, m
      <4>4. i \in 1 .. m /\ n + 1 \in 1 .. m /\ i # n + 1
        BY <4>3
      <4> QED BY <4>1, <4>4 DEF n, m
    <3> QED BY <3>2, <3>3, <3>4, TargetAssumption
  <2> QED BY <1>1, <2>3, <2>4 DEF Kept, Active
<1> QED BY <1>2, <1>3, <1>4 DEF Kept

LEMMA ReportedInit == Init => ReportedObjectsStay /\ AboutToReport
<1> SUFFICES ASSUME Init PROVE ReportedObjectsStay /\ AboutToReport
  OBVIOUS
<1>1. \A r \in Runs : DOMAIN audit[r] = {}
  BY DEF Init
<1>2. Active = {}
  BY DEF Init, Active, Steps, TrySteps
<1> QED BY <1>1, <1>2 DEF ReportedObjectsStay, AboutToReport

(* A run that reports an object has looked it up or measured it.           *)
LEMMA AboutToReportStep ==
  ASSUME TypeOK, TransfersReady, AuditInv, AboutToReport, [Next]_vars
  PROVE  AboutToReport'
<1> SUFFICES ASSUME NEW q \in Active', pc'[q] \in {"skipped", "uploaded"}
             PROVE  Kept(q, Tgt(q))'
  BY DEF AboutToReport
<1>1. CASE pc'[q] = pc[q] /\ todo'[q] = todo[q]
  <2>1. q \in Active /\ Kept(q, Tgt(q)) /\ Tgt(q)' = Tgt(q) /\ Tgt(q) \in Targets
    BY <1>1, TgtType DEF Active, AboutToReport, Tgt
  <2>2. pc[q] \notin {"delete", "rename"} /\ q \in Runs
    BY <1>1, <2>1, TgtType
  <2>3. \A t \in Targets : t = Tgt(q) => Kept(q, t)'
    BY <2>1, <2>2, KeptStep
  <2> QED BY <2>1, <2>3 DEF Kept
<1>2. ASSUME NEW r \in Runs, Step(r) \/ StepFails(r), ~(pc'[q] = pc[q] /\ todo'[q] = todo[q])
      PROVE  Kept(q, Tgt(q))'
  <2>1. q = r
    <3>1. Moves(r) \/ Records1(r)
      BY <1>2, StepShape
    <3> QED BY <1>2, <3>1 DEF Moves, Records1, Audited, Goto, TypeOK, Active
  <2>2. /\ remote' = remote /\ todo' = todo /\ remote[Tgt(r)] # Absent
    <3>1. LookUp(r) \/ ConfirmRemote(r)
      BY <1>2, <2>1 DEF Step, StepFails, StatLocal, CreateStaging, OpenLocal,
         FlushStaging, VerifyStaged, DeleteRemote, RenameStaging,
         Cleanup, SkipOptionalRaises, LookUpRaises, TransferRaises, CleanupRaises,
         AuditRaises, Crash, SkipOptional, AuditResult, AuditFailure, Audited, Goto,
         TypeOK
    <3> QED BY <2>1, <3>1 DEF LookUp, ConfirmRemote, Goto, TypeOK
  <2> QED BY <2>1, <2>2 DEF Kept, Tgt
<1>3. ASSUME NEW r \in Runs, StartRun(r) PROVE pc'[q] = pc[q] /\ todo'[q] = todo[q]
  BY <1>3 DEF StartRun, Goto, TypeOK, Active
<1>4. CASE UNCHANGED vars \/ \E t \in Targets : LocalPublish(t)
  BY <1>1, <1>4 DEF vars, LocalPublish
<1> QED BY <1>1, <1>2, <1>3, <1>4 DEF Next

LEMMA ReportedStep ==
  ASSUME TypeOK, TransfersReady, AuditInv, AboutToReport, ReportedObjectsStay, [Next]_vars
  PROVE  ReportedObjectsStay'
<1> SUFFICES ASSUME NEW r \in Runs, NEW i \in DOMAIN audit'[r],
                    audit'[r][i].status # "failed", ~audit'[r][i].message
             PROVE  Kept(r, audit[r][i].target)'
  BY DEF ReportedObjectsStay, Kept
<1>1. CASE i \in DOMAIN audit[r] /\ audit'[r][i] = audit[r][i]
  <2> DEFINE t == audit[r][i].target
  <2>1. Kept(r, t)
    BY <1>1 DEF ReportedObjectsStay, Kept
  <2>2. t \in Targets
    <3>1. audit[r][i] \in Records
      BY <1>1 DEF TypeOK
    <3> QED BY <3>1 DEF Records
  <2>3. Kept(r, t)'
    BY <1>1, <2>1, <2>2, KeptStep
  <2> QED BY <1>1, <2>3 DEF Kept
<1>2. CASE ~(i \in DOMAIN audit[r] /\ audit'[r][i] = audit[r][i])
  <2>1. audit'[r] # audit[r]
    BY <1>2
  <2>2. PICK q \in Runs : Step(q) \/ StepFails(q)
    BY <2>1 DEF Next, vars, StartRun, LocalPublish, report
  <2>3. q \in Active /\ Records1(q) /\ q = r
    <3>1. q \in Active /\ (Moves(q) \/ Records1(q))
      BY <2>2, StepShape
    <3> QED BY <2>1, <3>1 DEF Moves, Records1, Audited, report, TypeOK
  <2>4. PICK status \in {"uploaded", "skipped", "failed"}, message \in BOOLEAN :
          /\ Audited(r, status, message)
          /\ status # "failed" /\ ~message => pc[r] \in {"skipped", "uploaded"}
    BY <2>3 DEF Records1
  <2> DEFINE record == [target |-> Tgt(r), status |-> status, message |-> message]
  <2>5. record.target = Tgt(r) /\ record.status = status /\ record.message = message
    OBVIOUS
  <2>6. audit'[r] = Append(audit[r], record)
    BY <2>4 DEF Audited, TypeOK
  <2> HIDE DEF record
  <2>7. audit[r] \in Seq(Records)
    BY DEF TypeOK
  <2>8. i \notin DOMAIN audit[r] => audit'[r][i] = record
    BY <2>6, <2>7
  <2>9. i \in DOMAIN audit[r] => audit'[r][i] = audit[r][i]
    BY <2>6, <2>7
  <2>10. audit'[r][i] = record
    BY <1>2, <2>8, <2>9
  <2>11. /\ pc[r] \in {"skipped", "uploaded"} /\ remote' = remote /\ overwrite' = overwrite
         /\ audit'[r][i].target = Tgt(r)
    BY <2>2, <2>3, <2>4, <2>5, <2>10, StepShape DEF Records1
  <2>12. Kept(r, Tgt(r))
    BY <2>3, <2>11 DEF AboutToReport
  <2> QED BY <2>11, <2>12 DEF Kept
<1> QED BY <1>1, <1>2

(* What a run reported as uploaded or as already there stays there, unless *)
(* another run was asked to overwrite.                                     *)
THEOREM ReportedCorrect == Spec => []ReportedObjectsStay
<1>1. TypeOK /\ TransfersReady /\ AuditInv /\ AboutToReport /\ ReportedObjectsStay
      /\ [Next]_vars => AboutToReport' /\ ReportedObjectsStay'
  BY AboutToReportStep, ReportedStep
<1> QED BY <1>1, ReportedInit, UploadTypeCorrect, AuditCorrect, PTL DEF Spec

(***************************************************************************)
(* Staging objects.                                                        *)
(***************************************************************************)

(* Staging objects that no cleanup will come to any more.                  *)
Debris == {x \in Runs \X Targets :
              /\ staging[x] # Absent
              /\ ~(pc[x[1]] \in TrySteps \cup {"cleanup"} /\ Tgt(x[1]) = x[2])}

DebrisInv ==
    /\ IsFiniteSet(Debris) /\ Cardinality(Debris) <= faults
    /\ \A r \in Active : pc[r] = "confirm" => staging[<<r, Tgt(r)>>] = Absent

LEMMA DebrisInit == Init => DebrisInv
<1> SUFFICES ASSUME Init PROVE DebrisInv
  OBVIOUS
<1>1. Debris = {}
  BY DEF Init, Debris
<1>2. Active = {} /\ faults = 0
  BY DEF Init, Active, Steps, TrySteps
<1> QED BY <1>1, <1>2, FS_EmptySet DEF DebrisInv

(* Where a step adds debris, it is one object and a fault.                 *)
LEMMA DebrisGrows ==
  ASSUME TypeOK, IsFiniteSet(Debris), Cardinality(Debris) <= faults,
         \/ Debris' \subseteq Debris /\ faults' \in Nat /\ faults' >= faults
         \/ \E x : Debris' \subseteq Debris \cup {x} /\ faults' = faults + 1
  PROVE  IsFiniteSet(Debris') /\ Cardinality(Debris') <= faults'
<1> DEFINE D == Debris
           E == Debris'
           k == faults
           l == faults'
<1>1. IsFiniteSet(D) /\ Cardinality(D) <= k /\ k \in Nat /\ Cardinality(D) \in Nat
  BY FS_CardinalityType DEF TypeOK
<1>2. CASE E \subseteq D /\ l \in Nat /\ l >= k
  <2>1. IsFiniteSet(E) /\ Cardinality(E) <= Cardinality(D)
    BY <1>1, <1>2, FS_Subset
  <2>2. Cardinality(E) \in Nat
    BY <2>1, FS_CardinalityType
  <2> HIDE DEF D, E, k, l
  <2>3. IsFiniteSet(E) /\ Cardinality(E) <= l
    BY <1>1, <1>2, <2>1, <2>2
  <2> QED BY <2>3 DEF E, l
<1>3. CASE \E x : E \subseteq D \cup {x} /\ l = k + 1
  <2>1. PICK x : E \subseteq D \cup {x} /\ l = k + 1
    BY <1>3
  <2>2. /\ IsFiniteSet(D \cup {x})
        /\ Cardinality(D \cup {x}) = Cardinality(D) \/ Cardinality(D \cup {x}) = Cardinality(D) + 1
    BY <1>1, FS_AddElement
  <2>3. IsFiniteSet(E) /\ Cardinality(E) <= Cardinality(D \cup {x})
    BY <2>1, <2>2, FS_Subset
  <2>4. Cardinality(E) \in Nat /\ Cardinality(D \cup {x}) \in Nat
    BY <2>2, <2>3, FS_CardinalityType
  <2> HIDE DEF D, E, k, l
  <2>5. IsFiniteSet(E) /\ Cardinality(E) <= l
    BY <1>1, <2>1, <2>2, <2>3, <2>4
  <2> QED BY <2>5 DEF E, l
<1> QED BY <1>2, <1>3

(* A step touches the staging object of its run's target only.             *)
LEMMA OtherStaging ==
  ASSUME TypeOK, NEW r \in Runs, Step(r) \/ StepFails(r),
         NEW y \in Runs \X Targets, y # <<r, Tgt(r)>>
  PROVE  /\ staging'[y] = staging[y]
         /\ y[1] # r => pc'[y[1]] = pc[y[1]] /\ Tgt(y[1])' = Tgt(y[1])
<1>1. \/ staging' = staging
      \/ \E v \in {0, Absent, source[r]} : staging' = [staging EXCEPT ![<<r, Tgt(r)>>] = v]
  BY DEF Step, StepFails, StatLocal, LookUp, CreateStaging, OpenLocal,
     FlushStaging, VerifyStaged, DeleteRemote, RenameStaging, Renamed, ConfirmRemote,
     Cleanup, SkipOptionalRaises, LookUpRaises, TransferRaises, CleanupRaises,
     AuditRaises, Crash, SkipOptional, AuditResult, AuditFailure
<1>2. staging'[y] = staging[y]
  BY <1>1 DEF TypeOK
<1>3. ASSUME y[1] # r PROVE pc'[y[1]] = pc[y[1]] /\ todo'[y[1]] = todo[y[1]]
  <2>1. Moves(r) \/ Records1(r)
    BY StepShape
  <2>2. CASE Moves(r)
    BY <1>3, <2>2 DEF Moves, Goto, TypeOK
  <2>3. CASE Records1(r)
    BY <1>3, <2>3 DEF Records1, Audited, Goto, TypeOK
  <2> QED BY <2>1, <2>2, <2>3
<1> QED BY <1>2, <1>3 DEF Tgt

(* A step that succeeds leaves no debris, one that fails its own object.   *)
LEMMA DebrisOfStep ==
  ASSUME TypeOK, TransfersReady, DebrisInv, NEW r \in Runs, Step(r) \/ StepFails(r)
  PROVE  DebrisInv'
<1> DEFINE x == <<r, Tgt(r)>>
<1>1. r \in Active /\ Tgt(r) \in Targets /\ x \in Runs \X Targets
  BY StepShape, TgtType
<1>2. ASSUME NEW y \in Debris', y # x PROVE y \in Debris
  <2>1. y \in Runs \X Targets /\ staging'[y] # Absent
        /\ ~(pc'[y[1]] \in TrySteps \cup {"cleanup"} /\ Tgt(y[1])' = y[2])
    BY DEF Debris
  <2>2. CASE y[1] # r
    BY <1>2, <2>1, <2>2, OtherStaging DEF Debris
  <2>3. CASE y[1] = r
    <3>1. y[2] # Tgt(r) /\ staging'[y] = staging[y]
      BY <1>2, <2>1, <2>3, OtherStaging
    <3> QED BY <2>1, <2>3, <3>1 DEF Debris
  <2> QED BY <2>2, <2>3
<1>3. ASSUME Step(r), x \in Debris' PROVE x \in Debris
  <2>1. staging'[x] # Absent
        /\ ~(pc'[r] \in TrySteps \cup {"cleanup"} /\ Tgt(r)' = Tgt(r))
    BY <1>3 DEF Debris
  <2>2. CASE Cleanup(r)
    BY <1>1, <2>1, <2>2 DEF Cleanup, TypeOK
  <2>3. CASE ConfirmRemote(r)
    BY <1>1, <2>1, <2>3 DEF ConfirmRemote, DebrisInv
  <2>4. CASE Records1(r)
    BY <1>1, <2>1, <2>4 DEF Records1, Debris
  <2>5. CASE StatLocal(r) \/ LookUp(r)
    <3>1. staging' = staging /\ pc[r] \in {"check", "lookup"}
      BY <2>5 DEF StatLocal, LookUp
    <3> QED BY <1>1, <2>1, <3>1 DEF Debris, TrySteps
  <2>6. CASE CreateStaging(r) \/ OpenLocal(r) \/ FlushStaging(r) \/ VerifyStaged(r)
             \/ DeleteRemote(r) \/ RenameStaging(r)
    <3>1. pc'[r] \in TrySteps \cup {"cleanup"} /\ todo' = todo
      BY <2>6 DEF CreateStaging, OpenLocal, FlushStaging, VerifyStaged, DeleteRemote,
                  RenameStaging, Goto, TrySteps, TypeOK
    <3> QED BY <2>1, <3>1 DEF Tgt
  <2>7. SkipOptional(r) \/ AuditResult(r) \/ AuditFailure(r) => Records1(r)
    <3>1. SkipOptional(r) \/ AuditResult(r) \/ AuditFailure(r) =>
             Tail(todo[r]) # todo[r] /\ todo'[r] = Tail(todo[r])
      <4>1. todo[r] \in Seq(Targets) /\ todo[r] # <<>>
        BY <1>1, TgtType DEF TypeOK
      <4>2. Len(Tail(todo[r])) # Len(todo[r])
        BY <4>1
      <4> QED BY <4>2 DEF SkipOptional, AuditResult, AuditFailure, Audited, TypeOK
    <3> QED BY <3>1, StepShape DEF Moves
  <2> QED BY <1>3, <2>2, <2>3, <2>4, <2>5, <2>6, <2>7 DEF Step
<1>4. IsFiniteSet(Debris') /\ Cardinality(Debris') <= faults'
  <2>1. CASE Step(r)
    <3>1. Debris' \subseteq Debris
      BY <1>2, <1>3, <2>1
    <3>2. faults' = faults
      BY <2>1 DEF Step, SkipOptional, StatLocal, LookUp, CreateStaging, OpenLocal,
         FlushStaging, VerifyStaged, DeleteRemote, RenameStaging, ConfirmRemote,
         Cleanup, AuditResult, AuditFailure
    <3>3. faults \in Nat
      BY <1>1 DEF TypeOK
    <3> QED BY <1>1, <3>1, <3>2, <3>3, DebrisGrows DEF DebrisInv
  <2>2. CASE StepFails(r)
    <3>1. Debris' \subseteq Debris \cup {x}
      BY <1>2
    <3>2. faults' = faults + 1
      BY <2>2 DEF StepFails, SkipOptionalRaises, LookUpRaises, TransferRaises,
         CleanupRaises, AuditRaises, Crash, Fault
    <3> QED BY <3>1, <3>2, DebrisGrows DEF DebrisInv
  <2> QED BY <2>1, <2>2
<1>5. ASSUME NEW q \in Active', pc'[q] = "confirm" PROVE (staging[<<q, Tgt(q)>>] = Absent)'
  <2>1. CASE q = r
    <3>1. RenameStaging(r) /\ pc[r] = "rename" /\ MayRename(r)
      BY <1>5, <2>1, StepShape DEF Step, StepFails, SkipOptional, StatLocal, LookUp,
         CreateStaging, OpenLocal, FlushStaging, VerifyStaged, DeleteRemote,
         RenameStaging, ConfirmRemote, Cleanup, AuditResult, AuditFailure, Audited, Goto,
         SkipOptionalRaises, LookUpRaises, TransferRaises, CleanupRaises, AuditRaises,
         Crash, TypeOK
    <3>2. Tgt(r)' = Tgt(r)
      BY <3>1 DEF RenameStaging, Tgt
    <3> QED BY <1>1, <2>1, <3>1, <3>2 DEF RenameStaging, Renamed, TypeOK
  <2>2. CASE q # r
    <3>1. q \in Active
      BY <1>5, ControlType
    <3>2. <<q, Tgt(q)>> \in Runs \X Targets /\ <<q, Tgt(q)>> # x
      BY <2>2, <3>1, TgtType
    <3>3. /\ staging'[<<q, Tgt(q)>>] = staging[<<q, Tgt(q)>>]
          /\ pc'[q] = pc[q] /\ Tgt(q)' = Tgt(q)
      BY <2>2, <3>2, OtherStaging
    <3> QED BY <1>5, <3>1, <3>3 DEF DebrisInv
  <2> QED BY <2>1, <2>2
<1> QED BY <1>4, <1>5 DEF DebrisInv

LEMMA DebrisStep == TypeOK /\ TransfersReady /\ DebrisInv /\ [Next]_vars => DebrisInv'
<1> SUFFICES ASSUME TypeOK, TransfersReady, DebrisInv, [Next]_vars PROVE DebrisInv'
  OBVIOUS
<1>1. CASE \E r \in Runs : Step(r) \/ StepFails(r)
  BY <1>1, DebrisOfStep
<1>2. ASSUME NEW r \in Runs, StartRun(r) PROVE DebrisInv'
  <2>1. /\ pc[r] = "idle" /\ pc' = [pc EXCEPT ![r] = "check"] /\ staging' = staging
        /\ todo' = [todo EXCEPT ![r] = Selection] /\ faults' = faults
    BY <1>2 DEF StartRun, Goto
  <2>2. \A q \in Runs : q # r => pc'[q] = pc[q] /\ Tgt(q)' = Tgt(q)
    BY <2>1 DEF TypeOK, Tgt
  <2>3. Debris' \subseteq Debris
    BY <2>1, <2>2 DEF Debris, TrySteps
  <2>4. IsFiniteSet(Debris') /\ Cardinality(Debris') <= faults'
    BY <2>1, <2>3, DebrisGrows DEF DebrisInv, TypeOK
  <2>5. \A q \in Active' : pc'[q] = "confirm" => (staging[<<q, Tgt(q)>>] = Absent)'
    BY <2>1, <2>2 DEF DebrisInv, Active, TypeOK
  <2> QED BY <2>4, <2>5 DEF DebrisInv
<1>3. CASE UNCHANGED vars \/ \E t \in Targets : LocalPublish(t)
  <2>1. UNCHANGED <<pc, staging, todo, faults>>
    BY <1>3 DEF vars, LocalPublish
  <2> QED BY <2>1 DEF DebrisInv, Debris, Active, Tgt
<1> QED BY <1>1, <1>2, <1>3 DEF Next

(* At most one staging object is left behind for each fault.               *)
THEOREM StagingCorrect == Spec => []StagingIsTemporary
<1>1. TypeOK /\ DebrisInv => StagingIsTemporary
  <2> SUFFICES ASSUME TypeOK, DebrisInv PROVE StagingIsTemporary
    OBVIOUS
  <2>1. Leftovers \subseteq Debris
    BY DEF Leftovers, Debris, Steps
  <2>2. IsFiniteSet(Debris) /\ Cardinality(Debris) <= faults
    BY DEF DebrisInv
  <2>3. IsFiniteSet(Leftovers) /\ Cardinality(Leftovers) <= Cardinality(Debris)
    BY <2>1, <2>2, FS_Subset
  <2>4. Cardinality(Leftovers) \in Nat /\ Cardinality(Debris) \in Nat /\ faults \in Nat
    BY <2>2, <2>3, FS_CardinalityType DEF TypeOK
  <2> QED BY <2>2, <2>3, <2>4 DEF StagingIsTemporary
<1> QED BY <1>1, DebrisInit, DebrisStep, UploadTypeCorrect, PTL DEF Spec
=============================================================================
