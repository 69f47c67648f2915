----------------------------- MODULE AdlsUpload -----------------------------
(***************************************************************************)
(* The upload command of src/azure_storage: runs of run_upload that copy   *)
(* local Bronze files to ADLS.  A file is written to a staging object of   *)
(* its own, measured, and renamed to its remote path.                      *)
(*                                                                         *)
(* A file is known by its version; files of different versions may have    *)
(* the same size, and the code compares sizes only.  A staging object      *)
(* holds 0 until its data is flushed.                                      *)
(***************************************************************************)
EXTENDS Naturals, Sequences, FiniteSets

CONSTANTS
    Targets,        \* remote paths
    Optional,       \* targets whose local file may be missing: weather
    Selection,      \* the targets of a command, in order
    MaxVersion,     \* bound: versions of a local file
    Size,           \* Size[v]: bytes of version v
    Absent,         \* no such file or object
    RenameReplaces, \* whether rename_file replaces an existing object
    MaxRuns,        \* bound: commands started
    MaxActive,      \* commands that run at the same time
    MaxFaults       \* bound: failing calls and crashes

Versions == 1 .. MaxVersion
Runs     == 1 .. MaxRuns

ASSUME TargetAssumption ==
    /\ Optional \subseteq Targets
    /\ Selection \in Seq(Targets) /\ Selection # <<>>
    /\ \A i, j \in DOMAIN Selection : Selection[i] = Selection[j] => i = j
    /\ MaxVersion \in Nat
    /\ Size \in [Versions -> Nat \ {0}]
    /\ Absent \notin Nat
    /\ RenameReplaces \in BOOLEAN

ASSUME RunAssumption == MaxRuns \in Nat /\ MaxActive \in Nat /\ MaxFaults \in Nat

VARIABLES
    local,      \* local[t]: version of the local file
    remote,     \* remote[t]: version of the object at the remote path
    staging,    \* staging[r, t]: the staging object of run r for t
    pc,         \* pc[r]: what run r does next
    todo,       \* todo[r]: targets left, the current one first
    overwrite,  \* overwrite[r]: --overwrite
    size,       \* size[r]: local_size
    exists,     \* exists[r]: whether the object existed when looked up
    source,     \* source[r]: the version of the local file opened
    failed,     \* failed[r]: whether failures is not empty
    audit,      \* audit[r]: the audit records of run r
    faults      \* faults so far

seen == <<size, exists, source>>
report == <<failed, audit>>
vars == <<local, remote, staging, pc, todo, overwrite, size, exists, source,
          failed, audit, faults>>

Tgt(r) == Head(todo[r])

SizeOf(v) == IF v = 0 THEN 0 ELSE Size[v]

TrySteps == {"create", "open", "flush", "verify", "delete", "rename", "confirm"}
Steps    == {"check", "lookup", "skipped", "uploaded", "cleanup", "auditfail"} \cup TrySteps
Ended    == {"done", "raised", "crashed"}
Active   == {r \in Runs : pc[r] \in Steps}

(* message: whether error_message is set, which for "skipped" means that   *)
(* there was no local file.                                                *)
Records == [target : Targets, status : {"uploaded", "skipped", "failed"},
            message : BOOLEAN]

(* Type invariant: no object is ever published before its data is flushed. *)
TypeOK ==
    /\ local \in [Targets -> Versions \cup {Absent}]
    /\ remote \in [Targets -> Versions \cup {Absent}]
    /\ staging \in [Runs \X Targets -> Versions \cup {0, Absent}]
    /\ pc \in [Runs -> {"idle"} \cup Steps \cup Ended]
    /\ todo \in [Runs -> Seq(Targets)]
    /\ overwrite \in [Runs -> BOOLEAN]
    /\ size \in [Runs -> Nat] /\ exists \in [Runs -> BOOLEAN]
    /\ source \in [Runs -> Versions \cup {Absent}]
    /\ failed \in [Runs -> BOOLEAN]
    /\ audit \in [Runs -> Seq(Records)]
    /\ faults \in 0 .. MaxFaults
    /\ \A r \in Active : todo[r] # <<>>

Init ==
    /\ local = [t \in Targets |-> Absent]
    /\ remote = [t \in Targets |-> Absent]
    /\ staging = [x \in Runs \X Targets |-> Absent]
    /\ pc = [r \in Runs |-> "idle"]
    /\ todo = [r \in Runs |-> <<>>]
    /\ overwrite = [r \in Runs |-> FALSE]
    /\ size = [r \in Runs |-> 0] /\ exists = [r \in Runs |-> FALSE]
    /\ source = [r \in Runs |-> Absent]
    /\ failed = [r \in Runs |-> FALSE]
    /\ audit = [r \in Runs |-> <<>>]
    /\ faults = 0

-----------------------------------------------------------------------------
Goto(r, step) == pc' = [pc EXCEPT ![r] = step]

Fault == faults < MaxFaults /\ faults' = faults + 1

(* The acquisition command publishes a (new) local file; LocalDownload     *)
(* shows that it does so as a whole.                                       *)
LocalPublish(t) ==
    /\ \E v \in Versions :
          /\ v = IF local[t] = Absent THEN 1 ELSE local[t] + 1
          /\ local' = [local EXCEPT ![t] = v]
    /\ UNCHANGED <<remote, staging, pc, todo, overwrite, seen, report, faults>>

StartRun(r) ==
    /\ pc[r] = "idle" /\ \A q \in 1 .. r - 1 : pc[q] # "idle"
    /\ Cardinality(Active) < MaxActive
    /\ \E o \in BOOLEAN : overwrite' = [overwrite EXCEPT ![r] = o]
    /\ todo' = [todo EXCEPT ![r] = Selection]
    /\ Goto(r, "check")
    /\ UNCHANGED <<local, remote, staging, seen, report, faults>>

(* A record is appended and the loop goes on with the next target.         *)
Audited(r, status, message) ==
    /\ audit' = [audit EXCEPT ![r] =
          Append(@, [target |-> Tgt(r), status |-> status, message |-> message])]
    /\ todo' = [todo EXCEPT ![r] = Tail(@)]
    /\ Goto(r, IF Tail(todo[r]) = <<>> THEN "done" ELSE "check")

IsMissingOptional(t) == local[t] = Absent /\ t \in Optional

SkipOptional(r) ==
    /\ pc[r] = "check" /\ IsMissingOptional(Tgt(r))
    /\ Audited(r, "skipped", TRUE)
    /\ UNCHANGED <<local, remote, staging, overwrite, seen, failed, faults>>

(* That append raises outside the try block: the command ends.             *)
SkipOptionalRaises(r) ==
    /\ pc[r] = "check" /\ IsMissingOptional(Tgt(r))
    /\ Fault
    /\ Goto(r, "raised")
    /\ UNCHANGED <<local, remote, staging, todo, overwrite, seen, report>>

-----------------------------------------------------------------------------
(* upload_file. *)

(* local_size is read.                                                     *)
StatLocal(r) ==
    /\ pc[r] = "check" /\ ~IsMissingOptional(Tgt(r))
    /\ IF local[Tgt(r)] = Absent
       THEN Goto(r, "auditfail") /\ UNCHANGED size
       ELSE Goto(r, "lookup") /\ size' = [size EXCEPT ![r] = Size[local[Tgt(r)]]]
    /\ UNCHANGED <<local, remote, staging, todo, overwrite, exists, source, report, faults>>

(* Faulty variant: an object of another size is no conflict.               *)
LookUpWithoutConflict(r) ==
    /\ pc[r] = "lookup"
    /\ LET v == remote[Tgt(r)] IN
       /\ exists' = [exists EXCEPT ![r] = v # Absent]
       /\ Goto(r, IF v # Absent /\ ~overwrite[r] /\ Size[v] = size[r]
                  THEN "skipped" ELSE "create")
    /\ UNCHANGED <<local, remote, staging, todo, overwrite, size, source, report, faults>>

(* file_exists: an object of the same size is skipped, one of another size *)
(* is a conflict, unless --overwrite is given.                             *)
LookUp(r) ==
    /\ pc[r] = "lookup"
    /\ LET v == remote[Tgt(r)] IN
       /\ exists' = [exists EXCEPT ![r] = v # Absent]
       /\ Goto(r, CASE v = Absent \/ overwrite[r] -> "create"
                    [] v # Absent /\ ~overwrite[r] /\ Size[v] = size[r] -> "skipped"
                    [] OTHER -> "auditfail")
    /\ UNCHANGED <<local, remote, staging, todo, overwrite, size, source, report, faults>>

(* The parent directories and the staging object are created.              *)
CreateStaging(r) ==
    /\ pc[r] = "create"
    /\ staging' = [staging EXCEPT ![<<r, Tgt(r)>>] = 0]
    /\ Goto(r, "open")
    /\ UNCHANGED <<local, remote, todo, overwrite, seen, report, faults>>

(* The local file is opened; a file that replaces it later is not seen.    *)
OpenLocal(r) ==
    /\ pc[r] = "open"
    /\ source' = [source EXCEPT ![r] = local[Tgt(r)]]
    /\ Goto(r, "flush")
    /\ UNCHANGED <<local, remote, staging, todo, overwrite, size, exists, report, faults>>

(* All chunks are appended and flushed.                                    *)
FlushStaging(r) ==
    /\ pc[r] = "flush"
    /\ staging' = [staging EXCEPT ![<<r, Tgt(r)>>] = source[r]]
    /\ Goto(r, "verify")
    /\ UNCHANGED <<local, remote, todo, overwrite, seen, report, faults>>

(* Faulty variant: the staged size is not compared.                        *)
NoVerifyStaged(r) ==
    /\ pc[r] = "verify"
    /\ Goto(r, IF exists[r] /\ overwrite[r] THEN "delete" ELSE "rename")
    /\ UNCHANGED <<local, remote, staging, todo, overwrite, seen, report, faults>>

(* Faulty variant: a wrong staged size raises outside the try block.       *)
VerifyStagedOutside(r) ==
    /\ pc[r] = "verify"
    /\ Goto(r, CASE SizeOf(staging[<<r, Tgt(r)>>]) # size[r] -> "auditfail"
                 [] exists[r] /\ overwrite[r] -> "delete"
                 [] OTHER -> "rename")
    /\ UNCHANGED <<local, remote, staging, todo, overwrite, seen, report, faults>>

VerifyStaged(r) ==
    /\ pc[r] = "verify"
    /\ Goto(r, CASE SizeOf(staging[<<r, Tgt(r)>>]) # size[r] -> "cleanup"
                 [] SizeOf(staging[<<r, Tgt(r)>>]) = size[r] /\ exists[r] /\ overwrite[r] -> "delete"
                 [] OTHER -> "rename")
    /\ UNCHANGED <<local, remote, staging, todo, overwrite, seen, report, faults>>

(* The object to be overwritten is deleted; the call raises if another run *)
(* deleted it before.                                                      *)
DeleteRemote(r) ==
    /\ pc[r] = "delete"
    /\ remote' = [remote EXCEPT ![Tgt(r)] = Absent]
    /\ Goto(r, IF remote[Tgt(r)] = Absent THEN "cleanup" ELSE "rename")
    /\ UNCHANGED <<local, staging, todo, overwrite, seen, report, faults>>

Renamed(r) ==
    /\ remote' = [remote EXCEPT ![Tgt(r)] = staging[<<r, Tgt(r)>>]]
    /\ staging' = [staging EXCEPT ![<<r, Tgt(r)>>] = Absent]

MayRename(r) == RenameReplaces \/ remote[Tgt(r)] = Absent

RenameStaging(r) ==
    /\ pc[r] = "rename"
    /\ IF MayRename(r)
       THEN Renamed(r) /\ Goto(r, "confirm")
       ELSE UNCHANGED <<remote, staging>> /\ Goto(r, "cleanup")
    /\ UNCHANGED <<local, todo, overwrite, seen, report, faults>>

(* The published object is measured.  It may be another run's by now, or   *)
(* be deleted; a wrong size raises after the try block.                    *)
ConfirmRemote(r) ==
    /\ pc[r] = "confirm"
    /\ LET v == remote[Tgt(r)] IN
       Goto(r, CASE v = Absent -> "cleanup"
                 [] v # Absent /\ Size[v] = size[r] -> "uploaded"
                 [] OTHER -> "auditfail")
    /\ UNCHANGED <<local, remote, staging, todo, overwrite, seen, report, faults>>

(* A call raises, with or without its effect.                              *)
LookUpRaises(r) ==
    /\ pc[r] = "lookup"
    /\ Fault
    /\ Goto(r, "auditfail")
    /\ UNCHANGED <<local, remote, staging, todo, overwrite, seen, report>>

TransferRaises(r) ==
    /\ pc[r] \in TrySteps
    /\ Fault
    /\ \/ UNCHANGED <<remote, staging>>
       \/ /\ pc[r] = "create"
          /\ staging' = [staging EXCEPT ![<<r, Tgt(r)>>] = 0] /\ UNCHANGED remote
       \/ /\ pc[r] = "flush"
          /\ staging' = [staging EXCEPT ![<<r, Tgt(r)>>] = source[r]] /\ UNCHANGED remote
       \/ /\ pc[r] = "delete"
          /\ remote' = [remote EXCEPT ![Tgt(r)] = Absent] /\ UNCHANGED staging
       \/ pc[r] = "rename" /\ MayRename(r) /\ Renamed(r)
    /\ Goto(r, "cleanup")
    /\ UNCHANGED <<local, todo, overwrite, seen, report>>

(* Faulty variant: the remote path is removed instead of the staging path. *)
CleanupRemote(r) ==
    /\ pc[r] = "cleanup"
    /\ remote' = [remote EXCEPT ![Tgt(r)] = Absent]
    /\ Goto(r, "auditfail")
    /\ UNCHANGED <<local, staging, todo, overwrite, seen, report, faults>>

(* _remove_staging_file: a missing object is fine, any other error is      *)
(* logged.                                                                 *)
Cleanup(r) ==
    /\ pc[r] = "cleanup"
    /\ staging' = [staging EXCEPT ![<<r, Tgt(r)>>] = Absent]
    /\ Goto(r, "auditfail")
    /\ UNCHANGED <<local, remote, todo, overwrite, seen, report, faults>>

CleanupRaises(r) ==
    /\ pc[r] = "cleanup"
    /\ Fault
    /\ Goto(r, "auditfail")
    /\ UNCHANGED <<local, remote, staging, todo, overwrite, seen, report>>

-----------------------------------------------------------------------------
(* run_upload around upload_file. *)

AuditResult(r) ==
    /\ pc[r] \in {"skipped", "uploaded"}
    /\ Audited(r, pc[r], FALSE)
    /\ UNCHANGED <<local, remote, staging, overwrite, seen, failed, faults>>

(* Inside the try block a failing append leads to the except clause, in    *)
(* the except clause it ends the command.                                  *)
AuditRaises(r) ==
    /\ pc[r] \in {"skipped", "uploaded", "auditfail"}
    /\ Fault
    /\ Goto(r, IF pc[r] = "auditfail" THEN "raised" ELSE "auditfail")
    /\ UNCHANGED <<local, remote, staging, todo, overwrite, seen, report>>

(* Faulty variants: the failure is recorded but does not count; the audit  *)
(* gets a status of its own.                                               *)
AuditFailureUncounted(r) ==
    /\ pc[r] = "auditfail"
    /\ Audited(r, "failed", TRUE)
    /\ UNCHANGED <<local, remote, staging, overwrite, seen, failed, faults>>

AuditFailureAsConflict(r) ==
    /\ pc[r] = "auditfail"
    /\ failed' = [failed EXCEPT ![r] = TRUE]
    /\ Audited(r, "conflict", TRUE)
    /\ UNCHANGED <<local, remote, staging, overwrite, seen, faults>>

(* The failure is recorded and the next target follows.                    *)
AuditFailure(r) ==
    /\ pc[r] = "auditfail"
    /\ failed' = [failed EXCEPT ![r] = TRUE]
    /\ Audited(r, "failed", TRUE)
    /\ UNCHANGED <<local, remote, staging, overwrite, seen, faults>>

(* The process is killed.                                                  *)
Crash(r) ==
    /\ pc[r] \in Steps
    /\ Fault
    /\ Goto(r, "crashed")
    /\ UNCHANGED <<local, remote, staging, todo, overwrite, seen, report>>

-----------------------------------------------------------------------------
Step(r) ==
    \/ SkipOptional(r) \/ StatLocal(r) \/ LookUp(r)
    \/ CreateStaging(r) \/ OpenLocal(r) \/ FlushStaging(r) \/ VerifyStaged(r)
    \/ DeleteRemote(r) \/ RenameStaging(r) \/ ConfirmRemote(r)
    \/ Cleanup(r) \/ AuditResult(r) \/ AuditFailure(r)

StepFails(r) ==
    \/ SkipOptionalRaises(r) \/ LookUpRaises(r) \/ TransferRaises(r)
    \/ CleanupRaises(r) \/ AuditRaises(r) \/ Crash(r)

Next ==
    \/ \E r \in Runs : StartRun(r) \/ Step(r) \/ StepFails(r)
    \/ \E t \in Targets : LocalPublish(t)

Spec == Init /\ [][Next]_vars

-----------------------------------------------------------------------------
(* Properties. *)

(* "Verifies the staged byte count": whatever becomes of the local file    *)
(* meanwhile, an object is published only with the size that the run which *)
(* publishes it had measured before it decided.                            *)
PublishesWhatItMeasured ==
    [][\A t \in Targets : remote'[t] \notin {remote[t], Absent} =>
          \E r \in Active : Tgt(r) = t /\ Size[remote'[t]] = size[r]]_vars

(* An object that exists is changed or deleted only by a run with          *)
(* --overwrite, or by one that found no object when it looked: two runs    *)
(* that both found none may follow each other.                             *)
ReplacesOnlyWhatItSaw ==
    [][\A t \in Targets : remote[t] # Absent /\ remote'[t] # remote[t] =>
          \E r \in Active : /\ Tgt(r) = t
                            /\ IF exists[r] THEN overwrite[r] ELSE remote'[t] # Absent]_vars

(* What a run reported as uploaded or as already there stays there, unless *)
(* another run was asked to overwrite.                                     *)
ReportedObjectsStay ==
    \A r \in Runs : \A i \in DOMAIN audit[r] :
        audit[r][i].status # "failed" /\ ~audit[r][i].message =>
            \/ remote[audit[r][i].target] # Absent
            \/ \E q \in Runs \ {r} : overwrite[q]

(* "A failed staged upload triggers cleanup of its temporary object": at   *)
(* most one staging object is left behind for each fault.                  *)
Leftovers ==
    {x \in Runs \X Targets :
        staging[x] # Absent /\ ~(pc[x[1]] \in Steps /\ Tgt(x[1]) = x[2])}

StagingIsTemporary == Cardinality(Leftovers) <= faults

(* A command that ends by itself has one record for each target, in order, *)
(* and reports failure exactly if one of them failed.                      *)
AuditIsComplete ==
    \A r \in Runs :
        /\ \A i \in DOMAIN audit[r] : audit[r][i].target = Selection[i]
        /\ pc[r] = "done" => /\ Len(audit[r]) = Len(Selection)
                             /\ failed[r] <=> \E i \in DOMAIN audit[r] :
                                                audit[r][i].status = "failed"

(* "Staged, size-verified, atomic remote publication" (docs/               *)
(* Architecture.md:44): a published object never disappears.               *)
PublicationIsAtomic ==
    [][\A t \in Targets : remote[t] # Absent => remote'[t] # Absent]_vars
=============================================================================
