------------------------- MODULE LocalDownloadProofs -------------------------
(***************************************************************************)
(* Proofs about LocalDownload, for any number of sources, versions,        *)
(* commands and faults.                                                    *)
(***************************************************************************)
EXTENDS LocalDownload, FiniteSetTheorems, TLAPS

(***************************************************************************)
(* What the steps of a command have in common.                             *)
(***************************************************************************)

(* A running command has a source.                                         *)
LEMMA SrcType ==
  ASSUME TypeOK, NEW r \in Active
  PROVE  /\ r \in Runs /\ todo[r] \in Seq(Sources) /\ todo[r] # <<>>
         /\ 1 \in DOMAIN todo[r] /\ Src(r) = todo[r][1] /\ Src(r) \in Sources
         /\ Tail(todo[r]) \in Seq(Sources) /\ <<r, Src(r)>> \in Inodes
<1>1. r \in Runs /\ todo[r] \in Seq(Sources) /\ todo[r] # <<>>
  BY DEF Active, TypeOK
<1>2. /\ 1 \in DOMAIN todo[r] /\ Head(todo[r]) = todo[r][1] /\ Head(todo[r]) \in Sources
      /\ Tail(todo[r]) \in Seq(Sources)
  BY <1>1
<1> QED BY <1>1, <1>2 DEF Src, Inodes

(* A command goes on with its source or is killed.                         *)
Moves(r) ==
    /\ \E step \in Steps \cup {"crashed"} : Goto(r, step)
    /\ UNCHANGED <<todo, audit>>

(* The audit itself raises, and the command with it.                       *)
AuditLost(r) ==
    /\ pc[r] \in {"check", "auditfail"} /\ Goto(r, "raised") /\ Fault
    /\ UNCHANGED <<files, todo, transfer, audit>>

(* A command goes on with the next source.                                 *)
Completes(r) ==
    /\ \/ pc[r] = "check" /\ Audited(r, "skipped")
       \/ pc[r] = "audit" /\ Audited(r, "downloaded")
    /\ UNCHANGED <<files, transfer>>

Quiet(r) == \/ RecordWeatherSkip(r) \/ RecordWeatherSkipRaises(r) \/ SkipExisting(r)
            \/ AuditResult(r) \/ AuditRaises(r) \/ AuditFailure(r)

LEMMA StepShape ==
  ASSUME TypeOK, NEW r \in Runs, Step(r) \/ StepFails(r)
  PROVE  /\ r \in Active /\ UNCHANGED <<server, forced, token>>
         /\ faults' = faults \/ Fault
         /\ Moves(r) \/ AuditLost(r) \/ AuditFailure(r) \/ Completes(r)
<1> USE DEF Steps, files, transfer, options
<1>1. /\ r \in Active /\ UNCHANGED <<server, forced, token>> /\ (faults' = faults \/ Fault)
  BY DEF Step, StepFails, RecordWeatherSkip, RecordWeatherSkipRaises, SkipExisting,
     Attempt, UnlinkPart, GetStream, GetPage, OpenPart, WriteChunk, FinishBody, Replace,
     Cleanup, AuditResult, AuditFailure, TransferRaises, CheckRaises, CleanupRaises,
     AuditRaises, Crash, Active
<1>2. CASE RecordWeatherSkip(r) \/ SkipExisting(r) \/ AuditResult(r)
  BY <1>1, <1>2 DEF RecordWeatherSkip, SkipExisting, AuditResult, Completes
<1>3. CASE RecordWeatherSkipRaises(r)
  BY <1>1, <1>3 DEF RecordWeatherSkipRaises, AuditLost
<1>4. CASE AuditRaises(r)
  BY <1>1, <1>4 DEF AuditRaises, AuditLost, Moves
<1>5. CASE WriteChunk(r)
  <2>1. Goto(r, pc[r])
    BY <1>5 DEF WriteChunk, Goto, TypeOK
  <2> QED BY <1>1, <1>5, <2>1 DEF WriteChunk, Moves
<1>6. CASE ~(Quiet(r) \/ WriteChunk(r))
  BY <1>1, <1>6 DEF Quiet, Step, StepFails, Attempt, UnlinkPart, GetStream, GetPage,
     OpenPart, FinishBody, Replace, Cleanup, TransferRaises, CheckRaises, CleanupRaises,
     Crash, Moves
<1> QED BY <1>1, <1>2, <1>3, <1>4, <1>5, <1>6 DEF Quiet

(***************************************************************************)
(* Type correctness.                                                       *)
(***************************************************************************)

LEMMA ControlType ==
  ASSUME TypeOK, NEW r \in Runs, Step(r) \/ StepFails(r)
  PROVE  /\ pc' \in [Runs -> {"idle"} \cup Steps \cup Ended]
         /\ \A q \in Runs : pc[q] # "idle" => pc'[q] # "idle"
         /\ todo' \in [Runs -> Seq(Sources)]
         /\ audit' \in [Runs -> Seq(Records)]
         /\ \A q \in Active' : q \in Active /\ todo'[q] # <<>>
<1>1. /\ r \in Active /\ Tail(todo[r]) \in Seq(Sources) /\ Src(r) \in Sources
      /\ Moves(r) \/ AuditLost(r) \/ AuditFailure(r) \/ Completes(r)
  BY StepShape, SrcType
<1>2. CASE Moves(r) \/ AuditLost(r)
  <2>1. PICK step \in Steps \cup {"raised", "crashed"} : pc' = [pc EXCEPT ![r] = step]
    BY <1>2 DEF Moves, AuditLost, Goto
  <2>2. todo' = todo /\ audit' = audit
    BY <1>2 DEF Moves, AuditLost
  <2> QED BY <1>1, <2>1, <2>2 DEF TypeOK, Active, Ended, Steps
<1>3. ASSUME NEW status \in {"downloaded", "skipped", "failed"}
      PROVE  [audit EXCEPT ![r] = Append(audit[r], [source |-> Src(r), status |-> status])]
                \in [Runs -> Seq(Records)]
  <2>1. [source |-> Src(r), status |-> status] \in Records
    BY <1>1 DEF Records
  <2> QED BY <2>1 DEF TypeOK
<1>4. CASE AuditFailure(r)
  <2>1. /\ audit' = [audit EXCEPT ![r] = Append(audit[r], [source |-> Src(r), status |-> "failed"])]
        /\ pc' = [pc EXCEPT ![r] = "raised"] /\ todo' = todo
    BY <1>4 DEF AuditFailure, Goto
  <2>2. audit' \in [Runs -> Seq(Records)]
    BY <1>3, <2>1
  <2> QED BY <2>1, <2>2 DEF TypeOK, Active, Ended, Steps
<1>5. CASE Completes(r)
  <2>1. PICK status \in {"downloaded", "skipped"} : Audited(r, status)
    BY <1>5 DEF Completes
  <2>2. /\ audit' = [audit EXCEPT ![r] = Append(audit[r], [source |-> Src(r), status |-> status])]
        /\ todo' = [todo EXCEPT ![r] = Tail(todo[r])]
        /\ pc' = [pc EXCEPT ![r] = IF Tail(todo[r]) = <<>> THEN "done" ELSE "check"]
    BY <2>1 DEF Audited, Goto
  <2>3. audit' \in [Runs -> Seq(Records)]
    BY <1>3, <2>2
  <2>4. todo' \in [Runs -> Seq(Sources)]
    BY <1>1, <2>2 DEF TypeOK
  <2> QED BY <1>1, <2>2, <2>3, <2>4 DEF TypeOK, Active, Ended, Steps
<1> QED BY <1>1, <1>2, <1>4, <1>5

(* A file a run writes to grows by the chunk it has received.              *)
LEMMA WriteAtType ==
  ASSUME NEW t \in Seq(Versions \cup {0}), NEW k \in Nat \ {0}, NEW c \in Versions
  PROVE  /\ WriteAt(t, k, c) \in Seq(Versions \cup {0})
         /\ Len(WriteAt(t, k, c)) = IF k > Len(t) THEN k ELSE Len(t)
         /\ WriteAt(t, k, c)[k] = c
         /\ \A i \in 1 .. Len(t) : i # k => WriteAt(t, k, c)[i] = t[i]
<1> DEFINE n == IF k > Len(t) THEN k ELSE Len(t)
           f == [i \in 1 .. n |-> CASE i = k -> c [] i # k /\ i <= Len(t) -> t[i] [] OTHER -> 0]
<1>1. n \in Nat /\ k \in 1 .. n /\ 1 .. Len(t) \subseteq 1 .. n
  OBVIOUS
<1>2. \A i \in 1 .. n : i <= Len(t) => t[i] \in Versions \cup {0}
  OBVIOUS
<1> HIDE DEF n
<1>3. ASSUME NEW i \in 1 .. n PROVE f[i] \in Versions \cup {0}
  BY <1>2
<1>4. f \in [1 .. n -> Versions \cup {0}]
  BY <1>3
<1>5. f \in Seq(Versions \cup {0}) /\ Len(f) = n
  BY <1>1, <1>4
<1>6. f[k] = c /\ \A i \in 1 .. Len(t) : i # k => f[i] = t[i]
  BY <1>1
<1>7. WriteAt(t, k, c) = f
  BY DEF WriteAt, n
<1> HIDE DEF f
<1> QED BY <1>5, <1>6, <1>7 DEF n

(* A command writes no more than it received, and nothing before it opens  *)
(* the .part file.                                                         *)
Unwritten ==
    /\ \A r \in Runs : written[r] <= Len(body[r])
    /\ \A r \in Active : pc[r] \in {"unlink", "get", "open"} => written[r] = 0

(* Every step of a command leaves the options and the names and files it   *)
(* does not work on alone.                                                 *)
LEMMA FilesType ==
  ASSUME TypeOK, NEW r \in Runs, Step(r) \/ StepFails(r)
  PROVE  /\ dest' \in [Sources -> Inodes \cup {Absent}]
         /\ part' \in [Sources -> Inodes \cup {Absent}]
         /\ data' \in [Inodes -> Seq(Versions \cup {0})]
         /\ \A s \in Sources : \A n \in {dest'[s], part'[s]} \ {Absent} :
               n[2] = s /\ pc[n[1]] # "idle"
<1>1. /\ r \in Active /\ Src(r) \in Sources /\ <<r, Src(r)>> \in Inodes /\ pc[r] # "idle"
  BY StepShape, SrcType DEF Active, Steps
<1>2. CASE UNCHANGED files
  BY <1>2 DEF files, TypeOK
<1>3. CASE UnlinkPart(r) \/ Cleanup(r)
  BY <1>1, <1>3 DEF UnlinkPart, Cleanup, TypeOK
<1>4. CASE Replace(r)
  <2>1. \/ UNCHANGED files
        \/ /\ part' = [part EXCEPT ![Src(r)] = Absent] /\ data' = data
           /\ dest' = [dest EXCEPT ![Src(r)] = part[Src(r)]]
    BY <1>4 DEF Replace, files
  <2>2. CASE UNCHANGED files
    BY <2>2 DEF files, TypeOK
  <2>3. CASE /\ part' = [part EXCEPT ![Src(r)] = Absent] /\ data' = data
             /\ dest' = [dest EXCEPT ![Src(r)] = part[Src(r)]]
    <3>1. ASSUME NEW s \in Sources, NEW n \in {dest'[s], part'[s]} \ {Absent}
          PROVE  n[2] = s /\ pc[n[1]] # "idle"
      <4>1. n \in {dest[s], part[s]} \ {Absent}
        BY <1>1, <2>3 DEF TypeOK
      <4> QED BY <4>1 DEF TypeOK
    <3> QED BY <1>1, <2>3, <3>1 DEF TypeOK
  <2> QED BY <2>1, <2>2, <2>3
<1>5. CASE OpenPart(r)
  <2>0. <<r, Src(r)>>[1] = r /\ <<r, Src(r)>>[2] = Src(r) /\ part[Src(r)] \in Inodes \cup {Absent}
        /\ (part[Src(r)] # Absent => part[Src(r)][2] = Src(r) /\ pc[part[Src(r)][1]] # "idle")
    BY <1>1 DEF TypeOK
  <2>1. PICK n \in Inodes : /\ n[2] = Src(r) /\ pc[n[1]] # "idle"
                            /\ part' = [part EXCEPT ![Src(r)] = n]
                            /\ data' = [data EXCEPT ![n] = <<>>] /\ dest' = dest
    BY <1>1, <1>5, <2>0 DEF OpenPart
  <2>2. <<>> \in Seq(Versions \cup {0})
    OBVIOUS
  <2> QED BY <1>1, <2>1, <2>2, SourceAssumption DEF TypeOK
<1>6. CASE WriteChunk(r)
  <2> DEFINE k == written[r] + 1
             t == data[handle[r]]
             c == body[r][k]
  <2>1. /\ dest' = dest /\ part' = part /\ written' = [written EXCEPT ![r] = k]
        /\ data' = [data EXCEPT ![handle[r]] = WriteAt(t, written'[r], body[r][written'[r]])]
        /\ written[r] < Len(body[r]) /\ body[r] \in Seq(Versions) /\ written[r] \in Nat
    BY <1>6 DEF WriteChunk, TypeOK
  <2>2. written'[r] = k /\ k \in 1 .. Len(body[r]) /\ k \in Nat \ {0}
    BY <2>1 DEF TypeOK
  <2>3. c \in Versions
    BY <2>1, <2>2
  <2>4. handle[r] \in Inodes => WriteAt(t, k, c) \in Seq(Versions \cup {0})
    BY <2>2, <2>3, WriteAtType DEF TypeOK
  <2>5. data' = [data EXCEPT ![handle[r]] = WriteAt(t, k, c)]
    BY <2>1, <2>2
  <2> HIDE DEF t, k, c
  <2>6. data' \in [Inodes -> Seq(Versions \cup {0})]
    BY <2>4, <2>5 DEF TypeOK
  <2> QED BY <2>1, <2>6 DEF TypeOK
<1>7. \/ UNCHANGED files
      \/ UnlinkPart(r) \/ Cleanup(r) \/ Replace(r) \/ OpenPart(r) \/ WriteChunk(r)
  BY DEF Step, StepFails, RecordWeatherSkip, RecordWeatherSkipRaises, SkipExisting,
     Attempt, GetStream, GetPage, FinishBody, AuditResult, AuditFailure, TransferRaises,
     CheckRaises, CleanupRaises, AuditRaises, Crash, files
<1> QED BY <1>2, <1>3, <1>4, <1>5, <1>6, <1>7

(* The versions of a response are its pages or chunks.                     *)
LEMMA TransferType ==
  ASSUME TypeOK, Unwritten, NEW r \in Runs, Step(r) \/ StepFails(r)
  PROVE  /\ body' \in [Runs -> Seq(Versions)] /\ written' \in [Runs -> Nat]
         /\ handle' \in [Runs -> Inodes \cup {Absent}]
         /\ seen' \in [Runs -> Versions \cup {0, Absent}]
         /\ \A q \in Runs : written[q] <= Len(body[q]) => written'[q] <= Len(body'[q])
<1>1. /\ r \in Active /\ Src(r) \in Sources /\ <<r, Src(r)>> \in Inodes
      /\ written[r] <= Len(body[r])
  BY StepShape, SrcType DEF TypeOK
<1>2. CASE UNCHANGED transfer
  BY <1>2 DEF transfer, TypeOK
<1>3. CASE Attempt(r)
  <2>1. <<>> \in Seq(Versions) /\ Len(<<>>) = 0
    OBVIOUS
  <2> QED BY <1>3, <2>1 DEF Attempt, TypeOK
<1>4. CASE GetStream(r)
  <2>1. server[Src(r)] \in Versions /\ Length[server[Src(r)]] \in Nat
    BY <1>1, SourceAssumption DEF TypeOK
  <2> DEFINE v == server[Src(r)]
             b == [i \in 1 .. Length[v] |-> v]
  <2> HIDE DEF v
  <2>2. b \in Seq(Versions) /\ Len(b) = Length[v] /\ v \in Versions
    BY <2>1 DEF v
  <2>3. body' = [body EXCEPT ![r] = b] /\ UNCHANGED <<written, handle, seen>>
        /\ written[r] = 0
    BY <1>1, <1>4 DEF GetStream, Unwritten, v
  <2> HIDE DEF b
  <2>4. Len(b) \in Nat
    BY <2>2
  <2> QED BY <2>2, <2>3, <2>4 DEF TypeOK
<1>5. CASE GetPage(r)
  <2>1. server[Weather] \in Versions
    BY DEF TypeOK, Sources
  <2> DEFINE v == server[Weather]
  <2> HIDE DEF v
  <2>2. PICK b : /\ b \in {body[r], Append(body[r], v)} /\ body' = [body EXCEPT ![r] = b]
                 /\ UNCHANGED <<written, handle>> /\ written[r] = 0
    <3>1. pc[r] = "get" /\ UNCHANGED <<written, handle>>
      BY <1>5 DEF GetPage
    <3>2. \E b \in {body[r], Append(body[r], v)} : body' = [body EXCEPT ![r] = b]
      BY <1>5 DEF GetPage, v
    <3> QED BY <1>1, <3>1, <3>2 DEF Unwritten
  <2>3. \E w \in {v, Absent} : seen' = [seen EXCEPT ![r] = w]
    BY <1>5 DEF GetPage, v
  <2>4. b \in Seq(Versions) /\ v \in Versions /\ Len(b) \in Nat
    <3>1. v \in Versions
      BY <2>1 DEF v
    <3>2. body[r] \in Seq(Versions) /\ Append(body[r], v) \in Seq(Versions)
      BY <3>1 DEF TypeOK
    <3>3. b \in Seq(Versions)
      BY <2>2, <3>2
    <3> QED BY <3>1, <3>3
  <2> QED BY <2>2, <2>3, <2>4 DEF TypeOK
<1>6. CASE OpenPart(r)
  BY <1>1, <1>6 DEF OpenPart, TypeOK
<1>7. CASE WriteChunk(r)
  BY <1>1, <1>7 DEF WriteChunk, TypeOK
<1>8. \/ UNCHANGED transfer
      \/ Attempt(r) \/ GetStream(r) \/ GetPage(r) \/ OpenPart(r) \/ WriteChunk(r)
  BY DEF Step, StepFails, RecordWeatherSkip, RecordWeatherSkipRaises, SkipExisting,
     UnlinkPart, FinishBody, Replace, Cleanup, AuditResult, AuditFailure, TransferRaises,
     CheckRaises, CleanupRaises, AuditRaises, Crash, transfer
<1> QED BY <1>2, <1>3, <1>4, <1>5, <1>6, <1>7, <1>8

LEMMA UnwrittenStep ==
  ASSUME TypeOK, Unwritten, NEW r \in Runs, Step(r) \/ StepFails(r)
  PROVE  Unwritten'
<1>1. r \in Active /\ (Moves(r) \/ AuditLost(r) \/ AuditFailure(r) \/ Completes(r))
  BY StepShape
<1>2. ASSUME NEW q \in Active', pc'[q] \in {"unlink", "get", "open"} PROVE written'[q] = 0
  <2>1. q \in Active
    BY <1>2, ControlType
  <2>2. q # r => pc'[q] = pc[q] /\ written'[q] = written[q]
    <3>1. q # r => pc'[q] = pc[q]
      BY <1>1, <2>1 DEF Moves, AuditLost, AuditFailure, Completes, Audited, Goto, TypeOK, Active
    <3>2. q # r => written'[q] = written[q]
      BY <2>1 DEF Step, StepFails, RecordWeatherSkip, RecordWeatherSkipRaises,
         SkipExisting, Attempt, UnlinkPart, GetStream, GetPage, OpenPart, WriteChunk,
         FinishBody, Replace, Cleanup, AuditResult, AuditFailure, TransferRaises,
         CheckRaises, CleanupRaises, AuditRaises, Crash, transfer, TypeOK, Active
    <3> QED BY <3>1, <3>2
  <2>3. CASE q = r
    <3>1. \/ Attempt(r)
          \/ pc[r] \in {"unlink", "get", "open"} /\ written' = written
      BY <1>1, <1>2, <2>3 DEF Step, StepFails, RecordWeatherSkip,
         RecordWeatherSkipRaises, SkipExisting, UnlinkPart, GetStream, GetPage, OpenPart,
         WriteChunk, FinishBody, Replace, Cleanup, AuditResult, AuditFailure,
         TransferRaises, CheckRaises, CleanupRaises, AuditRaises, Crash, Audited, Goto,
         transfer, TypeOK, Active
    <3> QED BY <1>1, <2>3, <3>1 DEF Attempt, Unwritten, TypeOK, Active
  <2> QED BY <1>2, <2>1, <2>2, <2>3 DEF Unwritten
<1> QED BY <1>2, TransferType DEF Unwritten

LEMMA DownloadInit == Init => TypeOK /\ Unwritten
<1> SUFFICES ASSUME Init PROVE TypeOK /\ Unwritten
  OBVIOUS
<1>1. Active = {}
  BY DEF Init, Active, Steps
<1>2. /\ <<>> \in Seq(Sources) /\ <<>> \in Seq(Records) /\ <<>> \in Seq(Versions)
      /\ <<>> \in Seq(Versions \cup {0}) /\ 1 \in Versions
  BY SourceAssumption DEF Versions
<1>3. TypeOK
  BY <1>1, <1>2, RunAssumption DEF Init, TypeOK
<1>4. ASSUME NEW r \in Runs PROVE written[r] <= Len(body[r])
  <2>1. written[r] = 0 /\ body[r] = <<>> /\ Len(<<>>) = 0
    BY DEF Init
  <2> QED BY <2>1
<1> QED BY <1>1, <1>3, <1>4 DEF Unwritten

(* The server and the start of a command.                                  *)
LEMMA DownloadEnvironment ==
  ASSUME TypeOK, Unwritten,
         (\E r \in Runs : StartRun(r)) \/ (\E s \in Sources : ServerPublishes(s))
  PROVE  TypeOK' /\ Unwritten'
<1>1. ASSUME NEW r \in Runs, StartRun(r) PROVE TypeOK' /\ Unwritten'
  <2>1. /\ pc[r] = "idle" /\ pc' = [pc EXCEPT ![r] = "check"]
        /\ todo' = [todo EXCEPT ![r] = Selection]
        /\ \E f, t \in BOOLEAN : forced' = [forced EXCEPT ![r] = f] /\ token' = [token EXCEPT ![r] = t]
        /\ UNCHANGED <<server, dest, part, data, body, written, handle, seen, audit, faults>>
    BY <1>1 DEF StartRun, Goto, files, transfer
  <2>2. Selection \in Seq(Sources) /\ Selection # <<>>
    BY SourceAssumption
  <2>3. /\ pc' \in [Runs -> {"idle"} \cup Steps \cup Ended]
        /\ todo' \in [Runs -> Seq(Sources)]
        /\ forced' \in [Runs -> BOOLEAN] /\ token' \in [Runs -> BOOLEAN]
    BY <2>1, <2>2 DEF TypeOK, Steps
  <2>4. \A q \in Runs : (pc[q] # "idle" => pc'[q] # "idle") /\ (q # r => pc'[q] = pc[q])
    BY <2>1 DEF TypeOK
  <2>5. written[r] <= Len(body[r])
    BY DEF Unwritten
  <2>6. \A q \in Active' : todo'[q] # <<>> /\ written'[q] <= Len(body'[q])
    BY <2>1, <2>2, <2>5 DEF TypeOK, Active
  <2>7. \A s \in Sources : \A n \in {dest'[s], part'[s]} \ {Absent} :
           n[2] = s /\ pc'[n[1]] # "idle"
    BY <2>1, <2>4 DEF TypeOK, Inodes
  <2>8. TypeOK'
    BY <2>1, <2>3, <2>6, <2>7 DEF TypeOK
  <2>9. Unwritten'
    BY <2>1 DEF Unwritten, Active, TypeOK
  <2> QED BY <2>8, <2>9
<1>2. ASSUME NEW s \in Sources, ServerPublishes(s) PROVE TypeOK' /\ Unwritten'
  <2>1. server' \in [Sources -> Versions]
    BY <1>2, SourceAssumption DEF ServerPublishes, TypeOK, Versions
  <2>2. UNCHANGED <<dest, part, data, pc, todo, forced, token, body, written, handle, seen,
                    audit, faults>>
    BY <1>2 DEF ServerPublishes, files, options, transfer
  <2> QED BY <2>1, <2>2 DEF TypeOK, Unwritten, Active
<1> QED BY <1>1, <1>2

LEMMA DownloadStep == TypeOK /\ Unwritten /\ [Next]_vars => TypeOK' /\ Unwritten'
<1> SUFFICES ASSUME TypeOK, Unwritten, [Next]_vars PROVE TypeOK' /\ Unwritten'
  OBVIOUS
<1>1. CASE UNCHANGED vars
  BY <1>1 DEF vars, TypeOK, Unwritten, Active
<1>2. ASSUME NEW r \in Runs, Step(r) \/ StepFails(r) PROVE TypeOK' /\ Unwritten'
  <2>1. /\ UNCHANGED <<server, forced, token>> /\ faults' \in 0 .. MaxFaults
    <3>1. UNCHANGED <<server, forced, token>> /\ (faults' = faults \/ Fault)
      BY <1>2, StepShape
    <3> QED BY <3>1, RunAssumption DEF Fault, TypeOK
  <2>2. \A s \in Sources : \A n \in {dest'[s], part'[s]} \ {Absent} :
           n[2] = s /\ pc'[n[1]] # "idle"
    <3>1. ASSUME NEW s \in Sources, NEW n \in {dest'[s], part'[s]} \ {Absent}
          PROVE  n[2] = s /\ pc'[n[1]] # "idle"
      <4>1. n[2] = s /\ pc[n[1]] # "idle" /\ n \in Inodes
        BY <1>2, <3>1, FilesType
      <4> QED BY <1>2, <4>1, ControlType DEF Inodes
    <3> QED BY <3>1
  <2>3. \A q \in Active' : todo'[q] # <<>> /\ written'[q] <= Len(body'[q])
    <3>1. ASSUME NEW q \in Active' PROVE todo'[q] # <<>> /\ written'[q] <= Len(body'[q])
      <4>1. q \in Active /\ todo'[q] # <<>>
        BY <1>2, ControlType
      <4>2. q \in Runs /\ written[q] <= Len(body[q])
        BY <4>1 DEF TypeOK, Active
      <4> QED BY <1>2, <4>1, <4>2, TransferType
    <3> QED BY <3>1
  <2>4. TypeOK'
    BY <1>2, <2>1, <2>2, <2>3, ControlType, FilesType, TransferType DEF TypeOK
  <2> QED BY <1>2, <2>4, UnwrittenStep
<1> QED BY <1>1, <1>2, DownloadEnvironment DEF Next

(* Type correctness, and that nothing is written before the .part file is  *)
(* open.                                                                   *)
THEOREM DownloadTypeCorrect == Spec => [](TypeOK /\ Unwritten)
<1> QED BY DownloadInit, DownloadStep, PTL DEF Spec

(***************************************************************************)
(* The audit.                                                              *)
(***************************************************************************)

NoneFailed(records) == \A i \in DOMAIN records : records[i].status # "failed"

(* The sources a run has recorded and those it has left make up its        *)
(* selection; a run that raises either recorded the failure of its current *)
(* source last, or recorded nothing of it.                                 *)
Progress(r) ==
    /\ \A i \in DOMAIN audit[r] : audit[r][i].source = Selection[i]
    /\ pc[r] = "idle" => audit[r] = <<>>
    /\ pc[r] \in Steps \cup {"done"} => NoneFailed(audit[r])
    /\ pc[r] \in Steps \cup {"done"} => Len(audit[r]) + Len(todo[r]) = Len(Selection)
    /\ pc[r] \in Steps =>
          \A i \in DOMAIN todo[r] : todo[r][i] = Selection[Len(audit[r]) + i]
    /\ pc[r] = "done" => todo[r] = <<>>
    /\ pc[r] = "raised" =>
          LET n == Len(audit[r]) IN
          \/ n + Len(todo[r]) = Len(Selection) /\ NoneFailed(audit[r])
          \/ /\ n + Len(todo[r]) = Len(Selection) + 1 /\ n > 0 /\ Selection[n] = Src(r)
             /\ \A i \in 1 .. n : audit[r][i].status = "failed" <=> i = n

AuditInv == \A r \in Runs : Progress(r)

(* What a record and a source less do to the progress of a run.            *)
LEMMA RecordAdded ==
  ASSUME NEW old \in Seq(Records), NEW left \in Seq(Sources), left # <<>>,
         NEW record, record.source = Head(left),
         Len(old) + Len(left) = Len(Selection),
         \A i \in DOMAIN left : left[i] = Selection[Len(old) + i],
         \A i \in DOMAIN old : old[i].source = Selection[i]
  PROVE  LET new == Append(old, record) IN
         /\ \A i \in DOMAIN new : new[i].source = Selection[i]
         /\ Len(new) = Len(old) + 1 /\ DOMAIN new = 1 .. Len(old) + 1
         /\ new[Len(old) + 1] = record /\ \A i \in 1 .. Len(old) : new[i] = old[i]
         /\ Len(new) + Len(Tail(left)) = Len(Selection)
         /\ \A i \in DOMAIN Tail(left) : Tail(left)[i] = Selection[Len(new) + i]
<1> DEFINE n == Len(old)
           new == Append(old, record)
<1>1. Head(left) = Selection[n + 1]
  <2>1. 1 \in DOMAIN left /\ Head(left) = left[1]
    OBVIOUS
  <2> QED BY <2>1
<1>2. /\ Len(new) = n + 1 /\ DOMAIN new = 1 .. n + 1 /\ DOMAIN old = 1 .. n /\ n \in Nat
      /\ new[n + 1] = record /\ \A i \in 1 .. n : new[i] = old[i]
  OBVIOUS
<1>3. /\ Len(Tail(left)) = Len(left) - 1 /\ Len(left) \in Nat
      /\ \A i \in DOMAIN Tail(left) : i \in Nat /\ Tail(left)[i] = left[i + 1]
                                      /\ i + 1 \in DOMAIN left
  OBVIOUS
<1>4. Len(new) + Len(Tail(left)) = Len(Selection)
  <2>1. (n + 1) + (Len(left) - 1) = n + Len(left)
    BY <1>2, <1>3
  <2> QED BY <1>2, <1>3, <2>1
<1> HIDE DEF new, n
<1>5. ASSUME NEW i \in DOMAIN Tail(left) PROVE Tail(left)[i] = Selection[Len(new) + i]
  <2>1. i + 1 \in DOMAIN left /\ Tail(left)[i] = left[i + 1] /\ i \in Nat
    BY <1>3
  <2>2. left[i + 1] = Selection[n + (i + 1)]
    BY <2>1 DEF n
  <2>3. n + (i + 1) = Len(new) + i
    BY <1>2, <2>1
  <2> QED BY <2>1, <2>2, <2>3
<1>6. \A i \in DOMAIN new : new[i].source = Selection[i]
  BY <1>1, <1>2
<1> QED BY <1>2, <1>4, <1>5, <1>6 DEF new, n

LEMMA ProgressStep ==
  ASSUME TypeOK, NEW r \in Runs, Progress(r), Step(r) \/ StepFails(r)
  PROVE  Progress(r)'
<1>1. /\ r \in Active /\ pc[r] \in Steps
      /\ Moves(r) \/ AuditLost(r) \/ AuditFailure(r) \/ Completes(r)
  BY StepShape DEF Active
<1> DEFINE old == audit[r]
           left == todo[r]
           n == Len(old)
<1>2. /\ old \in Seq(Records) /\ left \in Seq(Sources) /\ left # <<>> /\ Src(r) = Head(left)
      /\ \A i \in DOMAIN old : old[i].source = Selection[i]
      /\ n + Len(left) = Len(Selection)
      /\ \A i \in DOMAIN left : left[i] = Selection[n + i]
      /\ NoneFailed(old)
  BY <1>1, SrcType DEF Progress, TypeOK, Src
<1>3. CASE Moves(r)
  <2>1. /\ audit' = audit /\ todo' = todo /\ pc'[r] \in Steps \cup {"crashed"}
    BY <1>3 DEF Moves, Goto, TypeOK
  <2> QED BY <1>1, <2>1 DEF Progress, Steps
<1>4. CASE AuditLost(r)
  <2>1. /\ audit' = audit /\ todo' = todo /\ pc'[r] = "raised"
    BY <1>4 DEF AuditLost, Goto, TypeOK
  <2> QED BY <1>1, <1>2, <2>1 DEF Progress, Steps
<1>5. CASE AuditFailure(r)
  <2> DEFINE record == [source |-> Src(r), status |-> "failed"]
             new == Append(old, record)
  <2>1. audit'[r] = new /\ pc'[r] = "raised" /\ record.source = Src(r)
        /\ record.status = "failed" /\ todo'[r] = left /\ Src(r)' = Src(r)
    BY <1>5 DEF AuditFailure, Goto, TypeOK, Src
  <2> HIDE DEF record
  <2>2. /\ \A i \in DOMAIN new : new[i].source = Selection[i]
        /\ Len(new) = n + 1 /\ DOMAIN new = 1 .. n + 1
        /\ new[n + 1] = record /\ \A i \in 1 .. n : new[i] = old[i]
    <3> HIDE DEF old, left
    <3> QED BY <1>2, <2>1, RecordAdded
  <2>3. \A i \in 1 .. n : old[i].status # "failed"
    BY <1>2 DEF NoneFailed
  <2>4. n \in Nat /\ Len(left) \in Nat /\ Len(Selection) \in Nat
    BY <1>2, SourceAssumption
  <2> HIDE DEF new, n, old, left
  <2>5. \A i \in 1 .. Len(new) : new[i].status = "failed" <=> i = Len(new)
    BY <2>1, <2>2, <2>3, <2>4
  <2>6. Len(new) > 0 /\ Len(new) + Len(left) = Len(Selection) + 1
    <3>1. Len(new) = n + 1 /\ n + Len(left) = Len(Selection)
      BY <1>2, <2>2
    <3> QED BY <2>4, <3>1
  <2>7. Selection[Len(new)] = Src(r)
    BY <2>1, <2>2, <2>4
  <2> QED BY <2>1, <2>2, <2>5, <2>6, <2>7 DEF Progress, Steps
<1>6. CASE Completes(r)
  <2>1. PICK status \in {"downloaded", "skipped"} : Audited(r, status)
    BY <1>6 DEF Completes
  <2> DEFINE record == [source |-> Src(r), status |-> status]
             new == Append(old, record)
  <2>2. /\ audit'[r] = new /\ record.source = Src(r) /\ record.status # "failed"
        /\ todo'[r] = Tail(left)
        /\ pc'[r] = IF Tail(left) = <<>> THEN "done" ELSE "check"
    BY <2>1 DEF Audited, Goto, TypeOK
  <2> HIDE DEF record
  <2>3. /\ \A i \in DOMAIN new : new[i].source = Selection[i]
        /\ DOMAIN new = 1 .. n + 1
        /\ new[n + 1] = record /\ \A i \in 1 .. n : new[i] = old[i]
        /\ Len(new) + Len(Tail(left)) = Len(Selection)
        /\ \A i \in DOMAIN Tail(left) : Tail(left)[i] = Selection[Len(new) + i]
    <3> HIDE DEF old, left
    <3>1. record.source = Head(left)
      BY <1>2, <2>2
    <3> QED BY <1>2, <3>1, RecordAdded
  <2>4. \A i \in 1 .. n : old[i].status # "failed"
    BY <1>2 DEF NoneFailed
  <2>5. n \in Nat
    BY <1>2
  <2> HIDE DEF new, n, old
  <2>6. NoneFailed(new)
    BY <2>2, <2>3, <2>4, <2>5 DEF NoneFailed
  <2> QED BY <2>2, <2>3, <2>6 DEF Progress, Steps
<1> QED BY <1>1, <1>3, <1>4, <1>5, <1>6

LEMMA AuditInit == Init => AuditInv
<1> SUFFICES ASSUME Init, NEW r \in Runs PROVE Progress(r)
  BY DEF AuditInv
<1>1. pc[r] = "idle" /\ audit[r] = <<>>
  BY DEF Init
<1> QED BY <1>1 DEF Progress, Steps

LEMMA AuditStep == TypeOK /\ AuditInv /\ [Next]_vars => AuditInv'
<1> SUFFICES ASSUME TypeOK, AuditInv, [Next]_vars, NEW q \in Runs PROVE Progress(q)'
  BY DEF AuditInv
<1>1. Progress(q)
  BY DEF AuditInv
<1>2. CASE pc'[q] = pc[q] /\ todo'[q] = todo[q] /\ audit'[q] = audit[q]
  BY <1>1, <1>2 DEF Progress, Src
<1>3. ASSUME NEW r \in Runs, Step(r) \/ StepFails(r) PROVE Progress(q)'
  <2>1. CASE q = r
    BY <1>1, <1>3, <2>1, ProgressStep
  <2>2. CASE q # r
    <3>1. Moves(r) \/ AuditLost(r) \/ AuditFailure(r) \/ Completes(r)
      BY <1>3, StepShape
    <3>2. pc'[q] = pc[q] /\ todo'[q] = todo[q] /\ audit'[q] = audit[q]
      BY <2>2, <3>1 DEF Moves, AuditLost, AuditFailure, Completes, Audited, Goto, TypeOK
    <3> QED BY <1>2, <3>2
  <2> QED BY <2>1, <2>2
<1>4. ASSUME NEW r \in Runs, StartRun(r) PROVE Progress(q)'
  <2>1. /\ pc[r] = "idle" /\ pc' = [pc EXCEPT ![r] = "check"]
        /\ todo' = [todo EXCEPT ![r] = Selection] /\ audit' = audit /\ faults' = faults
    BY <1>4 DEF StartRun, Goto
  <2>2. CASE q # r
    BY <1>2, <2>1, <2>2 DEF TypeOK
  <2>3. CASE q = r
    <3>1. /\ audit'[q] = <<>> /\ todo'[q] = Selection /\ pc'[q] = "check"
          /\ Selection \in Seq(Sources)
      BY <1>1, <2>1, <2>3, SourceAssumption DEF Progress, TypeOK
    <3>2. Len(<<>>) = 0 /\ DOMAIN <<>> = {} /\ Len(Selection) \in Nat
          /\ \A i \in DOMAIN Selection : 0 + i = i
      BY <3>1
    <3> QED BY <3>1, <3>2 DEF Progress, NoneFailed
  <2> QED BY <2>2, <2>3
<1>5. CASE UNCHANGED vars \/ \E s \in Sources : ServerPublishes(s)
  BY <1>2, <1>5 DEF vars, ServerPublishes
<1> QED BY <1>3, <1>4, <1>5 DEF Next

LEMMA AuditCorrect == Spec => []AuditInv
<1>1. Spec => []TypeOK
  BY DownloadTypeCorrect, PTL
<1> QED BY <1>1, AuditInit, AuditStep, PTL DEF Spec

(* A set that gains no element, or one with a fault, stays as small as the *)
(* faults are many.                                                        *)
LEMMA BoundedGrowth ==
  ASSUME NEW D, NEW E, NEW k \in Nat, NEW l \in Nat,
         IsFiniteSet(D), Cardinality(D) <= k,
         \/ E \subseteq D /\ l >= k
         \/ \E x : E \subseteq D \cup {x} /\ l = k + 1
  PROVE  IsFiniteSet(E) /\ Cardinality(E) <= l
<1>1. Cardinality(D) \in Nat
  BY FS_CardinalityType
<1>2. CASE E \subseteq D /\ l >= k
  <2>1. IsFiniteSet(E) /\ Cardinality(E) <= Cardinality(D)
    BY <1>2, FS_Subset
  <2>2. Cardinality(E) \in Nat
    BY <2>1, FS_CardinalityType
  <2> QED BY <1>1, <1>2, <2>1, <2>2
<1>3. CASE \E x : E \subseteq D \cup {x} /\ l = k + 1
  <2>1. PICK x : E \subseteq D \cup {x} /\ l = k + 1
    BY <1>3
  <2>2. /\ IsFiniteSet(D \cup {x})
        /\ Cardinality(D \cup {x}) = Cardinality(D) \/ Cardinality(D \cup {x}) = Cardinality(D) + 1
    BY FS_AddElement
  <2>3. IsFiniteSet(E) /\ Cardinality(E) <= Cardinality(D \cup {x})
    BY <2>1, <2>2, FS_Subset
  <2>4. Cardinality(E) \in Nat /\ Cardinality(D \cup {x}) \in Nat
    BY <2>2, <2>3, FS_CardinalityType
  <2> QED BY <1>1, <2>1, <2>2, <2>3, <2>4
<1> QED BY <1>2, <1>3

LEMMA FaultsGrow ==
  ASSUME TypeOK, [Next]_vars
  PROVE  faults \in Nat /\ faults' \in Nat /\ faults' >= faults
<1>1. faults \in Nat
  BY DEF TypeOK
<1>2. faults' = faults \/ faults' = faults + 1
  BY StepShape DEF Next, StartRun, ServerPublishes, vars, Fault
<1> QED BY <1>1, <1>2

(* A run raises without a record of its source only with a fault.          *)
UnrecordedInv == IsFiniteSet(Unrecorded) /\ Cardinality(Unrecorded) <= faults

LEMMA UnrecordedStep ==
  TypeOK /\ AuditInv /\ UnrecordedInv /\ [Next]_vars => UnrecordedInv'
<1> SUFFICES ASSUME TypeOK, AuditInv, UnrecordedInv, [Next]_vars PROVE UnrecordedInv'
  OBVIOUS
<1> DEFINE D == Unrecorded
           E == Unrecorded'
           k == faults
           l == faults'
<1>1. ASSUME NEW r \in Runs, Step(r) \/ StepFails(r)
      PROVE  E \subseteq D \/ (E \subseteq D \cup {r} /\ l = k + 1)
  <2>1. r \in Active /\ (Moves(r) \/ AuditLost(r) \/ AuditFailure(r) \/ Completes(r))
    BY <1>1, StepShape
  <2>2. ASSUME NEW q \in E, q # r PROVE q \in D
    BY <2>1, <2>2 DEF Unrecorded, Moves, AuditLost, AuditFailure, Completes, Audited, Goto,
       TypeOK
  <2>3. CASE AuditLost(r)
    BY <2>2, <2>3 DEF AuditLost, Fault
  <2>4. CASE Moves(r) \/ Completes(r)
    <3>1. pc'[r] # "raised"
      BY <2>1, <2>4 DEF Moves, Completes, Audited, Goto, TypeOK, Active, Steps
    <3> QED BY <2>2, <3>1 DEF Unrecorded
  <2>5. CASE AuditFailure(r)
    <3>1. /\ todo'[r] = todo[r] /\ Len(audit'[r]) = Len(audit[r]) + 1 /\ Len(audit[r]) \in Nat
          /\ Len(todo[r]) \in Nat
      BY <2>1, <2>5, SrcType DEF AuditFailure, TypeOK
    <3>2. Len(audit[r]) + Len(todo[r]) = Len(Selection)
      BY <2>1 DEF AuditInv, Progress, Active
    <3>3. Len(audit'[r]) + Len(todo'[r]) # Len(Selection)
      <4> DEFINE a == Len(audit[r])
                 b == Len(todo[r])
                 c == Len(Selection)
                 d == Len(audit'[r])
      <4>1. a \in Nat /\ b \in Nat /\ c \in Nat /\ d = a + 1 /\ a + b = c
        <5>1. c \in Nat
          BY SourceAssumption
        <5>2. a \in Nat /\ b \in Nat
          BY <3>1
        <5>3. d = a + 1
          BY <3>1
        <5>4. a + b = c
          BY <3>2
        <5> QED BY <5>1, <5>2, <5>3, <5>4
      <4> HIDE DEF a, b, c, d
      <4>2. d + b # c
        BY <4>1
      <4> QED BY <3>1, <4>2 DEF b, c, d
    <3>4. r \notin E
      BY <3>3 DEF Unrecorded
    <3> QED BY <2>2, <3>4
  <2> QED BY <2>1, <2>3, <2>4, <2>5
<1>2. ASSUME UNCHANGED vars \/ (\E r \in Runs : StartRun(r))
             \/ (\E s \in Sources : ServerPublishes(s))
      PROVE  E \subseteq D
  <2>1. audit' = audit
    BY <1>2 DEF vars, StartRun, ServerPublishes
  <2>2. \A q \in Runs : pc'[q] = "raised" => pc[q] = "raised" /\ todo'[q] = todo[q]
    BY <1>2 DEF vars, StartRun, ServerPublishes, Goto, TypeOK
  <2> QED BY <2>1, <2>2 DEF Unrecorded
<1>3. E \subseteq D \/ \E x : E \subseteq D \cup {x} /\ l = k + 1
  BY <1>1, <1>2 DEF Next
<1>4. k \in Nat /\ l \in Nat /\ l >= k
  BY FaultsGrow
<1>5. IsFiniteSet(D) /\ Cardinality(D) <= k
  BY DEF UnrecordedInv
<1> HIDE DEF D, E, k, l
<1>6. IsFiniteSet(E) /\ Cardinality(E) <= l
  BY <1>3, <1>4, <1>5, BoundedGrowth
<1> QED BY <1>6 DEF E, l, UnrecordedInv

LEMMA UnrecordedInit == Init => UnrecordedInv
<1> SUFFICES ASSUME Init PROVE UnrecordedInv
  OBVIOUS
<1>1. Unrecorded = {} /\ faults = 0
  BY DEF Init, Unrecorded
<1> QED BY <1>1, FS_EmptySet DEF UnrecordedInv

(* A run that ended by itself has one record for each source it came to,   *)
(* in order, the last one failed if and only if it raised; the record of   *)
(* the source at which it raised is missing for no more runs than there    *)
(* were faults.                                                            *)
THEOREM DownloadAuditComplete == Spec => []AuditIsComplete
<1>1. TypeOK /\ AuditInv /\ UnrecordedInv => AuditIsComplete
  <2> SUFFICES ASSUME TypeOK, AuditInv, NEW r \in Runs, pc[r] \in {"done", "raised"}
               PROVE  LET n == Len(audit[r])
                          failed == pc[r] = "raised" /\ r \notin Unrecorded
                      IN  /\ \A i \in 1 .. n :
                                /\ audit[r][i].source = Selection[i]
                                /\ audit[r][i].status = "failed" <=> failed /\ i = n
                          /\ pc[r] = "done" => n = Len(Selection)
                          /\ failed => n > 0 /\ Selection[n] = Src(r)
    BY DEF AuditIsComplete, UnrecordedInv
  <2>1. Progress(r)
    BY DEF AuditInv
  <2>2. /\ Len(audit[r]) \in Nat /\ DOMAIN audit[r] = 1 .. Len(audit[r]) /\ Len(<<>>) = 0
        /\ Len(todo[r]) \in Nat
    BY DEF TypeOK
  <2>3. CASE pc[r] = "done"
    <3>1. todo[r] = <<>> /\ Len(audit[r]) + Len(todo[r]) = Len(Selection) /\ NoneFailed(audit[r])
          /\ \A i \in DOMAIN audit[r] : audit[r][i].source = Selection[i]
      BY <2>1, <2>3 DEF Progress
    <3>2. Len(audit[r]) = Len(Selection)
      BY <2>2, <3>1
    <3> QED BY <2>2, <2>3, <3>1, <3>2 DEF NoneFailed
  <2>4. CASE pc[r] = "raised" /\ r \in Unrecorded
    <3>1. Len(audit[r]) + Len(todo[r]) = Len(Selection)
      BY <2>4 DEF Unrecorded
    <3>2. Len(Selection) # Len(Selection) + 1
      <4>1. Len(Selection) \in Nat
        BY SourceAssumption
      <4> QED BY <4>1
    <3>3. NoneFailed(audit[r]) /\ \A i \in DOMAIN audit[r] : audit[r][i].source = Selection[i]
      BY <2>1, <2>4, <3>1, <3>2 DEF Progress
    <3> QED BY <2>2, <2>4, <3>3 DEF NoneFailed
  <2>5. CASE pc[r] = "raised" /\ r \notin Unrecorded
    <3>1. Len(audit[r]) + Len(todo[r]) # Len(Selection)
      BY <2>5 DEF Unrecorded
    <3> QED BY <2>1, <2>2, <2>5, <3>1 DEF Progress
  <2> QED BY <2>3, <2>4, <2>5
<1>2. Spec => []UnrecordedInv
  BY DownloadTypeCorrect, AuditCorrect, UnrecordedInit, UnrecordedStep, PTL DEF Spec
<1> QED BY <1>1, <1>2, DownloadTypeCorrect, AuditCorrect, PTL

(***************************************************************************)
(* The .part files.                                                        *)
(***************************************************************************)

(* A .part file that its run does not write any more belongs to a run that *)
(* came no further than its source, and was left with a fault.             *)
Stopped(q) == pc[q] \in {"auditfail", "raised", "crashed"}

PartsInv ==
    /\ \A s \in LeftParts : Src(part[s][1]) = s /\ Stopped(part[s][1])
    /\ IsFiniteSet(LeftParts) /\ Cardinality(LeftParts) <= faults

(* A step of a run can only change its own .part file.                     *)
LEMMA PartsOfStep ==
  ASSUME TypeOK, PartsInv, NEW r \in Runs, Step(r) \/ StepFails(r),
         NEW s \in LeftParts'
  PROVE  /\ Src(part[s][1])' = s /\ Stopped(part[s][1])'
         /\ \/ s \in LeftParts
            \/ s = Src(r) /\ faults' = faults + 1
<1>1. /\ r \in Active /\ Src(r) \in Sources /\ pc[r] \in Steps
      /\ Moves(r) \/ AuditLost(r) \/ AuditFailure(r) \/ Completes(r)
  BY StepShape, SrcType DEF Active
<1>2. \A q \in Runs \ {r} : pc'[q] = pc[q] /\ todo'[q] = todo[q]
  BY <1>1 DEF Moves, AuditLost, AuditFailure, Completes, Audited, Goto, TypeOK
<1>3. s \in Sources /\ part'[s] # Absent /\ ~WritesPart(part[s][1], s)'
  BY DEF LeftParts
<1>4. CASE part'[s] # part[s]
  <2>1. OpenPart(r) /\ s = Src(r)
    BY <1>1, <1>3, <1>4 DEF Step, StepFails, RecordWeatherSkip, RecordWeatherSkipRaises,
       SkipExisting, Attempt, UnlinkPart, GetStream, GetPage, WriteChunk, FinishBody,
       Replace, Cleanup, AuditResult, AuditFailure, TransferRaises, CheckRaises,
       CleanupRaises, AuditRaises, Crash, OpenPart, files, TypeOK
  <2>2. part'[s] = <<r, s>> /\ pc'[r] = "write" /\ Src(r)' = s /\ <<r, s>>[1] = r
    BY <1>1, <1>4, <2>1 DEF OpenPart, Goto, TypeOK, Src
  <2> QED BY <1>3, <2>2 DEF WritesPart
<1>5. CASE part'[s] = part[s]
  <2>0. PICK q \in Runs : q = part[s][1]
    BY <1>3, <1>5 DEF TypeOK, Inodes
  <2>1. part[s] # Absent /\ part'[s][1] = q /\ ~(WritesPart(q, s)')
    BY <1>3, <1>5, <2>0
  <2>2. CASE q # r
    <3>1. pc'[q] = pc[q] /\ Src(q)' = Src(q)
      BY <1>2, <2>1, <2>2 DEF Src
    <3>2. s \in LeftParts
      BY <1>3, <2>0, <2>1, <3>1 DEF LeftParts, WritesPart
    <3> QED BY <2>0, <2>1, <3>1, <3>2 DEF PartsInv, Stopped, Src
  <2>3. CASE q = r /\ s \in LeftParts
    <3>1. Src(r) = s /\ pc[r] = "auditfail"
      BY <1>1, <2>0, <2>3 DEF PartsInv, Stopped, Steps
    <3>2. Stopped(r)' /\ todo' = todo
      BY <1>1, <3>1 DEF Step, StepFails, RecordWeatherSkip, RecordWeatherSkipRaises,
         SkipExisting, Attempt, UnlinkPart, GetStream, GetPage, OpenPart, WriteChunk,
         FinishBody, Replace, Cleanup, AuditResult, AuditFailure, TransferRaises,
         CheckRaises, CleanupRaises, AuditRaises, Crash, Goto, TypeOK, Stopped
    <3> QED BY <2>1, <2>3, <3>1, <3>2 DEF Src, Stopped
  <2>4. CASE q = r /\ s \notin LeftParts
    <3>1. WritesPart(r, s)
      BY <1>3, <2>0, <2>1, <2>4 DEF LeftParts
    <3>2. pc[r] \in {"write", "replace", "cleanup"} /\ Src(r) = s
      BY <3>1 DEF WritesPart
    <3>3. ~UnlinkPart(r) /\ ~Cleanup(r) /\ ~(Replace(r) /\ pc'[r] = "audit")
      BY <1>1, <1>3, <1>5, <2>1, <3>2 DEF UnlinkPart, Cleanup, Replace, Goto, TypeOK
    <3>4. todo' = todo /\ ~(pc'[r] \in {"write", "replace", "cleanup"})
      <4>1. todo' = todo
        BY <1>1, <3>2 DEF Moves, AuditLost, AuditFailure, Completes
      <4> QED BY <2>1, <2>4, <3>2, <4>1 DEF WritesPart, Src
    <3>5. (CleanupRaises(r) \/ Crash(r)) /\ Stopped(r)' /\ faults' = faults + 1
      BY <1>1, <3>2, <3>3, <3>4 DEF Step, StepFails, RecordWeatherSkip,
         RecordWeatherSkipRaises, SkipExisting, Attempt, GetStream, GetPage, OpenPart,
         WriteChunk, FinishBody, Replace, AuditResult, AuditFailure, TransferRaises,
         CheckRaises, CleanupRaises, AuditRaises, Crash, Goto, TypeOK, Fault, Stopped
    <3> QED BY <2>1, <2>4, <3>2, <3>4, <3>5 DEF Src, Stopped
  <2> QED BY <2>2, <2>3, <2>4
<1> QED BY <1>4, <1>5

LEMMA PartsStep == TypeOK /\ PartsInv /\ [Next]_vars => PartsInv'
<1> SUFFICES ASSUME TypeOK, PartsInv, [Next]_vars PROVE PartsInv'
  OBVIOUS
<1> DEFINE D == LeftParts
           E == LeftParts'
           k == faults
           l == faults'
<1>1. ASSUME NEW r \in Runs, Step(r) \/ StepFails(r)
      PROVE  /\ \A s \in E : Src(part[s][1])' = s /\ Stopped(part[s][1])'
             /\ E \subseteq D \/ (E \subseteq D \cup {Src(r)} /\ l = k + 1)
  BY <1>1, PartsOfStep
<1>2. ASSUME UNCHANGED vars \/ (\E r \in Runs : StartRun(r))
             \/ (\E s \in Sources : ServerPublishes(s))
      PROVE  /\ \A s \in E : Src(part[s][1])' = s /\ Stopped(part[s][1])'
             /\ E \subseteq D
  <2>1. part' = part
    BY <1>2 DEF vars, StartRun, ServerPublishes, files
  <2>2. \A q \in Runs : pc[q] # "idle" => pc'[q] = pc[q] /\ Src(q)' = Src(q)
    BY <1>2 DEF vars, StartRun, ServerPublishes, Goto, TypeOK, Src
  <2>3. ASSUME NEW s \in E PROVE s \in D /\ Src(part[s][1])' = s /\ Stopped(part[s][1])'
    <3>1. s \in Sources /\ part[s] # Absent /\ ~WritesPart(part[s][1], s)'
      BY <2>1 DEF LeftParts
    <3>2. part[s][1] \in Runs /\ pc[part[s][1]] # "idle"
      BY <3>1 DEF TypeOK, Inodes
    <3>3. s \in D
      BY <2>1, <2>2, <3>1, <3>2 DEF LeftParts, WritesPart
    <3> QED BY <2>1, <2>2, <3>2, <3>3 DEF PartsInv, Stopped
  <2> QED BY <2>3
<1>3. \A s \in E : Src(part[s][1])' = s /\ Stopped(part[s][1])'
  BY <1>1, <1>2 DEF Next
<1>4. E \subseteq D \/ \E x : E \subseteq D \cup {x} /\ l = k + 1
  BY <1>1, <1>2 DEF Next
<1>5. k \in Nat /\ l \in Nat /\ l >= k
  BY FaultsGrow
<1>6. IsFiniteSet(D) /\ Cardinality(D) <= k
  BY DEF PartsInv
<1> HIDE DEF D, E, k, l
<1>7. IsFiniteSet(E) /\ Cardinality(E) <= l
  BY <1>4, <1>5, <1>6, BoundedGrowth
<1> QED BY <1>3, <1>7 DEF E, l, PartsInv

LEMMA PartsInit == Init => PartsInv
<1> SUFFICES ASSUME Init PROVE PartsInv
  OBVIOUS
<1>1. LeftParts = {} /\ faults = 0
  BY DEF Init, LeftParts
<1> QED BY <1>1, FS_EmptySet DEF PartsInv

(* A .part file outlives its writing only if its run was stopped there, at *)
(* most one for each fault, also when two commands run at the same time.   *)
THEOREM PartsRemoved == Spec => []PartsAreTemporary
<1>1. PartsInv => PartsAreTemporary
  BY DEF PartsInv, PartsAreTemporary, Stopped
<1> QED BY <1>1, PartsInit, PartsStep, DownloadTypeCorrect, PTL DEF Spec

(***************************************************************************)
(* One command at a time.  Two commands share the .part names, and the     *)
(* first to finish publishes what the other has written so far: what       *)
(* follows needs MaxActive <= 1.                                           *)
(***************************************************************************)

Own(r) == <<r, Src(r)>>
Pages(v, n) == [i \in 1 .. n |-> v]

(* What a command has received is a version of its source, or a first part *)
(* of one while it fetches pages; for the weather only if its responses    *)
(* announced counts and agree.                                             *)
Received(r) ==
    /\ pc[r] \in {"unlink", "get"} /\ Src(r) = Weather =>
          /\ pc[r] = "unlink" \/ seen[r] = 0 => body[r] = <<>>
          /\ \A v \in Versions : seen[r] = v =>
                Len(body[r]) <= Length[v] /\ body[r] = Pages(v, Len(body[r]))
    /\ pc[r] \in {"open", "write", "replace"} =>
          IF Src(r) = Weather
          THEN \A v \in Versions : seen[r] = v => body[r] = Pages(v, Length[v])
          ELSE \E v \in Versions : body[r] = Pages(v, Length[v])

(* What it has written is the same first part of its own .part file, which *)
(* nobody else refers to, until the whole is at the destination.           *)
Written(r) ==
    /\ pc[r] \in {"unlink", "get", "open", "write", "replace"} =>
          forced[r] \/ dest[Src(r)] = Absent
    /\ pc[r] \in {"get", "open"} => part[Src(r)] = Absent
    /\ pc[r] \in {"write", "replace"} =>
          /\ handle[r] = Own(r) /\ part[Src(r)] = Own(r)
          /\ Len(data[Own(r)]) = written[r]
          /\ \A i \in 1 .. written[r] : data[Own(r)][i] = body[r][i]
    /\ pc[r] = "replace" => written[r] = Len(body[r]) /\ (Src(r) = Weather \/ written[r] > 0)
    /\ pc[r] = "audit" => dest[Src(r)] = Own(r) /\ data[Own(r)] = body[r]

(* It visits each source once and publishes it once.                       *)
Fresh(r) ==
    /\ \A i, j \in DOMAIN todo[r] : todo[r][i] = todo[r][j] => i = j
    /\ \A i \in DOMAIN todo[r] : dest[todo[r][i]] = <<r, todo[r][i]>> =>
          i = 1 /\ pc[r] \in {"audit", "auditfail"}

Alone == \A q, r \in Active : q = r

TransfersInv ==
    /\ Alone
    /\ \A r \in Active : Received(r) /\ Written(r) /\ Fresh(r)
    /\ PublishedWhole /\ WeatherIsWhole

(* What a step does to the files.                                          *)
Publishes(r) ==
    /\ pc[r] = "replace" /\ pc'[r] = "audit" /\ UNCHANGED <<data, todo, seen>>
    /\ dest' = [dest EXCEPT ![Src(r)] = Own(r)]
Stores(r) ==
    /\ pc[r] \in {"open", "write"} /\ dest' = dest
    /\ \E c : data' = [data EXCEPT ![Own(r)] = c]

LEMMA FileStep ==
  ASSUME TypeOK, TransfersInv, NEW r \in Runs, Step(r) \/ StepFails(r)
  PROVE  UNCHANGED <<dest, data>> \/ Publishes(r) \/ Stores(r)
<1>1. r \in Active /\ Written(r) /\ Src(r) \in Sources /\ Own(r) \in Inodes
  BY StepShape, SrcType DEF TransfersInv, Own
<1>2. CASE Replace(r)
  <2>1. part[Src(r)] = Own(r) /\ Own(r) # Absent
    BY <1>1, <1>2, SourceAssumption DEF Replace, Written
  <2> QED BY <1>1, <1>2, <2>1 DEF Replace, Publishes, Goto, TypeOK, transfer
<1>3. CASE OpenPart(r)
  BY <1>1, <1>3 DEF OpenPart, Written, Stores, Own
<1>4. CASE WriteChunk(r)
  BY <1>1, <1>4 DEF WriteChunk, Written, Stores
<1> QED BY <1>2, <1>3, <1>4 DEF Step, StepFails, RecordWeatherSkip, RecordWeatherSkipRaises,
       SkipExisting, Attempt, UnlinkPart, GetStream, GetPage, FinishBody, Cleanup,
       AuditResult, AuditFailure, TransferRaises, CheckRaises, CleanupRaises,
       AuditRaises, Crash, files

(* A file at a destination is not written to.                              *)
LEMMA PublishedStays ==
  ASSUME TypeOK, TransfersInv, NEW r \in Runs, Step(r) \/ StepFails(r),
         NEW s \in Sources, dest[s] # Absent
  PROVE  \/ dest'[s] = dest[s] /\ data'[dest[s]] = data[dest[s]]
         \/ Publishes(r) /\ s = Src(r)
<1>0. r \in Active
  BY StepShape
<1>1. Fresh(r) /\ Src(r) \in Sources /\ dest[s] \in Inodes /\ dest[s][2] = s
      /\ 1 \in DOMAIN todo[r] /\ Src(r) = todo[r][1]
  <2>1. Src(r) \in Sources /\ 1 \in DOMAIN todo[r] /\ Src(r) = todo[r][1]
    BY <1>0, SrcType
  <2>2. dest[s] \in Inodes /\ dest[s][2] = s
    BY DEF TypeOK
  <2> QED BY <1>0, <2>1, <2>2 DEF TransfersInv
<1>2. CASE Publishes(r)
  <2>1. dest' = [dest EXCEPT ![Src(r)] = Own(r)] /\ data' = data
    BY <1>2 DEF Publishes
  <2>2. s # Src(r) => dest'[s] = dest[s]
    BY <1>1, <2>1 DEF TypeOK
  <2> QED BY <1>2, <2>1, <2>2
<1>3. CASE Stores(r)
  <2>1. dest[s] # Own(r)
    <3>1. CASE s = Src(r)
      BY <1>1, <1>3, <3>1 DEF Fresh, Stores, Own
    <3>2. CASE s # Src(r)
      BY <1>1, <3>2 DEF Own
    <3> QED BY <3>1, <3>2
  <2> QED BY <1>1, <1>3, <2>1 DEF Stores, TypeOK
<1> QED BY <1>2, <1>3, FileStep

(***************************************************************************)
(* How the parts of TransfersInv are preserved.                            *)
(***************************************************************************)

LEMMA PagesType ==
  ASSUME NEW v, NEW n \in Nat
  PROVE  /\ Len(Pages(v, n)) = n /\ DOMAIN Pages(v, n) = 1 .. n
         /\ \A i \in 1 .. n : Pages(v, n)[i] = v
         /\ Pages(v, 0) = <<>>
         /\ Append(Pages(v, n), v) = Pages(v, n + 1)
<1>1. Pages(v, n) \in Seq({v}) /\ Len(Pages(v, n)) = n /\ Pages(v, n + 1) \in Seq({v})
      /\ Len(Pages(v, n + 1)) = n + 1
  BY DEF Pages
<1>2. Append(Pages(v, n), v) = Pages(v, n + 1)
  BY <1>1 DEF Pages
<1>3. Pages(v, 0) = <<>>
  BY DEF Pages
<1> QED BY <1>1, <1>2, <1>3 DEF Pages

(* The current source of a command stays the same until it is recorded.    *)
LEMMA SameSource ==
  ASSUME TypeOK, NEW r \in Runs, Step(r) \/ StepFails(r), pc'[r] \notin {"check", "done"}
  PROVE  Src(r)' = Src(r) /\ Own(r)' = Own(r) /\ todo' = todo
<1>1. Moves(r) \/ AuditLost(r) \/ AuditFailure(r) \/ Completes(r)
  BY StepShape
<1>2. ~Completes(r)
  BY DEF Completes, Audited, Goto, TypeOK
<1>3. todo' = todo
  BY <1>1, <1>2 DEF Moves, AuditLost, AuditFailure
<1> QED BY <1>3 DEF Src, Own

LEMMA ReceivedStep ==
  ASSUME TypeOK, NEW r \in Runs, Received(r), Step(r) \/ StepFails(r)
  PROVE  Received(r)'
<1> SUFFICES ASSUME pc'[r] \in {"unlink", "get", "open", "write", "replace"}
             PROVE  Received(r)'
  BY DEF Received
<1>1. /\ r \in Active /\ Src(r) \in Sources /\ Src(r)' = Src(r) /\ Weather \in Sources
  BY StepShape, SrcType, SameSource DEF Sources
<1>2. CASE Attempt(r)
  <2>1. pc'[r] = "unlink" /\ body'[r] = <<>> /\ Len(<<>>) = 0
    BY <1>2 DEF Attempt, Goto, TypeOK
  <2>2. \A v \in Versions : Len(<<>>) <= Length[v] /\ Pages(v, 0) = <<>>
    BY <2>1, SourceAssumption, PagesType
  <2> QED BY <2>1, <2>2 DEF Received
<1>3. CASE UnlinkPart(r)
  <2>1. pc[r] = "unlink" /\ pc'[r] = "get" /\ body' = body /\ seen' = seen
    BY <1>3 DEF UnlinkPart, Goto, TypeOK, transfer
  <2> QED BY <1>1, <2>1 DEF Received
<1>4. CASE GetStream(r)
  <2> DEFINE v == server[Src(r)]
  <2>1. pc'[r] = "open" /\ body'[r] = Pages(v, Length[v]) /\ Src(r) # Weather /\ v \in Versions
    BY <1>1, <1>4, SourceAssumption DEF GetStream, Goto, TypeOK, Pages
  <2> QED BY <1>1, <2>1 DEF Received
<1>5. CASE GetPage(r)
  <2> DEFINE v == server[Weather]
             b == body[r]
             got == Len(b)
  <2>1. PICK p \in Responses(v, got) :
             /\ body' = [body EXCEPT ![r] = IF p.results = "none" THEN b ELSE Append(b, v)]
             /\ seen' = [seen EXCEPT ![r] = IF seen[r] \in {0, v} /\ p.count # "missing"
                                            THEN v ELSE Absent]
             /\ Goto(r, IF EndsLoop(p, v, got) THEN "open" ELSE "get")
    BY <1>5 DEF GetPage
  <2>2. /\ pc[r] = "get" /\ Src(r) = Weather /\ v \in Versions /\ Length[v] \in Nat
        /\ b \in Seq(Versions) /\ got \in Nat /\ Absent \notin Versions
    BY <1>1, <1>5, SourceAssumption DEF GetPage, TypeOK, Versions
  <2>3. /\ body'[r] = IF p.results = "none" THEN b ELSE Append(b, v)
        /\ seen'[r] = IF seen[r] \in {0, v} /\ p.count # "missing" THEN v ELSE Absent
        /\ pc'[r] = IF EndsLoop(p, v, got) THEN "open" ELSE "get"
    BY <2>1 DEF Goto, TypeOK
  <2>4. /\ p.results = "none" => got >= Length[v]
        /\ p.results = "some" => got + 1 = Length[v]
        /\ p.results = "full" => got + 1 <= Length[v]
        /\ p.results \in {"none", "some", "full"} /\ p.count \in {"missing", "exact", "over"}
    BY <2>1, <2>2 DEF Responses
  <2>5. ASSUME seen'[r] = v PROVE got <= Length[v] /\ b = Pages(v, got)
    <3>1. seen[r] \in {0, v}
      BY <2>2, <2>3, <2>5
    <3>2. CASE seen[r] = v
      BY <2>2, <3>2 DEF Received
    <3>3. CASE seen[r] = 0
      <4>1. b = <<>> /\ Len(<<>>) = 0
        BY <2>2, <3>3 DEF Received
      <4> QED BY <2>2, <4>1, PagesType
    <3> QED BY <3>1, <3>2, <3>3
  <2>6. \A w \in Versions : seen'[r] = w => w = v
    BY <2>2, <2>3
  <2>7. seen'[r] # 0
    BY <2>2, <2>3, SourceAssumption DEF Versions
  <2> DEFINE n == Len(body'[r])
  <2>8. ASSUME seen'[r] = v PROVE n <= Length[v] /\ body'[r] = Pages(v, n)
    <3>1. CASE p.results = "none"
      BY <2>3, <2>5, <2>8, <3>1
    <3>2. CASE p.results # "none"
      <4>1. body'[r] = Append(b, v) /\ Len(Append(b, v)) = got + 1 /\ got + 1 <= Length[v]
        BY <2>2, <2>3, <2>4, <3>2
      <4>2. Append(b, v) = Pages(v, got + 1)
        <5>1. b = Pages(v, got)
          BY <2>5, <2>8
        <5>2. Append(Pages(v, got), v) = Pages(v, got + 1)
          BY <2>2, PagesType
        <5> QED BY <5>1, <5>2
      <4> QED BY <4>1, <4>2
    <3> QED BY <3>1, <3>2
  <2>9. ASSUME seen'[r] = v, EndsLoop(p, v, got) PROVE body'[r] = Pages(v, Length[v])
    <3>1. p.count # "missing"
      BY <2>2, <2>3, <2>9
    <3>2. CASE p.results = "none"
      <4>1. got = Length[v]
        BY <2>2, <2>4, <2>5, <2>9, <3>2
      <4> QED BY <2>3, <2>5, <2>9, <3>2, <4>1
    <3>3. CASE p.results # "none"
      <4>1. got + 1 = Length[v]
        BY <2>2, <2>4, <2>9, <3>1, <3>3 DEF EndsLoop, CountReached
      <4>2. Append(b, v) = Pages(v, got + 1)
        <5>1. b = Pages(v, got)
          BY <2>5, <2>9
        <5>2. Append(Pages(v, got), v) = Pages(v, got + 1)
          BY <2>2, PagesType
        <5> QED BY <5>1, <5>2
      <4> QED BY <2>3, <3>3, <4>1, <4>2
    <3> QED BY <3>2, <3>3
  <2>10. pc'[r] \in {"open", "get"} /\ (pc'[r] = "open" => EndsLoop(p, v, got))
    BY <2>3
  <2> HIDE DEF v, b, got
  <2> QED BY <1>1, <2>2, <2>6, <2>7, <2>8, <2>9, <2>10 DEF Received
<1>6. CASE ~(Attempt(r) \/ UnlinkPart(r) \/ GetStream(r) \/ GetPage(r))
  <2>1. /\ pc[r] \in {"open", "write", "replace"} /\ pc'[r] \in {"write", "replace"}
        /\ body' = body /\ seen' = seen
    BY <1>6 DEF Step, StepFails, RecordWeatherSkip, RecordWeatherSkipRaises,
       SkipExisting, OpenPart, WriteChunk, FinishBody, Replace, Cleanup, AuditResult,
       AuditFailure, TransferRaises, CheckRaises, CleanupRaises, AuditRaises, Crash,
       Audited, Goto, transfer, TypeOK
  <2> QED BY <1>1, <2>1 DEF Received
<1> QED BY <1>2, <1>3, <1>4, <1>5, <1>6

LEMMA WrittenStep ==
  ASSUME TypeOK, Unwritten, NEW r \in Runs, Written(r), Step(r) \/ StepFails(r)
  PROVE  Written(r)'
<1> SUFFICES ASSUME pc'[r] \in {"unlink", "get", "open", "write", "replace", "audit"}
             PROVE  Written(r)'
  BY DEF Written
<1>1. /\ r \in Active /\ Src(r) \in Sources /\ Src(r)' = Src(r) /\ Own(r)' = Own(r)
      /\ Own(r) \in Inodes /\ forced' = forced /\ Absent \notin Inodes
  BY StepShape, SrcType, SameSource, SourceAssumption DEF Own
<1>2. CASE Attempt(r)
  <2>1. pc'[r] = "unlink" /\ dest' = dest /\ (dest[Src(r)] = Absent \/ forced[r])
    BY <1>2 DEF Attempt, Goto, TypeOK, files
  <2> QED BY <1>1, <2>1 DEF Written
<1>3. CASE UnlinkPart(r)
  <2>1. pc[r] = "unlink" /\ pc'[r] = "get" /\ dest' = dest /\ part'[Src(r)] = Absent
    BY <1>1, <1>3 DEF UnlinkPart, Goto, TypeOK
  <2> QED BY <1>1, <2>1 DEF Written
<1>4. CASE GetStream(r) \/ GetPage(r)
  <2>1. /\ pc[r] = "get" /\ pc'[r] \in {"get", "open"}
        /\ dest' = dest /\ part' = part
    BY <1>4 DEF GetStream, GetPage, Goto, TypeOK, files
  <2> QED BY <1>1, <2>1 DEF Written
<1>5. CASE OpenPart(r)
  <2>1. part[Src(r)] = Absent /\ written[r] = 0 /\ pc[r] = "open"
    BY <1>1, <1>5 DEF OpenPart, Written, Unwritten
  <2>2. /\ pc'[r] = "write" /\ handle'[r] = Own(r) /\ part'[Src(r)] = Own(r)
        /\ data'[Own(r)] = <<>> /\ dest' = dest /\ written' = written
    BY <1>1, <1>5, <2>1 DEF OpenPart, Goto, Own, TypeOK
  <2>3. Len(<<>>) = 0 /\ 1 .. 0 = {}
    OBVIOUS
  <2> QED BY <1>1, <2>1, <2>2, <2>3 DEF Written
<1>6. CASE WriteChunk(r)
  <2> DEFINE k == written[r] + 1
             old == data[Own(r)]
  <2>1. /\ pc[r] = "write" /\ written[r] < Len(body[r]) /\ handle[r] = Own(r)
        /\ part[Src(r)] = Own(r) /\ Len(old) = written[r]
        /\ \A i \in 1 .. written[r] : old[i] = body[r][i]
    BY <1>6 DEF WriteChunk, Written
  <2>2. old \in Seq(Versions \cup {0}) /\ body[r] \in Seq(Versions) /\ written[r] \in Nat
    BY <1>1 DEF TypeOK
  <2>3. k \in Nat \ {0} /\ k \in 1 .. Len(body[r]) /\ body[r][k] \in Versions
    BY <2>1, <2>2
  <2>4. /\ pc' = pc /\ handle' = handle /\ part' = part /\ dest' = dest /\ body' = body
        /\ written'[r] = k /\ data'[Own(r)] = WriteAt(old, written'[r], body[r][written'[r]])
    BY <1>1, <1>6, <2>1 DEF WriteChunk, TypeOK
  <2>5. data'[Own(r)] = WriteAt(old, k, body[r][k])
    BY <2>4
  <2> HIDE DEF k, old
  <2>6. /\ Len(data'[Own(r)]) = k /\ data'[Own(r)][k] = body[r][k]
        /\ \A i \in 1 .. Len(old) : i # k => data'[Own(r)][i] = old[i]
    <3>1. \A t \in Seq(Versions \cup {0}), m \in Nat \ {0}, c \in Versions :
             /\ Len(WriteAt(t, m, c)) = IF m > Len(t) THEN m ELSE Len(t)
             /\ WriteAt(t, m, c)[m] = c
             /\ \A i \in 1 .. Len(t) : i # m => WriteAt(t, m, c)[i] = t[i]
      BY WriteAtType
    <3>2. k > Len(old)
      BY <2>1, <2>2 DEF k
    <3> QED BY <2>2, <2>3, <2>5, <3>1, <3>2
  <2>7. \A i \in 1 .. k : data'[Own(r)][i] = body[r][i]
    <3>1. ASSUME NEW i \in 1 .. k PROVE data'[Own(r)][i] = body[r][i]
      <4>1. i = k \/ i \in 1 .. written[r]
        BY <2>2 DEF k
      <4>2. i \in 1 .. written[r] => i # k
        BY <2>2 DEF k
      <4> QED BY <2>1, <2>6, <4>1, <4>2
    <3> QED BY <3>1
  <2>8. pc'[r] = "write" /\ (forced[r] \/ dest[Src(r)] = Absent)
    BY <1>6, <2>1, <2>4 DEF Written
  <2>9. part'[Src(r)] = Own(r) /\ handle'[r] = Own(r)
    BY <2>1, <2>4
  <2> QED BY <1>1, <2>4, <2>6, <2>7, <2>8, <2>9 DEF Written
<1>7. CASE FinishBody(r)
  <2>1. /\ pc[r] = "write" /\ pc'[r] = "replace" /\ written[r] = Len(body[r])
        /\ (written[r] # 0 \/ Src(r) \notin Streamed)
        /\ UNCHANGED <<dest, part, data, body, written, handle>>
    BY <1>7 DEF FinishBody, Goto, TypeOK, files, transfer
  <2>2. Src(r) = Weather \/ written[r] > 0
    BY <1>1, <2>1 DEF Sources, TypeOK
  <2> QED BY <1>1, <2>1, <2>2 DEF Written
<1>8. CASE Replace(r)
  <2>1. /\ pc[r] = "replace" /\ written[r] = Len(body[r])
        /\ part[Src(r)] = Own(r) /\ Len(data[Own(r)]) = written[r]
        /\ \A i \in 1 .. written[r] : data[Own(r)][i] = body[r][i]
    BY <1>8 DEF Replace, Written
  <2>2. /\ pc'[r] = "audit" /\ dest'[Src(r)] = Own(r) /\ data' = data /\ body' = body
    BY <1>1, <1>8, <2>1 DEF Replace, Goto, TypeOK, transfer
  <2>3. data[Own(r)] = body[r]
    <3>1. data[Own(r)] \in Seq(Versions \cup {0}) /\ body[r] \in Seq(Versions \cup {0})
      BY <1>1 DEF TypeOK
    <3> QED BY <2>1, <3>1
  <2> QED BY <1>1, <2>2, <2>3 DEF Written
<1> QED BY <1>1, <1>2, <1>3, <1>4, <1>5, <1>6, <1>7, <1>8 DEF Step, StepFails,
       RecordWeatherSkip, RecordWeatherSkipRaises, SkipExisting, Cleanup, AuditResult,
       AuditFailure, TransferRaises, CheckRaises, CleanupRaises, AuditRaises, Crash,
       Audited, Goto, TypeOK

LEMMA FreshStep ==
  ASSUME TypeOK, TransfersInv, NEW r \in Runs, Step(r) \/ StepFails(r), r \in Active'
  PROVE  Fresh(r)'
<1>1. /\ r \in Active /\ todo[r] \in Seq(Sources) /\ todo[r] # <<>>
      /\ 1 \in DOMAIN todo[r] /\ Src(r) = todo[r][1] /\ Src(r) \in Sources
  BY StepShape, SrcType
<1>2. Fresh(r)
  BY <1>1 DEF TransfersInv
<1>3. CASE Completes(r)
  <2>1. todo'[r] = Tail(todo[r]) /\ pc[r] \in {"check", "audit"} /\ dest' = dest
    BY <1>3 DEF Completes, Audited, TypeOK, files
  <2>2. \A i \in DOMAIN Tail(todo[r]) :
           i \in Nat \ {0} /\ i + 1 \in DOMAIN todo[r] /\ Tail(todo[r])[i] = todo[r][i + 1]
    BY <1>1
  <2>3. ASSUME NEW i \in DOMAIN Tail(todo[r]), NEW j \in DOMAIN Tail(todo[r]),
               Tail(todo[r])[i] = Tail(todo[r])[j]
        PROVE  i = j
    <3>1. i + 1 = j + 1
      BY <1>2, <2>2, <2>3 DEF Fresh
    <3> QED BY <2>2, <3>1
  <2>4. ASSUME NEW i \in DOMAIN Tail(todo[r])
        PROVE  dest[Tail(todo[r])[i]] # <<r, Tail(todo[r])[i]>>
    <3>1. i + 1 # 1
      BY <2>2
    <3> QED BY <1>2, <2>2, <3>1 DEF Fresh
  <2> QED BY <2>1, <2>3, <2>4 DEF Fresh
<1>4. CASE ~Completes(r)
  <2>1. todo' = todo
    BY <1>4, StepShape DEF Moves, AuditLost, AuditFailure
  <2>2. CASE Publishes(r)
    <3>1. pc'[r] = "audit" /\ dest' = [dest EXCEPT ![Src(r)] = Own(r)]
      BY <2>2 DEF Publishes
    <3>2. ASSUME NEW i \in DOMAIN todo[r], i # 1
          PROVE  dest'[todo[r][i]] = dest[todo[r][i]]
      <4>1. todo[r][i] # Src(r)
        BY <1>1, <1>2, <3>2 DEF Fresh
      <4> QED BY <1>1, <3>1, <4>1 DEF TypeOK
    <3> QED BY <1>2, <2>1, <3>1, <3>2 DEF Fresh
  <2>3. CASE dest' = dest
    <3>1. pc[r] \in {"audit", "auditfail"} => pc'[r] \in {"audit", "auditfail"}
      BY <1>1, <1>4, StepShape DEF Step, StepFails, RecordWeatherSkip,
         RecordWeatherSkipRaises, SkipExisting, Attempt, UnlinkPart, GetStream, GetPage,
         OpenPart, WriteChunk, FinishBody, Replace, Cleanup, AuditResult, AuditFailure,
         TransferRaises, CheckRaises, CleanupRaises, AuditRaises, Crash, Completes, Goto,
         TypeOK, Active, Steps, files, transfer
    <3> QED BY <1>2, <2>1, <2>3, <3>1 DEF Fresh
  <2> QED BY <2>2, <2>3, FileStep DEF Stores
<1> QED BY <1>3, <1>4

(* What is published is what was received.                                 *)
LEMMA PublishedBody ==
  ASSUME TypeOK, TransfersInv, NEW r \in Active, Publishes(r)
  PROVE  /\ data[Own(r)] = body[r] /\ (Src(r) = Weather \/ body[r] # <<>>)
         /\ dest'[Src(r)] = Own(r)
<1>1. Written(r) /\ pc[r] = "replace" /\ r \in Runs /\ Src(r) \in Sources /\ Own(r) \in Inodes
  BY SrcType DEF Publishes, TransfersInv, Own
<1>2. /\ written[r] = Len(body[r]) /\ (Src(r) = Weather \/ written[r] > 0)
      /\ Len(data[Own(r)]) = written[r]
      /\ \A i \in 1 .. written[r] : data[Own(r)][i] = body[r][i]
  BY <1>1 DEF Written
<1>3. data[Own(r)] \in Seq(Versions \cup {0}) /\ body[r] \in Seq(Versions \cup {0})
  BY <1>1 DEF TypeOK
<1>4. data[Own(r)] = body[r]
  BY <1>2, <1>3
<1>5. Src(r) = Weather \/ body[r] # <<>>
  <2>1. Len(<<>>) = 0
    OBVIOUS
  <2> QED BY <1>2, <2>1
<1>6. dest'[Src(r)] = Own(r)
  BY <1>1 DEF Publishes, TypeOK
<1> QED BY <1>4, <1>5, <1>6

LEMMA DestinationStep ==
  ASSUME TypeOK, TransfersInv, NEW r \in Runs, Step(r) \/ StepFails(r), NEW s \in Sources
  PROVE  \/ dest'[s] = dest[s] /\ Content(s)' = Content(s)
         \/ Publishes(r) /\ s = Src(r)
<1>1. CASE dest[s] # Absent
  BY <1>1, PublishedStays DEF Content
<1>2. CASE dest[s] = Absent
  <2>1. CASE Publishes(r)
    <3>1. s # Src(r) => dest'[s] = dest[s]
      BY <2>1 DEF Publishes, TypeOK
    <3> QED BY <1>2, <2>1, <3>1 DEF Content
  <2>2. CASE dest' = dest
    BY <1>2, <2>2 DEF Content
  <2> QED BY <2>1, <2>2, FileStep DEF Stores
<1> QED BY <1>1, <1>2

LEMMA PublishedWholeStep ==
  ASSUME TypeOK, TransfersInv, NEW r \in Runs, Step(r) \/ StepFails(r)
  PROVE  PublishedWhole'
<1> SUFFICES ASSUME NEW s \in Streamed, dest'[s] # Absent PROVE Content(s)' \in WholeVersions
  BY DEF PublishedWhole, WholeVersions, Versions
<1>1. s \in Sources /\ s # Weather
  BY SourceAssumption DEF Sources
<1>2. CASE dest'[s] = dest[s] /\ Content(s)' = Content(s)
  BY <1>2 DEF TransfersInv, PublishedWhole
<1>3. CASE Publishes(r) /\ s = Src(r)
  <2>1. r \in Active /\ Received(r) /\ pc[r] = "replace"
    BY <1>3, StepShape DEF TransfersInv, Publishes
  <2>2. data[Own(r)] = body[r] /\ body[r] # <<>> /\ dest'[s] = Own(r) /\ data' = data
    BY <1>1, <1>3, <2>1, PublishedBody DEF Publishes
  <2>3. Content(s)' = body[r]
    BY <2>2 DEF Content
  <2>4. \E v \in Versions : body[r] = [i \in 1 .. Length[v] |-> v]
    BY <1>1, <1>3, <2>1 DEF Received, Pages
  <2> QED BY <2>2, <2>3, <2>4 DEF WholeVersions
<1> QED BY <1>1, <1>2, <1>3, DestinationStep

LEMMA WeatherIsWholeStep ==
  ASSUME TypeOK, TransfersInv, NEW r \in Runs, Step(r) \/ StepFails(r)
  PROVE  WeatherIsWhole'
<1> SUFFICES ASSUME NEW v \in Versions, NEW q \in Runs,
                    dest'[Weather] = <<q, Weather>>, seen'[q] = v
             PROVE  Content(Weather)' = [i \in 1 .. Length[v] |-> v]
  BY DEF WeatherIsWhole, Versions
<1>1. Weather \in Sources /\ r \in Active
  BY StepShape DEF Sources
<1>2. CASE dest'[Weather] = dest[Weather] /\ Content(Weather)' = Content(Weather)
  <2>1. seen'[q] = seen[q]
    <3>1. CASE GetPage(r)
      <4>1. pc[r] = "get" /\ Src(r) = Weather /\ Fresh(r)
            /\ 1 \in DOMAIN todo[r] /\ Src(r) = todo[r][1]
        BY <1>1, <3>1, SrcType DEF GetPage, TransfersInv
      <4>2. q # r
        BY <1>2, <4>1 DEF Fresh
      <4> QED BY <3>1, <4>2 DEF GetPage, TypeOK
    <3>2. CASE ~GetPage(r)
      BY <3>2 DEF Step, StepFails, RecordWeatherSkip, RecordWeatherSkipRaises,
         SkipExisting, Attempt, UnlinkPart, GetStream, OpenPart, WriteChunk, FinishBody,
         Replace, Cleanup, AuditResult, AuditFailure, TransferRaises, CheckRaises,
         CleanupRaises, AuditRaises, Crash, transfer
    <3> QED BY <3>1, <3>2
  <2> QED BY <1>2, <2>1 DEF TransfersInv, WeatherIsWhole
<1>3. CASE Publishes(r) /\ Weather = Src(r)
  <2>1. Received(r) /\ pc[r] = "replace" /\ data' = data /\ seen' = seen
    BY <1>1, <1>3 DEF TransfersInv, Publishes
  <2>2. data[Own(r)] = body[r] /\ dest'[Weather] = Own(r)
    BY <1>1, <1>3, PublishedBody
  <2>3. q = r
    BY <2>2 DEF Own
  <2>4. Own(r) # Absent
    BY <1>1, <1>3, SrcType, SourceAssumption DEF Own
  <2>5. Content(Weather)' = body[r]
    BY <2>1, <2>2, <2>4 DEF Content
  <2> QED BY <1>3, <2>1, <2>3, <2>5 DEF Received, Pages
<1> QED BY <1>1, <1>2, <1>3, DestinationStep

(* A command starts only when no other runs.                               *)
LEMMA StartAlone ==
  ASSUME TypeOK, MaxActive <= 1, NEW r \in Runs, StartRun(r)
  PROVE  Active = {} /\ Active' \subseteq {r}
<1>1. IsFiniteSet(Active) /\ Cardinality(Active) \in Nat
  <2>1. IsFiniteSet(Runs)
    BY RunAssumption, FS_Interval DEF Runs
  <2>2. Active \subseteq Runs
    BY DEF Active
  <2>3. IsFiniteSet(Active)
    BY <2>1, <2>2, FS_Subset
  <2> QED BY <2>3, FS_CardinalityType
<1>2. Cardinality(Active) = 0
  BY <1>1, RunAssumption DEF StartRun
<1>3. Active = {}
  BY <1>1, <1>2, FS_EmptySet
<1>4. \A q \in Runs : q # r => pc'[q] = pc[q]
  BY DEF StartRun, Goto, TypeOK
<1> QED BY <1>3, <1>4 DEF Active

LEMMA TransfersStep ==
  ASSUME MaxActive <= 1, TypeOK, Unwritten, TransfersInv, [Next]_vars
  PROVE  TransfersInv'
<1>1. ASSUME NEW r \in Runs, Step(r) \/ StepFails(r) PROVE TransfersInv'
  <2>1. r \in Active /\ \A q \in Active' : q \in Active
    BY <1>1, StepShape, ControlType
  <2>2. \A q \in Active' : q = r
    BY <2>1 DEF TransfersInv, Alone
  <2>3. Received(r) /\ Written(r)
    BY <2>1 DEF TransfersInv
  <2>4. Received(r)' /\ Written(r)'
    BY <1>1, <2>3, ReceivedStep, WrittenStep
  <2>5. r \in Active' => Fresh(r)'
    BY <1>1, FreshStep
  <2>6. PublishedWhole' /\ WeatherIsWhole'
    BY <1>1, PublishedWholeStep, WeatherIsWholeStep
  <2>7. ASSUME NEW q \in Active' PROVE Received(q)' /\ Written(q)' /\ Fresh(q)'
    BY <2>2, <2>4, <2>5, <2>7
  <2> QED BY <2>2, <2>6, <2>7 DEF TransfersInv, Alone
<1>2. ASSUME NEW r \in Runs, StartRun(r) PROVE TransfersInv'
  <2>1. /\ pc[r] = "idle" /\ pc'[r] = "check" /\ todo'[r] = Selection
        /\ UNCHANGED <<dest, data, body, seen>>
    BY <1>2 DEF StartRun, Goto, TypeOK, files, transfer
  <2>2. Active' \subseteq {r}
    BY <1>2, StartAlone
  <2>3. Received(r)' /\ Written(r)'
    BY <2>1 DEF Received, Written
  <2>4. Fresh(r)'
    <3>1. ASSUME NEW i \in DOMAIN Selection PROVE dest[Selection[i]] # <<r, Selection[i]>>
      <4>1. Selection[i] \in Sources
        BY SourceAssumption
      <4>2. <<r, Selection[i]>> # Absent
        BY <4>1, SourceAssumption DEF Inodes
      <4>3. \A n \in {dest[Selection[i]]} \ {Absent} : pc[n[1]] # "idle"
        BY <4>1 DEF TypeOK
      <4>4. <<r, Selection[i]>>[1] = r
        OBVIOUS
      <4> QED BY <2>1, <4>2, <4>3, <4>4
    <3> QED BY <2>1, <3>1, SourceAssumption DEF Fresh
  <2>5. PublishedWhole' /\ WeatherIsWhole'
    BY <2>1 DEF TransfersInv, PublishedWhole, WeatherIsWhole, Content
  <2>6. ASSUME NEW q \in Active' PROVE q = r /\ Received(q)' /\ Written(q)' /\ Fresh(q)'
    BY <2>2, <2>3, <2>4, <2>6
  <2> QED BY <2>5, <2>6 DEF TransfersInv, Alone
<1>3. ASSUME UNCHANGED vars \/ \E s \in Sources : ServerPublishes(s) PROVE TransfersInv'
  <2>1. UNCHANGED <<dest, part, data, pc, todo, forced, token, body, written, handle, seen>>
    BY <1>3 DEF vars, ServerPublishes, files, options, transfer
  <2>2. Active' = Active
    BY <2>1 DEF Active
  <2>3. ASSUME NEW q \in Active PROVE Received(q)' /\ Written(q)' /\ Fresh(q)'
    <3>1. Received(q) /\ Written(q) /\ Fresh(q)
      BY DEF TransfersInv
    <3>2. Src(q)' = Src(q) /\ Own(q)' = Own(q)
      BY <2>1 DEF Src, Own
    <3> QED BY <2>1, <3>1, <3>2 DEF Received, Written, Fresh
  <2>4. PublishedWhole' /\ WeatherIsWhole'
    BY <2>1 DEF TransfersInv, PublishedWhole, WeatherIsWhole, Content
  <2> QED BY <2>2, <2>3, <2>4 DEF TransfersInv, Alone
<1> QED BY <1>1, <1>2, <1>3 DEF Next

LEMMA TransfersInit == Init => TransfersInv
<1> SUFFICES ASSUME Init PROVE TransfersInv
  OBVIOUS
<1>1. Active = {}
  BY DEF Init, Active, Steps
<1>2. \A s \in Sources : dest[s] = Absent
  BY DEF Init
<1>3. \A q \in Runs : <<q, Weather>> # Absent
  BY SourceAssumption DEF Inodes, Sources
<1> QED BY <1>1, <1>2, <1>3 DEF TransfersInv, Alone, PublishedWhole, WeatherIsWhole, Sources

LEMMA TransfersCorrect == ASSUME MaxActive <= 1 PROVE Spec => []TransfersInv
<1>1. TypeOK /\ Unwritten /\ TransfersInv /\ [Next]_vars => TransfersInv'
  BY TransfersStep
<1> QED BY <1>1, TransfersInit, DownloadTypeCorrect, PTL DEF Spec

(***************************************************************************)
(* The theorems.                                                           *)
(***************************************************************************)

(* A streamed file at its destination is one complete, non-empty version,  *)
(* wherever the commands that wrote it and those before it were stopped.   *)
THEOREM PublishedWholeCorrect == ASSUME MaxActive <= 1 PROVE Spec => []PublishedWhole
<1>1. TransfersInv => PublishedWhole
  BY DEF TransfersInv
<1> QED BY <1>1, TransfersCorrect, PTL

(* A weather document whose responses announced counts and came from one   *)
(* version of the observations is complete.                                *)
THEOREM WeatherWholeCorrect == ASSUME MaxActive <= 1 PROVE Spec => []WeatherIsWhole
<1>1. TransfersInv => WeatherIsWhole
  BY DEF TransfersInv
<1> QED BY <1>1, TransfersCorrect, PTL

LEMMA KeptStep ==
  ASSUME TypeOK, TransfersInv, [Next]_vars, NEW s \in Sources, dest[s] # Absent
  PROVE  /\ dest'[s] # Absent
         /\ Content(s)' # Content(s) =>
               \E r \in Active : forced[r] /\ Src(r) = s /\ pc'[r] = "audit"
<1>1. ASSUME NEW r \in Runs, Step(r) \/ StepFails(r), Publishes(r), s = Src(r)
      PROVE  /\ dest'[s] # Absent
             /\ \E q \in Active : forced[q] /\ Src(q) = s /\ pc'[q] = "audit"
  <2>1. r \in Active /\ Own(r) \in Inodes /\ Own(r) # Absent
    BY <1>1, StepShape, SrcType, SourceAssumption DEF Own
  <2>2. Written(r) /\ pc[r] = "replace" /\ pc'[r] = "audit"
    BY <1>1, <2>1 DEF TransfersInv, Publishes
  <2>3. dest'[s] = Own(r)
    BY <1>1, <2>1, PublishedBody
  <2> QED BY <1>1, <2>1, <2>2, <2>3 DEF Written
<1>2. ASSUME NEW r \in Runs, Step(r) \/ StepFails(r)
      PROVE  \/ dest'[s] = dest[s] /\ Content(s)' = Content(s)
             \/ Publishes(r) /\ s = Src(r)
  BY <1>2, DestinationStep
<1>3. ASSUME UNCHANGED vars \/ (\E t \in Sources : ServerPublishes(t))
             \/ (\E r \in Runs : StartRun(r))
      PROVE  dest' = dest /\ Content(s)' = Content(s)
  BY <1>3 DEF vars, ServerPublishes, StartRun, files, Content
<1> QED BY <1>1, <1>2, <1>3 DEF Next

(* Content at a destination changes only by a forced run.                  *)
THEOREM KeptCorrect == ASSUME MaxActive <= 1 PROVE Spec => KeptUnlessForced
<1> DEFINE A == \A s \in Sources : dest[s] # Absent =>
                  /\ dest'[s] # Absent
                  /\ Content(s)' # Content(s) =>
                        \E r \in Active : forced[r] /\ Src(r) = s /\ pc'[r] = "audit"
<1>1. TypeOK /\ TransfersInv /\ [Next]_vars => A
  BY KeptStep
<1> QED BY <1>1, DownloadTypeCorrect, TransfersCorrect, PTL DEF Spec, KeptUnlessForced

LEMMA DownloadedStep ==
  ASSUME TypeOK, TransfersInv, [Next]_vars, NEW q \in Runs, audit'[q] # audit[q],
         audit'[q][Len(audit'[q])].status = "downloaded"
  PROVE  Content(Src(q)) = body[q]
<1>1. ASSUME NEW r \in Runs, Step(r) \/ StepFails(r) PROVE Content(Src(q)) = body[q]
  <2>1. /\ r \in Active
        /\ Moves(r) \/ AuditLost(r) \/ AuditFailure(r) \/ Completes(r)
    BY <1>1, StepShape
  <2>2. q = r /\ (AuditFailure(r) \/ Completes(r))
    BY <2>1 DEF Moves, AuditLost, AuditFailure, Completes, Audited, TypeOK
  <2>3. ASSUME NEW status, audit' = [audit EXCEPT ![r] = Append(audit[r],
                                           [source |-> Src(r), status |-> status])]
        PROVE  status = "downloaded"
    <3> DEFINE record == [source |-> Src(r), status |-> status]
    <3>1. audit'[r] = Append(audit[r], record) /\ audit[r] \in Seq(Records)
      BY <2>3 DEF TypeOK
    <3>2. record.status = status
      OBVIOUS
    <3> HIDE DEF record
    <3>3. Append(audit[r], record)[Len(Append(audit[r], record))] = record
      BY <3>1
    <3> QED BY <2>2, <3>1, <3>2, <3>3
  <2>4. ~AuditFailure(r) /\ ~Audited(r, "skipped")
    <3>1. "failed" # "downloaded" /\ "skipped" # "downloaded"
      OBVIOUS
    <3> QED BY <2>3, <3>1 DEF AuditFailure, Audited
  <2>5. pc[r] = "audit" /\ Written(r)
    BY <2>1, <2>2, <2>4 DEF TransfersInv, Completes
  <2>6. Own(r) # Absent
    BY <2>1, SrcType, SourceAssumption DEF Own
  <2> QED BY <2>2, <2>5, <2>6 DEF Written, Content
<1>2. ASSUME UNCHANGED vars \/ (\E t \in Sources : ServerPublishes(t))
             \/ (\E r \in Runs : StartRun(r))
      PROVE  FALSE
  BY <1>2 DEF vars, ServerPublishes, StartRun
<1> QED BY <1>1, <1>2 DEF Next

(* A "downloaded" record tells the truth about the destination.            *)
THEOREM DownloadedCorrect == ASSUME MaxActive <= 1 PROVE Spec => DownloadedIsPublished
<1> DEFINE A == \A r \in Runs :
                  audit'[r] # audit[r] /\ audit'[r][Len(audit'[r])].status = "downloaded"
                  => Content(Src(r)) = body[r]
<1>1. TypeOK /\ TransfersInv /\ [Next]_vars => A
  BY DownloadedStep
<1> QED BY <1>1, DownloadTypeCorrect, TransfersCorrect, PTL DEF Spec, DownloadedIsPublished
=============================================================================
