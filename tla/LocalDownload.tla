--------------------------- MODULE LocalDownload ---------------------------
(***************************************************************************)
(* The acquisition command of src/ingestion: runs of run_source that fetch *)
(* the selected sources one after the other.  A source is written to the   *)
(* .part file beside its destination and moved into place with os.replace. *)
(*                                                                         *)
(* The file system is POSIX: a name refers to an inode, unlink and replace *)
(* change names, an open file goes on writing to its inode.  A file is the *)
(* sequence of its chunks, a chunk is known by the version of the source   *)
(* it was served from.  Bytes reach the file when they are written.        *)
(***************************************************************************)
EXTENDS Naturals, Sequences, FiniteSets

CONSTANTS
    Streamed,   \* sources fetched by _download_stream: tlc, taxi-zones
    Weather,    \* the paginated source: weather
    Selection,  \* the sources of a command, in order
    MaxVersion, \* bound: versions a server publishes of a source
    Length,     \* Length[v]: chunks (pages) of version v, 0 if empty
    Absent,     \* no such file
    MaxRuns,    \* bound: commands started
    MaxActive,  \* commands that run at the same time
    MaxFaults   \* bound: failing calls and crashes

Sources  == Streamed \cup {Weather}
Versions == 1 .. MaxVersion
Runs     == 1 .. MaxRuns
Inodes   == Runs \X Sources

ASSUME SourceAssumption ==
    /\ Weather \notin Streamed /\ IsFiniteSet(Streamed)
    /\ Selection \in Seq(Sources) /\ Selection # <<>>
    /\ \A i, j \in DOMAIN Selection : Selection[i] = Selection[j] => i = j
    /\ MaxVersion \in Nat \ {0}
    /\ Length \in [Versions -> Nat]
    /\ Absent \notin Inodes \cup Nat

ASSUME RunAssumption == MaxRuns \in Nat /\ MaxActive \in Nat /\ MaxFaults \in Nat

VARIABLES
    server,   \* server[s]: the version the source serves now
    dest,     \* dest[s]: the inode at the destination
    part,     \* part[s]: the inode at the .part name
    data,     \* data[i]: the chunks in inode i, 0 for a hole
    pc,       \* pc[r]: what run r does next
    todo,     \* todo[r]: sources left, the current one first
    forced,   \* forced[r]: --force
    token,    \* token[r]: whether NOAA_API_TOKEN is configured
    body,     \* body[r]: the response being written, or the pages so far
    written,  \* written[r]: chunks of the body written
    handle,   \* handle[r]: the inode run r has open
    audit,    \* audit[r]: the audit records of run r
    faults,   \* faults so far
    seen      \* history: seen[r], the version of all weather responses of run r if
              \* they all announced a count; 0 before the first, Absent otherwise

files == <<dest, part, data>>
transfer == <<body, written, handle, seen>>
options == <<forced, token>>
vars == <<server, dest, part, data, pc, todo, forced, token, body, written,
          handle, audit, faults, seen>>

Src(r) == Head(todo[r])

Ended  == {"done", "raised", "crashed"}
Steps  == {"check", "unlink", "get", "open", "write", "replace", "cleanup",
           "audit", "auditfail"}
Active == {r \in Runs : pc[r] \in Steps}

Records == [source : Sources, status : {"downloaded", "skipped", "failed"}]

(* Type invariant: a running command has a source to fetch, and names refer *)
(* to inodes of runs that were started.                                    *)
TypeOK ==
    /\ server \in [Sources -> Versions]
    /\ dest \in [Sources -> Inodes \cup {Absent}]
    /\ part \in [Sources -> Inodes \cup {Absent}]
    /\ data \in [Inodes -> Seq(Versions \cup {0})]
    /\ pc \in [Runs -> {"idle"} \cup Steps \cup Ended]
    /\ todo \in [Runs -> Seq(Sources)]
    /\ forced \in [Runs -> BOOLEAN] /\ token \in [Runs -> BOOLEAN]
    /\ body \in [Runs -> Seq(Versions)]
    /\ written \in [Runs -> Nat]
    /\ handle \in [Runs -> Inodes \cup {Absent}]
    /\ audit \in [Runs -> Seq(Records)]
    /\ faults \in 0 .. MaxFaults
    /\ seen \in [Runs -> Versions \cup {0, Absent}]
    /\ \A r \in Active : todo[r] # <<>> /\ written[r] <= Len(body[r])
    /\ \A s \in Sources : \A n \in {dest[s], part[s]} \ {Absent} :
          n[2] = s /\ pc[n[1]] # "idle"

Init ==
    /\ server = [s \in Sources |-> 1]
    /\ dest = [s \in Sources |-> Absent]
    /\ part = [s \in Sources |-> Absent]
    /\ data = [i \in Inodes |-> <<>>]
    /\ pc = [r \in Runs |-> "idle"]
    /\ todo = [r \in Runs |-> <<>>]
    /\ forced = [r \in Runs |-> FALSE] /\ token = [r \in Runs |-> FALSE]
    /\ body = [r \in Runs |-> <<>>]
    /\ written = [r \in Runs |-> 0]
    /\ handle = [r \in Runs |-> Absent]
    /\ audit = [r \in Runs |-> <<>>]
    /\ faults = 0
    /\ seen = [r \in Runs |-> 0]

-----------------------------------------------------------------------------
Goto(r, step) == pc' = [pc EXCEPT ![r] = step]

Fault == faults < MaxFaults /\ faults' = faults + 1

(* The server replaces a source by its next version.                       *)
ServerPublishes(s) ==
    /\ server[s] < MaxVersion
    /\ server' = [server EXCEPT ![s] = @ + 1]
    /\ UNCHANGED <<files, pc, todo, options, transfer, audit, faults>>

(* A command starts, with or without --force and a NOAA token.             *)
StartRun(r) ==
    /\ pc[r] = "idle" /\ \A q \in 1 .. r - 1 : pc[q] # "idle"
    /\ Cardinality(Active) < MaxActive
    /\ \E f, t \in BOOLEAN :
          forced' = [forced EXCEPT ![r] = f] /\ token' = [token EXCEPT ![r] = t]
    /\ todo' = [todo EXCEPT ![r] = Selection]
    /\ Goto(r, "check")
    /\ UNCHANGED <<server, files, transfer, audit, faults>>

(* A record is appended and the command goes on with the next source.      *)
Audited(r, status) ==
    /\ audit' = [audit EXCEPT ![r] = Append(@, [source |-> Src(r), status |-> status])]
    /\ todo' = [todo EXCEPT ![r] = Tail(@)]
    /\ Goto(r, IF Tail(todo[r]) = <<>> THEN "done" ELSE "check")

(* The weather source without a token: _record_weather_skip.               *)
RecordWeatherSkip(r) ==
    /\ pc[r] = "check" /\ Src(r) = Weather /\ ~token[r]
    /\ Audited(r, "skipped")
    /\ UNCHANGED <<server, files, options, transfer, faults>>

(* The same when its append raises: nothing catches it.                    *)
RecordWeatherSkipRaises(r) ==
    /\ pc[r] = "check" /\ Src(r) = Weather /\ ~token[r]
    /\ Fault
    /\ Goto(r, "raised")
    /\ UNCHANGED <<server, files, todo, options, transfer, audit>>

(* An existing destination is skipped unless --force is given.             *)
SkipExisting(r) ==
    /\ pc[r] = "check" /\ (Src(r) = Weather => token[r])
    /\ dest[Src(r)] # Absent /\ ~forced[r]
    /\ Audited(r, "skipped")
    /\ UNCHANGED <<server, files, options, transfer, faults>>

(* Before the download: the look at the destination raises, or the append  *)
(* of the skipped result.  _run_and_audit takes both for a failure.        *)
CheckRaises(r) ==
    /\ pc[r] = "check" /\ (Src(r) = Weather => token[r])
    /\ Fault
    /\ Goto(r, "auditfail")
    /\ UNCHANGED <<server, files, todo, options, transfer, audit>>

(* Faulty variant: an existing destination does not prevent an attempt.    *)
AttemptAlways(r) ==
    /\ pc[r] = "check" /\ (Src(r) = Weather => token[r])
    /\ body' = [body EXCEPT ![r] = <<>>]
    /\ written' = [written EXCEPT ![r] = 0]
    /\ handle' = [handle EXCEPT ![r] = Absent]
    /\ Goto(r, "unlink")
    /\ UNCHANGED <<server, files, todo, options, audit, faults, seen>>

(* A destination is missing or --force is given.                           *)
Attempt(r) ==
    /\ pc[r] = "check" /\ (Src(r) = Weather => token[r])
    /\ dest[Src(r)] = Absent \/ forced[r]
    /\ body' = [body EXCEPT ![r] = <<>>]
    /\ written' = [written EXCEPT ![r] = 0]
    /\ handle' = [handle EXCEPT ![r] = Absent]
    /\ Goto(r, "unlink")
    /\ UNCHANGED <<server, files, todo, options, audit, faults, seen>>

(* A .part file of an earlier attempt is removed.                          *)
UnlinkPart(r) ==
    /\ pc[r] = "unlink"
    /\ part' = [part EXCEPT ![Src(r)] = Absent]
    /\ Goto(r, "get")
    /\ UNCHANGED <<server, dest, data, todo, options, transfer, audit, faults>>

(* GET of a streamed source: the response is one version of it.            *)
GetStream(r) ==
    /\ pc[r] = "get" /\ Src(r) \in Streamed
    /\ LET v == server[Src(r)] IN
       body' = [body EXCEPT ![r] = [i \in 1 .. Length[v] |-> v]]
    /\ Goto(r, "open")
    /\ UNCHANGED <<server, files, todo, options, written, handle, audit, faults, seen>>

(* A page of observations with version v of them served, of which          *)
(* got pages are there.  Its response may announce no count or one that is *)
(* too large; the last page may be full.  A count that is too small ends   *)
(* the loop early, as a missing one does.                                  *)
Responses(v, got) ==
    [results : IF got >= Length[v] THEN {"none"}
               ELSE IF got + 1 = Length[v] THEN {"some", "full"} ELSE {"full"},
     count : {"missing", "exact", "over"}]

(* Faulty variant: the comparison is turned round.                         *)
CountNotReached(p, v, got) ==
    p.count # "exact" \/ got + 1 <= Length[v]

(* len(all_results) >= total_count, where total_count is len(all_results)  *)
(* if there is no count.                                                   *)
CountReached(p, v, got) ==
    p.count = "missing" \/ (p.count = "exact" /\ got + 1 >= Length[v])

(* Faulty variant: an empty page does not end the loop.                    *)
EndsUnlessEmpty(p, v, got) ==
    p.results # "none" /\ (CountReached(p, v, got) \/ p.results = "some")

(* The loop ends at an empty page, when the count is reached, or at a page *)
(* that is not full.                                                       *)
EndsLoop(p, v, got) ==
    p.results = "none" \/ CountReached(p, v, got) \/ p.results = "some"

(* GET of the next page of observations.                                   *)
GetPage(r) ==
    /\ pc[r] = "get" /\ Src(r) = Weather
    /\ LET v == server[Weather]
           got == Len(body[r])
       IN  \E p \in Responses(v, got) :
             /\ body' = [body EXCEPT ![r] = IF p.results = "none" THEN @ ELSE Append(@, v)]
             /\ seen' = [seen EXCEPT ![r] = IF @ \in {0, v} /\ p.count # "missing" THEN v ELSE Absent]
             /\ Goto(r, IF EndsLoop(p, v, got) THEN "open" ELSE "get")
    /\ UNCHANGED <<server, files, todo, options, written, handle, audit, faults>>

(* The .part file is created, or truncated where it exists.                *)
OpenPart(r) ==
    /\ pc[r] = "open"
    /\ LET n == IF part[Src(r)] = Absent THEN <<r, Src(r)>> ELSE part[Src(r)] IN
       /\ part' = [part EXCEPT ![Src(r)] = n]
       /\ handle' = [handle EXCEPT ![r] = n]
       /\ data' = [data EXCEPT ![n] = <<>>]
    /\ Goto(r, "write")
    /\ UNCHANGED <<server, dest, todo, options, body, written, audit, faults, seen>>

(* File t with chunk c written at position k.                              *)
WriteAt(t, k, c) ==
    [i \in 1 .. (IF k > Len(t) THEN k ELSE Len(t)) |->
        CASE i = k -> c [] i # k /\ i <= Len(t) -> t[i] [] OTHER -> 0]

WriteChunk(r) ==
    /\ pc[r] = "write" /\ written[r] < Len(body[r])
    /\ written' = [written EXCEPT ![r] = @ + 1]
    /\ data' = [data EXCEPT ![handle[r]] = WriteAt(@, written'[r], body[r][written'[r]])]
    /\ UNCHANGED <<server, dest, part, pc, todo, options, body, handle, audit, faults,
                   seen>>

(* Faulty variant: an empty download is published like any other.          *)
FinishBodyUnchecked(r) ==
    /\ pc[r] = "write" /\ written[r] = Len(body[r])
    /\ Goto(r, "replace")
    /\ UNCHANGED <<server, files, todo, options, transfer, audit, faults>>

(* The stream is exhausted.  An empty download is refused, an empty set of *)
(* observations is not.                                                    *)
FinishBody(r) ==
    /\ pc[r] = "write" /\ written[r] = Len(body[r])
    /\ Goto(r, IF written[r] = 0 /\ Src(r) \in Streamed THEN "cleanup" ELSE "replace")
    /\ UNCHANGED <<server, files, todo, options, transfer, audit, faults>>

(* Faulty variant: a destination that exists is not replaced.              *)
ReplaceMissing(r) ==
    /\ pc[r] = "replace"
    /\ dest' = [dest EXCEPT ![Src(r)] = IF @ = Absent THEN part[Src(r)] ELSE @]
    /\ part' = [part EXCEPT ![Src(r)] = Absent]
    /\ Goto(r, "audit")
    /\ UNCHANGED <<server, data, todo, options, transfer, audit, faults>>

(* os.replace, which raises when somebody else removed the .part file.     *)
Replace(r) ==
    /\ pc[r] = "replace"
    /\ IF part[Src(r)] = Absent
       THEN Goto(r, "cleanup") /\ UNCHANGED <<dest, part>>
       ELSE /\ dest' = [dest EXCEPT ![Src(r)] = part[Src(r)]]
            /\ part' = [part EXCEPT ![Src(r)] = Absent]
            /\ Goto(r, "audit")
    /\ UNCHANGED <<server, data, todo, options, transfer, audit, faults>>

(* A call of the download raises: connection lost, HTTP error, disk full.  *)
(* Before the try block nothing is cleaned up.                             *)
TransferRaises(r) ==
    /\ pc[r] \in {"unlink", "get", "open", "write", "replace"}
    /\ Fault
    /\ Goto(r, IF pc[r] = "unlink" THEN "auditfail" ELSE "cleanup")
    /\ UNCHANGED <<server, files, todo, options, transfer, audit>>

(* Faulty variant: the .part file of a failed download stays.              *)
NoCleanup(r) ==
    /\ pc[r] = "cleanup"
    /\ Goto(r, "auditfail")
    /\ UNCHANGED <<server, files, todo, options, transfer, audit, faults>>

(* The except clause of the download removes the .part file.               *)
Cleanup(r) ==
    /\ pc[r] = "cleanup"
    /\ part' = [part EXCEPT ![Src(r)] = Absent]
    /\ Goto(r, "auditfail")
    /\ UNCHANGED <<server, dest, data, todo, options, transfer, audit, faults>>

(* The removal itself raises, and the .part file stays.                    *)
CleanupRaises(r) ==
    /\ pc[r] = "cleanup"
    /\ Fault
    /\ Goto(r, "auditfail")
    /\ UNCHANGED <<server, files, todo, options, transfer, audit>>

(* _run_and_audit after a result.                                          *)
AuditResult(r) ==
    /\ pc[r] = "audit"
    /\ Audited(r, "downloaded")
    /\ UNCHANGED <<server, files, options, transfer, faults>>

AuditRaises(r) ==
    /\ pc[r] \in {"audit", "auditfail"}
    /\ Fault
    /\ Goto(r, IF pc[r] = "audit" THEN "auditfail" ELSE "raised")
    /\ UNCHANGED <<server, files, todo, options, transfer, audit>>

(* Faulty variants: the exception is swallowed and the next source comes;  *)
(* a status the audit does not know.                                       *)
AuditFailureSwallowed(r) ==
    /\ pc[r] = "auditfail"
    /\ Audited(r, "failed")
    /\ UNCHANGED <<server, files, options, transfer, faults>>

AuditFailureAsError(r) ==
    /\ pc[r] = "auditfail"
    /\ audit' = [audit EXCEPT ![r] = Append(@, [source |-> Src(r), status |-> "error"])]
    /\ Goto(r, "raised")
    /\ UNCHANGED <<server, files, todo, options, transfer, faults>>

(* _run_and_audit after an exception: the command ends with exit code 1.   *)
AuditFailure(r) ==
    /\ pc[r] = "auditfail"
    /\ audit' = [audit EXCEPT ![r] = Append(@, [source |-> Src(r), status |-> "failed"])]
    /\ Goto(r, "raised")
    /\ UNCHANGED <<server, files, todo, options, transfer, faults>>

(* The process is killed: names and inodes stay as they are.               *)
Crash(r) ==
    /\ pc[r] \in Steps
    /\ Fault
    /\ Goto(r, "crashed")
    /\ UNCHANGED <<server, files, todo, options, transfer, audit>>

-----------------------------------------------------------------------------
Step(r) ==
    \/ RecordWeatherSkip(r) \/ SkipExisting(r) \/ Attempt(r)
    \/ UnlinkPart(r) \/ GetStream(r) \/ GetPage(r) \/ OpenPart(r)
    \/ WriteChunk(r) \/ FinishBody(r) \/ Replace(r)
    \/ Cleanup(r) \/ AuditResult(r) \/ AuditFailure(r)

StepFails(r) ==
    \/ RecordWeatherSkipRaises(r) \/ CheckRaises(r) \/ TransferRaises(r)
    \/ CleanupRaises(r) \/ AuditRaises(r) \/ Crash(r)

Next ==
    \/ \E r \in Runs : StartRun(r) \/ Step(r) \/ StepFails(r)
    \/ \E s \in Sources : ServerPublishes(s)

(* A started command goes on.                                              *)
Spec == Init /\ [][Next]_vars /\ \A r \in Runs : WF_vars(Step(r))

-----------------------------------------------------------------------------
(* Properties. *)

Content(s) == IF dest[s] = Absent THEN <<>> ELSE data[dest[s]]

WholeVersions == {[i \in 1 .. Length[v] |-> v] : v \in Versions} \ {<<>>}

(* "os.replace publishes the final file only after a non-empty download    *)
(* completes" (docs/Design.md:212): a streamed file at its destination is  *)
(* one complete version of the source.                                     *)
PublishedWhole ==
    \A s \in Streamed : dest[s] # Absent => Content(s) \in WholeVersions

(* The weather document is complete if all its responses announced a count *)
(* and came from one version of the observations, however the last page    *)
(* and the count look.  Neither is promised: without a count the loop ends *)
(* after the first page, and nothing ties two pages together.              *)
WeatherIsWhole ==
    \A v \in Versions : \A r \in Runs :
        dest[Weather] = <<r, Weather>> /\ seen[r] = v =>
            Content(Weather) = [i \in 1 .. Length[v] |-> v]

(* "A final file causes a skip unless the caller passes --force": content  *)
(* at a destination changes only by a forced run that is about to audit it,*)
(* and never disappears.                                                   *)
KeptUnlessForced ==
    [][\A s \in Sources : dest[s] # Absent =>
          /\ dest'[s] # Absent
          /\ Content(s)' # Content(s) =>
                \E r \in Active : forced[r] /\ Src(r) = s /\ pc'[r] = "audit"]_vars

(* A .part file is temporary: it belongs to a run that is writing that     *)
(* source, or the run came no further than that source, being killed or    *)
(* failed while its clean-up raised too.  At most one is left per fault.   *)
WritesPart(r, s) == pc[r] \in {"write", "replace", "cleanup"} /\ Src(r) = s

LeftParts == {s \in Sources : part[s] # Absent /\ ~WritesPart(part[s][1], s)}

PartsAreTemporary ==
    /\ \A s \in LeftParts : LET r == part[s][1] IN
          Src(r) = s /\ pc[r] \in {"auditfail", "raised", "crashed"}
    /\ Cardinality(LeftParts) <= faults

(* "One JSON Lines record per attempted, completed, failed, or skipped     *)
(* operation": a run that ended has one record for each source it came to, *)
(* in order; the last is a failure if and only if it raised.  The record   *)
(* of the source at which it raised is missing only where an append raised *)
(* too, that is for no more runs than there were faults.                   *)
Unrecorded ==
    {r \in Runs : pc[r] = "raised" /\ Len(audit[r]) + Len(todo[r]) = Len(Selection)}

AuditIsComplete ==
    /\ \A r \in Runs : pc[r] \in {"done", "raised"} =>
        LET n == Len(audit[r])
            failed == pc[r] = "raised" /\ r \notin Unrecorded
        IN  /\ \A i \in 1 .. n :
                  /\ audit[r][i].source = Selection[i]
                  /\ audit[r][i].status = "failed" <=> failed /\ i = n
            /\ pc[r] = "done" => n = Len(Selection)
            /\ failed => n > 0 /\ Selection[n] = Src(r)
    /\ Cardinality(Unrecorded) <= faults

(* A "downloaded" record is appended only while the destination holds what *)
(* its run received.                                                       *)
DownloadedIsPublished ==
    [][\A r \in Runs :
          audit'[r] # audit[r] /\ audit'[r][Len(audit'[r])].status = "downloaded"
          => Content(Src(r)) = body[r]]_vars

(* A command ends: the page loop terminates whatever the announced count.  *)
RunEnds == \A r \in Runs : pc[r] \in Steps ~> pc[r] \in Ended
=============================================================================
