---------------------------- MODULE ImportBatch ----------------------------
(***************************************************************************)
(* One import batch as its control routes and its parser share it: the     *)
(* status column and the metadata JSON of the bronze_import_batches row,   *)
(* the uploaded file, and the ingest jobs of the batch                     *)
(* (apps/api/src/routes/imports-bronze.ts, the control setters of          *)
(* workers/shared/src/import-execution.ts,                                 *)
(* workers/enrichment/src/workers/a1-csv-parser.ts).                       *)
(*                                                                         *)
(* A route changes the metadata by reading the whole JSON value, changing  *)
(* it and writing it back; the parser writes single keys of it with        *)
(* jsonb_set.  Every await of a route is a step.  resumeImportRuntimeJobs  *)
(* is one step here: ImportRuntime takes it apart.                         *)
(***************************************************************************)
EXTENDS Naturals

CONSTANTS
  Workers,      \* worker names that can be paused on their own
  Parser,       \* the worker name of the parser
  Requests,     \* control requests the API may be serving at one time
  Operations,   \* [name, scope] records: what operators ask for
  Streaming,    \* the file is large enough for the streaming parser
  MayThrow,     \* executions of the parser may throw (bound)
  MaxAttempts,  \* BullMQ "attempts" of an ingest job
  MaxRecovery,  \* import_runtime_jobs.max_recovery_attempts
  MaxRetries,   \* POST /imports/:id/retry requests (bound)
  MaxRequests   \* requests (bound)

Scopes == {"batch"} \cup Workers
Names  == {"pause", "resume", "delete", "cancel", "retry"}

ASSUME ScopesAssumption     == Parser \in Workers /\ "batch" \notin Workers
ASSUME OperationsAssumption == Operations \subseteq [name : Names, scope : Scopes]
ASSUME KindAssumption       == Streaming \in BOOLEAN /\ MayThrow \in BOOLEAN
ASSUME LimitsAssumption     == /\ MaxAttempts \in Nat \ {0}
                               /\ MaxRecovery \in Nat
                               /\ MaxRetries \in Nat
                               /\ MaxRequests \in Nat

VARIABLES
  status,   \* status column of the batch
  meta,     \* metadata column: pause flags, delete marks, columnMapping stored
  file,     \* the uploaded file is on disk
  row,      \* state column of the runtime row of an ingest key
  used,     \* its attempts_used column
  job,      \* where an ingest job stands
  made,     \* BullMQ's attemptsMade of an ingest job
  req,      \* the requests being served
  served,   \* requests accepted
  retries,  \* ingest keys handed out by retry requests
  asked     \* history: what the last request about a flag asked for

batch_vars == <<status, meta, file>>
job_vars   == <<row, used, job, made>>
req_vars   == <<req, served, retries, asked>>
import_vars == <<status, meta, file, row, used, job, made, req, served, retries, asked>>

-----------------------------------------------------------------------------
(* Key 0 is the upload's; key n is that of the n-th retry, whose            *)
(* correlationId makes it new.  <<k, 0>> is the job its producer adds,      *)
(* <<k, n>> the job of its n-th resume.                                     *)

IngestKeys == 0 .. MaxRetries
JobIds     == IngestKeys \X (0 .. MaxRecovery + 1)

BatchStatuses == {"pending", "processing", "completed", "failed", "cancelled"}

RowStates == {"absent", "queued", "running", "paused", "recovering",
              "completed", "failed", "terminal_error_skipped"}

\* The rows DELETE takes for running work.
ActiveStates == {"queued", "running", "recovering"}

Metadata == [paused : [Scopes -> BOOLEAN], deleteRequested : BOOLEAN,
             hidden : BOOLEAN, mapping : BOOLEAN]

NoFlags == [paused |-> [s \in Scopes |-> FALSE], deleteRequested |-> FALSE,
            hidden |-> FALSE, mapping |-> FALSE]

\* Steps of a job.  A step named "..._paused" remembers a control read that
\* found a flag set.
JobSteps == {"absent", "waiting", "begun", "begun_paused", "opening", "reading",
             "flushed", "reporting", "reporting_paused", "mapped", "finished",
             "erring", "failing", "nacking", "done"}

ReqSteps == {"idle", "flag_read", "flag_write", "requeue", "mark_read", "mark_write",
             "count", "unlink", "delete", "cancel", "pend", "enqueue", "enqueue_write",
             "enqueue_write_paused", "enqueue_add"}

Attempts(j) == IF j[2] = 0 THEN MaxAttempts ELSE 1

IsPaused == meta.paused["batch"] \/ meta.paused[Parser]

\* The upload: the file is stored, the batch is pending and its job waits.
BatchInit ==
  /\ status  = "pending"
  /\ meta    = NoFlags
  /\ file    = TRUE
  /\ row     = [k \in IngestKeys |-> IF k = 0 THEN "queued" ELSE "absent"]
  /\ used    = [k \in IngestKeys |-> 0]
  /\ job     = [j \in JobIds |-> IF j = <<0, 0>> THEN "waiting" ELSE "absent"]
  /\ made    = [j \in JobIds |-> 0]
  /\ req     = [r \in Requests |-> [step |-> "idle", name |-> "pause", scope |-> "batch",
                                    copy |-> NoFlags, seen |-> NoFlags,
                                    active |-> FALSE, key |-> 0]]
  /\ served  = 0
  /\ retries = 0
  /\ asked   = [s \in Scopes |-> FALSE]

-----------------------------------------------------------------------------
(* The control routes.                                                      *)

At(r, step) == req[r].step = step

MoveRequest(r, next) == req' = [req EXCEPT ![r] = next]

Step(r, next) == MoveRequest(r, [req[r] EXCEPT !.step = next])

\* First step of a request: the batch is read and the route's early returns,
\* which change nothing, are past.
Accept(r, op, first) ==
  /\ At(r, "idle")
  /\ served < MaxRequests
  /\ served' = served + 1
  /\ MoveRequest(r, [req[r] EXCEPT !.step = first, !.name = op.name,
                                   !.scope = op.scope, !.seen = meta])
  /\ UNCHANGED <<batch_vars, job_vars, retries, asked>>

AcceptFlag(r) ==
  \E op \in Operations :
    /\ op.name \in {"pause", "resume"} /\ ~meta.hidden
    /\ Accept(r, op, "flag_read")

AcceptDelete(r) ==
  \E op \in Operations :
    /\ op.name = "delete" /\ ~meta.hidden /\ status # "completed"
    /\ Accept(r, op, "mark_read")

AcceptCancel(r) ==
  \E op \in Operations :
    /\ op.name = "cancel" /\ status \in {"pending", "processing"}
    /\ Accept(r, op, "cancel")

\* The original file is looked up before anything is written.
AcceptRetry(r) ==
  \E op \in Operations :
    /\ op.name = "retry" /\ status \notin {"processing", "completed"}
    /\ file /\ retries < MaxRetries
    /\ Accept(r, op, "pend")

\* The SELECT of updateBatchExecutionControl.
ReadControl(r) ==
  /\ \/ At(r, "flag_read") /\ MoveRequest(r, [req[r] EXCEPT !.step = "flag_write", !.copy = meta])
     \/ At(r, "mark_read") /\ MoveRequest(r, [req[r] EXCEPT !.step = "mark_write", !.copy = meta])
  /\ UNCHANGED <<batch_vars, job_vars, served, retries, asked>>

\* DELETE pauses the batch; the flag of the others is the one they name.
FlagOf(r) == IF req[r].name = "delete" THEN "batch" ELSE req[r].scope

FlagTo(r) == req[r].name # "resume"

AfterFlag(r) == CASE req[r].name = "pause"  -> "idle"
                  [] req[r].name = "resume" -> "requeue"
                  [] OTHER                  -> "count"

\* Mutant of WriteFlag: the other flags are written as if nobody had set them.
WriteFlagAlone(r) ==
  /\ At(r, "flag_write")
  /\ meta'  = [req[r].copy EXCEPT !.paused =
                 [s \in Scopes |-> s = FlagOf(r) /\ FlagTo(r)]]
  /\ asked' = [asked EXCEPT ![FlagOf(r)] = FlagTo(r)]
  /\ Step(r, AfterFlag(r))
  /\ UNCHANGED <<status, file, job_vars, served, retries>>

\* The UPDATE of setBatchImportPause or setBatchWorkerPause: the copy goes back.
WriteFlag(r) ==
  /\ At(r, "flag_write")
  /\ meta'  = [req[r].copy EXCEPT !.paused[FlagOf(r)] = FlagTo(r)]
  /\ asked' = [asked EXCEPT ![FlagOf(r)] = FlagTo(r)]
  /\ Step(r, AfterFlag(r))
  /\ UNCHANGED <<status, file, job_vars, served, retries>>

\* markImportBatchDeleteRequested.
WriteMark(r) ==
  /\ At(r, "mark_write")
  /\ meta' = [req[r].copy EXCEPT !.deleteRequested = TRUE]
  /\ Step(r, "flag_read")
  /\ UNCHANGED <<status, file, job_vars, served, retries, asked>>

\* resumeImportRuntimeJobs in its default mode: a paused or failed row of the scope
\* gets a job under its next resume id, or is closed when its recoveries are spent.
Requeue(r) ==
  LET Selected(k)  == row[k] \in {"paused", "failed"} /\ FlagOf(r) \in {"batch", Parser}
      Exhausted(k) == row[k] = "failed" /\ used[k] >= MaxRecovery
      Added(j)     == Selected(j[1]) /\ ~Exhausted(j[1]) /\ j[2] = used[j[1]] + 1
  IN  /\ At(r, "requeue")
      /\ row'  = [k \in IngestKeys |-> CASE ~Selected(k)        -> row[k]
                                         [] Exhausted(k)        -> "terminal_error_skipped"
                                         [] row[k] = "failed"   -> "recovering"
                                         [] OTHER               -> "queued"]
      /\ used' = [k \in IngestKeys |-> IF Selected(k) /\ ~Exhausted(k) /\ row[k] = "failed"
                                       THEN used[k] + 1 ELSE used[k]]
      /\ job'  = [j \in JobIds |-> IF Added(j) /\ job[j] = "absent" THEN "waiting" ELSE job[j]]
      /\ Step(r, "idle")
      /\ UNCHANGED <<batch_vars, made, served, retries, asked>>

\* DELETE counts the rows it takes for running work ...
CountActive(r) ==
  /\ At(r, "count")
  /\ MoveRequest(r, [req[r] EXCEPT !.step = "unlink",
                                   !.active = \E k \in IngestKeys : row[k] \in ActiveStates])
  /\ UNCHANGED <<batch_vars, job_vars, served, retries, asked>>

\* ... removes the file when there are none ...
Unlink(r) ==
  /\ At(r, "unlink")
  /\ file' = (file /\ req[r].active)
  /\ Step(r, "delete")
  /\ UNCHANGED <<status, meta, job_vars, served, retries, asked>>

\* Mutant of WriteDelete: the flag set since the first read is not set again.
WriteDeleteStale(r) ==
  /\ At(r, "delete")
  /\ status' = "cancelled"
  /\ meta'   = [req[r].seen EXCEPT !.deleteRequested = TRUE, !.hidden = TRUE]
  /\ Step(r, "idle")
  /\ UNCHANGED <<file, job_vars, served, retries, asked>>

\* ... and writes back the metadata it read first of all.
WriteDelete(r) ==
  /\ At(r, "delete")
  /\ status' = "cancelled"
  /\ meta'   = [req[r].seen EXCEPT !.paused["batch"] = TRUE,
                                   !.deleteRequested = TRUE, !.hidden = TRUE]
  /\ Step(r, "idle")
  /\ UNCHANGED <<file, job_vars, served, retries, asked>>

WriteCancel(r) ==
  /\ At(r, "cancel")
  /\ status' = "cancelled"
  /\ Step(r, "idle")
  /\ UNCHANGED <<meta, file, job_vars, served, retries, asked>>

\* The retry route writes back the metadata it read (before that, when the request
\* brings a new mapping, it writes the same value once more), then enqueues a new job.
WritePending(r) ==
  /\ At(r, "pend")
  /\ status' = "pending"
  /\ meta'   = req[r].seen
  /\ Step(r, "enqueue")
  /\ UNCHANGED <<file, job_vars, served, retries, asked>>

\* enqueueImportJob: the control read, the row, the job.
EnqueueRead(r) ==
  /\ At(r, "enqueue")
  /\ retries < MaxRetries
  /\ retries' = retries + 1
  /\ MoveRequest(r, [req[r] EXCEPT
       !.step = IF IsPaused THEN "enqueue_write_paused" ELSE "enqueue_write",
       !.key  = retries + 1])
  /\ UNCHANGED <<batch_vars, job_vars, served, asked>>

EnqueueWrite(r) ==
  /\ \/ /\ At(r, "enqueue_write")
        /\ row' = [row EXCEPT ![req[r].key] = "queued"]
        /\ Step(r, "enqueue_add")
     \/ /\ At(r, "enqueue_write_paused")
        /\ row' = [row EXCEPT ![req[r].key] = "paused"]
        /\ Step(r, "idle")
  /\ UNCHANGED <<batch_vars, used, job, made, served, retries, asked>>

EnqueueAdd(r) ==
  /\ At(r, "enqueue_add")
  /\ job' = [job EXCEPT ![<<req[r].key, 0>>] = "waiting"]
  /\ Step(r, "idle")
  /\ UNCHANGED <<batch_vars, row, used, made, served, retries, asked>>

-----------------------------------------------------------------------------
(* The parser, inside the processor wrapper of main.ts.                     *)

Move(j, from, to) == job[j] = from /\ job' = [job EXCEPT ![j] = to]

WriteRow(j, state) == row' = [row EXCEPT ![j[1]] = state]

\* beginImportRuntimeJob.
Take(j) ==
  /\ Move(j, "waiting", IF IsPaused THEN "begun_paused" ELSE "begun")
  /\ UNCHANGED <<batch_vars, row, used, made, req_vars>>

Begin(j) ==
  /\ \/ Move(j, "begun", "opening") /\ WriteRow(j, "running")
     \/ Move(j, "begun_paused", "done") /\ WriteRow(j, "paused")
  /\ UNCHANGED <<batch_vars, used, made, req_vars>>

Open(j) ==
  /\ Move(j, "opening", IF file THEN "reading" ELSE "erring")
  /\ UNCHANGED <<batch_vars, row, used, made, req_vars>>

\* The streaming parser flushes a buffer: the rows and the counters, which set
\* the status, then a progress report.
Flush(j) ==
  /\ Streaming
  /\ Move(j, "reading", "flushed")
  /\ status' = "processing"
  /\ UNCHANGED <<meta, file, row, used, made, req_vars>>

ReportRead(j) ==
  /\ Move(j, "flushed", IF IsPaused THEN "reporting_paused" ELSE "reporting")
  /\ UNCHANGED <<batch_vars, row, used, made, req_vars>>

\* Mutant of ReportWrite: a paused report writes a state the batch does not use.
ReportWriteStale(j) ==
  /\ \/ Move(j, "reporting", "reading") /\ WriteRow(j, "running")
     \/ Move(j, "reporting_paused", "reading") /\ WriteRow(j, "stale")
  /\ UNCHANGED <<batch_vars, used, made, req_vars>>

ReportWrite(j) ==
  /\ \/ Move(j, "reporting", "reading") /\ WriteRow(j, "running")
     \/ Move(j, "reporting_paused", "reading") /\ WriteRow(j, "paused")
  /\ UNCHANGED <<batch_vars, used, made, req_vars>>

\* The small-file parser stores the mapping before it completes the batch, the
\* streaming one after.
StoreMapping(j) ==
  /\ IF Streaming THEN Move(j, "finished", "mapped") ELSE Move(j, "reading", "mapped")
  /\ meta' = [meta EXCEPT !.mapping = TRUE]
  /\ UNCHANGED <<status, file, row, used, made, req_vars>>

CompleteBatch(j) ==
  /\ IF Streaming THEN Move(j, "reading", "finished") ELSE Move(j, "mapped", "finished")
  /\ status' = "completed"
  /\ UNCHANGED <<meta, file, row, used, made, req_vars>>

\* completeImportRuntimeJob and BullMQ's move to completed.
Return(j) ==
  /\ Move(j, IF Streaming THEN "mapped" ELSE "finished", "done")
  /\ WriteRow(j, "completed")
  /\ UNCHANGED <<batch_vars, used, made, req_vars>>

\* An await of the parser rejects: an insert, a counter write, a progress
\* report, or the dispatch of the next jobs after the batch was completed.
Throw(j) ==
  /\ MayThrow
  /\ job[j] \in {"opening", "reading", "flushed", "reporting", "reporting_paused",
                 "finished"} \cup (IF Streaming THEN {} ELSE {"mapped"})
  /\ job' = [job EXCEPT ![j] = "erring"]
  /\ UNCHANGED <<batch_vars, row, used, made, req_vars>>

\* markImportBatchFailed, then failImportRuntimeJob, then BullMQ's retry.
FailBatch(j) ==
  /\ Move(j, "erring", "failing")
  /\ status' = "failed"
  /\ UNCHANGED <<meta, file, row, used, made, req_vars>>

FailRow(j) ==
  /\ Move(j, "failing", "nacking")
  /\ WriteRow(j, "failed")
  /\ UNCHANGED <<batch_vars, used, made, req_vars>>

Reject(j) ==
  /\ Move(j, "nacking", IF made[j] + 1 < Attempts(j) THEN "waiting" ELSE "done")
  /\ made' = [made EXCEPT ![j] = @ + 1]
  /\ UNCHANGED <<batch_vars, row, used, req_vars>>

-----------------------------------------------------------------------------

Request(r) ==
  \/ AcceptFlag(r) \/ AcceptDelete(r) \/ AcceptCancel(r) \/ AcceptRetry(r)
  \/ ReadControl(r) \/ WriteFlag(r) \/ WriteMark(r) \/ Requeue(r)
  \/ CountActive(r) \/ Unlink(r) \/ WriteDelete(r) \/ WriteCancel(r)
  \/ WritePending(r) \/ EnqueueRead(r) \/ EnqueueWrite(r) \/ EnqueueAdd(r)

ParserJob(j) ==
  \/ Take(j) \/ Begin(j) \/ Open(j) \/ Flush(j) \/ ReportRead(j) \/ ReportWrite(j)
  \/ StoreMapping(j) \/ CompleteBatch(j) \/ Return(j)
  \/ Throw(j) \/ FailBatch(j) \/ FailRow(j) \/ Reject(j)

BatchNext == (\E r \in Requests : Request(r)) \/ (\E j \in JobIds : ParserJob(j))

BatchSpec == BatchInit /\ [][BatchNext]_import_vars

-----------------------------------------------------------------------------
(* Properties.                                                              *)

RequestRecord ==
  [step : ReqSteps, name : Names, scope : Scopes, copy : Metadata, seen : Metadata,
   active : BOOLEAN, key : IngestKeys]

\* Type correctness: every column, job and request has one of its values.
BatchTypeOK ==
  /\ status  \in BatchStatuses
  /\ meta    \in Metadata
  /\ file    \in BOOLEAN
  /\ row     \in [IngestKeys -> RowStates]
  /\ used    \in [IngestKeys -> Nat]
  /\ job     \in [JobIds -> JobSteps]
  /\ made    \in [JobIds -> Nat]
  /\ req     \in [Requests -> RequestRecord]
  /\ served  \in Nat
  /\ retries \in IngestKeys
  /\ asked   \in [Scopes -> BOOLEAN]

\* While no request is being served, every pause flag is what the last request
\* about it asked for, whatever the parser wrote to the same JSON value since.
\* (updateBatchExecutionControl; holds while requests do not overlap.)
FlagsAsAsked == (\A r \in Requests : At(r, "idle")) => meta.paused = asked

\* A deleted batch stays paused, so that no job of it that is handed out later
\* runs, although DELETE writes back metadata older than its own pause.  (DELETE
\* /imports/:id; holds while requests do not overlap.)
DeletedIsPaused == meta.hidden => meta.paused["batch"] /\ meta.deleteRequested
=============================================================================
