--------------------------- MODULE ImportRuntime ---------------------------
(***************************************************************************)
(* The execution runtime of an import batch: the rows of                   *)
(* bronze.import_runtime_jobs, the BullMQ jobs that carry the work, the    *)
(* producers that enqueue it, the enrichment workers that run it and the   *)
(* API requests that pause, resume and recover it                          *)
(* (workers/shared/src/import-execution.ts, the wrapper of                 *)
(* workers/enrichment/src/main.ts, the control routes of                   *)
(* apps/api/src/routes/imports-bronze.ts).                                 *)
(*                                                                         *)
(* None of these parties shares a transaction with another.  Each "await"  *)
(* on PostgreSQL or Redis is a step of its own here, so the gap between    *)
(* reading the pause flags and writing the row, and between adding a       *)
(* BullMQ job and writing the row, is open to everyone else.               *)
(***************************************************************************)
EXTENDS Naturals

CONSTANTS
  Keys,             \* runtimeJobKey values of the batch
  Workers,          \* worker (queue) names
  WorkerOf,         \* the worker a runtime job key belongs to
  Requests,         \* resume requests the API may be serving at one time
  MaxAttempts,      \* BullMQ "attempts" of the job a producer adds
  MaxRecovery,      \* import_runtime_jobs.max_recovery_attempts
  MaxStalledCount,  \* BullMQ worker option: stalls a job survives
  PauseScopes,      \* the pause flags an operator touches
  Modes,            \* the resume modes an operator asks for
  Reporting,        \* the workers that report progress while they run
  FailingKeys,      \* keys whose execution may throw (bound)
  DyingKeys,        \* keys whose worker process may die (bound)
  DyingRequests,    \* resume requests the API may die in (bound)
  MaxEnqueues,      \* enqueues of one key (bound)
  MaxPauses,        \* pause requests (bound)
  MaxResumes        \* resume requests (bound)

Scopes == {"global", "batch"} \cup Workers

ASSUME KeysAssumption    == WorkerOf \in [Keys -> Workers]
ASSUME ScopesAssumption  == /\ PauseScopes \subseteq Scopes
                            /\ {"global", "batch"} \cap Workers = {}
ASSUME ModesAssumption   == Modes \subseteq {"resume", "recover"}
ASSUME LimitsAssumption  == /\ MaxAttempts \in Nat \ {0}
                            /\ MaxRecovery \in Nat
                            /\ MaxStalledCount \in Nat
ASSUME BoundsAssumption  == /\ MaxEnqueues \in Nat
                            /\ MaxPauses \in Nat
                            /\ MaxResumes \in Nat

VARIABLES
  control,    \* [Scopes -> BOOLEAN]: globalPaused, batchPaused, workerPauses
  row,        \* state column of the import_runtime_jobs row of a key
  used,       \* its attempts_used column
  bull,       \* BullMQ's record of a job id
  made,       \* BullMQ's attemptsMade of a job id
  stalls,     \* BullMQ's stalled counter of a job id
  exec,       \* where the worker executing a job id stands
  enq,        \* where the producer of a key stands
  enqueues,   \* enqueueImportJob calls made for a key
  req,        \* the resume requests being served
  pauses,     \* pause requests served
  resumes,    \* resume requests served
  processed,  \* history: some execution ran the processor of the key to its end
  touched     \* history: what happened to a key beyond one plain enqueue

control_vars == <<control, pauses>>
row_vars     == <<row, used>>
bull_vars    == <<bull, made, stalls>>
enq_vars     == <<enq, enqueues>>
req_vars     == <<req, resumes>>
hist_vars    == <<processed, touched>>
vars == <<control, row, used, bull, made, stalls, exec, enq, enqueues, req,
          pauses, resumes, processed, touched>>

-----------------------------------------------------------------------------
(* Job ids.  A producer's job of key k is <<k, 0>> (the rt__ id); the job   *)
(* that resume attempt n of k adds is <<k, n>> (the resume__ id).           *)

JobIds == Keys \X (0 .. MaxRecovery + 1)

Attempts(j) == IF j[2] = 0 THEN MaxAttempts ELSE 1

RowStates == {"absent", "queued", "running", "paused", "recovering",
              "completed", "failed", "terminal_error_skipped"}

BullStates == {"absent", "waiting", "active", "completed", "failed"}

\* A step named "..._paused" remembers that the control read found a flag set.
ExecSteps == {"idle", "begun", "begun_paused", "processing", "reporting",
              "reporting_paused", "done", "completed", "acking", "failing", "nacking"}

EnqSteps == {"idle", "read", "read_paused", "written"}

\* Rows resumeImportRuntimeJobs selects.  "stale" is in its list too, but no
\* code writes that state to the table.
ResumableStates == {"paused", "failed"}

IdleRequest == [step |-> "idle", scope |-> "global", mode |-> "resume",
                todo |-> {}, writing |-> {}, state |-> [k \in Keys |-> "absent"],
                used |-> [k \in Keys |-> 0]]

\* The pause flags a worker or a producer of key k looks at.
IsPaused(k) == control["global"] \/ control["batch"] \/ control[WorkerOf[k]]

\* queue.add with an explicit job id: BullMQ ignores it when it still holds a
\* job of that id, whatever that job's state.
QueueAdd(j) ==
  bull' = [bull EXCEPT ![j] = IF @ = "absent" THEN "waiting" ELSE @]

Init ==
  /\ control   = [s \in Scopes |-> FALSE]
  /\ row       = [k \in Keys |-> "absent"]
  /\ used      = [k \in Keys |-> 0]
  /\ bull      = [j \in JobIds |-> "absent"]
  /\ made      = [j \in JobIds |-> 0]
  /\ stalls    = [j \in JobIds |-> 0]
  /\ exec      = [j \in JobIds |-> "idle"]
  /\ enq       = [k \in Keys |-> "idle"]
  /\ enqueues  = [k \in Keys |-> 0]
  /\ req       = [r \in Requests |-> IdleRequest]
  /\ pauses    = 0
  /\ resumes   = 0
  /\ processed = [k \in Keys |-> FALSE]
  /\ touched   = [k \in Keys |-> {}]

-----------------------------------------------------------------------------
(* Producers: enqueueImportJob.                                             *)

\* The control read.  A second call for a key happens when the job that
\* enqueues it is itself retried: the key is a hash of the same inputs.
EnqueueRead(k) ==
  /\ enq[k] = "idle"
  /\ enqueues[k] < MaxEnqueues
  /\ enq'      = [enq EXCEPT ![k] = IF IsPaused(k) THEN "read_paused" ELSE "read"]
  /\ enqueues' = [enqueues EXCEPT ![k] = @ + 1]
  /\ touched'  = [touched EXCEPT ![k] = IF enqueues[k] > 0
                                        THEN @ \cup {"enqueued_again"} ELSE @]
  /\ UNCHANGED <<control_vars, row_vars, bull_vars, exec, req_vars, processed>>

\* Mutant of EnqueueWrite: only a paused job gets its row before the queue does.
EnqueueWriteOnlyPaused(k) ==
  /\ enq[k] \in {"read", "read_paused"}
  /\ row' = [row EXCEPT ![k] = IF enq[k] = "read_paused" THEN "paused" ELSE @]
  /\ enq' = [enq EXCEPT ![k] = IF enq[k] = "read_paused" THEN "idle" ELSE "written"]
  /\ UNCHANGED <<control_vars, used, bull_vars, exec, enqueues, req_vars, hist_vars>>

\* The upsert of the row, whatever state the row was in.
EnqueueWrite(k) ==
  /\ enq[k] \in {"read", "read_paused"}
  /\ row' = [row EXCEPT ![k] = IF enq[k] = "read_paused" THEN "paused" ELSE "queued"]
  /\ enq' = [enq EXCEPT ![k] = IF enq[k] = "read_paused" THEN "idle" ELSE "written"]
  /\ UNCHANGED <<control_vars, used, bull_vars, exec, enqueues, req_vars, hist_vars>>

EnqueueAdd(k) ==
  /\ enq[k] = "written"
  /\ QueueAdd(<<k, 0>>)
  /\ enq' = [enq EXCEPT ![k] = "idle"]
  /\ UNCHANGED <<control_vars, row_vars, made, stalls, exec, enqueues, req_vars, hist_vars>>

\* The producer dies, or an await of its call throws, before the job is added.
EnqueueDies(k) ==
  /\ enq[k] # "idle"
  /\ enq'     = [enq EXCEPT ![k] = "idle"]
  /\ touched' = [touched EXCEPT ![k] = @ \cup {"producer_died"}]
  /\ UNCHANGED <<control_vars, row_vars, bull_vars, exec, enqueues, req_vars, processed>>

-----------------------------------------------------------------------------
(* Workers: the processor wrapper of main.ts around beginImportRuntimeJob,  *)
(* updateImportRuntimeProgress, completeImportRuntimeJob and                *)
(* failImportRuntimeJob.                                                    *)

MoveExec(j, from, to) ==
  /\ exec[j] = from
  /\ exec' = [exec EXCEPT ![j] = to]

\* The job's worker reads the pause flags on its way to the next write.
ReadControl(j, from, open, paused) ==
  MoveExec(j, from, IF IsPaused(j[1]) THEN paused ELSE open)

WriteRow(j, state) == row' = [row EXCEPT ![j[1]] = state]

\* BullMQ hands the job to a worker, which reads the control flags.
Take(j) ==
  /\ bull[j] = "waiting"
  /\ ReadControl(j, "idle", "begun", "begun_paused")
  /\ bull' = [bull EXCEPT ![j] = "active"]
  /\ UNCHANGED <<control_vars, row_vars, made, stalls, enq_vars, req_vars, hist_vars>>

\* Mutant of BeginWrite: a paused job is acknowledged but its row is not marked.
BeginWriteUnmarked(j) ==
  /\ \/ MoveExec(j, "begun", "processing")
     \/ MoveExec(j, "begun_paused", "acking")
  /\ WriteRow(j, "running")
  /\ UNCHANGED <<control_vars, used, bull_vars, enq_vars,
                 req_vars, hist_vars>>

\* Mutant of BeginWrite: the wrapper completes a job that begin reported paused.
BeginWriteCompletesPaused(j) ==
  /\ \/ MoveExec(j, "begun", "processing") /\ WriteRow(j, "running")
     \/ MoveExec(j, "begun_paused", "done") /\ WriteRow(j, "paused")
  /\ UNCHANGED <<control_vars, used, bull_vars, enq_vars,
                 req_vars, hist_vars>>

\* The upsert of beginImportRuntimeJob.  A paused job is acknowledged without
\* being processed.
BeginWrite(j) ==
  /\ \/ MoveExec(j, "begun", "processing") /\ WriteRow(j, "running")
     \/ MoveExec(j, "begun_paused", "acking") /\ WriteRow(j, "paused")
  /\ UNCHANGED <<control_vars, used, bull_vars, enq_vars,
                 req_vars, hist_vars>>

ProgressRead(j) ==
  /\ WorkerOf[j[1]] \in Reporting
  /\ ReadControl(j, "processing", "reporting", "reporting_paused")
  /\ UNCHANGED <<control_vars, row_vars, bull_vars, enq_vars, req_vars, hist_vars>>

\* The parsers report progress after each flush and carry on whether or not
\* the report says that the import is paused.
ProgressWrite(j) ==
  /\ \/ MoveExec(j, "reporting", "processing") /\ WriteRow(j, "running")
     \/ MoveExec(j, "reporting_paused", "processing") /\ WriteRow(j, "paused")
  /\ UNCHANGED <<control_vars, used, bull_vars, enq_vars, req_vars, hist_vars>>

ProcessorReturns(j) ==
  /\ MoveExec(j, "processing", "done")
  /\ processed' = [processed EXCEPT ![j[1]] = TRUE]
  /\ UNCHANGED <<control_vars, row_vars, bull_vars, enq_vars,
                 req_vars, touched>>

CompleteWrite(j) ==
  /\ MoveExec(j, "done", "completed")
  /\ WriteRow(j, "completed")
  /\ UNCHANGED <<control_vars, used, bull_vars, enq_vars,
                 req_vars, hist_vars>>

\* The wrapper returned: BullMQ moves the job to completed and keeps it.
Acknowledge(j) ==
  /\ exec[j] \in {"completed", "acking"}
  /\ exec' = [exec EXCEPT ![j] = "idle"]
  /\ bull' = [bull EXCEPT ![j] = "completed"]
  /\ UNCHANGED <<control_vars, row_vars, made, stalls, enq_vars,
                 req_vars, hist_vars>>

\* An await inside the try block rejects: the begin upsert, the processor, a
\* progress report, or the writes of completeImportRuntimeJob before or after
\* the row reads "completed".
Throws(j) ==
  /\ j[1] \in FailingKeys
  /\ exec[j] \in ExecSteps \ {"idle", "acking", "failing", "nacking"}
  /\ exec' = [exec EXCEPT ![j] = "failing"]
  /\ UNCHANGED <<control_vars, row_vars, bull_vars, enq_vars,
                 req_vars, hist_vars>>

\* Mutant of FailWrite: a state the table does not have.
FailWriteUnknownState(j) ==
  /\ MoveExec(j, "failing", "nacking")
  /\ WriteRow(j, "retrying")
  /\ UNCHANGED <<control_vars, used, bull_vars, enq_vars,
                 req_vars, hist_vars>>

FailWrite(j) ==
  /\ MoveExec(j, "failing", "nacking")
  /\ WriteRow(j, "failed")
  /\ UNCHANGED <<control_vars, used, bull_vars, enq_vars,
                 req_vars, hist_vars>>

\* Mutant of Reject: a failed attempt is not counted.
RejectUncounted(j) ==
  /\ MoveExec(j, "nacking", "idle")
  /\ bull' = [bull EXCEPT ![j] = IF made[j] + 1 < Attempts(j)
                                 THEN "waiting" ELSE "failed"]
  /\ UNCHANGED <<control_vars, row_vars, made, stalls, enq_vars,
                 req_vars, hist_vars>>

\* The wrapper rethrew: BullMQ retries the job until its attempts are used.
Reject(j) ==
  /\ MoveExec(j, "nacking", "idle")
  /\ made' = [made EXCEPT ![j] = @ + 1]
  /\ bull' = [bull EXCEPT ![j] = IF made[j] + 1 < Attempts(j)
                                 THEN "waiting" ELSE "failed"]
  /\ UNCHANGED <<control_vars, row_vars, stalls, enq_vars,
                 req_vars, hist_vars>>

\* The worker process dies with the job in hand.
WorkerDies(j) ==
  /\ j[1] \in DyingKeys
  /\ exec[j] # "idle"
  /\ exec' = [exec EXCEPT ![j] = "idle"]
  /\ UNCHANGED <<control_vars, row_vars, bull_vars, enq_vars,
                 req_vars, hist_vars>>

\* BullMQ's stalled check: the lock of an active job ran out.  The job goes
\* back to waiting, or is failed without the wrapper knowing.
StalledCheck(j) ==
  /\ bull[j] = "active" /\ exec[j] = "idle"
  /\ stalls' = [stalls EXCEPT ![j] = @ + 1]
  /\ bull'   = [bull EXCEPT ![j] = IF stalls[j] + 1 > MaxStalledCount
                                   THEN "failed" ELSE "waiting"]
  /\ touched' = [touched EXCEPT ![j[1]] = IF stalls[j] + 1 > MaxStalledCount
                                          THEN @ \cup {"stalled_out"} ELSE @]
  /\ UNCHANGED <<control_vars, row_vars, made, exec, enq_vars, req_vars, processed>>

-----------------------------------------------------------------------------
(* The API: pause, and resume or recover (resumeImportRuntimeJobs).         *)

Pause(s) ==
  /\ pauses < MaxPauses
  /\ pauses'  = pauses + 1
  /\ control' = [control EXCEPT ![s] = TRUE]
  /\ UNCHANGED <<row_vars, bull_vars, exec, enq_vars, req_vars, hist_vars>>

MoveRequest(r, next) == req' = [req EXCEPT ![r] = next]

\* The route clears the flag of its scope first.
ResumeClear(r, s, m) ==
  /\ req[r].step = "idle"
  /\ resumes < MaxResumes
  /\ resumes' = resumes + 1
  /\ control' = [control EXCEPT ![s] = FALSE]
  /\ MoveRequest(r, [IdleRequest EXCEPT !.step = "cleared", !.scope = s, !.mode = m])
  /\ UNCHANGED <<pauses, row_vars, bull_vars, exec, enq_vars, hist_vars>>

InScope(k, s) == s \in Workers => WorkerOf[k] = s

\* The SELECT: from here on the request works on this copy of the rows.
ResumeSelect(r) ==
  /\ req[r].step = "cleared"
  /\ MoveRequest(r, [req[r] EXCEPT
       !.step  = "loop",
       !.todo  = {k \in Keys : row[k] \in ResumableStates /\ InScope(k, req[r].scope)},
       !.state = row,
       !.used  = used])
  /\ UNCHANGED <<control_vars, row_vars, bull_vars, exec, enq_vars, resumes, hist_vars>>

IsRecover(r, k) == req[r].mode = "recover" \/ req[r].state[k] = "failed"

\* Mutant of Exhausted: one recovery too many.
ExhaustedLate(r, k) == IsRecover(r, k) /\ req[r].used[k] > MaxRecovery

Exhausted(r, k) == IsRecover(r, k) /\ req[r].used[k] >= MaxRecovery

ResumeJob(r, k) == <<k, req[r].used[k] + 1>>

\* No recovery attempt is left in the copy of the row: the row is closed.
ResumeSkip(r, k) ==
  /\ req[r].step = "loop" /\ req[r].writing = {} /\ k \in req[r].todo
  /\ Exhausted(r, k)
  /\ row' = [row EXCEPT ![k] = "terminal_error_skipped"]
  /\ MoveRequest(r, [req[r] EXCEPT !.todo = @ \ {k}])
  /\ UNCHANGED <<control_vars, used, bull_vars, exec, enq_vars, resumes, hist_vars>>

\* The job is added before the row is written.
ResumeAdd(r, k) ==
  /\ req[r].step = "loop" /\ req[r].writing = {} /\ k \in req[r].todo
  /\ ~Exhausted(r, k)
  /\ QueueAdd(ResumeJob(r, k))
  /\ MoveRequest(r, [req[r] EXCEPT !.todo = @ \ {k}, !.writing = {k}])
  /\ touched' = [touched EXCEPT ![k] = @ \cup {"resumed"}]
  /\ UNCHANGED <<control_vars, row_vars, made, stalls, exec, enq_vars,
                 resumes, processed>>

\* Mutant of ResumeWrite: a plain resume forgets the recoveries already spent.
ResumeWriteForgets(r, k) ==
  /\ k \in req[r].writing
  /\ row'  = [row EXCEPT ![k] = IF IsRecover(r, k) THEN "recovering" ELSE "queued"]
  /\ used' = [used EXCEPT ![k] = IF IsRecover(r, k) THEN req[r].used[k] + 1 ELSE 0]
  /\ MoveRequest(r, [req[r] EXCEPT !.writing = {}])
  /\ UNCHANGED <<control_vars, bull_vars, exec, enq_vars, resumes, hist_vars>>

\* The row is written from the copy, whatever became of it since.
ResumeWrite(r, k) ==
  /\ k \in req[r].writing
  /\ row'  = [row EXCEPT ![k] = IF IsRecover(r, k) THEN "recovering" ELSE "queued"]
  /\ used' = [used EXCEPT ![k] = IF IsRecover(r, k) THEN req[r].used[k] + 1
                                                    ELSE req[r].used[k]]
  /\ MoveRequest(r, [req[r] EXCEPT !.writing = {}])
  /\ UNCHANGED <<control_vars, bull_vars, exec, enq_vars, resumes, hist_vars>>

\* The API process dies, or an await throws, part way through the rows.
ResumeDies(r) ==
  /\ r \in DyingRequests
  /\ req[r].step # "idle"
  /\ MoveRequest(r, IdleRequest)
  /\ UNCHANGED <<control_vars, row_vars, bull_vars, exec, enq_vars, resumes, hist_vars>>

\* Every row of the copy was dealt with and the response is sent.
ResumeEnd(r) ==
  /\ req[r].step = "loop" /\ req[r].todo = {} /\ req[r].writing = {}
  /\ MoveRequest(r, IdleRequest)
  /\ UNCHANGED <<control_vars, row_vars, bull_vars, exec, enq_vars, resumes, hist_vars>>

-----------------------------------------------------------------------------

\* enqueueImportJobBulk takes the same three steps for all its keys at once; its
\* keys are enqueued one by one here.
Producer(k) == EnqueueRead(k) \/ EnqueueWrite(k) \/ EnqueueAdd(k) \/ EnqueueDies(k)

Worker(j) ==
  \/ Take(j) \/ BeginWrite(j) \/ ProgressRead(j) \/ ProgressWrite(j)
  \/ ProcessorReturns(j) \/ CompleteWrite(j) \/ Acknowledge(j)
  \/ Throws(j) \/ FailWrite(j) \/ Reject(j)

Request(r) ==
  \/ \E s \in PauseScopes, m \in Modes : ResumeClear(r, s, m)
  \/ ResumeSelect(r)
  \/ \E k \in Keys : ResumeSkip(r, k) \/ ResumeAdd(r, k) \/ ResumeWrite(r, k)
  \/ ResumeEnd(r) \/ ResumeDies(r)

Next ==
  \/ \E k \in Keys : Producer(k)
  \/ \E j \in JobIds : Worker(j) \/ WorkerDies(j) \/ StalledCheck(j)
  \/ \E s \in PauseScopes : Pause(s)
  \/ \E r \in Requests : Request(r)

Spec == Init /\ [][Next]_vars

\* BullMQ keeps handing out waiting jobs, a live worker gets to its next await,
\* a processor that reports progress does so finitely often (its file has an
\* end), and the stalled check runs every stalledInterval.
Fairness ==
  \A j \in JobIds :
    /\ WF_vars(Take(j) \/ BeginWrite(j) \/ ProgressWrite(j) \/ CompleteWrite(j)
               \/ Acknowledge(j) \/ FailWrite(j) \/ Reject(j))
    /\ SF_vars(ProcessorReturns(j))
    /\ WF_vars(StalledCheck(j))

FairSpec == Spec /\ Fairness

-----------------------------------------------------------------------------
(* Properties.                                                              *)

RequestRecord ==
  [step : {"idle", "cleared", "loop"}, scope : Scopes, mode : {"resume", "recover"},
   todo : SUBSET Keys, writing : SUBSET Keys,
   state : [Keys -> RowStates], used : [Keys -> Nat]]

Causes == {"enqueued_again", "producer_died", "stalled_out", "resumed"}

\* Type correctness: every column, BullMQ field and step has one of its values.
TypeOK ==
  /\ control   \in [Scopes -> BOOLEAN]
  /\ row       \in [Keys -> RowStates]
  /\ used      \in [Keys -> Nat]
  /\ bull      \in [JobIds -> BullStates]
  /\ made      \in [JobIds -> Nat]
  /\ stalls    \in [JobIds -> Nat]
  /\ exec      \in [JobIds -> ExecSteps]
  /\ enq       \in [Keys -> EnqSteps]
  /\ enqueues  \in [Keys -> Nat]
  /\ req       \in [Requests -> RequestRecord]
  /\ pauses    \in Nat
  /\ resumes   \in Nat
  /\ processed \in [Keys -> BOOLEAN]
  /\ touched   \in [Keys -> SUBSET Causes]

\* BullMQ still holds a job of the key that has not finished.
Live(k) == \E n \in 0 .. MaxRecovery + 1 : bull[<<k, n>>] \in {"waiting", "active"}

\* Somebody is between two writes about the key and will add its job.
BeingEnqueued(k) == enq[k] # "idle"

\* The key has a row that says there is work to do, the work was never done,
\* and nothing is left that would do it: no BullMQ job, no producer on its way,
\* and the row is in no state that a resume request selects.
Lost(k) ==
  /\ row[k] \notin ResumableStates \cup {"absent", "terminal_error_skipped"}
  /\ ~processed[k]
  /\ ~Live(k)
  /\ ~BeingEnqueued(k)

\* A job that was enqueued once by a producer that lived, was never resumed and
\* never outlasted its stalls is not lost, whatever pauses, failed attempts and
\* worker crashes it meets.  (enqueueImportJob, beginImportRuntimeJob,
\* failImportRuntimeJob and BullMQ's retries taken together.)
LossHasCause == \A k \in Keys : Lost(k) => touched[k] # {}

\* A row reads "completed" only if the processor of its key ran to the end at
\* least once: a job acknowledged because of a pause is never taken for done.
CompletedWasProcessed == \A k \in Keys : row[k] = "completed" => processed[k]

\* However many recover requests overlap, each working on its own old copy of
\* the row, a row never records more recoveries than max_recovery_attempts.
RecoveryBudget == \A k \in Keys : used[k] <= MaxRecovery

\* BullMQ never holds a job whose key has no row: the API can show, pause and
\* recover everything that may run.
TrackedJobs == \A j \in JobIds : bull[j] # "absent" => row[j[1]] # "absent"

\* The recoveries a row has spent never go down.  (Holds while resume requests
\* do not overlap.)
SpentRecoveriesStay == [][\A k \in Keys : used'[k] >= used[k]]_used

\* Every job BullMQ holds is finished in the end, through pauses, failed
\* attempts, retries, worker crashes and stalled checks.
JobsFinish ==
  \A j \in JobIds : bull[j] = "waiting" ~> bull[j] \in {"completed", "failed"}
=============================================================================
