------------------------------ MODULE FileIngest ------------------------------
(***************************************************************************)
(* One uploaded file on its way into bronze_contacts: the three parsers    *)
(* (A1 for small files and for large ones, A2), the counters they write to *)
(* the batch, the checkpoints they write to their runtime row, and the     *)
(* retries of BullMQ and of the operator, which start from either          *)
(* (workers/enrichment/src/workers/a1-csv-parser.ts, a2-excel-parser.ts,   *)
(* ingest-utils.ts, the retry route of apps/api/src/routes/                *)
(* imports-bronze.ts).  A parser keeps what it has read and the ids it     *)
(* means to dispatch in memory.                                            *)
(*                                                                         *)
(* No two rows of the file are equal, each carries an identifier nobody    *)
(* else has, and the table refuses none.  The control reads of the wrapper *)
(* and the steps of the resume route are taken together here: ImportRuntime*)
(* and ImportBatch take them apart.  ContactPipeline has the jobs that a   *)
(* dispatch adds; what they write to the row they share with the parser is *)
(* left out.                                                               *)
(***************************************************************************)
EXTENDS Naturals, FiniteSets

CONSTANTS
    Last,          \* data rows of the file, numbered from 1
    Sheet,         \* the sheet a row is on
    Kinds,         \* the parsers a file may need: "small", "stream", "excel"
    Chunk,         \* rows of one flush (INSERT_BATCH_SIZE)
    MaxAttempts,   \* BullMQ "attempts" of the job a producer adds
    MaxStalled,    \* BullMQ maxStalledCount
    MaxRecovery,   \* import_runtime_jobs.max_recovery_attempts
    MaxEvents,     \* what an operator asks for, and attempts that throw or die (bound)
    MaxRetries,    \* retries an operator asks for (bound)
    ThrowAt,       \* the steps at which an await may reject (bound)
    DieAt          \* the steps at which the process may die (bound)

Lines == 1 .. Last

ASSUME FileAssumption ==
    /\ Last \in Nat
    /\ Sheet \in [Lines -> Nat]
    /\ \A r, s \in Lines : r <= s => Sheet[r] <= Sheet[s]
    /\ Kinds \subseteq {"small", "stream", "excel"}
    /\ Chunk \in Nat \ {0}

ASSUME LimitsAssumption ==
    /\ MaxAttempts \in Nat \ {0}
    /\ MaxStalled \in Nat /\ MaxRecovery \in Nat /\ MaxRetries \in Nat
    /\ MaxEvents \in Nat
    /\ ThrowAt \subseteq {"inserting", "resolving", "counting", "reporting", "completing",
                         "dispatching", "failing"}
    /\ DieAt \subseteq {"reading", "inserting", "resolving", "counting", "reporting",
                       "completing", "dispatching", "returning", "failing", "closing"}

Counts == 0 .. Last

\* Where a job starts: the rows counted so far, those of them that became a row, an
\* error or a duplicate, and the row after which an Excel checkpoint goes on
Payload == [processed : Counts, settled : Counts, cursor : Counts]

Fresh == [processed |-> 0, settled |-> 0, cursor |-> 0]

\* Key 0 is the upload's, key n that of the n-th retry; <<k, 0>> is the job a producer
\* adds, <<k, n>> that of the n-th resume
Keys   == 0 .. MaxRetries
JobIds == Keys \X (0 .. MaxRecovery + 1)

Attempts(j) == IF j[2] = 0 THEN MaxAttempts ELSE 1

Live == {"reading", "inserting", "resolving", "counting", "reporting", "completing",
         "dispatching", "returning", "failing", "closing"}

\* A job and the memory of its parser: the size of the chunk at hand, its rows not yet
\* looked at, and the ids to dispatch
Job == [step : {"absent", "waiting", "done", "stalled"} \cup Live,
        made : Nat, stalls : Nat, data : Payload,
        pos : Counts, processed : Counts, settled : Counts,
        size : Counts, open : SUBSET Lines, ids : SUBSET Lines]

RuntimeRow == [state : {"absent", "queued", "running", "paused", "recovering", "completed",
                        "failed", "terminal_error_skipped"},
               used : Nat, resume : Payload]

Batch == [status : {"pending", "processing", "completed", "failed"},
          processed : Counts, settled : Counts]

VARIABLES
    kind,        \* the parser of this file
    batch,       \* status and counters of the batch
    copies,      \* how often a row is in bronze_contacts; 2 stands for more than once
    row,         \* the runtime rows
    job,         \* BullMQ's jobs
    paused,      \* a pause flag is set
    asked,       \* the payload of the retry request being served
    events,      \* requests and faults so far
    retries,     \* retry requests so far
    dispatched,  \* rows sent to the normalisers
    abandoned,   \* history: rows found new that nobody will send
    skipped      \* history: rows an Excel parser passed over when it resumed

request_vars == <<paused, asked, retries>>
vars == <<kind, batch, copies, row, job, request_vars, events, dispatched, abandoned, skipped>>

NoJob == [step |-> "absent", made |-> 0, stalls |-> 0, data |-> Fresh, pos |-> 0,
          processed |-> 0, settled |-> 0, size |-> 0, open |-> {}, ids |-> {}]

\* The upload has stored the file and enqueued its parser
Init ==
    /\ kind \in Kinds
    /\ batch = [status |-> "pending", processed |-> 0, settled |-> 0]
    /\ copies = [r \in Lines |-> 0]
    /\ row = [k \in Keys |-> [state |-> IF k = 0 THEN "queued" ELSE "absent",
                              used |-> 0, resume |-> Fresh]]
    /\ job = [j \in JobIds |-> IF j = <<0, 0>> THEN [NoJob EXCEPT !.step = "waiting"] ELSE NoJob]
    /\ paused = FALSE
    /\ asked = {}
    /\ events = 0
    /\ retries = 0
    /\ dispatched = {}
    /\ abandoned = {}
    /\ skipped = {}

-----------------------------------------------------------------------------
(* The parser *)

At(j, step) == job[j].step = step

Goto(j, step) == job' = [job EXCEPT ![j].step = step]

WriteRow(j, state, resume) ==
    row' = [row EXCEPT ![j[1]].state = state, ![j[1]].resume = resume]

\* The batch is given the parser's own totals
Count(j, status) ==
    batch' = [status |-> status, processed |-> job[j].processed, settled |-> job[j].settled]

Larger(a, b)  == IF a > b THEN a ELSE b
Smaller(a, b) == IF a < b THEN a ELSE b

RowsBefore(r) == Cardinality({s \in Lines : Sheet[s] < Sheet[r]})

\* Where the payload says that reading goes on ...
GoesOn(d) == IF d.cursor = 0 THEN d.processed ELSE d.cursor

\* ... and where it does: A2 passes over the sheets before that of the cursor, and
\* then over as many rows as were counted on all of them
Start(d) ==
    IF d.cursor = 0 THEN d.processed
    ELSE Smaller(Last, Larger(d.cursor, RowsBefore(d.cursor) + d.processed))

\* beginImportRuntimeJob: a paused job is acknowledged and not run
Begin(j) ==
    LET d == job[j].data IN
    /\ At(j, "waiting")
    /\ \/ /\ paused
          /\ WriteRow(j, "paused", d)
          /\ Goto(j, "done")
          /\ UNCHANGED skipped
       \/ /\ ~paused
          /\ WriteRow(j, "running", d)
          /\ job' = [job EXCEPT ![j] = [@ EXCEPT !.step = "reading", !.pos = Start(d),
                                                 !.processed = d.processed, !.settled = d.settled]]
          /\ skipped' = skipped \cup (GoesOn(d) + 1 .. Start(d))
    /\ UNCHANGED <<kind, batch, copies, request_vars, events, dispatched, abandoned>>

\* The last row of the chunk that begins after row p: a small file is one chunk, an
\* Excel file is flushed at the end of each sheet
ChunkEnd(p) ==
    CASE kind = "small"  -> Last
      [] kind = "stream" -> Smaller(Last, p + Chunk)
      [] OTHER           -> Smaller(p + Chunk, Cardinality({r \in Lines : Sheet[r] <= Sheet[p + 1]}))

\* Mutant: What is read is taken for settled.
ReadChunkSettled(j) ==
    LET p   == job[j].pos
        end == ChunkEnd(p) IN
    /\ At(j, "reading")
    /\ kind = "small" \/ p < Last
    /\ job' = [job EXCEPT ![j] = [@ EXCEPT
                 !.step = "inserting", !.pos = end, !.open = p + 1 .. end,
                 !.processed = end, !.settled = end]]
    /\ UNCHANGED <<kind, batch, copies, row, request_vars, events, dispatched, abandoned, skipped>>

\* A chunk is read; the small-file parser, which reads even when nothing is left, does
\* not count it yet
ReadChunk(j) ==
    LET p   == job[j].pos
        end == ChunkEnd(p) IN
    /\ At(j, "reading")
    /\ kind = "small" \/ p < Last
    /\ job' = [job EXCEPT ![j] = [job[j] EXCEPT
                 !.step = "inserting", !.pos = end, !.size = end - p, !.open = p + 1 .. end,
                 !.processed = IF kind = "small" THEN @ ELSE @ + (end - p)]]
    /\ UNCHANGED <<kind, batch, copies, row, request_vars, events, dispatched, abandoned, skipped>>

\* The INSERT of insertBronzePayloadSafely
Insert(j) ==
    /\ At(j, "inserting")
    /\ copies' = [r \in Lines |-> IF r \in job[j].open THEN Smaller(2, copies[r] + 1) ELSE copies[r]]
    /\ Goto(j, "resolving")
    /\ UNCHANGED <<kind, batch, row, request_vars, events, dispatched, abandoned, skipped>>

\* Mutant: Only a row that was dispatched makes a later one a duplicate.
ResolveByDispatched(j) ==
    \E r \in job[j].open :
        /\ At(j, "resolving")
        /\ \A s \in job[j].open : r <= s
        /\ job' = [job EXCEPT ![j].open = @ \ {r},
                              ![j].ids = IF r \in dispatched THEN @ ELSE @ \cup {r}]
        /\ UNCHANGED <<kind, batch, copies, row, request_vars, events, dispatched, abandoned, skipped>>

\* resolveInsertedBronzeRow: the row is a duplicate when the table holds another with
\* its content, one of the same attempt's or of another's, resolved or not
Resolve(j) ==
    \E r \in job[j].open :
        /\ At(j, "resolving")
        /\ \A s \in job[j].open : r <= s
        /\ job' = [job EXCEPT ![j].open = @ \ {r},
                              ![j].ids = IF copies[r] > 1 THEN @ ELSE @ \cup {r}]
        /\ UNCHANGED <<kind, batch, copies, row, request_vars, events, dispatched, abandoned, skipped>>

\* Mutant: The rows are counted here although they were counted when read.
SettleCounted(j) ==
    /\ At(j, "resolving") /\ job[j].open = {}
    /\ job' = [job EXCEPT ![j] = [job[j] EXCEPT
                 !.step = IF kind = "small" THEN "completing" ELSE "counting",
                 !.processed = @ + job[j].size,
                 !.settled = @ + job[j].size,
                 !.size = 0]]
    /\ UNCHANGED <<kind, batch, copies, row, request_vars, events, dispatched, abandoned, skipped>>

\* insertBronzeRows returns and the parser adds to its totals
Settle(j) ==
    /\ At(j, "resolving") /\ job[j].open = {}
    /\ job' = [job EXCEPT ![j] = [job[j] EXCEPT
                 !.step = IF kind = "small" THEN "completing" ELSE "counting",
                 !.processed = IF kind = "small" THEN @ + job[j].size ELSE @,
                 !.settled = @ + job[j].size,
                 !.size = 0]]
    /\ UNCHANGED <<kind, batch, copies, row, request_vars, events, dispatched, abandoned, skipped>>

\* updateImportBatchCounters after a flush
CountRows(j) ==
    /\ At(j, "counting")
    /\ Count(j, "processing")
    /\ Goto(j, "reporting")
    /\ UNCHANGED <<kind, copies, row, request_vars, events, dispatched, abandoned, skipped>>

\* updateImportRuntimeProgress: the checkpoint.  Neither parser stops when it says "paused"
Report(j) ==
    /\ At(j, "reporting")
    /\ WriteRow(j, IF paused THEN "paused" ELSE "running",
                [processed |-> job[j].processed, settled |-> job[j].settled,
                 cursor |-> IF kind = "excel" THEN job[j].pos ELSE 0])
    /\ Goto(j, "reading")
    /\ UNCHANGED <<kind, batch, copies, request_vars, events, dispatched, abandoned, skipped>>

\* The batch is completed before anything is dispatched
Complete(j) ==
    /\ \/ At(j, "completing")
       \/ At(j, "reading") /\ kind # "small" /\ job[j].pos = Last
    /\ Count(j, "completed")
    /\ Goto(j, "dispatching")
    /\ UNCHANGED <<kind, copies, row, request_vars, events, dispatched, abandoned, skipped>>

\* triggerNormalizationForContacts and triggerAnafBronzeEnrichment.  What is enqueued while
\* the import is paused is a row under the parser's own key, which Return overwrites
Dispatch(j) ==
    /\ At(j, "dispatching") /\ Cardinality(job[j].ids) <= 1
    /\ IF paused
       THEN abandoned' = abandoned \cup job[j].ids /\ UNCHANGED dispatched
       ELSE dispatched' = dispatched \cup job[j].ids /\ UNCHANGED abandoned
    /\ job' = [job EXCEPT ![j].step = "returning", ![j].ids = {}]
    /\ UNCHANGED <<kind, batch, copies, row, request_vars, events, skipped>>

\* The parser's own catch is reached; what it meant to dispatch goes with it
Fails(j) ==
    /\ job' = [job EXCEPT ![j].step = "failing", ![j].ids = {}, ![j].open = {}]
    /\ abandoned' = abandoned \cup job[j].ids
    /\ UNCHANGED <<kind, batch, copies, row, request_vars, dispatched, skipped>>

\* PostgreSQL refuses the rows of two jobs under the parser's one runtimeJobKey in the
\* statement of enqueueImportJobBulk
Refuse(j) ==
    /\ At(j, "dispatching") /\ Cardinality(job[j].ids) > 1
    /\ Fails(j)
    /\ UNCHANGED events

\* completeImportRuntimeJob, and BullMQ's move to completed
Return(j) ==
    /\ At(j, "returning")
    /\ WriteRow(j, "completed", job[j].data)
    /\ Goto(j, "done")
    /\ UNCHANGED <<kind, batch, copies, request_vars, events, dispatched, abandoned, skipped>>

Event == events < MaxEvents /\ events' = events + 1

\* An await of the parser rejects
Throw(j) ==
    /\ job[j].step \in ThrowAt \ {"failing"}
    /\ Event
    /\ Fails(j)

\* markImportBatchFailed, which may reject as well
FailBatch(j) ==
    /\ At(j, "failing")
    /\ \/ Count(j, "failed") /\ UNCHANGED events
       \/ "failing" \in ThrowAt /\ Event /\ UNCHANGED batch
    /\ Goto(j, "closing")
    /\ UNCHANGED <<kind, copies, row, request_vars, dispatched, abandoned, skipped>>

\* failImportRuntimeJob, and BullMQ's retry
FailRow(j) ==
    /\ At(j, "closing")
    /\ WriteRow(j, "failed", job[j].data)
    /\ job' = [job EXCEPT ![j].made = @ + 1,
                          ![j].step = IF job[j].made + 1 < Attempts(j) THEN "waiting" ELSE "done"]
    /\ UNCHANGED <<kind, batch, copies, request_vars, events, dispatched, abandoned, skipped>>

\* The process of the parser dies, and the stalled check finds the job
Die(j) ==
    /\ job[j].step \in DieAt
    /\ Event
    /\ job' = [job EXCEPT ![j] = [job[j] EXCEPT !.stalls = @ + 1, !.ids = {}, !.open = {},
                 !.step = IF job[j].stalls + 1 > MaxStalled THEN "stalled" ELSE "waiting"]]
    /\ abandoned' = abandoned \cup job[j].ids
    /\ UNCHANGED <<kind, batch, copies, row, request_vars, dispatched, skipped>>

-----------------------------------------------------------------------------
(* The operator *)

Pause ==
    /\ ~paused
    /\ Event
    /\ paused' = TRUE
    /\ UNCHANGED <<kind, batch, copies, row, job, asked, retries, dispatched, abandoned, skipped>>

\* The flag is cleared and resumeImportRuntimeJobs starts a job from the payload of every
\* paused or failed row, unless its recoveries are spent
Resume ==
    LET Selected(k)  == row[k].state \in {"paused", "failed"}
        Exhausted(k) == row[k].state = "failed" /\ row[k].used >= MaxRecovery
        Added(j)     == Selected(j[1]) /\ ~Exhausted(j[1]) /\ j[2] = row[j[1]].used + 1 IN
    /\ Event
    /\ paused' = FALSE
    /\ row' = [k \in Keys |->
                 CASE ~Selected(k)              -> row[k]
                   [] Exhausted(k)              -> [row[k] EXCEPT !.state = "terminal_error_skipped"]
                   [] row[k].state = "failed"   -> [row[k] EXCEPT !.state = "recovering", !.used = @ + 1]
                   [] OTHER                     -> [row[k] EXCEPT !.state = "queued"]]
    /\ job' = [j \in JobIds |-> IF Added(j) /\ At(j, "absent")
                                THEN [NoJob EXCEPT !.step = "waiting", !.data = row[j[1]].resume]
                                ELSE job[j]]
    /\ UNCHANGED <<kind, batch, copies, asked, retries, dispatched, abandoned, skipped>>

\* POST /imports/:id/retry reads the batch ...
RetryRead ==
    /\ batch.status \notin {"processing", "completed"}
    /\ asked = {} /\ retries < MaxRetries
    /\ asked' = {[processed |-> batch.processed, settled |-> batch.settled, cursor |-> 0]}
    /\ Event
    /\ retries' = retries + 1
    /\ UNCHANGED <<kind, batch, copies, row, job, paused, dispatched, abandoned, skipped>>

\* ... and, whatever the batch has become, makes it pending and enqueues a new parser
\* that goes on after the rows it saw counted
RetryEnqueue ==
    \E d \in asked :
        LET k == retries IN
        /\ batch' = [batch EXCEPT !.status = "pending"]
        /\ row' = [row EXCEPT ![k] = [state |-> IF paused THEN "paused" ELSE "queued",
                                      used |-> 0, resume |-> d]]
        /\ job' = [job EXCEPT ![<<k, 0>>] =
                     IF paused THEN @ ELSE [NoJob EXCEPT !.step = "waiting", !.data = d]]
        /\ asked' = {}
        /\ UNCHANGED <<kind, copies, paused, events, retries, dispatched, abandoned, skipped>>

-----------------------------------------------------------------------------

Work(j) ==
    \/ Begin(j) \/ ReadChunk(j) \/ Insert(j) \/ Resolve(j) \/ Settle(j) \/ CountRows(j)
    \/ Report(j) \/ Complete(j) \/ Dispatch(j) \/ Refuse(j) \/ Return(j)
    \/ FailBatch(j) \/ FailRow(j)

Next ==
    \/ \E j \in JobIds : Work(j) \/ Throw(j) \/ Die(j)
    \/ Pause \/ Resume \/ RetryRead \/ RetryEnqueue

Spec == Init /\ [][Next]_vars

-----------------------------------------------------------------------------
(* Properties *)

\* Type correctness: every counter, checkpoint, row and job has one of its values.
TypeOK ==
    /\ kind \in Kinds
    /\ batch \in Batch
    /\ copies \in [Lines -> 0 .. 2]
    /\ row \in [Keys -> RuntimeRow]
    /\ job \in [JobIds -> Job]
    /\ paused \in BOOLEAN
    /\ asked \subseteq Payload
    /\ events \in 0 .. MaxEvents /\ retries \in Keys
    /\ dispatched \subseteq Lines
    /\ abandoned \subseteq Lines
    /\ skipped \subseteq Lines

\* Counters that agree can be believed: when the rows the batch, or a checkpoint, counts
\* as processed are all accounted for, they are in the table, although parsers count
\* rows before they insert them, and retries and resumed copies start from each other's
\* counters - except for rows that A2 passes over when it resumes.
\* (updateImportBatchCounters, markImportBatchFailed, updateImportRuntimeProgress.)
CountedIsStored ==
    \A c \in {batch} \cup {row[k].resume : k \in Keys} :
        c.settled = c.processed => \A r \in (1 .. c.processed) \ skipped : copies[r] > 0

\* However often a row is inserted, by attempts and parsers that may overlap, at most one
\* copy of it is ever found to be new and meant for the normalisers.  (The look-up of
\* findSourceDuplicate, which sees the rows that are not resolved yet as well.)
FoundNewOnce ==
    /\ \A i, j \in JobIds : i # j => job[i].ids \cap job[j].ids = {}
    /\ \A j \in JobIds : job[j].ids \cap (dispatched \cup abandoned) = {}
    /\ dispatched \cap abandoned = {}
=============================================================================
