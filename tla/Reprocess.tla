------------------------------- MODULE Reprocess -------------------------------
(***************************************************************************)
(* The runs that resolve the contacts of a finished import again: three    *)
(* routes of the API add two kinds of jobs, the full run and the run over  *)
(* the contacts that failed, and both keep their progress in one record of *)
(* the batch's metadata.  A run reads contacts by pages after a cursor,    *)
(* which JavaScript rounds down to milliseconds, then adds the promotion   *)
(* jobs of what is resolved, by pages after a cursor of its own.           *)
(***************************************************************************)
EXTENDS Naturals, FiniteSets

CONSTANTS
    Contacts,      \* the bronze contacts of the batch
    Nil,
    Rank,          \* order of their ids
    Times,         \* the created_at a batch may have: milliseconds, and microseconds below them
    FirstRow,      \* what ingestion, or an earlier run, left in the row of a contact
    Outcomes,      \* what resolving an identity may find
    PageSize,      \* 500 in the code
    ContactTries,  \* CONTACT_REPROCESS_MAX_ATTEMPTS
    Attempts,      \* BullMQ attempts of each kind of job
    MaxCalls,      \* bound: requests
    MaxBreaks      \* bound: statements that throw and workers that die; BullMQ admits
                   \* maxStalledCount deaths of a job

Kinds == {"full", "errors"}

\* "rejected" is duplicate_source or insufficient_identifiers
Statuses == {"pending", "resolved", "conflict", "rejected"}

Row == [status : Statuses,                           \* identityStatus
        extracted : {"old", "new"},                  \* identifiers; "new" is what the payload says
        used : {"none", "old", "new"},               \* those of the last resolution
        failure : {"none", "failed", "resolved"}]    \* identityReprocessError.status

ASSUME ConstantsAssumption ==
    /\ IsFiniteSet(Contacts) /\ Nil \notin Contacts \cup Kinds \cup {"rerun", "resume"}
    /\ Rank \in [Contacts -> Nat]
    /\ \A c, d \in Contacts : Rank[c] = Rank[d] => c = d
    /\ Times \subseteq [Contacts -> [ms : Nat, us : Nat]]
    /\ FirstRow \in [Contacts -> Row]
    /\ \A c \in Contacts :
         FirstRow[c].status = "resolved" => FirstRow[c].used = FirstRow[c].extracted
    /\ Outcomes \subseteq Statuses \ {"pending"}
    /\ {PageSize, ContactTries} \subseteq Nat \ {0}
    /\ Attempts \in [Kinds -> Nat \ {0}]
    /\ {MaxCalls, MaxBreaks} \subseteq Nat

\* A cursor is createdAt.toISOString() and the id of one contact: the contact
Cursor == Contacts \cup {Nil}

Checkpoint == [phase : {"resolve", "promote"}, cursor : Cursor, promo : Cursor]

Steps == {"start", "page", "backfill", "resolve", "ask", "clear", "save", "switch",
          "promote", "note", "finish", "end"}

VARIABLES
    created, \* created_at of the contacts
    row,     \* rows of bronze_contacts
    tasks,   \* contacts with an open identity_conflict task
    meta,    \* the batch's metadata
    job,     \* BullMQ's jobs reprocess-batch and reprocess-errors-batch
    run,     \* the memory of the worker: the queue has a concurrency of 1
    request, \* a request of the API under way
    past,    \* what happened since the full run was asked for: no code reads it
    left     \* what is left of the bounds

vars == <<created, row, tasks, meta, job, run, request, past, left>>

Idle == [kind |-> Nil, at |-> "end", phase |-> "resolve", from |-> Nil, cursor |-> Nil,
         promo |-> Nil, todo |-> {}, seen |-> [c \in {} |-> Nil], try |-> 1]

NoRequest == [kind |-> Nil, at |-> "read", meta |-> Nil, added |-> FALSE]

\* No phase in the metadata reads as resolve_identities
Fresh == [phase |-> "resolve", cursor |-> Nil, promo |-> Nil]

Past == [judged : SUBSET Contacts,   \* contacts the full run was done with
         queued : SUBSET Contacts,   \* contacts it added a promotion job for
         broken : SUBSET Contacts,   \* contacts whose try ended between its two writes
         crossed : BOOLEAN,          \* it began before the request had reset the metadata, the
                                     \* request died before it did, or a request put back
                                     \* metadata the run had since replaced
         shared : BOOLEAN]           \* a run over errors wrote the metadata, or a request for one

Init ==
    /\ created \in Times
    /\ row = FirstRow
    /\ tasks = {}
    /\ meta = Fresh
    /\ job = [k \in Kinds |-> [state |-> "none", tries |-> 0]]
    /\ run = Idle
    /\ request = NoRequest
    /\ past = [judged |-> {}, queued |-> {}, broken |-> {}, crossed |-> FALSE, shared |-> FALSE]
    /\ left = [calls |-> MaxCalls, breaks |-> MaxBreaks]

-----------------------------------------------------------------------------
(* Pages: ORDER BY created_at, id LIMIT pageSize *)

Before(c, d) ==
    \/ created[c].ms < created[d].ms
    \/ created[c].ms = created[d].ms /\ created[c].us < created[d].us
    \/ created[c] = created[d] /\ Rank[c] < Rank[d]

\* Mutant: ids taken to follow created_at
AfterById(c, k) == k = Nil \/ Rank[c] > Rank[k]

\* Mutant: id >= that of the cursor
AfterOrAt(c, k) ==
    \/ k = Nil
    \/ created[c].ms > created[k].ms
    \/ created[c].ms = created[k].ms /\ (created[c].us > 0 \/ Rank[c] >= Rank[k])

\* created_at > cursor OR created_at = cursor AND id > its id, with a cursor cut to milliseconds
After(c, k) ==
    \/ k = Nil
    \/ created[c].ms > created[k].ms
    \/ created[c].ms = created[k].ms /\ (created[c].us > 0 \/ Rank[c] > Rank[k])

Page(scope, k) ==
    LET rest == {c \in scope : After(c, k)}
    IN  {c \in rest : Cardinality({d \in rest : Before(d, c)}) < PageSize}

First(page) == CHOOSE c \in page : \A d \in page \ {c} : Before(c, d)

Final(page) == CHOOSE c \in page : \A d \in page \ {c} : Before(d, c)

-----------------------------------------------------------------------------
(* The routes *)

Call(kind) ==
    /\ request.kind = Nil /\ left.calls > 0
    /\ kind = "errors" => \E c \in Contacts : row[c].failure = "failed"
    /\ request' = [NoRequest EXCEPT !.kind = kind, !.at = "add", !.meta = meta]
    /\ left' = [left EXCEPT !.calls = @ - 1]
    /\ UNCHANGED <<created, row, tasks, meta, job, run, past>>

Waiting == [state |-> "waiting", tries |-> 0]

\* re-promote has added its job and has not reset the metadata that the job will read
Halfway == request.kind = "rerun" /\ request.at = "write" /\ request.added

\* re-promote replaces a job that has ended and leaves any other alone
AddAfresh ==
    /\ request.kind = "rerun" /\ request.at = "add"
    /\ IF job["full"].state \in {"waiting", "active"}
       THEN request' = [request EXCEPT !.at = "write"] /\ UNCHANGED <<job, past>>
       ELSE /\ job' = [job EXCEPT !["full"] = Waiting]
            /\ request' = [request EXCEPT !.at = "write", !.added = TRUE]
            /\ past' = [past EXCEPT !.judged = {}, !.queued = {}, !.crossed = FALSE, !.shared = FALSE]
    /\ UNCHANGED <<created, row, tasks, meta, run, left>>

\* The two resume routes replace any job that is not active
AddToResume ==
    /\ request.kind \in {"resume", "errors"} /\ request.at = "add"
    /\ LET k == IF request.kind = "resume" THEN "full" ELSE "errors"
       IN  IF job[k].state = "active"
           THEN request' = NoRequest /\ UNCHANGED job
           ELSE /\ job' = [job EXCEPT ![k] = Waiting]
                /\ request' = [request EXCEPT !.at = "write", !.added = TRUE]
    /\ UNCHANGED <<created, row, tasks, meta, run, past, left>>

\* The metadata read at the start, reset or not, replaces whatever was written since
WriteMetadata ==
    /\ request.at = "write"
    /\ meta' = IF request.kind = "resume" THEN request.meta ELSE Fresh
    /\ past' = [past EXCEPT !.shared = @ \/ request.kind = "errors",
                            !.crossed = @ \/ (request.kind = "resume" /\ request.meta # meta)]
    /\ request' = NoRequest
    /\ UNCHANGED <<created, row, tasks, job, run, left>>

-----------------------------------------------------------------------------
(* The run: handleBatchReprocess *)

Running(at) == run.kind # Nil /\ run.at = at

\* updateBatchReprocessMetadata by the run
Write(m) ==
    /\ meta' = m
    /\ past' = [past EXCEPT !.shared = @ \/ run.kind = "errors"]

Load(k) ==
    /\ run.kind = Nil /\ job[k].state = "waiting"
    /\ job' = [job EXCEPT ![k].state = "active"]
    /\ run' = [Idle EXCEPT !.kind = k, !.at = "start", !.phase = meta.phase,
                           !.from = meta.cursor, !.cursor = meta.cursor, !.promo = meta.promo]
    /\ past' = [past EXCEPT !.crossed = @ \/ (k = "full" /\ Halfway)]
    /\ UNCHANGED <<created, row, tasks, meta, request, left>>

Start ==
    /\ Running("start")
    /\ Write([phase |-> run.phase, cursor |-> run.cursor, promo |-> run.promo])
    /\ run' = [run EXCEPT !.at = IF run.phase = "resolve" THEN "page" ELSE "promote"]
    /\ UNCHANGED <<created, row, tasks, job, request, left>>

Scope == IF run.kind = "full" THEN Contacts ELSE {c \in Contacts : row[c].failure = "failed"}

\* An empty page ends the loop, which only then returns its cursor
Switched ==
    [run EXCEPT !.at = "switch", !.phase = "promote", !.from = run.cursor, !.promo = Nil]

Taken(page) ==
    [run EXCEPT !.at = "backfill", !.todo = page, !.seen = [c \in page |-> row[c]], !.try = 1]

ReadPage ==
    /\ Running("page")
    /\ LET page == Page(Scope, run.cursor)
       IN  run' = IF page = {} THEN Switched ELSE Taken(page)
    /\ UNCHANGED <<created, row, tasks, meta, job, request, past, left>>

Current == First(run.todo)

\* Mutant: new identifiers do not count
SettledByStatus(c) == run.seen[c].status = "resolved"

\* Judged by the page, which was read before
Settled(c) == run.seen[c].status = "resolved" /\ run.seen[c].extracted = "new"

Backfill ==
    /\ Running("backfill")
    /\ row' = [row EXCEPT ![Current].extracted = "new"]
    /\ run' = [run EXCEPT !.at = IF Settled(Current) THEN "clear" ELSE "resolve"]
    /\ UNCHANGED <<created, tasks, meta, job, request, past, left>>

\* resolveBronzeContactIdentity is one transaction
Resolve(outcome) ==
    /\ Running("resolve")
    /\ row' = [row EXCEPT ![Current].status = outcome,
                          ![Current].used = row[Current].extracted]
    /\ run' = [run EXCEPT !.at = IF outcome = "conflict" THEN "ask" ELSE "clear"]
    /\ UNCHANGED <<created, tasks, meta, job, request, past, left>>

Ask ==
    /\ Running("ask")
    /\ tasks' = tasks \cup {Current}
    /\ run' = [run EXCEPT !.at = "clear"]
    /\ UNCHANGED <<created, row, meta, job, request, past, left>>

\* Mutant: the end of the page is missed
AdvancedAlways ==
    [run EXCEPT !.todo = @ \ {Current}, !.cursor = Current, !.try = 1, !.at = "backfill"]

\* The loop is done with a contact
Advanced ==
    [run EXCEPT !.todo = @ \ {Current}, !.cursor = Current, !.try = 1,
                !.at = IF run.todo = {Current} THEN "save" ELSE "backfill"]

Judged == IF run.kind = "full" THEN past.judged \cup {Current} ELSE past.judged

Clear ==
    /\ Running("clear")
    /\ row' = [row EXCEPT ![Current].failure = "resolved"]
    /\ run' = Advanced
    /\ past' = [past EXCEPT !.judged = Judged]
    /\ UNCHANGED <<created, tasks, meta, job, request, left>>

Broken == IF Running("resolve") THEN past.broken \cup {Current} ELSE past.broken

\* A try of a contact throws; recordContactReprocessFailure
FailTry ==
    /\ run.kind # Nil /\ run.at \in {"backfill", "resolve", "ask", "clear"} /\ left.breaks > 0
    /\ row' = [row EXCEPT ![Current].failure = "failed"]
    /\ IF run.try < ContactTries
       THEN /\ run' = [run EXCEPT !.at = "backfill", !.try = @ + 1]
            /\ past' = [past EXCEPT !.broken = Broken]
       ELSE /\ run' = Advanced
            /\ past' = [past EXCEPT !.broken = Broken, !.judged = Judged]
    /\ left' = [left EXCEPT !.breaks = @ - 1]
    /\ UNCHANGED <<created, tasks, meta, job, request>>

Save ==
    /\ Running("save")
    /\ Write([meta EXCEPT !.phase = "resolve", !.cursor = run.cursor])
    /\ run' = [run EXCEPT !.at = "page", !.seen = Idle.seen]
    /\ UNCHANGED <<created, row, tasks, job, request, left>>

Switch ==
    /\ Running("switch")
    /\ Write([phase |-> "promote", cursor |-> run.cursor, promo |-> Nil])
    /\ run' = [run EXCEPT !.at = "promote"]
    /\ UNCHANGED <<created, row, tasks, job, request, left>>

Queued(page) == IF run.kind = "full" THEN past.queued \cup page ELSE past.queued

\* Mutant: the cursor of the other phase
QueuePageAfterCursor ==
    /\ Running("promote")
    /\ LET page == Page({c \in Contacts : row[c].status = "resolved"}, run.cursor)
       IN  IF page = {}
           THEN run' = [run EXCEPT !.at = "finish"] /\ UNCHANGED past
           ELSE /\ run' = [run EXCEPT !.at = "note", !.todo = page]
                /\ past' = [past EXCEPT !.queued = Queued(page)]
    /\ UNCHANGED <<created, row, tasks, meta, job, request, left>>

\* queueResolvedBatchPromotions; a conflict sets doNotProcess
QueuePage ==
    /\ Running("promote")
    /\ LET page == Page({c \in Contacts : row[c].status = "resolved"}, run.promo)
       IN  IF page = {}
           THEN run' = [run EXCEPT !.at = "finish"] /\ UNCHANGED past
           ELSE /\ run' = [run EXCEPT !.at = "note", !.todo = page]
                /\ past' = [past EXCEPT !.queued = Queued(page)]
    /\ UNCHANGED <<created, row, tasks, meta, job, request, left>>

\* onCheckpoint
Note ==
    /\ Running("note")
    /\ Write([phase |-> "promote", cursor |-> run.cursor, promo |-> Final(run.todo)])
    /\ run' = [run EXCEPT !.at = "promote", !.promo = Final(run.todo), !.todo = {}]
    /\ UNCHANGED <<created, row, tasks, job, request, left>>

Finish ==
    /\ Running("finish")
    /\ Write(Fresh)
    /\ run' = [run EXCEPT !.at = "end"]
    /\ UNCHANGED <<created, row, tasks, job, request, left>>

Complete ==
    /\ Running("end")
    /\ job' = [job EXCEPT ![run.kind].state = "done"]
    /\ run' = Idle
    /\ UNCHANGED <<created, row, tasks, meta, request, past, left>>

-----------------------------------------------------------------------------
(* Failures *)

\* The catch of handleBatchReprocess writes its own variables: in the first phase the cursor
\* is still the one the attempt began with
Throw ==
    /\ run.kind # Nil /\ run.at # "end" /\ left.breaks > 0
    /\ meta' = [phase |-> run.phase, cursor |-> run.from,
                promo |-> IF Running("note") THEN Final(run.todo) ELSE run.promo]
    /\ past' = [past EXCEPT !.shared = @ \/ run.kind = "errors", !.broken = Broken]
    /\ LET tries == job[run.kind].tries + 1
       IN  job' = [job EXCEPT ![run.kind] =
                     [state |-> IF tries < Attempts[run.kind] THEN "waiting" ELSE "failed",
                      tries |-> tries]]
    /\ run' = Idle
    /\ left' = [left EXCEPT !.breaks = @ - 1]
    /\ UNCHANGED <<created, row, tasks, request>>

\* The process dies; BullMQ finds the job stalled
Crash ==
    /\ run.kind # Nil /\ left.breaks > 0
    /\ job' = [job EXCEPT ![run.kind].state = "waiting"]
    /\ run' = Idle
    /\ past' = [past EXCEPT !.broken = Broken]
    /\ left' = [left EXCEPT !.breaks = @ - 1]
    /\ UNCHANGED <<created, row, tasks, meta, request>>

\* The API dies, or the last statement of a route throws; before the job is added nothing changed
RequestFails ==
    /\ request.at = "write" /\ left.breaks > 0
    /\ request' = NoRequest
    /\ past' = [past EXCEPT !.crossed = @ \/ Halfway]
    /\ left' = [left EXCEPT !.breaks = @ - 1]
    /\ UNCHANGED <<created, row, tasks, meta, job, run>>

Work ==
    \/ \E k \in Kinds : Load(k)
    \/ Start \/ ReadPage \/ Backfill \/ Ask \/ Clear \/ Save \/ Switch
    \/ \E o \in Outcomes : Resolve(o)
    \/ QueuePage \/ Note \/ Finish \/ Complete

Next ==
    \/ \E k \in {"rerun", "resume", "errors"} : Call(k)
    \/ AddAfresh \/ AddToResume \/ WriteMetadata
    \/ Work
    \/ FailTry \/ Throw \/ Crash \/ RequestFails

Spec == Init /\ [][Next]_vars

\* The worker goes on with its job, and takes the next one when it is free
FairSpec == Spec /\ WF_vars(Work)

-----------------------------------------------------------------------------
(* Properties *)

\* Rows, metadata, jobs and the worker's memory keep their types.
TypeOK ==
    /\ created \in Times
    /\ row \in [Contacts -> Row]
    /\ tasks \subseteq Contacts
    /\ meta \in Checkpoint
    /\ job \in [Kinds -> [state : {"none", "waiting", "active", "done", "failed"},
                          tries : 0..(Attempts["full"] + Attempts["errors"])]]
    /\ run.kind \in Kinds \cup {Nil} /\ run.at \in Steps /\ run.phase \in {"resolve", "promote"}
    /\ {run.from, run.cursor, run.promo} \subseteq Cursor
    /\ run.todo \subseteq Contacts /\ run.try \in 1..ContactTries
    /\ run.at \in {"promote", "note", "finish"} => run.phase = "promote"
    /\ run.at \in {"backfill", "resolve", "ask", "clear", "note"} => run.todo # {}
    /\ request.kind \in {Nil, "rerun", "resume", "errors"}
    /\ request.meta \in Checkpoint \cup {Nil}
    /\ past \in Past

Undisturbed == job["full"].state = "done" /\ ~past.crossed /\ ~past.shared

\* A full run that ended has been done with every contact since it was asked for, over all its
\* attempts, deaths and resumptions: it has put each conflict it left before an operator or on
\* the list of failures, and there is a promotion job of it for whatever is resolved
\* (promotion-bronze-silver.ts:1102-1548).  Two things undo it: a request that adds the job
\* before it writes the metadata it read first, and may die before it does
\* (imports-bronze.ts:3242-3281), and a run over errors, which writes its own cursor into the
\* same metadata.
FullRunServesAll ==
    Undisturbed =>
      /\ past.judged = Contacts
      /\ \A c \in Contacts :
            /\ row[c].status = "conflict" => c \in tasks \/ row[c].failure = "failed"
            /\ row[c].status = "resolved" => c \in past.queued

\* A row keeps a resolution by identifiers it no longer has only if a try ended between the
\* two writes of processOneBronzeContact (promotion-bronze-silver.ts:781-814): the next page
\* then finds the identifiers unchanged and clears the failure.
StaleHadFailure ==
    \A c \in Contacts :
      row[c].status = "resolved" /\ row[c].used # row[c].extracted =>
        c \in past.broken \/ (Running("resolve") /\ Current = c)

\* With created_at on whole milliseconds a run ends
\* (promotion-bronze-silver.ts:1102-1175 and 1446-1548); with the
\* microseconds that now() has, the page after the last contact holds that contact again.
EndsOnWholeMilliseconds ==
    (\A c \in Contacts : created[c].us = 0) => (run.kind # Nil ~> run.kind = Nil)
=============================================================================
