--------------------------- MODULE FileIngestProofs ---------------------------
(***************************************************************************)
(* Proofs about FileIngest: type correctness, that counters which agree    *)
(* count rows that are in the table, and that at most one copy of a row is *)
(* ever found new.                                                         *)
(***************************************************************************)
EXTENDS FileIngest, FiniteSetTheorems, TLAPS

-----------------------------------------------------------------------------
(* What the counters stand for *)

\* Rows of the file that the table holds, or that an Excel parser passed over.
Accounted == skipped \cup {r \in Lines : copies[r] > 0}

\* Of the rows counted, no more are settled than processed, and when all are settled the
\* rows up to one are accounted for.
Backed(S, processed, settled, upto) ==
    settled <= processed /\ (settled = processed => 1 .. upto \subseteq S)

GoodPayload(S, d) ==
    Backed(S, d.processed, d.settled, d.processed) /\ Backed(S, d.processed, d.settled, d.cursor)

\* The rows before the chunk that is not inserted yet.
Held(J) == IF J.step = "inserting" THEN J.pos - J.size ELSE J.pos

\* A parser at work: what it counts lies before where it reads.  The small-file parser
\* counts a chunk when it is settled, the others count it processed when they read it.
GoodJob(S, parser, J) ==
    /\ GoodPayload(S, J.data)
    /\ J.step \in {"reading", "counting", "reporting", "completing", "dispatching", "returning"} =>
         J.processed <= J.pos /\ Backed(S, J.processed, J.settled, J.pos)
    /\ J.step \in {"inserting", "resolving"} =>
         /\ J.size <= J.pos
         /\ parser = "small" => /\ J.processed + J.size <= J.pos
                                /\ Backed(S, J.processed, J.settled, Held(J))
         /\ parser # "small" => /\ J.size > 0 /\ J.processed <= J.pos
                                /\ Backed(S, J.processed, J.settled + J.size, Held(J))
    /\ J.step = "inserting" => J.open = J.pos - J.size + 1 .. J.pos
    /\ J.step = "failing" => Backed(S, J.processed, J.settled, J.processed)

CountInv ==
    /\ Backed(Accounted, batch.processed, batch.settled, batch.processed)
    /\ \A d \in asked : GoodPayload(Accounted, d)
    /\ \A k \in Keys : GoodPayload(Accounted, row[k].resume)
    /\ \A j \in JobIds : GoodJob(Accounted, kind, job[j])

-----------------------------------------------------------------------------
(* Who has found a row new *)

Found(r) == r \in dispatched \cup abandoned \/ \E j \in JobIds : r \in job[j].ids

\* Parser j has inserted row r and not looked it up yet.
Resolving(j, r) == job[j].step = "resolving" /\ r \in job[j].open

FoundInv ==
    /\ FoundNewOnce
    /\ \A r \in Lines : Found(r) => copies[r] > 0
    /\ \A j \in JobIds, r \in Lines : Resolving(j, r) => copies[r] > 0
    /\ \A j \in JobIds, r \in Lines : Resolving(j, r) /\ Found(r) => copies[r] > 1
    /\ \A i, j \in JobIds, r \in Lines :
         i # j /\ Resolving(i, r) /\ Resolving(j, r) => copies[r] > 1

IInv == TypeOK /\ CountInv /\ FoundInv

-----------------------------------------------------------------------------
(* Rows, sheets and chunks *)

LEMMA LinesFinite ==
    /\ IsFiniteSet(Lines) /\ Cardinality(Lines) = Last
    /\ \A S \in SUBSET Lines : Cardinality(S) \in Counts
<1>1. Last \in Nat /\ 1 \in Int /\ Last \in Int
  BY FileAssumption
<1>2. IsFiniteSet(1 .. Last) /\ Cardinality(1 .. Last) = IF 1 > Last THEN 0 ELSE Last - 1 + 1
  BY <1>1, FS_Interval
<1>3. Cardinality(Lines) = Last
  BY <1>1, <1>2 DEF Lines
<1>4. ASSUME NEW S \in SUBSET Lines PROVE Cardinality(S) \in Counts
  <2>1. Cardinality(S) <= Last /\ Cardinality(S) \in Nat
    BY <1>2, <1>3, FS_Subset, FS_CardinalityType DEF Lines
  <2> QED
    BY <1>1, <2>1 DEF Counts
<1> QED
  BY <1>2, <1>3, <1>4 DEF Lines

\* As many rows as lie before one of a set, when it holds those too.
LEMMA PrefixCounted ==
    ASSUME NEW m \in Lines, NEW S \in SUBSET Lines, 1 .. m \subseteq S
    PROVE  Cardinality(S) >= m
<1>1. m \in Nat /\ m >= 1 /\ 1 \in Int /\ m \in Int
  BY FileAssumption DEF Lines
<1>2. Cardinality(1 .. m) = IF 1 > m THEN 0 ELSE m - 1 + 1
  BY <1>1, FS_Interval
<1>3. IsFiniteSet(S) /\ Cardinality(S) \in Nat
  BY LinesFinite, FS_Subset, FS_CardinalityType
<1>4. Cardinality(1 .. m) <= Cardinality(S)
  BY <1>3, FS_Subset
<1> QED
  BY <1>1, <1>2, <1>3, <1>4

LEMMA ChunkEndBounds ==
    ASSUME NEW p \in Counts, kind \in Kinds, kind = "small" \/ p < Last
    PROVE  /\ ChunkEnd(p) \in Counts /\ p <= ChunkEnd(p)
           /\ kind # "small" => p < ChunkEnd(p)
<1>1. Last \in Nat /\ p \in Nat /\ p <= Last /\ Chunk \in Nat /\ Chunk > 0
  BY FileAssumption DEF Counts
<1>2. CASE kind = "small"
  BY <1>1, <1>2 DEF ChunkEnd, Counts
<1>3. CASE kind = "stream"
  BY <1>1, <1>3 DEF ChunkEnd, Counts, Smaller
<1>4. CASE kind \notin {"small", "stream"}
  <2> DEFINE S == {r \in Lines : Sheet[r] <= Sheet[p + 1]}
  <2>1. p + 1 \in Lines /\ p < Last
    BY <1>1, <1>4 DEF Lines
  <2>2. 1 .. p + 1 \subseteq S
    <3>1. ASSUME NEW r \in 1 .. p + 1 PROVE r \in S
      <4>1. r \in Lines /\ r <= p + 1
        BY <1>1, <2>1 DEF Lines
      <4> QED
        BY <2>1, <4>1, FileAssumption
    <3> QED
      BY <3>1
  <2>3. Cardinality(S) \in Counts /\ Cardinality(S) >= p + 1
    BY <2>1, <2>2, PrefixCounted, LinesFinite
  <2>4. ChunkEnd(p) = Smaller(p + Chunk, Cardinality(S))
    BY <1>4 DEF ChunkEnd
  <2> HIDE DEF S
  <2> QED
    BY <1>1, <2>3, <2>4 DEF Smaller, Counts
<1> QED
  BY <1>2, <1>3, <1>4

LEMMA PayloadFields ==
    ASSUME NEW d \in Payload
    PROVE  d.processed \in Counts /\ d.settled \in Counts /\ d.cursor \in Counts
  BY DEF Payload

LEMMA StartBounds ==
    ASSUME NEW d \in Payload
    PROVE  Start(d) \in Counts /\ d.processed <= Start(d) /\ GoesOn(d) \in Counts
<1>1. /\ Last \in Nat /\ d.processed \in Nat /\ d.processed <= Last
      /\ d.cursor \in Nat /\ d.cursor <= Last /\ d.processed \in Counts /\ d.cursor \in Counts
  BY PayloadFields, FileAssumption DEF Counts
<1>2. RowsBefore(d.cursor) \in Counts
  BY LinesFinite DEF RowsBefore
<1>3. RowsBefore(d.cursor) \in Nat
  BY <1>1, <1>2 DEF Counts
<1> QED
  BY <1>1, <1>3 DEF Start, GoesOn, Smaller, Larger, Counts

\* A payload and where its parser begins: what lies between where it goes on and where it
\* begins is passed over.
LEMMA StartBacked ==
    ASSUME NEW S, NEW d \in Payload, GoodPayload(S, d)
    PROVE  Backed(S \cup (GoesOn(d) + 1 .. Start(d)), d.processed, d.settled, Start(d))
<1>1. /\ d.processed \in Nat /\ d.settled \in Nat /\ d.cursor \in Nat
      /\ Start(d) \in Nat /\ GoesOn(d) \in Nat
  BY StartBounds, PayloadFields, FileAssumption DEF Counts
<1>2. ASSUME d.settled = d.processed
      PROVE  1 .. GoesOn(d) \subseteq S
  BY <1>2 DEF GoodPayload, Backed, GoesOn
<1>3. 1 .. Start(d) \subseteq (1 .. GoesOn(d)) \cup (GoesOn(d) + 1 .. Start(d))
  BY <1>1
<1> QED
  BY <1>2, <1>3 DEF Backed, GoodPayload

-----------------------------------------------------------------------------
(* More rows are accounted for, and one job moves on *)

LEMMA BackedGrows ==
    ASSUME NEW S, NEW T, S \subseteq T, NEW p, NEW s, NEW u, Backed(S, p, s, u)
    PROVE  Backed(T, p, s, u)
  BY DEF Backed

LEMMA PayloadGrows ==
    ASSUME NEW S, NEW T, S \subseteq T, NEW d, GoodPayload(S, d)
    PROVE  GoodPayload(T, d)
  BY BackedGrows DEF GoodPayload

LEMMA JobGrows ==
    ASSUME NEW S, NEW T, S \subseteq T, NEW parser, NEW J, GoodJob(S, parser, J)
    PROVE  GoodJob(T, parser, J)
  BY BackedGrows, PayloadGrows DEF GoodJob

LEMMA JobFields ==
    ASSUME NEW J \in Job
    PROVE  /\ J.data \in Payload /\ J.pos \in Counts /\ J.processed \in Counts
           /\ J.settled \in Counts /\ J.size \in Counts
           /\ J.open \in SUBSET Lines /\ J.ids \in SUBSET Lines
           /\ J.made \in Nat /\ J.stalls \in Nat
  BY DEF Job

LEMMA CountsNat ==
    /\ Last \in Nat /\ 0 \in Counts
    /\ \A n \in Counts : n \in Nat /\ n <= Last
    /\ \A n \in Nat : n <= Last => n \in Counts
  BY FileAssumption DEF Counts

\* The part of TypeOK and CountInv that the jobs make.
JobsOK(S, parser, jobs) ==
    jobs \in [JobIds -> Job] /\ \A j \in JobIds : GoodJob(S, parser, jobs[j])

RowsOK(S, rows) ==
    rows \in [Keys -> RuntimeRow] /\ \A k \in Keys : GoodPayload(S, rows[k].resume)

BatchOK(S, b) == b \in Batch /\ Backed(S, b.processed, b.settled, b.processed)

AskedOK(S, reqs) == reqs \subseteq Payload /\ \A d \in reqs : GoodPayload(S, d)

RestOK ==
    /\ kind \in Kinds
    /\ copies \in [Lines -> 0 .. 2]
    /\ paused \in BOOLEAN
    /\ events \in 0 .. MaxEvents /\ retries \in Keys
    /\ dispatched \subseteq Lines
    /\ abandoned \subseteq Lines
    /\ skipped \subseteq Lines

CountedOK ==
    /\ RestOK /\ JobsOK(Accounted, kind, job) /\ RowsOK(Accounted, row)
    /\ BatchOK(Accounted, batch) /\ AskedOK(Accounted, asked)

LEMMA CountedParts == TypeOK /\ CountInv <=> CountedOK
  BY DEF TypeOK, CountInv, CountedOK, RestOK, JobsOK, RowsOK, BatchOK, AskedOK

LEMMA OneJob ==
    ASSUME NEW S, NEW T, S \subseteq T, NEW parser, NEW jobs, JobsOK(S, parser, jobs),
           NEW j \in JobIds, NEW J \in Job, GoodJob(T, parser, J)
    PROVE  JobsOK(T, parser, [jobs EXCEPT ![j] = J])
  BY JobGrows DEF JobsOK

LEMMA OneRow ==
    ASSUME NEW S, NEW T, S \subseteq T, NEW rows, RowsOK(S, rows), NEW k \in Keys,
           NEW state \in {"queued", "running", "paused", "recovering", "completed", "failed"},
           NEW d \in Payload, GoodPayload(T, d)
    PROVE  RowsOK(T, [rows EXCEPT ![k].state = state, ![k].resume = d])
<1> DEFINE x == [rows[k] EXCEPT !.state = state, !.resume = d]
           new == [rows EXCEPT ![k] = x]
<1>1. [rows EXCEPT ![k].state = state, ![k].resume = d] = new
  BY DEF RowsOK
<1>2. x \in RuntimeRow /\ x.resume = d
  BY DEF RowsOK, RuntimeRow
<1> HIDE DEF x
<1>3. new \in [Keys -> RuntimeRow] /\ \A i \in Keys : new[i] = IF i = k THEN x ELSE rows[i]
  BY <1>2 DEF RowsOK
<1> HIDE DEF new
<1>4. \A i \in Keys : GoodPayload(T, new[i].resume)
  BY <1>2, <1>3, PayloadGrows DEF RowsOK
<1> QED
  BY <1>1, <1>3, <1>4 DEF RowsOK

LEMMA RestGrows ==
    ASSUME NEW S, NEW T, S \subseteq T
    PROVE  /\ \A parser, jobs : JobsOK(S, parser, jobs) => JobsOK(T, parser, jobs)
           /\ \A rows : RowsOK(S, rows) => RowsOK(T, rows)
           /\ \A b : BatchOK(S, b) => BatchOK(T, b)
           /\ \A reqs : AskedOK(S, reqs) => AskedOK(T, reqs)
  BY JobGrows, PayloadGrows, BackedGrows DEF JobsOK, RowsOK, BatchOK, AskedOK

LEMMA KeyOfJob == \A j \in JobIds : j[1] \in Keys
  BY DEF JobIds

-----------------------------------------------------------------------------
(* Init *)

LEMMA NoJobGood == NoJob \in Job /\ \A S, parser : GoodJob(S, parser, NoJob)
<1>1. Fresh \in Payload /\ \A S : GoodPayload(S, Fresh)
  BY CountsNat DEF Fresh, Payload, GoodPayload, Backed
<1>2. NoJob \in Job
  BY <1>1, CountsNat DEF NoJob, Job, Live
<1>3. NoJob.data = Fresh /\ NoJob.step = "absent"
  BY DEF NoJob
<1> QED
  BY <1>1, <1>2, <1>3 DEF GoodJob

LEMMA FreshGood == Fresh \in Payload /\ \A S : GoodPayload(S, Fresh)
  BY CountsNat DEF Fresh, Payload, GoodPayload, Backed

\* A job that waits is as good as its payload.
LEMMA WaitingGood ==
    ASSUME NEW S, NEW parser, NEW d \in Payload, GoodPayload(S, d)
    PROVE  /\ [NoJob EXCEPT !.step = "waiting", !.data = d] \in Job
           /\ GoodJob(S, parser, [NoJob EXCEPT !.step = "waiting", !.data = d])
<1> DEFINE J == [NoJob EXCEPT !.step = "waiting", !.data = d]
<1>1. J \in Job /\ J.step = "waiting" /\ J.data = d
  BY NoJobGood DEF Job, Live
<1> HIDE DEF J
<1>2. GoodJob(S, parser, J)
  BY <1>1 DEF GoodJob
<1> QED
  BY <1>1, <1>2 DEF J

LEMMA InitInv == Init => IInv
<1> SUFFICES ASSUME Init PROVE IInv
  OBVIOUS
<1> DEFINE first == [NoJob EXCEPT !.step = "waiting"]
<1>1. first \in Job /\ first.step = "waiting" /\ first.data = Fresh /\ first.ids = {}
  BY NoJobGood DEF Job, Live, NoJob
<1> HIDE DEF first
<1>2. \A S, parser : GoodJob(S, parser, first)
  BY <1>1, FreshGood DEF GoodJob
<1>3. \A j \in JobIds : job[j] \in {first, NoJob}
  BY DEF Init, first
<1>4. job \in [JobIds -> Job]
  BY <1>1, NoJobGood DEF Init, first
<1>5. JobsOK(Accounted, kind, job)
  BY <1>2, <1>3, <1>4, NoJobGood DEF JobsOK
<1>6. RowsOK(Accounted, row)
  <2>1. \A k \in Keys : row[k] = [state |-> IF k = 0 THEN "queued" ELSE "absent",
                                  used |-> 0, resume |-> Fresh]
    BY DEF Init
  <2>2. row \in [Keys -> RuntimeRow]
    BY FreshGood DEF Init, RuntimeRow
  <2>3. ASSUME NEW k \in Keys PROVE row[k].resume = Fresh
    <3> DEFINE state == IF k = 0 THEN "queued" ELSE "absent"
    <3>1. row[k] = [state |-> state, used |-> 0, resume |-> Fresh]
      BY <2>1
    <3> HIDE DEF state
    <3> QED
      BY <3>1
  <2> QED
    BY <2>2, <2>3, FreshGood DEF RowsOK
<1>7. BatchOK(Accounted, batch)
  BY CountsNat DEF Init, BatchOK, Batch, Backed
<1>8. AskedOK(Accounted, asked)
  BY DEF Init, AskedOK
<1>9. RestOK
  <2>1. 0 \in 0 .. MaxEvents /\ 0 \in Keys
    BY LimitsAssumption DEF Keys
  <2>2. copies \in [Lines -> 0 .. 2]
    BY DEF Init
  <2>3. events = 0 /\ retries = 0 /\ paused = FALSE
    BY DEF Init
  <2>4. kind \in Kinds /\ dispatched = {} /\ abandoned = {} /\ skipped = {}
    BY DEF Init
  <2> QED
    BY <2>1, <2>2, <2>3, <2>4 DEF RestOK
<1>10. CountedOK
  BY <1>5, <1>6, <1>7, <1>8, <1>9 DEF CountedOK
<1>11. FoundInv
  <2>1. \A j \in JobIds : job[j].ids = {} /\ job[j].step # "resolving"
    BY <1>1, <1>3 DEF NoJob
  <2>2. \A j \in JobIds, r \in Lines : ~Resolving(j, r)
    BY <2>1 DEF Resolving
  <2>3. \A r \in Lines : ~Found(r)
    BY <2>1 DEF Init, Found
  <2>4. FoundNewOnce
    BY <2>1 DEF Init, FoundNewOnce
  <2> QED
    BY <2>2, <2>3, <2>4 DEF FoundInv
<1> QED
  BY <1>10, <1>11, CountedParts DEF IInv

-----------------------------------------------------------------------------
(* The counters: each step of a parser *)

LEMMA AccountedSame == UNCHANGED <<copies, skipped>> => Accounted' = Accounted
  BY DEF Accounted

LEMMA JobStep ==
    ASSUME CountedOK, NEW j \in JobIds, NEW J \in Job, Accounted \subseteq Accounted',
           GoodJob(Accounted', kind, J), job' = [job EXCEPT ![j] = J], kind' = kind
    PROVE  JobsOK(Accounted', kind', job')
  BY OneJob DEF CountedOK

LEMMA RowStep ==
    ASSUME CountedOK, NEW j \in JobIds, Accounted \subseteq Accounted',
           NEW state \in {"queued", "running", "paused", "recovering", "completed", "failed"},
           NEW d \in Payload, GoodPayload(Accounted', d), WriteRow(j, state, d)
    PROVE  RowsOK(Accounted', row')
  BY OneRow, KeyOfJob DEF CountedOK, WriteRow

LEMMA OthersGrow ==
    ASSUME CountedOK, Accounted \subseteq Accounted'
    PROVE  /\ UNCHANGED row => RowsOK(Accounted', row')
           /\ UNCHANGED batch => BatchOK(Accounted', batch')
           /\ UNCHANGED asked => AskedOK(Accounted', asked')
           /\ UNCHANGED <<kind, job>> => JobsOK(Accounted', kind', job')
  BY RestGrows DEF CountedOK

LEMMA JobOf ==
    ASSUME CountedOK, NEW j \in JobIds
    PROVE  job[j] \in Job /\ GoodJob(Accounted, kind, job[j]) /\ job[j].data \in Payload
           /\ GoodPayload(Accounted, job[j].data)
<1>1. job[j] \in Job /\ GoodJob(Accounted, kind, job[j])
  BY DEF CountedOK, JobsOK
<1> QED
  BY <1>1, JobFields DEF GoodJob

\* Counting what a parser has, when it is all accounted for.
LEMMA CountStep ==
    ASSUME CountedOK, NEW j \in JobIds, NEW status \in {"pending", "processing", "completed", "failed"},
           Backed(Accounted, job[j].processed, job[j].settled, job[j].processed), Count(j, status)
    PROVE  BatchOK(Accounted, batch')
<1>1. job[j].processed \in Counts /\ job[j].settled \in Counts
  BY JobOf, JobFields
<1> DEFINE b == [status |-> status, processed |-> job[j].processed, settled |-> job[j].settled]
<1>2. b \in Batch /\ b.processed = job[j].processed /\ b.settled = job[j].settled
  BY <1>1 DEF Batch
<1>3. batch' = b
  BY DEF Count
<1> HIDE DEF b
<1> QED
  BY <1>2, <1>3 DEF BatchOK

\* A parser that only changes its step.
LEMMA GotoStep ==
    ASSUME CountedOK, NEW j \in JobIds, NEW step \in {"done"} \cup Live, Goto(j, step),
           UNCHANGED <<kind, copies, skipped>>,
           GoodJob(Accounted, kind, [job[j] EXCEPT !.step = step])
    PROVE  JobsOK(Accounted', kind', job')
<1> DEFINE J == [job[j] EXCEPT !.step = step]
<1>1. J \in Job
  BY JobOf DEF Job
<1>2. job' = [job EXCEPT ![j] = J]
  BY JobOf DEF Goto
<1>3. GoodJob(Accounted', kind, J)
  BY AccountedSame
<1> HIDE DEF J
<1> QED
  BY <1>1, <1>2, <1>3, AccountedSame, JobStep

LEMMA BackedShort ==
    ASSUME NEW S, NEW p \in Nat, NEW s \in Nat, NEW u \in Nat, p <= u, Backed(S, p, s, u)
    PROVE  Backed(S, p, s, p)
<1>1. 1 .. p \subseteq 1 .. u
  OBVIOUS
<1> QED
  BY <1>1 DEF Backed

LEMMA BeginCounted ==
    ASSUME CountedOK, NEW j \in JobIds, Begin(j)
    PROVE  CountedOK'
<1> DEFINE d == job[j].data
<1>1. d \in Payload /\ GoodPayload(Accounted, d)
  BY JobOf
<1>2. CASE /\ paused
           /\ WriteRow(j, "paused", d) /\ Goto(j, "done") /\ UNCHANGED skipped
  <2>1. UNCHANGED <<kind, batch, copies, skipped, request_vars, events, dispatched, abandoned>>
    BY <1>2 DEF Begin
  <2>2. Accounted' = Accounted
    BY <2>1, AccountedSame
  <2>3. GoodJob(Accounted, kind, [job[j] EXCEPT !.step = "done"])
    BY <1>1, JobOf DEF GoodJob, Job
  <2>4. JobsOK(Accounted', kind', job')
    BY <1>2, <2>1, <2>3, GotoStep
  <2>5. RowsOK(Accounted', row')
    BY <1>1, <1>2, <2>2, RowStep
  <2> QED
    BY <2>1, <2>2, <2>4, <2>5 DEF CountedOK, RestOK, request_vars
<1>3. CASE /\ WriteRow(j, "running", d)
           /\ job' = [job EXCEPT ![j] = [@ EXCEPT !.step = "reading", !.pos = Start(d),
                                                  !.processed = d.processed, !.settled = d.settled]]
           /\ skipped' = skipped \cup (GoesOn(d) + 1 .. Start(d))
  <2> DEFINE J == [job[j] EXCEPT !.step = "reading", !.pos = Start(d),
                                 !.processed = d.processed, !.settled = d.settled]
  <2>1. UNCHANGED <<kind, batch, copies, request_vars, events, dispatched, abandoned>>
    BY DEF Begin
  <2>2. Accounted' = Accounted \cup (GoesOn(d) + 1 .. Start(d))
    BY <1>3, <2>1 DEF Accounted
  <2>3. /\ Start(d) \in Counts /\ d.processed <= Start(d) /\ GoesOn(d) \in Counts
        /\ d.processed \in Counts /\ d.settled \in Counts
    BY <1>1, StartBounds, PayloadFields
  <2>4. Backed(Accounted', d.processed, d.settled, Start(d))
    BY <1>1, <2>2, StartBacked
  <2>5. /\ J \in Job /\ J.step = "reading" /\ J.data = d /\ J.pos = Start(d)
        /\ J.processed = d.processed /\ J.settled = d.settled
    BY <2>3, JobOf DEF Job, Live
  <2>6. job' = [job EXCEPT ![j] = J]
    BY <1>3
  <2> HIDE DEF J
  <2>7. GoodPayload(Accounted', d)
    BY <1>1, <2>2, PayloadGrows
  <2>8. GoodJob(Accounted', kind, J)
    BY <2>3, <2>4, <2>5, <2>7 DEF GoodJob
  <2>9. Accounted \subseteq Accounted'
    BY <2>2
  <2>10. JobsOK(Accounted', kind', job')
    BY <2>1, <2>5, <2>6, <2>8, <2>9, JobStep
  <2>11. RowsOK(Accounted', row')
    BY <1>1, <1>3, <2>7, <2>9, RowStep
  <2>12. BatchOK(Accounted', batch') /\ AskedOK(Accounted', asked')
    BY <2>1, <2>9, OthersGrow DEF request_vars
  <2>13. skipped' \subseteq Lines
    <3>1. GoesOn(d) + 1 .. Start(d) \subseteq Lines
      BY <2>3, CountsNat DEF Lines
    <3> QED
      BY <1>3, <3>1 DEF CountedOK, RestOK
  <2>14. RestOK'
    BY <2>1, <2>13 DEF CountedOK, RestOK, request_vars
  <2> QED
    BY <2>10, <2>11, <2>12, <2>14 DEF CountedOK
<1> QED
  BY <1>2, <1>3 DEF Begin

LEMMA ReadChunkCounted ==
    ASSUME CountedOK, NEW j \in JobIds, ReadChunk(j)
    PROVE  CountedOK'
<1> DEFINE p == job[j].pos
           end == ChunkEnd(p)
           read == IF kind = "small" THEN job[j].processed ELSE job[j].processed + (end - p)
           J == [job[j] EXCEPT !.step = "inserting", !.pos = end, !.size = end - p,
                               !.open = p + 1 .. end, !.processed = read]
<1>1. job[j].step = "reading" /\ (kind = "small" \/ p < Last) /\ kind \in Kinds
  BY DEF ReadChunk, At, CountedOK, RestOK
<1>2. /\ job[j] \in Job /\ p \in Counts /\ job[j].processed \in Counts /\ job[j].settled \in Counts
      /\ job[j].processed <= p /\ Backed(Accounted, job[j].processed, job[j].settled, p)
      /\ GoodPayload(Accounted, job[j].data)
  BY <1>1, JobOf, JobFields DEF GoodJob
<1>3. end \in Counts /\ p <= end /\ (kind # "small" => p < end)
  BY <1>1, <1>2, ChunkEndBounds
<1>4. job' = [job EXCEPT ![j] = J]
  BY DEF ReadChunk
<1>5. UNCHANGED <<kind, batch, copies, row, request_vars, events, dispatched, abandoned, skipped>>
  BY DEF ReadChunk
<1> HIDE DEF p, end
<1>6. /\ p \in Nat /\ end \in Nat /\ end <= Last /\ end - p \in Counts /\ read \in Counts
      /\ end - (end - p) = p /\ read <= end /\ (kind # "small" => read = job[j].processed + (end - p))
  BY <1>2, <1>3, CountsNat
<1>7. p + 1 .. end \in SUBSET Lines
  BY <1>6, CountsNat DEF Lines
<1> HIDE DEF read
<1>8. /\ J \in Job /\ J.step = "inserting" /\ J.pos = end /\ J.size = end - p /\ J.open = p + 1 .. end
      /\ J.processed = read /\ J.settled = job[j].settled /\ J.data = job[j].data
  BY <1>2, <1>3, <1>6, <1>7 DEF Job, Live
<1> HIDE DEF J
<1>9. Held(J) = p
  BY <1>6, <1>8 DEF Held
<1>10. GoodJob(Accounted, kind, J)
  <2>1. J.size <= J.pos
    BY <1>6, <1>8
  <2>2. ASSUME kind = "small"
        PROVE  J.processed + J.size <= J.pos /\ Backed(Accounted, J.processed, J.settled, Held(J))
    <3>1. read = job[j].processed
      BY <2>2 DEF read
    <3> QED
      BY <1>2, <1>6, <1>8, <1>9, <3>1, CountsNat
  <2>3. ASSUME kind # "small"
        PROVE  /\ J.size > 0 /\ J.processed <= J.pos
               /\ Backed(Accounted, J.processed, J.settled + J.size, Held(J))
    <3>1. J.size > 0 /\ J.processed <= J.pos
      BY <1>3, <1>6, <1>8, <2>3
    <3>2. job[j].settled \in Nat /\ job[j].processed \in Nat
      BY <1>2, CountsNat
    <3>3. J.processed = job[j].processed + (end - p) /\ J.settled + J.size = job[j].settled + (end - p)
      BY <1>6, <1>8, <2>3
    <3>4. Backed(Accounted, J.processed, J.settled + J.size, p)
      BY <1>2, <1>6, <3>2, <3>3 DEF Backed
    <3> QED
      BY <1>9, <3>1, <3>4
  <2>4. J.open = J.pos - J.size + 1 .. J.pos
    BY <1>6, <1>8
  <2> QED
    BY <1>2, <1>8, <2>1, <2>2, <2>3, <2>4 DEF GoodJob
<1>11. Accounted' = Accounted
  BY <1>5, AccountedSame
<1>12. JobsOK(Accounted', kind', job')
  BY <1>4, <1>5, <1>8, <1>10, <1>11, JobStep
<1> QED
  BY <1>5, <1>11, <1>12 DEF CountedOK, RestOK, request_vars

LEMMA InsertCounted ==
    ASSUME CountedOK, NEW j \in JobIds, Insert(j)
    PROVE  CountedOK'
<1> DEFINE J == [job[j] EXCEPT !.step = "resolving"]
           old == job[j]
<1>1. old.step = "inserting"
  BY DEF Insert, At
<1>2. UNCHANGED <<kind, batch, row, request_vars, events, dispatched, abandoned, skipped>>
  BY DEF Insert
<1>3. /\ copies \in [Lines -> 0 .. 2] /\ old.open \in SUBSET Lines
      /\ copies' = [r \in Lines |-> IF r \in old.open THEN Smaller(2, copies[r] + 1) ELSE copies[r]]
  BY JobOf, JobFields DEF Insert, CountedOK, RestOK
<1> HIDE DEF old
<1>4. ASSUME NEW r \in Lines
      PROVE  /\ copies'[r] \in 0 .. 2 /\ (copies[r] > 0 => copies'[r] > 0)
             /\ r \in old.open => copies'[r] > 0
  BY <1>3 DEF Smaller
<1>5. copies' \in [Lines -> 0 .. 2]
  BY <1>3, <1>4
<1>6. Accounted \subseteq Accounted' /\ old.open \subseteq Accounted'
  BY <1>2, <1>3, <1>4 DEF Accounted
<1>7. /\ old \in Job /\ GoodJob(Accounted, kind, old)
      /\ old.size \in Nat /\ old.pos \in Nat /\ old.processed \in Nat /\ old.settled \in Nat
  BY JobOf, JobFields, CountsNat DEF old
<1>8. /\ J \in Job /\ J.step = "resolving" /\ J.pos = old.pos /\ J.size = old.size
      /\ J.processed = old.processed /\ J.settled = old.settled /\ J.data = old.data
  BY <1>7 DEF Job, Live, old
<1>9. job' = [job EXCEPT ![j] = J]
  BY JobOf DEF Insert, Goto
<1> HIDE DEF J
<1>10. Held(J) = J.pos /\ Held(old) = old.pos - old.size
  BY <1>1, <1>8 DEF Held
<1>11. GoodPayload(Accounted', J.data)
  BY <1>6, <1>7, <1>8, PayloadGrows DEF GoodJob
<1>12. /\ old.size <= old.pos /\ old.open = old.pos - old.size + 1 .. old.pos
       /\ kind = "small" => /\ old.processed + old.size <= old.pos
                            /\ Backed(Accounted, old.processed, old.settled, old.pos - old.size)
       /\ kind # "small" => /\ old.size > 0 /\ old.processed <= old.pos
                            /\ Backed(Accounted, old.processed, old.settled + old.size,
                                      old.pos - old.size)
  BY <1>1, <1>7, <1>10 DEF GoodJob
<1>13. ASSUME NEW p, NEW s, Backed(Accounted, p, s, old.pos - old.size)
       PROVE  Backed(Accounted', p, s, old.pos)
  <2>1. 1 .. old.pos \subseteq (1 .. old.pos - old.size) \cup (old.pos - old.size + 1 .. old.pos)
    BY <1>7, <1>12
  <2> QED
    BY <1>6, <1>12, <1>13, <2>1 DEF Backed
<1>14. GoodJob(Accounted', kind, J)
  BY <1>8, <1>10, <1>11, <1>12, <1>13 DEF GoodJob
<1>15. JobsOK(Accounted', kind', job')
  BY <1>2, <1>6, <1>8, <1>9, <1>14, JobStep
<1>16. RowsOK(Accounted', row') /\ BatchOK(Accounted', batch') /\ AskedOK(Accounted', asked')
  BY <1>2, <1>6, OthersGrow DEF request_vars
<1>17. RestOK'
  BY <1>2, <1>5 DEF CountedOK, RestOK, request_vars
<1> QED
  BY <1>15, <1>16, <1>17 DEF CountedOK

LEMMA ResolveCounted ==
    ASSUME CountedOK, NEW j \in JobIds, Resolve(j)
    PROVE  CountedOK'
<1>1. PICK r \in job[j].open :
        /\ job[j].step = "resolving"
        /\ job' = [job EXCEPT ![j].open = @ \ {r},
                              ![j].ids = IF copies[r] > 1 THEN @ ELSE @ \cup {r}]
        /\ UNCHANGED <<kind, batch, copies, row, request_vars, events, dispatched, abandoned, skipped>>
  BY DEF Resolve, At
<1> DEFINE old == job[j]
           ids == IF copies[r] > 1 THEN old.ids ELSE old.ids \cup {r}
           J == [old EXCEPT !.open = old.open \ {r}, !.ids = ids]
<1>2. old \in Job /\ GoodJob(Accounted, kind, old) /\ old.open \in SUBSET Lines /\ ids \in SUBSET Lines
  BY <1>1, JobOf, JobFields
<1>3. job' = [job EXCEPT ![j] = J]
  BY <1>1, <1>2 DEF CountedOK, JobsOK
<1> HIDE DEF ids, old
<1>4. /\ J \in Job /\ J.step = old.step /\ J.pos = old.pos /\ J.size = old.size
      /\ J.processed = old.processed /\ J.settled = old.settled /\ J.data = old.data
  BY <1>2 DEF Job
<1> HIDE DEF J
<1>5. old.step = "resolving"
  BY <1>1 DEF old
<1>6. Held(J) = Held(old)
  BY <1>4, <1>5 DEF Held
<1>7. GoodJob(Accounted, kind, J)
  BY <1>2, <1>4, <1>5, <1>6 DEF GoodJob
<1>8. Accounted' = Accounted
  BY <1>1, AccountedSame
<1>9. JobsOK(Accounted', kind', job')
  BY <1>1, <1>3, <1>4, <1>7, <1>8, JobStep
<1> QED
  BY <1>1, <1>8, <1>9 DEF CountedOK, RestOK, request_vars

LEMMA SettleCounted0 ==
    ASSUME CountedOK, NEW j \in JobIds, Settle(j)
    PROVE  CountedOK'
<1> DEFINE old == job[j]
           step == IF kind = "small" THEN "completing" ELSE "counting"
           processed == IF kind = "small" THEN old.processed + old.size ELSE old.processed
           J == [old EXCEPT !.step = step, !.processed = processed,
                            !.settled = old.settled + old.size, !.size = 0]
<1>1. old.step = "resolving"
  BY DEF Settle, At
<1>2. UNCHANGED <<kind, batch, copies, row, request_vars, events, dispatched, abandoned, skipped>>
  BY DEF Settle
<1>3. job' = [job EXCEPT ![j] = J]
  BY DEF Settle
<1>4. /\ old \in Job /\ GoodJob(Accounted, kind, old)
      /\ old.size \in Counts /\ old.pos \in Counts /\ old.processed \in Counts
      /\ old.settled \in Counts
  BY JobOf, JobFields
<1> HIDE DEF old
<1>5. /\ old.size \in Nat /\ old.pos \in Nat /\ old.pos <= Last /\ old.processed \in Nat
      /\ old.settled \in Nat
  BY <1>4, CountsNat
<1>6. Held(old) = old.pos
  BY <1>1 DEF Held
<1>7. /\ kind = "small" => /\ old.processed + old.size <= old.pos
                           /\ Backed(Accounted, old.processed, old.settled, old.pos)
      /\ kind # "small" => /\ old.processed <= old.pos
                           /\ Backed(Accounted, old.processed, old.settled + old.size, old.pos)
      /\ GoodPayload(Accounted, old.data)
  BY <1>1, <1>4, <1>6 DEF GoodJob
<1>8. processed <= old.pos /\ processed \in Nat
      /\ Backed(Accounted, processed, old.settled + old.size, old.pos)
  BY <1>5, <1>7 DEF Backed
<1>9. processed \in Counts /\ old.settled + old.size \in Counts
  BY <1>5, <1>8, CountsNat DEF Backed
<1>10. step \in {"completing", "counting"}
  OBVIOUS
<1> HIDE DEF step, processed
<1>11. /\ J \in Job /\ J.step = step /\ J.pos = old.pos /\ J.processed = processed
       /\ J.settled = old.settled + old.size /\ J.data = old.data
  BY <1>4, <1>9, <1>10, CountsNat DEF Job, Live
<1> HIDE DEF J
<1>12. GoodJob(Accounted, kind, J)
  BY <1>7, <1>8, <1>10, <1>11 DEF GoodJob
<1>13. Accounted' = Accounted
  BY <1>2, AccountedSame
<1>14. JobsOK(Accounted', kind', job')
  BY <1>2, <1>3, <1>11, <1>12, <1>13, JobStep
<1> QED
  BY <1>2, <1>13, <1>14 DEF CountedOK, RestOK, request_vars

\* A parser between two chunks.
LEMMA BetweenChunks ==
    ASSUME CountedOK, NEW j \in JobIds,
           job[j].step \in {"reading", "counting", "reporting", "completing", "dispatching", "returning"}
    PROVE  /\ job[j].processed <= job[j].pos
           /\ Backed(Accounted, job[j].processed, job[j].settled, job[j].pos)
           /\ Backed(Accounted, job[j].processed, job[j].settled, job[j].processed)
           /\ \A step \in {"reading", "counting", "reporting", "completing", "dispatching",
                            "returning", "done"} :
                GoodJob(Accounted, kind, [job[j] EXCEPT !.step = step])
<1> DEFINE old == job[j]
<1>1. /\ old \in Job /\ GoodJob(Accounted, kind, old) /\ old.pos \in Nat /\ old.processed \in Nat
      /\ old.settled \in Nat
  BY JobOf, JobFields, CountsNat
<1>2. /\ old.processed <= old.pos /\ Backed(Accounted, old.processed, old.settled, old.pos)
      /\ GoodPayload(Accounted, old.data)
  BY <1>1 DEF GoodJob
<1>3. Backed(Accounted, old.processed, old.settled, old.processed)
  BY <1>1, <1>2, BackedShort
<1> HIDE DEF old
<1>4. ASSUME NEW step \in {"reading", "counting", "reporting", "completing", "dispatching",
                            "returning", "done"}
      PROVE  GoodJob(Accounted, kind, [old EXCEPT !.step = step])
  <2> DEFINE J == [old EXCEPT !.step = step]
  <2>1. /\ J.step = step /\ J.pos = old.pos /\ J.processed = old.processed
        /\ J.settled = old.settled /\ J.data = old.data
    BY <1>1 DEF Job
  <2> HIDE DEF J
  <2>2. GoodJob(Accounted, kind, J)
    BY <1>2, <2>1 DEF GoodJob
  <2> QED
    BY <2>2 DEF J
<1> QED
  BY <1>2, <1>3, <1>4 DEF old

LEMMA CountRowsCounted ==
    ASSUME CountedOK, NEW j \in JobIds, CountRows(j)
    PROVE  CountedOK'
<1>1. /\ job[j].step = "counting" /\ Count(j, "processing") /\ Goto(j, "reporting")
      /\ UNCHANGED <<kind, copies, row, request_vars, events, dispatched, abandoned, skipped>>
  BY DEF CountRows, At
<1>2. Accounted' = Accounted
  BY <1>1, AccountedSame
<1>3. BatchOK(Accounted', batch')
  BY <1>1, <1>2, BetweenChunks, CountStep
<1>4. "reporting" \in {"done"} \cup Live
  BY DEF Live
<1>5. JobsOK(Accounted', kind', job')
  BY <1>1, <1>4, BetweenChunks, GotoStep
<1> QED
  BY <1>1, <1>2, <1>3, <1>5 DEF CountedOK, RestOK, request_vars

LEMMA ReportCounted ==
    ASSUME CountedOK, NEW j \in JobIds, Report(j)
    PROVE  CountedOK'
<1> DEFINE cursor == IF kind = "excel" THEN job[j].pos ELSE 0
           d == [processed |-> job[j].processed, settled |-> job[j].settled, cursor |-> cursor]
           state == IF paused THEN "paused" ELSE "running"
<1>1. /\ job[j].step = "reporting" /\ WriteRow(j, state, d) /\ Goto(j, "reading")
      /\ UNCHANGED <<kind, batch, copies, request_vars, events, dispatched, abandoned, skipped>>
  BY DEF Report, At
<1>2. Accounted' = Accounted
  BY <1>1, AccountedSame
<1>3. /\ Backed(Accounted, job[j].processed, job[j].settled, job[j].pos)
      /\ Backed(Accounted, job[j].processed, job[j].settled, job[j].processed)
      /\ job[j].processed \in Counts /\ job[j].settled \in Counts /\ job[j].pos \in Counts
  BY <1>1, BetweenChunks, JobOf, JobFields
<1>4. cursor \in Counts /\ Backed(Accounted, job[j].processed, job[j].settled, cursor)
  BY <1>3, CountsNat DEF Backed
<1>5. state \in {"paused", "running"}
  OBVIOUS
<1> HIDE DEF cursor, state
<1>6. d \in Payload /\ GoodPayload(Accounted, d)
  BY <1>3, <1>4 DEF Payload, GoodPayload
<1> HIDE DEF d
<1>7. RowsOK(Accounted', row')
  BY <1>1, <1>2, <1>5, <1>6, RowStep
<1>8. "reading" \in {"done"} \cup Live
  BY DEF Live
<1>9. JobsOK(Accounted', kind', job')
  BY <1>1, <1>8, BetweenChunks, GotoStep
<1> QED
  BY <1>1, <1>2, <1>7, <1>9 DEF CountedOK, RestOK, request_vars

LEMMA CompleteCounted ==
    ASSUME CountedOK, NEW j \in JobIds, Complete(j)
    PROVE  CountedOK'
<1>1. /\ job[j].step \in {"completing", "reading"} /\ Count(j, "completed") /\ Goto(j, "dispatching")
      /\ UNCHANGED <<kind, copies, row, request_vars, events, dispatched, abandoned, skipped>>
  BY DEF Complete, At
<1>2. Accounted' = Accounted
  BY <1>1, AccountedSame
<1>3. BatchOK(Accounted', batch')
  BY <1>1, <1>2, BetweenChunks, CountStep
<1>4. "dispatching" \in {"done"} \cup Live
  BY DEF Live
<1>5. JobsOK(Accounted', kind', job')
  BY <1>1, <1>4, BetweenChunks, GotoStep
<1> QED
  BY <1>1, <1>2, <1>3, <1>5 DEF CountedOK, RestOK, request_vars

LEMMA DispatchCounted ==
    ASSUME CountedOK, NEW j \in JobIds, Dispatch(j)
    PROVE  CountedOK'
<1> DEFINE J == [job[j] EXCEPT !.step = "returning", !.ids = {}]
<1>1. /\ job[j].step = "dispatching"
      /\ UNCHANGED <<kind, batch, copies, row, request_vars, events, skipped>>
  BY DEF Dispatch, At
<1>2. job[j].ids \subseteq Lines /\ job[j] \in Job
  BY JobOf, JobFields
<1>3. dispatched' \subseteq Lines /\ abandoned' \subseteq Lines
  BY <1>2 DEF Dispatch, CountedOK, RestOK
<1>4. J \in Job
  BY <1>2 DEF Job, Live
<1>5. /\ J.step = "returning" /\ J.pos = job[j].pos /\ J.processed = job[j].processed
      /\ J.settled = job[j].settled /\ J.data = job[j].data
  BY <1>2 DEF Job
<1>6. job' = [job EXCEPT ![j] = J]
  BY <1>2 DEF Dispatch, CountedOK, JobsOK
<1> HIDE DEF J
<1>7. GoodJob(Accounted, kind, J)
  BY <1>1, <1>5, BetweenChunks, JobOf DEF GoodJob
<1>8. Accounted' = Accounted
  BY <1>1, AccountedSame
<1>9. JobsOK(Accounted', kind', job')
  BY <1>1, <1>4, <1>6, <1>7, <1>8, JobStep
<1> QED
  BY <1>1, <1>3, <1>8, <1>9 DEF CountedOK, RestOK, request_vars

LEMMA ReturnCounted ==
    ASSUME CountedOK, NEW j \in JobIds, Return(j)
    PROVE  CountedOK'
<1>1. /\ job[j].step = "returning" /\ WriteRow(j, "completed", job[j].data) /\ Goto(j, "done")
      /\ UNCHANGED <<kind, batch, copies, request_vars, events, dispatched, abandoned, skipped>>
  BY DEF Return, At
<1>2. Accounted' = Accounted
  BY <1>1, AccountedSame
<1>3. RowsOK(Accounted', row')
  BY <1>1, <1>2, JobOf, RowStep
<1>4. JobsOK(Accounted', kind', job')
  BY <1>1, BetweenChunks, GotoStep
<1> QED
  BY <1>1, <1>2, <1>3, <1>4 DEF CountedOK, RestOK, request_vars

\* Whatever a parser has counted when it throws, it has settled no row that is not in the
\* table: a chunk that it read and did not settle keeps the counters apart.
LEMMA FailsCounted ==
    ASSUME CountedOK, NEW j \in JobIds, Fails(j), events' \in 0 .. MaxEvents,
           job[j].step \in {"reading", "inserting", "resolving", "counting", "reporting",
                            "completing", "dispatching", "returning"}
    PROVE  CountedOK'
<1> DEFINE old == job[j]
           J == [old EXCEPT !.step = "failing", !.ids = {}, !.open = {}]
<1>1. /\ UNCHANGED <<kind, batch, copies, row, request_vars, dispatched, skipped>>
      /\ abandoned' = abandoned \cup old.ids
  BY DEF Fails
<1>2. /\ old \in Job /\ GoodJob(Accounted, kind, old) /\ GoodPayload(Accounted, old.data)
      /\ old.ids \in SUBSET Lines
      /\ old.size \in Nat /\ old.pos \in Nat /\ old.processed \in Nat /\ old.settled \in Nat
  BY JobOf, JobFields, CountsNat
<1>3. job' = [job EXCEPT ![j] = J]
  BY <1>2 DEF Fails, CountedOK, JobsOK
<1>4. J \in Job
  BY <1>2 DEF Job, Live
<1>5. /\ J.step = "failing" /\ J.processed = old.processed /\ J.settled = old.settled
      /\ J.data = old.data
  BY <1>2 DEF Job
<1> HIDE DEF J
<1>6. Backed(Accounted, old.processed, old.settled, old.processed)
  <2>1. CASE old.step \in {"reading", "counting", "reporting", "completing", "dispatching",
                           "returning"}
    BY <2>1, BetweenChunks
  <2>2. CASE old.step \in {"inserting", "resolving"} /\ kind = "small"
    <3>1. /\ old.size <= old.pos /\ old.processed + old.size <= old.pos
          /\ Backed(Accounted, old.processed, old.settled, Held(old))
      BY <1>2, <2>2 DEF GoodJob
    <3>2. Held(old) \in Nat /\ old.processed <= Held(old)
      BY <1>2, <3>1 DEF Held
    <3> QED
      BY <1>2, <3>1, <3>2, BackedShort
  <2>3. CASE old.step \in {"inserting", "resolving"} /\ kind # "small"
    <3>1. old.size > 0 /\ old.settled + old.size <= old.processed
      BY <1>2, <2>3 DEF GoodJob, Backed
    <3> QED
      BY <1>2, <3>1 DEF Backed
  <2> QED
    BY <2>1, <2>2, <2>3
<1> HIDE DEF old
<1>7. GoodJob(Accounted, kind, J)
  BY <1>2, <1>5, <1>6 DEF GoodJob
<1>8. Accounted' = Accounted
  BY <1>1, AccountedSame
<1>9. JobsOK(Accounted', kind', job')
  BY <1>1, <1>3, <1>4, <1>7, <1>8, JobStep
<1>10. RestOK'
  BY <1>1, <1>2 DEF CountedOK, RestOK, request_vars
<1> QED
  BY <1>1, <1>8, <1>9, <1>10 DEF CountedOK, request_vars

LEMMA EventTyped == CountedOK /\ Event => events' \in 0 .. MaxEvents
  BY LimitsAssumption DEF CountedOK, RestOK, Event

LEMMA RefuseCounted ==
    ASSUME CountedOK, NEW j \in JobIds, Refuse(j)
    PROVE  CountedOK'
<1>1. job[j].step = "dispatching" /\ Fails(j) /\ events' \in 0 .. MaxEvents
  BY DEF Refuse, At, CountedOK, RestOK
<1> QED
  BY <1>1, FailsCounted

LEMMA ThrowCounted ==
    ASSUME CountedOK, NEW j \in JobIds, Throw(j)
    PROVE  CountedOK'
<1>1. Fails(j) /\ events' \in 0 .. MaxEvents /\ job[j].step \in ThrowAt \ {"failing"}
  BY EventTyped DEF Throw
<1>2. job[j].step \in {"inserting", "resolving", "counting", "reporting", "completing",
                       "dispatching"}
  BY <1>1, LimitsAssumption
<1> QED
  BY <1>1, <1>2, FailsCounted

LEMMA FailBatchCounted ==
    ASSUME CountedOK, NEW j \in JobIds, FailBatch(j)
    PROVE  CountedOK'
<1>1. /\ job[j].step = "failing" /\ Goto(j, "closing")
      /\ UNCHANGED <<kind, copies, row, request_vars, dispatched, abandoned, skipped>>
      /\ (Count(j, "failed") /\ UNCHANGED events) \/ (Event /\ UNCHANGED batch)
  BY DEF FailBatch, At
<1>2. Accounted' = Accounted
  BY <1>1, AccountedSame
<1>3. /\ Backed(Accounted, job[j].processed, job[j].settled, job[j].processed)
      /\ GoodPayload(Accounted, job[j].data)
  BY <1>1, JobOf DEF GoodJob
<1>4. BatchOK(Accounted', batch')
  BY <1>1, <1>2, <1>3, CountStep DEF CountedOK
<1>5. events' \in 0 .. MaxEvents
  BY <1>1, EventTyped DEF CountedOK, RestOK
<1>6. GoodJob(Accounted, kind, [job[j] EXCEPT !.step = "closing"])
  <2> DEFINE J == [job[j] EXCEPT !.step = "closing"]
  <2>1. J.step = "closing" /\ J.data = job[j].data
    BY JobOf DEF Job
  <2> HIDE DEF J
  <2>2. GoodJob(Accounted, kind, J)
    BY <1>3, <2>1 DEF GoodJob
  <2> QED
    BY <2>2 DEF J
<1>7. "closing" \in {"done"} \cup Live
  BY DEF Live
<1>8. JobsOK(Accounted', kind', job')
  BY <1>1, <1>6, <1>7, GotoStep
<1>9. RestOK'
  BY <1>1, <1>5 DEF CountedOK, RestOK, request_vars
<1> QED
  BY <1>1, <1>2, <1>4, <1>8, <1>9 DEF CountedOK, request_vars

LEMMA FailRowCounted ==
    ASSUME CountedOK, NEW j \in JobIds, FailRow(j)
    PROVE  CountedOK'
<1> DEFINE step == IF job[j].made + 1 < Attempts(j) THEN "waiting" ELSE "done"
           made == job[j].made + 1
           J == [job[j] EXCEPT !.made = made, !.step = step]
<1>1. /\ WriteRow(j, "failed", job[j].data)
      /\ UNCHANGED <<kind, batch, copies, request_vars, events, dispatched, abandoned, skipped>>
  BY DEF FailRow
<1>2. job[j] \in Job /\ job[j].made \in Nat /\ GoodPayload(Accounted, job[j].data)
  BY JobOf, JobFields
<1>3. job' = [job EXCEPT ![j] = J]
  BY <1>2 DEF FailRow, CountedOK, JobsOK
<1>4. step \in {"waiting", "done"} /\ made \in Nat
  BY <1>2
<1> HIDE DEF step, made
<1>5. J \in Job /\ J.step = step /\ J.data = job[j].data
  BY <1>2, <1>4 DEF Job
<1> HIDE DEF J
<1>6. GoodJob(Accounted, kind, J)
  BY <1>2, <1>4, <1>5 DEF GoodJob
<1>7. Accounted' = Accounted
  BY <1>1, AccountedSame
<1>8. JobsOK(Accounted', kind', job')
  BY <1>1, <1>3, <1>5, <1>6, <1>7, JobStep
<1>9. RowsOK(Accounted', row')
  BY <1>1, <1>7, JobOf, RowStep
<1> QED
  BY <1>1, <1>7, <1>8, <1>9 DEF CountedOK, RestOK, request_vars

LEMMA DieCounted ==
    ASSUME CountedOK, NEW j \in JobIds, Die(j)
    PROVE  CountedOK'
<1> DEFINE step == IF job[j].stalls + 1 > MaxStalled THEN "stalled" ELSE "waiting"
           stalls == job[j].stalls + 1
           J == [job[j] EXCEPT !.stalls = stalls, !.ids = {}, !.open = {},
                               !.step = step]
<1>1. /\ Event /\ abandoned' = abandoned \cup job[j].ids
      /\ UNCHANGED <<kind, batch, copies, row, request_vars, dispatched, skipped>>
  BY DEF Die
<1>2. /\ job[j] \in Job /\ job[j].stalls \in Nat /\ GoodPayload(Accounted, job[j].data)
      /\ job[j].ids \in SUBSET Lines
  BY JobOf, JobFields
<1>3. job' = [job EXCEPT ![j] = J]
  BY DEF Die
<1>4. step \in {"waiting", "stalled"} /\ stalls \in Nat
  BY <1>2
<1> HIDE DEF step, stalls
<1>5. J \in Job /\ J.step = step /\ J.data = job[j].data
  BY <1>2, <1>4 DEF Job
<1> HIDE DEF J
<1>6. GoodJob(Accounted, kind, J)
  BY <1>2, <1>4, <1>5 DEF GoodJob
<1>7. Accounted' = Accounted
  BY <1>1, AccountedSame
<1>8. JobsOK(Accounted', kind', job')
  BY <1>1, <1>3, <1>5, <1>6, <1>7, JobStep
<1>9. RestOK'
  BY <1>1, <1>2, EventTyped DEF CountedOK, RestOK, request_vars
<1> QED
  BY <1>1, <1>7, <1>8, <1>9 DEF CountedOK, request_vars

-----------------------------------------------------------------------------
(* The counters: the operator *)

LEMMA PauseCounted == CountedOK /\ Pause => CountedOK'
<1> SUFFICES ASSUME CountedOK, Pause PROVE CountedOK'
  OBVIOUS
<1>1. UNCHANGED <<kind, batch, copies, row, job, asked, retries, dispatched, abandoned, skipped>>
      /\ paused' = TRUE
  BY DEF Pause
<1>2. Accounted' = Accounted /\ events' \in 0 .. MaxEvents
  BY <1>1, AccountedSame, EventTyped DEF Pause
<1> QED
  BY <1>1, <1>2 DEF CountedOK, RestOK

\* What an operator resumes starts from the payload of a row.
LEMMA ResumeCounted == CountedOK /\ Resume => CountedOK'
<1> SUFFICES ASSUME CountedOK, Resume PROVE CountedOK'
  OBVIOUS
<1>1. UNCHANGED <<kind, batch, copies, asked, retries, dispatched, abandoned, skipped>>
      /\ paused' = FALSE
  BY DEF Resume
<1>2. Accounted' = Accounted /\ events' \in 0 .. MaxEvents
  BY <1>1, AccountedSame, EventTyped DEF Resume
<1>3. RowsOK(Accounted, row')
  <2> DEFINE Selected(k) == row[k].state \in {"paused", "failed"}
             Exhausted(k) == row[k].state = "failed" /\ row[k].used >= MaxRecovery
             next(k) == CASE ~Selected(k)            -> row[k]
                          [] Exhausted(k)            -> [row[k] EXCEPT !.state = "terminal_error_skipped"]
                          [] row[k].state = "failed" -> [row[k] EXCEPT !.state = "recovering",
                                                                       !.used = @ + 1]
                          [] OTHER                   -> [row[k] EXCEPT !.state = "queued"]
  <2>1. row' = [k \in Keys |-> next(k)]
    BY DEF Resume
  <2>2. ASSUME NEW k \in Keys PROVE next(k) \in RuntimeRow /\ next(k).resume = row[k].resume
    <3> DEFINE old == row[k]
    <3>1. old \in RuntimeRow /\ old.used \in Nat
      BY DEF CountedOK, RowsOK, RuntimeRow
    <3>2. next(k) = CASE ~ (old.state \in {"paused", "failed"}) -> old
                      [] old.state = "failed" /\ old.used >= MaxRecovery ->
                           [old EXCEPT !.state = "terminal_error_skipped"]
                      [] old.state = "failed" -> [old EXCEPT !.state = "recovering", !.used = @ + 1]
                      [] OTHER -> [old EXCEPT !.state = "queued"]
      OBVIOUS
    <3> HIDE DEF old, next
    <3>3. ASSUME NEW state \in {"queued", "terminal_error_skipped"}
          PROVE  /\ [old EXCEPT !.state = state] \in RuntimeRow
                 /\ [old EXCEPT !.state = state].resume = old.resume
      BY <3>1 DEF RuntimeRow
    <3>5. /\ [old EXCEPT !.state = "recovering", !.used = @ + 1] \in RuntimeRow
          /\ [old EXCEPT !.state = "recovering", !.used = @ + 1].resume = old.resume
      <4> DEFINE used == old.used + 1
      <4>1. used \in Nat
        BY <3>1
      <4> HIDE DEF used
      <4>2. /\ [old EXCEPT !.state = "recovering", !.used = used] \in RuntimeRow
            /\ [old EXCEPT !.state = "recovering", !.used = used].resume = old.resume
        BY <3>1, <4>1 DEF RuntimeRow
      <4> QED
        BY <4>2 DEF used
    <3>4. next(k) \in {old, [old EXCEPT !.state = "terminal_error_skipped"],
                       [old EXCEPT !.state = "recovering", !.used = @ + 1],
                       [old EXCEPT !.state = "queued"]}
      BY <3>2, Zenon
    <3> QED
      BY <3>1, <3>3, <3>4, <3>5 DEF old
  <2> HIDE DEF next
  <2>3. row' \in [Keys -> RuntimeRow] /\ \A k \in Keys : row'[k].resume = row[k].resume
    BY <2>1, <2>2
  <2> QED
    BY <2>3 DEF CountedOK, RowsOK
<1>4. JobsOK(Accounted, kind, job')
  <2>1. ASSUME NEW j \in JobIds
        PROVE  job'[j] \in {job[j], [NoJob EXCEPT !.step = "waiting", !.data = row[j[1]].resume]}
    BY DEF Resume
  <2>2. ASSUME NEW j \in JobIds
        PROVE  job'[j] \in Job /\ GoodJob(Accounted, kind, job'[j])
    <3>1. row[j[1]].resume \in Payload /\ GoodPayload(Accounted, row[j[1]].resume)
      BY KeyOfJob DEF CountedOK, RowsOK, RuntimeRow
    <3> DEFINE J == [NoJob EXCEPT !.step = "waiting", !.data = row[j[1]].resume]
    <3>2. J \in Job /\ GoodJob(Accounted, kind, J)
      BY <3>1, WaitingGood
    <3>3. job'[j] = job[j] \/ job'[j] = J
      BY <2>1
    <3> HIDE DEF J
    <3> QED
      BY <3>2, <3>3, JobOf
  <2>3. job' = [j \in JobIds |-> job'[j]]
    BY DEF Resume
  <2> QED
    BY <2>2, <2>3 DEF JobsOK
<1> QED
  BY <1>1, <1>2, <1>3, <1>4 DEF CountedOK, RestOK

LEMMA RetryReadCounted == CountedOK /\ RetryRead => CountedOK'
<1> SUFFICES ASSUME CountedOK, RetryRead PROVE CountedOK'
  OBVIOUS
<1> DEFINE d == [processed |-> batch.processed, settled |-> batch.settled, cursor |-> 0]
<1>1. /\ UNCHANGED <<kind, batch, copies, row, job, paused, dispatched, abandoned, skipped>>
      /\ asked' = {d} /\ retries' = retries + 1 /\ retries < MaxRetries
  BY DEF RetryRead
<1>2. Accounted' = Accounted /\ events' \in 0 .. MaxEvents
  BY <1>1, AccountedSame, EventTyped DEF RetryRead
<1>3. batch.processed \in Counts /\ batch.settled \in Counts
      /\ Backed(Accounted, batch.processed, batch.settled, batch.processed)
  BY DEF CountedOK, BatchOK, Batch
<1>4. d \in Payload /\ GoodPayload(Accounted, d)
  BY <1>3, CountsNat DEF Payload, GoodPayload, Backed
<1> HIDE DEF d
<1>5. AskedOK(Accounted, asked')
  BY <1>1, <1>4 DEF AskedOK
<1>6. retries' \in Keys
  BY <1>1, LimitsAssumption DEF CountedOK, RestOK, Keys
<1> QED
  BY <1>1, <1>2, <1>5, <1>6 DEF CountedOK, RestOK

LEMMA RetryEnqueueCounted == CountedOK /\ RetryEnqueue => CountedOK'
<1> SUFFICES ASSUME CountedOK, NEW d \in asked,
                    /\ batch' = [batch EXCEPT !.status = "pending"]
                    /\ row' = [row EXCEPT ![retries] =
                                 [state |-> IF paused THEN "paused" ELSE "queued",
                                  used |-> 0, resume |-> d]]
                    /\ job' = [job EXCEPT ![<<retries, 0>>] =
                                 IF paused THEN @ ELSE [NoJob EXCEPT !.step = "waiting", !.data = d]]
                    /\ asked' = {}
                    /\ UNCHANGED <<kind, copies, paused, events, retries, dispatched, abandoned,
                                   skipped>>
             PROVE  CountedOK'
  BY DEF RetryEnqueue
<1>1. Accounted' = Accounted
  BY AccountedSame
<1>2. d \in Payload /\ GoodPayload(Accounted, d)
  BY DEF CountedOK, AskedOK
<1>3. BatchOK(Accounted, batch')
  BY DEF CountedOK, BatchOK, Batch
<1>4. retries \in Keys
  BY DEF CountedOK, RestOK
<1>5. RowsOK(Accounted, row')
  <2> DEFINE state == IF paused THEN "paused" ELSE "queued"
             x == [state |-> state, used |-> 0, resume |-> d]
  <2>1. row' = [row EXCEPT ![retries] = x]
    OBVIOUS
  <2>2. state \in {"paused", "queued"}
    OBVIOUS
  <2> HIDE DEF state
  <2>3. x \in RuntimeRow /\ x.resume = d
    BY <1>2, <2>2 DEF RuntimeRow
  <2> HIDE DEF x
  <2> QED
    BY <1>2, <1>4, <2>1, <2>3 DEF CountedOK, RowsOK
<1>6. JobsOK(Accounted, kind, job')
  <2> DEFINE j == <<retries, 0>>
             J == [NoJob EXCEPT !.step = "waiting", !.data = d]
  <2>1. j \in JobIds
    BY <1>4, LimitsAssumption DEF JobIds
  <2>2. J \in Job /\ GoodJob(Accounted, kind, J)
    BY <1>2, WaitingGood
  <2>3. job' = [job EXCEPT ![j] = IF paused THEN @ ELSE J]
    OBVIOUS
  <2> HIDE DEF j, J
  <2>4. CASE paused
    <3>1. job' = job
      BY <2>1, <2>3, <2>4 DEF CountedOK, JobsOK
    <3> QED
      BY <3>1 DEF CountedOK
  <2>5. CASE ~paused
    <3>1. job' = [job EXCEPT ![j] = J]
      BY <2>3, <2>5
    <3>2. JobsOK(Accounted, kind, job) /\ Accounted \subseteq Accounted
      BY DEF CountedOK
    <3>3. JobsOK(Accounted, kind, [job EXCEPT ![j] = J])
      BY <2>1, <2>2, <3>2, OneJob
    <3> QED
      BY <3>1, <3>3
  <2> QED
    BY <2>4, <2>5
<1>7. AskedOK(Accounted, asked')
  BY DEF AskedOK
<1> QED
  BY <1>1, <1>3, <1>5, <1>6, <1>7 DEF CountedOK, RestOK

-----------------------------------------------------------------------------
(* Who has found a row new: each step *)

\* A step that inserts nothing and finds nothing.
LEMMA FoundQuiet ==
    ASSUME FoundInv, UNCHANGED <<copies, dispatched, abandoned>>,
           \A j \in JobIds : job'[j].ids \subseteq job[j].ids,
           \A j \in JobIds : job'[j].step = "resolving" =>
                               job[j].step = "resolving" /\ job'[j].open \subseteq job[j].open
    PROVE  FoundInv'
<1>1. \A r \in Lines : Found(r)' => Found(r)
  BY DEF Found
<1>2. \A j \in JobIds, r \in Lines : Resolving(j, r)' => Resolving(j, r)
  BY DEF Resolving
<1>3. FoundNewOnce'
  BY DEF FoundInv, FoundNewOnce
<1> QED
  BY <1>1, <1>2, <1>3 DEF FoundInv

\* One parser moves on.
LEMMA QuietJob ==
    ASSUME FoundInv, CountedOK, UNCHANGED <<copies, dispatched, abandoned>>,
           NEW j \in JobIds, NEW J, job' = [job EXCEPT ![j] = J],
           J.ids \subseteq job[j].ids,
           J.step = "resolving" => job[j].step = "resolving" /\ J.open \subseteq job[j].open
    PROVE  FoundInv'
<1>1. ASSUME NEW i \in JobIds PROVE job'[i] = IF i = j THEN J ELSE job[i]
  BY DEF CountedOK, JobsOK
<1>2. ASSUME NEW i \in JobIds
      PROVE  /\ job'[i].ids \subseteq job[i].ids
             /\ job'[i].step = "resolving" => job[i].step = "resolving" /\ job'[i].open \subseteq job[i].open
  <2>1. CASE i = j
    BY <1>1, <2>1
  <2>2. CASE i # j
    <3>1. job'[i] = job[i]
      BY <1>1, <2>2
    <3> QED
      BY <3>1
  <2> QED
    BY <2>1, <2>2
<1> QED
  BY <1>2, FoundQuiet

LEMMA QuietGoto ==
    ASSUME FoundInv, CountedOK, UNCHANGED <<copies, dispatched, abandoned>>,
           NEW j \in JobIds, NEW step, step # "resolving", Goto(j, step)
    PROVE  FoundInv'
<1> DEFINE J == [job[j] EXCEPT !.step = step]
<1>1. job' = [job EXCEPT ![j] = J]
  BY JobOf DEF Goto
<1>2. J.ids = job[j].ids /\ J.step = step
  BY JobOf DEF Job
<1> HIDE DEF J
<1> QED
  BY <1>1, <1>2, QuietJob

LEMMA QuietSteps ==
    ASSUME FoundInv, CountedOK, NEW j \in JobIds,
           \/ Begin(j) \/ ReadChunk(j) \/ Settle(j) \/ CountRows(j) \/ Report(j) \/ Complete(j)
           \/ Return(j) \/ FailBatch(j) \/ FailRow(j)
    PROVE  FoundInv'
<1>1. job[j] \in Job
  BY JobOf
<1>2. CASE Begin(j)
  <2>1. UNCHANGED <<copies, dispatched, abandoned>>
    BY <1>2 DEF Begin
  <2>2. CASE Goto(j, "done")
    BY <2>1, <2>2, QuietGoto
  <2>3. CASE ~Goto(j, "done")
    <3> DEFINE d == job[j].data
               J == [job[j] EXCEPT !.step = "reading", !.pos = Start(d),
                                   !.processed = d.processed, !.settled = d.settled]
    <3>1. job' = [job EXCEPT ![j] = J]
      BY <1>2, <2>3 DEF Begin
    <3>2. J.ids = job[j].ids /\ J.step = "reading"
      BY <1>1 DEF Job
    <3> HIDE DEF J
    <3> QED
      BY <2>1, <3>1, <3>2, QuietJob
  <2> QED
    BY <2>2, <2>3
<1>3. CASE ReadChunk(j)
  <2> DEFINE p == job[j].pos
             end == ChunkEnd(p)
             J == [job[j] EXCEPT
                     !.step = "inserting", !.pos = end, !.size = end - p, !.open = p + 1 .. end,
                     !.processed = IF kind = "small" THEN @ ELSE @ + (end - p)]
  <2>1. job' = [job EXCEPT ![j] = J] /\ UNCHANGED <<copies, dispatched, abandoned>>
    BY <1>3 DEF ReadChunk
  <2>2. J.ids = job[j].ids /\ J.step = "inserting"
    BY <1>1 DEF Job
  <2> HIDE DEF J
  <2> QED
    BY <2>1, <2>2, QuietJob
<1>4. CASE Settle(j)
  <2> DEFINE step == IF kind = "small" THEN "completing" ELSE "counting"
             J == [job[j] EXCEPT
                     !.step = step,
                     !.processed = IF kind = "small" THEN @ + job[j].size ELSE @,
                     !.settled = @ + job[j].size,
                     !.size = 0]
  <2>1. job' = [job EXCEPT ![j] = J] /\ UNCHANGED <<copies, dispatched, abandoned>>
    BY <1>4 DEF Settle
  <2>2. step # "resolving"
    OBVIOUS
  <2> HIDE DEF step
  <2>3. J.ids = job[j].ids /\ J.step = step
    BY <1>1 DEF Job
  <2> HIDE DEF J
  <2> QED
    BY <2>1, <2>2, <2>3, QuietJob
<1>5. CASE CountRows(j)
  BY <1>5, QuietGoto DEF CountRows
<1>6. CASE Report(j)
  BY <1>6, QuietGoto DEF Report
<1>7. CASE Complete(j)
  BY <1>7, QuietGoto DEF Complete
<1>8. CASE Return(j)
  BY <1>8, QuietGoto DEF Return
<1>9. CASE FailBatch(j)
  BY <1>9, QuietGoto DEF FailBatch
<1>10. CASE FailRow(j)
  <2> DEFINE step == IF job[j].made + 1 < Attempts(j) THEN "waiting" ELSE "done"
             J == [job[j] EXCEPT !.made = job[j].made + 1, !.step = step]
  <2>1. job' = [job EXCEPT ![j] = J] /\ UNCHANGED <<copies, dispatched, abandoned>>
    BY <1>1, <1>10 DEF FailRow, CountedOK, JobsOK
  <2>2. step # "resolving"
    OBVIOUS
  <2> HIDE DEF step
  <2>3. J.ids = job[j].ids /\ J.step = step
    BY <1>1 DEF Job
  <2> HIDE DEF J
  <2> QED
    BY <2>1, <2>2, <2>3, QuietJob
<1> QED
  BY <1>2, <1>3, <1>4, <1>5, <1>6, <1>7, <1>8, <1>9, <1>10

\* The rows that a parser found new are sent, or given up.
LEMMA FoundHandedOver ==
    ASSUME FoundInv, CountedOK, UNCHANGED copies, NEW j \in JobIds, NEW J,
           job' = [job EXCEPT ![j] = J], J.ids = {}, J.step # "resolving",
           \/ dispatched' = dispatched \cup job[j].ids /\ UNCHANGED abandoned
           \/ abandoned' = abandoned \cup job[j].ids /\ UNCHANGED dispatched
    PROVE  FoundInv'
<1>1. \A i \in JobIds : job'[i] = IF i = j THEN J ELSE job[i]
  BY DEF CountedOK, JobsOK
<1>2. \A i \in JobIds : i # j => job'[i] = job[i]
  BY <1>1
<1>3. job'[j] = J
  BY <1>1
<1>4. \A i \in JobIds : job'[i].ids \subseteq job[i].ids
  BY <1>2, <1>3
<1>5. \A r \in Lines : Found(r)' => Found(r)
  BY <1>4 DEF Found
<1>6. \A i \in JobIds, r \in Lines : Resolving(i, r)' => Resolving(i, r)
  <2>1. ASSUME NEW i \in JobIds, NEW r \in Lines, Resolving(i, r)' PROVE Resolving(i, r)
    <3>1. i # j
      BY <1>3, <2>1 DEF Resolving
    <3> QED
      BY <1>2, <2>1, <3>1 DEF Resolving
  <2> QED
    BY <2>1
<1>7. FoundNewOnce'
  <2>1. /\ \A i, k \in JobIds : i # k => job[i].ids \cap job[k].ids = {}
        /\ \A i \in JobIds : job[i].ids \cap (dispatched \cup abandoned) = {}
        /\ dispatched \cap abandoned = {}
    BY DEF FoundInv, FoundNewOnce
  <2>2. ASSUME NEW i \in JobIds, NEW k \in JobIds, i # k
        PROVE  job'[i].ids \cap job'[k].ids = {}
    BY <1>4, <2>1, <2>2
  <2>3. ASSUME NEW i \in JobIds
        PROVE  job'[i].ids \cap (dispatched' \cup abandoned') = {}
    <3>1. CASE i = j
      BY <1>3, <3>1
    <3>2. CASE i # j
      BY <1>2, <2>1, <3>2
    <3> QED
      BY <3>1, <3>2
  <2>4. dispatched' \cap abandoned' = {}
    BY <2>1
  <2> QED
    BY <2>2, <2>3, <2>4 DEF FoundNewOnce
<1> QED
  BY <1>5, <1>6, <1>7 DEF FoundInv

LEMMA DispatchFound ==
    ASSUME FoundInv, CountedOK, NEW j \in JobIds, Dispatch(j)
    PROVE  FoundInv'
<1> DEFINE J == [job[j] EXCEPT !.step = "returning", !.ids = {}]
<1>1. job' = [job EXCEPT ![j] = J]
  BY JobOf DEF Dispatch, CountedOK, JobsOK
<1>2. J.ids = {} /\ J.step = "returning"
  BY JobOf DEF Job
<1> HIDE DEF J
<1>3. /\ UNCHANGED copies
      /\ \/ dispatched' = dispatched \cup job[j].ids /\ UNCHANGED abandoned
         \/ abandoned' = abandoned \cup job[j].ids /\ UNCHANGED dispatched
  BY DEF Dispatch
<1> QED
  BY <1>1, <1>2, <1>3, FoundHandedOver

LEMMA FailsFound ==
    ASSUME FoundInv, CountedOK, NEW j \in JobIds, Fails(j)
    PROVE  FoundInv'
<1> DEFINE J == [job[j] EXCEPT !.step = "failing", !.ids = {}, !.open = {}]
<1>1. job' = [job EXCEPT ![j] = J]
  BY JobOf DEF Fails, CountedOK, JobsOK
<1>2. J.ids = {} /\ J.step = "failing"
  BY JobOf DEF Job
<1> HIDE DEF J
<1>3. UNCHANGED copies /\ abandoned' = abandoned \cup job[j].ids /\ UNCHANGED dispatched
  BY DEF Fails
<1> QED
  BY <1>1, <1>2, <1>3, FoundHandedOver

LEMMA DieFound ==
    ASSUME FoundInv, CountedOK, NEW j \in JobIds, Die(j)
    PROVE  FoundInv'
<1> DEFINE step == IF job[j].stalls + 1 > MaxStalled THEN "stalled" ELSE "waiting"
           J == [job[j] EXCEPT !.stalls = @ + 1, !.ids = {}, !.open = {}, !.step = step]
<1>1. job' = [job EXCEPT ![j] = J]
  BY DEF Die
<1>2. step # "resolving"
  OBVIOUS
<1> HIDE DEF step
<1>3. J.ids = {} /\ J.step = step
  BY JobOf DEF Job
<1> HIDE DEF J
<1>4. UNCHANGED copies /\ abandoned' = abandoned \cup job[j].ids /\ UNCHANGED dispatched
  BY DEF Die
<1> QED
  BY <1>1, <1>2, <1>3, <1>4, FoundHandedOver

\* A row that is inserted again is there more than once, for everybody who looks it up.
LEMMA InsertFound ==
    ASSUME FoundInv, CountedOK, NEW j \in JobIds, Insert(j)
    PROVE  FoundInv'
<1> DEFINE J == [job[j] EXCEPT !.step = "resolving"]
<1>1. job' = [job EXCEPT ![j] = J] /\ UNCHANGED <<dispatched, abandoned>>
  BY JobOf DEF Insert, Goto
<1>2. J.ids = job[j].ids /\ J.open = job[j].open
  BY JobOf DEF Job
<1> HIDE DEF J
<1>3. \A i \in JobIds : job'[i] = IF i = j THEN J ELSE job[i]
  BY <1>1 DEF CountedOK, JobsOK
<1>4. /\ job'[j] = J
      /\ \A i \in JobIds : i # j => job'[i] = job[i]
      /\ \A i \in JobIds : job'[i].ids = job[i].ids
  BY <1>2, <1>3
<1>5. ASSUME NEW r \in Lines
      PROVE  /\ copies[r] \in Nat /\ copies'[r] \in Nat /\ copies'[r] >= copies[r]
             /\ r \in job[j].open => copies'[r] > 0 /\ (copies[r] > 0 => copies'[r] > 1)
  BY DEF CountedOK, RestOK, Insert, Smaller
<1>6. \A r \in Lines : Found(r)' <=> Found(r)
  BY <1>1, <1>4 DEF Found
<1>7. \A r \in Lines : Resolving(j, r)' => r \in job[j].open
  BY <1>2, <1>4 DEF Resolving
<1>8. \A i \in JobIds, r \in Lines : i # j /\ Resolving(i, r)' => Resolving(i, r)
  BY <1>4 DEF Resolving
<1>9. FoundNewOnce'
  BY <1>1, <1>4 DEF FoundInv, FoundNewOnce
<1>10. ASSUME NEW i \in JobIds, NEW r \in Lines, Resolving(i, r)'
       PROVE  copies'[r] > 0 /\ (Found(r) => copies'[r] > 1)
  <2>1. CASE i = j
    BY <1>5, <1>7, <1>10, <2>1 DEF FoundInv
  <2>2. CASE i # j
    BY <1>5, <1>8, <1>10, <2>2 DEF FoundInv
  <2> QED
    BY <2>1, <2>2
<1>11. ASSUME NEW i \in JobIds, NEW k \in JobIds, NEW r \in Lines, i # k,
              Resolving(i, r)', Resolving(k, r)'
       PROVE  copies'[r] > 1
  <2>1. CASE i = j
    <3>1. r \in job[j].open /\ Resolving(k, r)
      BY <1>7, <1>8, <1>11, <2>1
    <3> QED
      BY <1>5, <3>1 DEF FoundInv
  <2>2. CASE k = j
    <3>1. r \in job[j].open /\ Resolving(i, r)
      BY <1>7, <1>8, <1>11, <2>2
    <3> QED
      BY <1>5, <3>1 DEF FoundInv
  <2>3. CASE i # j /\ k # j
    <3>1. Resolving(i, r) /\ Resolving(k, r)
      BY <1>8, <1>11, <2>3
    <3>2. copies[r] > 1
      BY <1>11, <3>1 DEF FoundInv
    <3> QED
      BY <1>5, <3>2
  <2> QED
    BY <2>1, <2>2, <2>3
<1>12. \A r \in Lines : Found(r) => copies'[r] > 0
  BY <1>5 DEF FoundInv
<1> QED
  BY <1>6, <1>9, <1>10, <1>11, <1>12 DEF FoundInv

\* Only a row that is there once is found new.
LEMMA ResolveFound ==
    ASSUME FoundInv, CountedOK, NEW j \in JobIds, Resolve(j)
    PROVE  FoundInv'
<1>1. PICK r \in job[j].open :
        /\ job[j].step = "resolving"
        /\ job' = [job EXCEPT ![j].open = @ \ {r},
                              ![j].ids = IF copies[r] > 1 THEN @ ELSE @ \cup {r}]
        /\ UNCHANGED <<kind, batch, copies, row, request_vars, events, dispatched, abandoned, skipped>>
  BY DEF Resolve, At
<1>2. r \in Lines /\ Resolving(j, r)
  BY <1>1, JobOf, JobFields DEF Resolving
<1> DEFINE ids == IF copies[r] > 1 THEN job[j].ids ELSE job[j].ids \cup {r}
           J == [job[j] EXCEPT !.open = job[j].open \ {r}, !.ids = ids]
<1>3. job' = [job EXCEPT ![j] = J]
  BY <1>1, JobOf DEF CountedOK, JobsOK
<1>4. /\ copies[r] > 1 => ids = job[j].ids
      /\ ids \subseteq job[j].ids \cup {r}
  OBVIOUS
<1> HIDE DEF ids
<1>5. J.ids = ids /\ J.open = job[j].open \ {r}
  BY JobOf DEF Job
<1> HIDE DEF J
<1>6. CASE copies[r] > 1
  <2>1. J.ids \subseteq job[j].ids /\ J.open \subseteq job[j].open
    BY <1>4, <1>5, <1>6
  <2> QED
    BY <1>1, <1>3, <2>1, QuietJob
<1>7. CASE ~ (copies[r] > 1)
  <2>1. \A i \in JobIds : job'[i] = IF i = j THEN J ELSE job[i]
    BY <1>3 DEF CountedOK, JobsOK
  <2>2. /\ job'[j] = J
        /\ \A i \in JobIds : i # j => job'[i] = job[i]
    BY <2>1
  <2>3. ~Found(r)
    BY <1>2, <1>7 DEF FoundInv
  <2>4. \A i \in JobIds : ~Resolving(i, r)'
    <3>1. ~Resolving(j, r)'
      BY <1>5, <2>2 DEF Resolving
    <3>2. ASSUME NEW i \in JobIds, i # j, Resolving(i, r)' PROVE FALSE
      <4>1. Resolving(i, r)
        BY <2>2, <3>2 DEF Resolving
      <4> QED
        BY <1>2, <1>7, <3>2, <4>1 DEF FoundInv
    <3> QED
      BY <3>1, <3>2
  <2>5. \A i \in JobIds, q \in Lines : Resolving(i, q)' => Resolving(i, q)
    <3>1. ASSUME NEW i \in JobIds, NEW q \in Lines, Resolving(i, q)' PROVE Resolving(i, q)
      <4>1. CASE i = j
        BY <1>1, <1>5, <2>2, <3>1, <4>1 DEF Resolving
      <4>2. CASE i # j
        BY <2>2, <3>1, <4>2 DEF Resolving
      <4> QED
        BY <4>1, <4>2
    <3> QED
      BY <3>1
  <2>6. \A q \in Lines : Found(q)' => Found(q) \/ q = r
    <3>1. \A i \in JobIds : job'[i].ids \subseteq job[i].ids \cup {r}
      BY <1>4, <1>5, <2>2
    <3> QED
      BY <1>1, <3>1 DEF Found
  <2>7. FoundNewOnce'
    <3>1. /\ \A i, k \in JobIds : i # k => job[i].ids \cap job[k].ids = {}
          /\ \A i \in JobIds : job[i].ids \cap (dispatched \cup abandoned) = {}
          /\ dispatched \cap abandoned = {}
          /\ r \notin dispatched \cup abandoned
          /\ \A i \in JobIds : r \notin job[i].ids
      BY <2>3 DEF FoundInv, FoundNewOnce, Found
    <3>2. job'[j].ids \subseteq job[j].ids \cup {r}
      BY <1>4, <1>5, <2>2
    <3>3. ASSUME NEW i \in JobIds, NEW k \in JobIds, i # k
          PROVE  job'[i].ids \cap job'[k].ids = {}
      <4>1. CASE i = j
        <5>1. job'[k].ids = job[k].ids
          BY <2>2, <3>3, <4>1
        <5> QED
          BY <3>1, <3>2, <3>3, <4>1, <5>1
      <4>2. CASE k = j
        <5>1. job'[i].ids = job[i].ids
          BY <2>2, <3>3, <4>2
        <5> QED
          BY <3>1, <3>2, <3>3, <4>2, <5>1
      <4>3. CASE i # j /\ k # j
        BY <2>2, <3>1, <3>3, <4>3
      <4> QED
        BY <4>1, <4>2, <4>3
    <3>4. ASSUME NEW i \in JobIds
          PROVE  job'[i].ids \cap (dispatched \cup abandoned) = {}
      <4>1. CASE i = j
        BY <3>1, <3>2, <4>1
      <4>2. CASE i # j
        BY <2>2, <3>1, <4>2
      <4> QED
        BY <4>1, <4>2
    <3>5. dispatched' = dispatched /\ abandoned' = abandoned
      BY <1>1
    <3> QED
      BY <3>1, <3>3, <3>4, <3>5 DEF FoundNewOnce
  <2>8. copies' = copies
    BY <1>1
  <2>9. \A q \in Lines : Found(q)' => copies'[q] > 0
    BY <1>2, <2>6, <2>8 DEF FoundInv
  <2>10. \A i \in JobIds, q \in Lines : Resolving(i, q)' => copies'[q] > 0
    BY <2>5, <2>8 DEF FoundInv
  <2>11. \A i \in JobIds, q \in Lines : Resolving(i, q)' /\ Found(q)' => copies'[q] > 1
    BY <2>4, <2>5, <2>6, <2>8 DEF FoundInv
  <2>12. \A i, k \in JobIds, q \in Lines :
           i # k /\ Resolving(i, q)' /\ Resolving(k, q)' => copies'[q] > 1
    BY <2>5, <2>8 DEF FoundInv
  <2> QED
    BY <2>7, <2>9, <2>10, <2>11, <2>12 DEF FoundInv
<1> QED
  BY <1>6, <1>7

LEMMA OperatorFound ==
    ASSUME FoundInv, CountedOK, Pause \/ Resume \/ RetryRead \/ RetryEnqueue
    PROVE  FoundInv'
<1>1. CASE Pause \/ RetryRead
  <2>1. UNCHANGED <<copies, dispatched, abandoned, job>>
    BY <1>1 DEF Pause, RetryRead
  <2> QED
    BY <2>1, FoundQuiet
<1>2. CASE Resume
  <2>1. UNCHANGED <<copies, dispatched, abandoned>>
    BY <1>2 DEF Resume
  <2>2. ASSUME NEW j \in JobIds
        PROVE  /\ job'[j].ids \subseteq job[j].ids
               /\ job'[j].step = "resolving" => job[j].step = "resolving" /\ job'[j].open \subseteq job[j].open
    <3> DEFINE J == [NoJob EXCEPT !.step = "waiting", !.data = row[j[1]].resume]
    <3>1. job'[j] = job[j] \/ job'[j] = J
      BY <1>2 DEF Resume
    <3>2. J.ids = {} /\ J.step = "waiting"
      BY DEF NoJob
    <3> HIDE DEF J
    <3> QED
      BY <3>1, <3>2
  <2> QED
    BY <2>1, <2>2, FoundQuiet
<1>3. CASE RetryEnqueue
  <2>1. PICK d \in asked :
          /\ job' = [job EXCEPT ![<<retries, 0>>] =
                       IF paused THEN @ ELSE [NoJob EXCEPT !.step = "waiting", !.data = d]]
          /\ UNCHANGED <<copies, dispatched, abandoned>>
    BY <1>3 DEF RetryEnqueue
  <2> DEFINE j == <<retries, 0>>
             J == [NoJob EXCEPT !.step = "waiting", !.data = d]
  <2>2. J.ids = {} /\ J.step = "waiting"
    BY DEF NoJob
  <2>3. j \in JobIds
    BY LimitsAssumption DEF JobIds, CountedOK, RestOK
  <2>4. job' = [job EXCEPT ![j] = IF paused THEN @ ELSE J]
    BY <2>1
  <2> HIDE DEF j, J
  <2>5. CASE paused
    <3>1. job' = job
      BY <2>3, <2>4, <2>5 DEF CountedOK, JobsOK
    <3> QED
      BY <2>1, <3>1, FoundQuiet
  <2>6. CASE ~paused
    <3>1. job' = [job EXCEPT ![j] = J]
      BY <2>4, <2>6
    <3> QED
      BY <2>1, <2>2, <2>3, <3>1, QuietJob
  <2> QED
    BY <2>5, <2>6
<1> QED
  BY <1>1, <1>2, <1>3

-----------------------------------------------------------------------------
(* Every step *)

LEMMA IInvParts == IInv <=> CountedOK /\ FoundInv
  BY CountedParts DEF IInv

LEMMA NextCounted == CountedOK /\ [Next]_vars => CountedOK'
<1> SUFFICES ASSUME CountedOK, [Next]_vars PROVE CountedOK'
  OBVIOUS
<1>1. CASE UNCHANGED vars
  <2>1. Accounted' = Accounted
    BY <1>1, AccountedSame DEF vars
  <2> QED
    BY <1>1, <2>1 DEF CountedOK, RestOK, vars, request_vars
<1>2. ASSUME NEW j \in JobIds, Work(j) PROVE CountedOK'
  <2>1. CASE Begin(j) \/ ReadChunk(j) \/ Insert(j) \/ Resolve(j) \/ Settle(j)
    BY <2>1, BeginCounted, ReadChunkCounted, InsertCounted, ResolveCounted, SettleCounted0
  <2>2. CASE CountRows(j) \/ Report(j) \/ Complete(j) \/ Dispatch(j) \/ Refuse(j)
    BY <2>2, CountRowsCounted, ReportCounted, CompleteCounted, DispatchCounted, RefuseCounted
  <2>3. CASE Return(j) \/ FailBatch(j) \/ FailRow(j)
    BY <2>3, ReturnCounted, FailBatchCounted, FailRowCounted
  <2> QED
    BY <1>2, <2>1, <2>2, <2>3 DEF Work
<1>3. ASSUME NEW j \in JobIds, Throw(j) \/ Die(j) PROVE CountedOK'
  BY <1>3, ThrowCounted, DieCounted
<1>4. CASE Pause \/ Resume \/ RetryRead \/ RetryEnqueue
  BY <1>4, PauseCounted, ResumeCounted, RetryReadCounted, RetryEnqueueCounted
<1> QED
  BY <1>1, <1>2, <1>3, <1>4 DEF Next

LEMMA NextFound == CountedOK /\ FoundInv /\ [Next]_vars => FoundInv'
<1> SUFFICES ASSUME CountedOK, FoundInv, [Next]_vars PROVE FoundInv'
  OBVIOUS
<1>1. CASE UNCHANGED vars
  <2>1. UNCHANGED <<copies, dispatched, abandoned, job>>
    BY <1>1 DEF vars
  <2> QED
    BY <2>1, FoundQuiet
<1>2. ASSUME NEW j \in JobIds, Work(j) PROVE FoundInv'
  <2>1. CASE \/ Begin(j) \/ ReadChunk(j) \/ Settle(j) \/ CountRows(j) \/ Report(j) \/ Complete(j)
             \/ Return(j) \/ FailBatch(j) \/ FailRow(j)
    BY <2>1, QuietSteps
  <2>2. CASE Insert(j)
    BY <2>2, InsertFound
  <2>3. CASE Resolve(j)
    BY <2>3, ResolveFound
  <2>4. CASE Dispatch(j)
    BY <2>4, DispatchFound
  <2>5. CASE Refuse(j)
    BY <2>5, FailsFound DEF Refuse
  <2> QED
    BY <1>2, <2>1, <2>2, <2>3, <2>4, <2>5 DEF Work
<1>3. ASSUME NEW j \in JobIds, Throw(j) \/ Die(j) PROVE FoundInv'
  BY <1>3, FailsFound, DieFound DEF Throw
<1>4. CASE Pause \/ Resume \/ RetryRead \/ RetryEnqueue
  BY <1>4, OperatorFound
<1> QED
  BY <1>1, <1>2, <1>3, <1>4 DEF Next

LEMMA Invariant == Spec => []IInv
<1>1. IInv /\ [Next]_vars => IInv'
  <2> SUFFICES ASSUME CountedOK, FoundInv, [Next]_vars PROVE IInv'
    BY IInvParts
  <2>1. CountedOK' /\ FoundInv'
    BY NextCounted, NextFound
  <2>2. TypeOK' /\ CountInv'
    BY <2>1 DEF CountedOK, RestOK, JobsOK, RowsOK, BatchOK, AskedOK, TypeOK, CountInv
  <2> QED
    BY <2>1, <2>2 DEF IInv
<1> QED
  BY <1>1, InitInv, PTL DEF Spec

-----------------------------------------------------------------------------
(* What the proofs establish *)

\* The counters, checkpoints, rows and jobs of a file keep their types, for a file of any
\* length on any sheets, any parser and any number of retries, resumes and faults.
THEOREM TypeCorrect == Spec => []TypeOK
<1>1. IInv => TypeOK
  BY DEF IInv
<1> QED
  BY <1>1, Invariant, PTL

\* Whenever the batch or a checkpoint has settled as many rows as it has processed, those
\* rows are in bronze_contacts, apart from rows that A2 passed over: neither a parser that
\* dies between reading and inserting, nor a retry or a resumed copy that starts from the
\* counters of another, makes agreeing counters out of rows that are not there.
THEOREM Counted == Spec => []CountedIsStored
<1>1. ASSUME CountInv PROVE CountedIsStored
  <2>1. ASSUME NEW c, Backed(Accounted, c.processed, c.settled, c.processed),
               c.settled = c.processed, NEW r \in (1 .. c.processed) \ skipped
        PROVE  copies[r] > 0
    BY <2>1 DEF Backed, Accounted
  <2>2. Backed(Accounted, batch.processed, batch.settled, batch.processed)
    BY <1>1 DEF CountInv
  <2>3. ASSUME NEW k \in Keys
        PROVE  Backed(Accounted, row[k].resume.processed, row[k].resume.settled,
                      row[k].resume.processed)
    BY <1>1 DEF CountInv, GoodPayload
  <2>4. ASSUME NEW c \in {batch} \cup {row[k].resume : k \in Keys}
        PROVE  Backed(Accounted, c.processed, c.settled, c.processed)
    BY <2>2, <2>3
  <2> QED
    BY <2>1, <2>4 DEF CountedIsStored
<1>2. IInv => CountInv
  BY DEF IInv
<1> QED
  BY <1>1, <1>2, Invariant, PTL

\* Of all copies of a row that attempts, retries and resumed parsers insert, however they
\* overlap, at most one is found new: one parser holds it, or it has been sent, or it has
\* been given up, never two of these.
THEOREM NewOnce == Spec => []FoundNewOnce
<1>1. IInv => FoundNewOnce
  BY DEF IInv, FoundInv
<1> QED
  BY <1>1, Invariant, PTL
===============================================================================
