------------------------ MODULE ImportRuntimeProofs ------------------------
(***************************************************************************)
(* Proofs about ImportRuntime, for every set of keys, workers and requests *)
(* and every value of the limits and bounds.                               *)
(***************************************************************************)
EXTENDS ImportRuntime, TLAPS

-----------------------------------------------------------------------------
(* What each party leaves alone.                                            *)

\* What no step of enqueueImportJob touches: flags, requests, executions.
LEMMA ProducerFrame ==
  ASSUME NEW k \in Keys, Producer(k)
  PROVE  UNCHANGED <<control_vars, used, made, stalls, exec, req_vars, processed>>
BY DEF Producer, EnqueueRead, EnqueueWrite, EnqueueAdd, EnqueueDies,
       control_vars, row_vars, bull_vars, req_vars, hist_vars

\* What no step of the worker wrapper touches.
LEMMA WorkerFrame ==
  ASSUME NEW j \in JobIds, Worker(j) \/ WorkerDies(j) \/ StalledCheck(j)
  PROVE  UNCHANGED <<control_vars, used, enq_vars, req_vars>>
BY DEF Worker, Take, BeginWrite, ProgressRead, ProgressWrite, ProcessorReturns,
       CompleteWrite, Acknowledge, Throws, FailWrite, Reject, WorkerDies, StalledCheck,
       control_vars, row_vars, enq_vars, req_vars

\* What the pause route touches: the flags and nothing else.
LEMMA PauseFrame ==
  ASSUME NEW s, Pause(s)
  PROVE  UNCHANGED <<row_vars, bull_vars, exec, enq_vars, req_vars, hist_vars>>
BY DEF Pause

\* What no step of resumeImportRuntimeJobs touches.
LEMMA RequestFrame ==
  ASSUME NEW r \in Requests, Request(r)
  PROVE  UNCHANGED <<pauses, made, stalls, exec, enq_vars, processed>>
<1>1. ASSUME NEW s \in PauseScopes, NEW m \in Modes, ResumeClear(r, s, m)
      PROVE  UNCHANGED <<pauses, made, stalls, exec, enq_vars, processed>>
  BY <1>1 DEF ResumeClear, bull_vars, enq_vars, hist_vars
<1> QED
  BY <1>1 DEF Request, ResumeSelect, ResumeSkip, ResumeAdd, ResumeWrite, ResumeEnd,
              ResumeDies, control_vars, bull_vars, enq_vars, hist_vars

-----------------------------------------------------------------------------
(* Type correctness.                                                        *)

\* The empty tables and queues have their types.
LEMMA InitType == Init => TypeOK
BY DEF Init, TypeOK, RowStates, BullStates, ExecSteps, EnqSteps, RequestRecord,
       IdleRequest, Scopes, Causes

\* Every step of a producer keeps the types.
LEMMA ProducerType ==
  ASSUME TypeOK, NEW k \in Keys, Producer(k)
  PROVE  TypeOK'
<1> USE DEF TypeOK, RowStates, EnqSteps, Causes, control_vars, row_vars, bull_vars,
            req_vars, hist_vars
<1>1. CASE EnqueueRead(k)
  BY <1>1 DEF EnqueueRead
<1>2. CASE EnqueueWrite(k)
  BY <1>2 DEF EnqueueWrite
<1>3. CASE EnqueueAdd(k)
  BY <1>3 DEF EnqueueAdd, QueueAdd, BullStates
<1>4. CASE EnqueueDies(k)
  BY <1>4 DEF EnqueueDies
<1> QED
  BY <1>1, <1>2, <1>3, <1>4 DEF Producer

\* Every step of a worker, and the two ways BullMQ moves a job by itself, keep
\* the types.
LEMMA WorkerType ==
  ASSUME TypeOK, NEW j \in JobIds, Worker(j) \/ WorkerDies(j) \/ StalledCheck(j)
  PROVE  TypeOK'
<1> USE DEF TypeOK, RowStates, BullStates, ExecSteps, Causes, control_vars,
            row_vars, bull_vars, enq_vars, req_vars, hist_vars, MoveExec,
            ReadControl, WriteRow
<1>1. CASE Take(j)
  BY <1>1 DEF Take
<1>2. CASE BeginWrite(j)
  BY <1>2 DEF BeginWrite
<1>3. CASE ProgressRead(j)
  BY <1>3 DEF ProgressRead
<1>4. CASE ProgressWrite(j)
  BY <1>4 DEF ProgressWrite
<1>5. CASE ProcessorReturns(j)
  BY <1>5 DEF ProcessorReturns
<1>6. CASE CompleteWrite(j)
  BY <1>6 DEF CompleteWrite
<1>7. CASE Acknowledge(j)
  BY <1>7 DEF Acknowledge
<1>8. CASE Throws(j)
  BY <1>8 DEF Throws
<1>9. CASE FailWrite(j)
  BY <1>9 DEF FailWrite
<1>10. CASE Reject(j)
  BY <1>10 DEF Reject
<1>11. CASE WorkerDies(j)
  BY <1>11 DEF WorkerDies
<1>12. CASE StalledCheck(j)
  BY <1>12 DEF StalledCheck, JobIds
<1> QED
  BY <1>1, <1>2, <1>3, <1>4, <1>5, <1>6, <1>7, <1>8, <1>9, <1>10, <1>11, <1>12
     DEF Worker

\* A pause keeps the types.
LEMMA PauseType ==
  ASSUME TypeOK, NEW s \in Scopes, Pause(s)
  PROVE  TypeOK'
BY DEF TypeOK, Pause, row_vars, bull_vars, enq_vars, req_vars, hist_vars

\* A request that moves to a well-typed record stays well typed.
LEMMA MoveRequestType ==
  ASSUME TypeOK, NEW r \in Requests, NEW next \in RequestRecord, MoveRequest(r, next)
  PROVE  req' \in [Requests -> RequestRecord]
BY DEF TypeOK, MoveRequest

\* A request not being served is well typed.
LEMMA IdleRequestType == IdleRequest \in RequestRecord
BY DEF IdleRequest, RequestRecord, RowStates, Scopes

\* Every step of a resume request keeps the types.
LEMMA RequestType ==
  ASSUME TypeOK, NEW r \in Requests, Request(r)
  PROVE  TypeOK'
<1> USE DEF TypeOK, control_vars, row_vars, bull_vars, enq_vars, hist_vars
<1>0. req[r] \in RequestRecord
  OBVIOUS
<1>1. ASSUME NEW s \in PauseScopes, NEW m \in Modes, ResumeClear(r, s, m)
      PROVE  TypeOK'
  <2> DEFINE next == [IdleRequest EXCEPT !.step = "cleared", !.scope = s, !.mode = m]
  <2>1. next \in RequestRecord
    BY ScopesAssumption, ModesAssumption DEF IdleRequest, RequestRecord, RowStates
  <2>2. req' \in [Requests -> RequestRecord]
    BY <1>1, <2>1, MoveRequestType DEF ResumeClear
  <2>3. /\ resumes' = resumes + 1
        /\ control' = [control EXCEPT ![s] = FALSE]
        /\ UNCHANGED <<pauses, row_vars, bull_vars, exec, enq_vars, hist_vars>>
    BY <1>1 DEF ResumeClear
  <2> HIDE DEF next
  <2>4. control' \in [Scopes -> BOOLEAN]
    BY <2>3
  <2>5. resumes' \in Nat
    BY <2>3
  <2> QED
    BY <2>2, <2>3, <2>4, <2>5
<1>2. CASE ResumeSelect(r)
  <2> DEFINE next == [req[r] EXCEPT
         !.step  = "loop",
         !.todo  = {k \in Keys : row[k] \in ResumableStates /\ InScope(k, req[r].scope)},
         !.state = row,
         !.used  = used]
  <2>1. next \in RequestRecord
    BY <1>0 DEF RequestRecord
  <2>2. req' \in [Requests -> RequestRecord]
    BY <1>2, <2>1, MoveRequestType DEF ResumeSelect
  <2> QED
    BY <1>2, <2>2 DEF ResumeSelect
<1>3. ASSUME NEW k \in Keys, ResumeSkip(r, k)
      PROVE  TypeOK'
  <2>1. [req[r] EXCEPT !.todo = @ \ {k}] \in RequestRecord
    BY <1>0 DEF RequestRecord
  <2>2. req' \in [Requests -> RequestRecord]
    BY <1>3, <2>1, MoveRequestType DEF ResumeSkip
  <2> QED
    BY <1>3, <2>2 DEF ResumeSkip, RowStates
<1>4. ASSUME NEW k \in Keys, ResumeAdd(r, k)
      PROVE  TypeOK'
  <2>1. [req[r] EXCEPT !.todo = @ \ {k}, !.writing = {k}] \in RequestRecord
    BY <1>0 DEF RequestRecord
  <2>2. req' \in [Requests -> RequestRecord]
    BY <1>4, <2>1, MoveRequestType DEF ResumeAdd
  <2> QED
    BY <1>4, <2>2 DEF ResumeAdd, QueueAdd, BullStates, Causes
<1>5. ASSUME NEW k \in Keys, ResumeWrite(r, k)
      PROVE  TypeOK'
  <2>1. [req[r] EXCEPT !.writing = {}] \in RequestRecord
    BY <1>0 DEF RequestRecord
  <2>2. req' \in [Requests -> RequestRecord]
    BY <1>5, <2>1, MoveRequestType DEF ResumeWrite
  <2>3. req[r].used[k] \in Nat
    BY <1>0 DEF RequestRecord
  <2> QED
    BY <1>5, <2>2, <2>3 DEF ResumeWrite, RowStates
<1>6. CASE ResumeEnd(r) \/ ResumeDies(r)
  <2>1. req' \in [Requests -> RequestRecord]
    BY <1>6, IdleRequestType, MoveRequestType DEF ResumeEnd, ResumeDies
  <2> QED
    BY <1>6, <2>1 DEF ResumeEnd, ResumeDies
<1> QED
  BY <1>1, <1>2, <1>3, <1>4, <1>5, <1>6 DEF Request

\* The variables keep their types in every state of every behaviour.
THEOREM TypeCorrect == Spec => []TypeOK
<1>1. TypeOK /\ [Next]_vars => TypeOK'
  <2> SUFFICES ASSUME TypeOK, [Next]_vars
               PROVE  TypeOK'
    OBVIOUS
  <2>1. CASE Next
    <3>1. CASE \E s \in PauseScopes : Pause(s)
      BY <3>1, PauseType, ScopesAssumption
    <3> QED
      BY <2>1, <3>1, ProducerType, WorkerType, RequestType DEF Next
  <2>2. CASE UNCHANGED vars
    BY <2>2 DEF TypeOK, vars
  <2> QED
    BY <2>1, <2>2
<1> QED
  BY InitType, <1>1, PTL DEF Spec

-----------------------------------------------------------------------------
(* The recovery budget.  Overlapping requests work on old copies of a row,  *)
(* so the invariant bounds every copy, and bounds strictly those a request  *)
(* has passed the exhaustion test with and is about to write back.          *)

RequestBudget(q) ==
  /\ \A k \in Keys : q.used[k] <= MaxRecovery
  /\ \A k \in q.writing : q.mode = "recover" \/ q.state[k] = "failed" => q.used[k] < MaxRecovery
  /\ q.step # "loop" => q.writing = {}

BudgetInv == RecoveryBudget /\ \A r \in Requests : RequestBudget(req[r])

\* A request whose next copy is within the budget keeps every copy within it.
LEMMA MoveRequestBudget ==
  ASSUME TypeOK, BudgetInv, NEW r \in Requests, NEW next, RequestBudget(next),
         MoveRequest(r, next)
  PROVE  \A x \in Requests : RequestBudget(req'[x])
BY DEF TypeOK, BudgetInv, MoveRequest

\* Every step of a resume request keeps the budget.
LEMMA RequestKeepsBudget ==
  ASSUME TypeOK, BudgetInv, NEW r \in Requests, Request(r)
  PROVE  BudgetInv'
<1>0. RequestBudget(req[r]) /\ req[r] \in RequestRecord
  BY DEF BudgetInv, TypeOK
<1> SUFFICES RecoveryBudget' /\ \A x \in Requests : RequestBudget(req'[x])
  BY DEF BudgetInv, RequestBudget
<1>1. ASSUME NEW s \in PauseScopes, NEW m \in Modes, ResumeClear(r, s, m)
      PROVE  RecoveryBudget' /\ \A x \in Requests : RequestBudget(req'[x])
  <2> DEFINE next == [IdleRequest EXCEPT !.step = "cleared", !.scope = s, !.mode = m]
  <2>1. next.used = [k \in Keys |-> 0] /\ next.writing = {}
    BY DEF IdleRequest
  <2>2. MoveRequest(r, next) /\ UNCHANGED row_vars
    BY <1>1 DEF ResumeClear
  <2> HIDE DEF next
  <2>3. RequestBudget(next)
    BY <2>1, LimitsAssumption DEF RequestBudget
  <2> QED
    BY <2>2, <2>3, MoveRequestBudget DEF BudgetInv, RecoveryBudget, row_vars
<1>2. CASE ResumeSelect(r)
  <2> DEFINE next == [req[r] EXCEPT
         !.step  = "loop",
         !.todo  = {k \in Keys : row[k] \in ResumableStates /\ InScope(k, req[r].scope)},
         !.state = row,
         !.used  = used]
  <2>1. next.used = used /\ next.writing = req[r].writing
    BY <1>0 DEF RequestRecord
  <2>2. MoveRequest(r, next) /\ UNCHANGED row_vars /\ req[r].step = "cleared"
    BY <1>2 DEF ResumeSelect
  <2> HIDE DEF next
  <2>3. RequestBudget(next)
    BY <1>0, <2>1, <2>2 DEF RequestBudget, BudgetInv, RecoveryBudget
  <2> QED
    BY <2>2, <2>3, MoveRequestBudget DEF BudgetInv, RecoveryBudget, row_vars
<1>3. ASSUME NEW k \in Keys, ResumeSkip(r, k)
      PROVE  RecoveryBudget' /\ \A x \in Requests : RequestBudget(req'[x])
  <2> DEFINE next == [req[r] EXCEPT !.todo = @ \ {k}]
  <2>1. RequestBudget(next)
    BY <1>0 DEF RequestBudget, RequestRecord
  <2> QED
    BY <1>3, <2>1, MoveRequestBudget DEF ResumeSkip, BudgetInv, RecoveryBudget
<1>4. ASSUME NEW k \in Keys, ResumeAdd(r, k)
      PROVE  RecoveryBudget' /\ \A x \in Requests : RequestBudget(req'[x])
  <2> DEFINE next == [req[r] EXCEPT !.todo = @ \ {k}, !.writing = {k}]
  <2>1. /\ next.used = req[r].used /\ next.state = req[r].state
        /\ next.mode = req[r].mode /\ next.step = req[r].step /\ next.writing = {k}
    BY <1>0 DEF RequestRecord
  <2>2. MoveRequest(r, next) /\ UNCHANGED row_vars /\ req[r].step = "loop" /\ ~Exhausted(r, k)
    BY <1>4 DEF ResumeAdd
  <2> HIDE DEF next
  <2>3. req[r].used[k] \in Nat
    BY <1>0 DEF RequestRecord
  <2>4. RequestBudget(next)
    BY <1>0, <2>1, <2>2, <2>3, LimitsAssumption DEF RequestBudget, Exhausted, IsRecover
  <2> QED
    BY <2>2, <2>4, MoveRequestBudget DEF BudgetInv, RecoveryBudget, row_vars
<1>5. ASSUME NEW k \in Keys, ResumeWrite(r, k)
      PROVE  RecoveryBudget' /\ \A x \in Requests : RequestBudget(req'[x])
  <2> DEFINE next == [req[r] EXCEPT !.writing = {}]
  <2>1. RequestBudget(next)
    BY <1>0 DEF RequestBudget, RequestRecord
  <2>2. \A x \in Requests : RequestBudget(req'[x])
    BY <1>5, <2>1, MoveRequestBudget DEF ResumeWrite
  <2>3. req[r].used[k] \in Nat /\ req[r].used[k] <= MaxRecovery
    BY <1>0 DEF RequestRecord, RequestBudget
  <2>4. IsRecover(r, k) => req[r].used[k] + 1 <= MaxRecovery
    BY <1>0, <1>5, <2>3, LimitsAssumption DEF RequestBudget, IsRecover, ResumeWrite
  <2>5. used' = [used EXCEPT ![k] = IF IsRecover(r, k) THEN req[r].used[k] + 1
                                                     ELSE req[r].used[k]]
    BY <1>5 DEF ResumeWrite
  <2>6. RecoveryBudget'
    BY <2>3, <2>4, <2>5 DEF RecoveryBudget, BudgetInv, TypeOK
  <2> QED
    BY <2>2, <2>6
<1>6. CASE ResumeEnd(r) \/ ResumeDies(r)
  <2>1. RequestBudget(IdleRequest)
    BY LimitsAssumption DEF RequestBudget, IdleRequest
  <2> QED
    BY <1>6, <2>1, MoveRequestBudget
       DEF ResumeEnd, ResumeDies, BudgetInv, RecoveryBudget, row_vars
<1> QED
  BY <1>1, <1>2, <1>3, <1>4, <1>5, <1>6 DEF Request

\* However requests overlap and die, no row records more recoveries than
\* max_recovery_attempts (resumeImportRuntimeJobs).
THEOREM BudgetKept == Spec => []RecoveryBudget
<1>1. Init => BudgetInv
  BY LimitsAssumption DEF Init, BudgetInv, RecoveryBudget, RequestBudget, IdleRequest
<1>2. TypeOK /\ BudgetInv /\ [Next]_vars => BudgetInv'
  <2> SUFFICES ASSUME TypeOK, BudgetInv, [Next]_vars
               PROVE  BudgetInv'
    OBVIOUS
  <2>1. CASE UNCHANGED <<used, req>>
    BY <2>1 DEF BudgetInv, RecoveryBudget, RequestBudget
  <2>2. ASSUME NEW k \in Keys, Producer(k)
        PROVE  UNCHANGED <<used, req>>
    BY <2>2, ProducerFrame DEF req_vars
  <2>3. ASSUME NEW j \in JobIds, Worker(j) \/ WorkerDies(j) \/ StalledCheck(j)
        PROVE  UNCHANGED <<used, req>>
    BY <2>3, WorkerFrame DEF req_vars
  <2>4. ASSUME NEW s \in PauseScopes, Pause(s)
        PROVE  UNCHANGED <<used, req>>
    BY <2>4, PauseFrame DEF row_vars, req_vars
  <2>5. CASE UNCHANGED vars
    BY <2>1, <2>5 DEF vars
  <2> QED
    BY <2>1, <2>2, <2>3, <2>4, <2>5, RequestKeepsBudget DEF Next
<1>3. BudgetInv => RecoveryBudget
  BY DEF BudgetInv
<1> QED
  BY <1>1, <1>2, <1>3, TypeCorrect, PTL DEF Spec
-----------------------------------------------------------------------------
(* Spent recoveries, with one resume request at a time: the copy it works   *)
(* on agrees with the column on every row it has not written yet.           *)

UpToDate(q, spent) ==
  /\ \A k \in q.todo \cup q.writing : q.used[k] = spent[k]
  /\ q.todo \cap q.writing = {}
  /\ q.step # "loop" => q.writing = {}

CopyInv == TypeOK /\ \A r \in Requests : UpToDate(req[r], used)

\* A step that leaves the rows alone keeps the copy up to date if the request
\* moves to one that is.
LEMMA MoveKeepsCopy ==
  ASSUME NEW r0, Requests = {r0}, TypeOK, NEW next, MoveRequest(r0, next),
         UpToDate(next, used')
  PROVE  \A r \in Requests : UpToDate(req'[r], used')
<1>1. req'[r0] = next
  BY DEF TypeOK, MoveRequest
<1> QED
  BY <1>1

\* Every step of the only request keeps its copy up to date and takes back no
\* recovery.
LEMMA RequestSpends ==
  ASSUME NEW r0, Requests = {r0}, CopyInv, Request(r0)
  PROVE  /\ \A r \in Requests : UpToDate(req'[r], used')
         /\ \A k \in Keys : used'[k] >= used[k]
<1>0. /\ r0 \in Requests /\ TypeOK /\ UpToDate(req[r0], used) /\ req[r0] \in RequestRecord
      /\ \A k \in Keys : used[k] \in Nat
  BY DEF CopyInv, TypeOK
<1> DEFINE Goal == /\ \A r \in Requests : UpToDate(req'[r], used')
                   /\ \A k \in Keys : used'[k] >= used[k]
<1>a. ASSUME NEW next, MoveRequest(r0, next), UpToDate(next, used), used' = used
      PROVE  Goal
  <2>1. UpToDate(next, used')
    BY <1>a
  <2>2. \A k \in Keys : used'[k] >= used[k]
    BY <1>0, <1>a
  <2> QED
    BY <1>0, <1>a, <2>1, <2>2, MoveKeepsCopy
<1> HIDE DEF Goal
<1> SUFFICES Goal
  BY DEF Goal
<1>1. ASSUME NEW s \in PauseScopes, NEW m \in Modes, ResumeClear(r0, s, m)
      PROVE  Goal
  <2> DEFINE next == [IdleRequest EXCEPT !.step = "cleared", !.scope = s, !.mode = m]
  <2>1. UpToDate(next, used)
    BY DEF IdleRequest, UpToDate
  <2> QED
    BY <1>1, <1>a, <2>1 DEF ResumeClear, row_vars
<1>2. CASE ResumeSelect(r0)
  <2> DEFINE next == [req[r0] EXCEPT
         !.step  = "loop",
         !.todo  = {k \in Keys : row[k] \in ResumableStates /\ InScope(k, req[r0].scope)},
         !.state = row,
         !.used  = used]
  <2>1. next.used = used /\ next.writing = req[r0].writing
    BY <1>0 DEF RequestRecord
  <2>2. MoveRequest(r0, next) /\ used' = used /\ req[r0].step = "cleared"
    BY <1>2 DEF ResumeSelect, row_vars
  <2> HIDE DEF next
  <2>3. UpToDate(next, used)
    BY <1>0, <2>1, <2>2 DEF UpToDate
  <2> QED
    BY <1>a, <2>2, <2>3
<1>3. ASSUME NEW k \in Keys, ResumeSkip(r0, k)
      PROVE  Goal
  <2> DEFINE next == [req[r0] EXCEPT !.todo = @ \ {k}]
  <2>1. UpToDate(next, used)
    BY <1>0 DEF UpToDate, RequestRecord
  <2> QED
    BY <1>3, <1>a, <2>1 DEF ResumeSkip
<1>4. ASSUME NEW k \in Keys, ResumeAdd(r0, k)
      PROVE  Goal
  <2> DEFINE next == [req[r0] EXCEPT !.todo = @ \ {k}, !.writing = {k}]
  <2>1. /\ next.used = req[r0].used /\ next.step = req[r0].step
        /\ next.todo = req[r0].todo \ {k} /\ next.writing = {k}
    BY <1>0 DEF RequestRecord
  <2>2. /\ MoveRequest(r0, next) /\ used' = used
        /\ req[r0].step = "loop" /\ k \in req[r0].todo
    BY <1>4 DEF ResumeAdd, row_vars
  <2> HIDE DEF next
  <2>3. UpToDate(next, used)
    BY <1>0, <2>1, <2>2 DEF UpToDate
  <2> QED
    BY <1>a, <2>2, <2>3
<1>5. ASSUME NEW k \in Keys, ResumeWrite(r0, k)
      PROVE  Goal
  <2> DEFINE next == [req[r0] EXCEPT !.writing = {}]
  <2>1. next.used = req[r0].used /\ next.todo = req[r0].todo /\ next.writing = {}
    BY <1>0 DEF RequestRecord
  <2>2. /\ MoveRequest(r0, next) /\ k \in req[r0].writing
        /\ used' = [used EXCEPT ![k] = IF IsRecover(r0, k) THEN req[r0].used[k] + 1
                                                         ELSE req[r0].used[k]]
    BY <1>5 DEF ResumeWrite
  <2> HIDE DEF next
  <2>3. req[r0].used[k] = used[k] /\ k \notin req[r0].todo
    BY <1>0, <2>2 DEF UpToDate
  <2>4. \A x \in Keys : used'[x] >= used[x]
    BY <1>0, <2>2, <2>3 DEF TypeOK
  <2>5. \A x \in req[r0].todo : used'[x] = used[x]
    BY <1>0, <2>2, <2>3 DEF TypeOK, RequestRecord
  <2>6. UpToDate(next, used')
    BY <1>0, <2>1, <2>5 DEF UpToDate
  <2> QED
    BY <1>0, <2>2, <2>4, <2>6, MoveKeepsCopy DEF Goal
<1>6. CASE ResumeEnd(r0) \/ ResumeDies(r0)
  <2>1. UpToDate(IdleRequest, used)
    BY DEF UpToDate, IdleRequest
  <2> QED
    BY <1>6, <1>a, <2>1 DEF ResumeEnd, ResumeDies, row_vars
<1> QED
  BY <1>1, <1>2, <1>3, <1>4, <1>5, <1>6 DEF Request

\* With one resume request at a time, whatever it meets half way through and
\* wherever it dies, no row forgets a recovery it has spent
\* (resumeImportRuntimeJobs writes attempts_used from its copy of the row).
THEOREM SpentKept ==
  ASSUME NEW r0, Requests = {r0}
  PROVE  Spec => SpentRecoveriesStay
<1>1. Init => \A r \in Requests : UpToDate(req[r], used)
  BY DEF Init, UpToDate, IdleRequest
<1>2. CopyInv /\ [Next]_vars => /\ (\A r \in Requests : UpToDate(req[r], used))'
                                /\ [\A k \in Keys : used'[k] >= used[k]]_used
  <2> SUFFICES ASSUME CopyInv, [Next]_vars
               PROVE  /\ \A r \in Requests : UpToDate(req'[r], used')
                      /\ [\A k \in Keys : used'[k] >= used[k]]_used
    OBVIOUS
  <2>1. CASE UNCHANGED <<used, req>>
    BY <2>1 DEF CopyInv
  <2>2. ASSUME NEW k \in Keys, Producer(k)
        PROVE  UNCHANGED <<used, req>>
    BY <2>2, ProducerFrame DEF req_vars
  <2>3. ASSUME NEW j \in JobIds, Worker(j) \/ WorkerDies(j) \/ StalledCheck(j)
        PROVE  UNCHANGED <<used, req>>
    BY <2>3, WorkerFrame DEF req_vars
  <2>4. ASSUME NEW s \in PauseScopes, Pause(s)
        PROVE  UNCHANGED <<used, req>>
    BY <2>4, PauseFrame DEF row_vars, req_vars
  <2>5. CASE UNCHANGED vars
    BY <2>1, <2>5 DEF vars
  <2>6. CASE \E r \in Requests : Request(r)
    BY <2>6, RequestSpends
  <2> QED
    BY <2>1, <2>2, <2>3, <2>4, <2>5, <2>6 DEF Next
<1>3. TypeOK /\ (\A r \in Requests : UpToDate(req[r], used)) <=> CopyInv
  BY DEF CopyInv
<1> QED
  BY <1>1, <1>2, <1>3, TypeCorrect, PTL DEF Spec, SpentRecoveriesStay

-----------------------------------------------------------------------------
(* A worker stands in the middle of a job only while BullMQ holds the job   *)
(* as active.                                                               *)

Held == \A j \in JobIds : exec[j] # "idle" => bull[j] = "active"

\* Every key a producer or a request is working on has a row.
LEMMA HeldKept == Spec => []Held
<1>1. Init => Held
  BY DEF Init, Held
<1>2. TypeOK /\ Held /\ [Next]_vars => Held'
  <2> SUFFICES ASSUME TypeOK, Held, [Next]_vars
               PROVE  Held'
    OBVIOUS
  <2> USE DEF TypeOK, Held
  <2>1. CASE UNCHANGED vars
    BY <2>1 DEF vars
  <2>2. ASSUME NEW k \in Keys, Producer(k)
        PROVE  Held'
    <3>1. UNCHANGED exec
      BY <2>2, ProducerFrame
    <3> QED
      BY <2>2, <3>1 DEF Producer, EnqueueRead, EnqueueWrite, EnqueueAdd, EnqueueDies,
                        QueueAdd, bull_vars
  <2>3. ASSUME NEW j \in JobIds, Worker(j) \/ WorkerDies(j) \/ StalledCheck(j)
        PROVE  Held'
    BY <2>3 DEF Worker, Take, BeginWrite, ProgressRead, ProgressWrite, ProcessorReturns,
                CompleteWrite, Acknowledge, Throws, FailWrite, Reject, WorkerDies,
                StalledCheck, ReadControl, MoveExec, bull_vars
  <2>4. ASSUME NEW s \in PauseScopes, Pause(s)
        PROVE  Held'
    BY <2>4, PauseFrame DEF bull_vars
  <2>5. ASSUME NEW r \in Requests, Request(r)
        PROVE  Held'
    <3>1. UNCHANGED exec
      BY <2>5, RequestFrame
    <3>2. ASSUME NEW k \in Keys, ResumeAdd(r, k)
          PROVE  Held'
      BY <3>1, <3>2 DEF ResumeAdd, QueueAdd
    <3>3. UNCHANGED bull \/ \E k \in Keys : ResumeAdd(r, k)
      <4>1. ASSUME NEW s \in PauseScopes, NEW m \in Modes, ResumeClear(r, s, m)
            PROVE  UNCHANGED bull
        BY <4>1 DEF ResumeClear, bull_vars
      <4> QED
        BY <2>5, <4>1 DEF Request, ResumeSelect, ResumeSkip, ResumeWrite, ResumeEnd,
                          ResumeDies, bull_vars
    <3> QED
      BY <3>1, <3>2, <3>3
  <2> QED
    BY <2>1, <2>2, <2>3, <2>4, <2>5 DEF Next
<1> QED
  BY <1>1, <1>2, TypeCorrect, PTL DEF Spec

-----------------------------------------------------------------------------
(* Jobs and rows.  A request only works on keys that had a row, and a row   *)
(* is never deleted, so adding a job never gets ahead of the row.           *)

TrackedInv ==
  /\ TrackedJobs
  /\ \A k \in Keys : enq[k] = "written" => row[k] # "absent"
  /\ \A r \in Requests : \A k \in req[r].todo \cup req[r].writing : row[k] # "absent"

\* A row that exists keeps existing, in every step.
LEMMA RowsStay ==
  ASSUME TypeOK, Next, NEW k \in Keys, row[k] # "absent"
  PROVE  row'[k] # "absent"
<1> USE DEF TypeOK
<1>1. ASSUME NEW i \in Keys, Producer(i)
      PROVE  row'[k] # "absent"
  BY <1>1 DEF Producer, EnqueueRead, EnqueueWrite, EnqueueAdd, EnqueueDies, row_vars
<1>2. ASSUME NEW j \in JobIds, Worker(j) \/ WorkerDies(j) \/ StalledCheck(j)
      PROVE  row'[k] # "absent"
  BY <1>2 DEF Worker, Take, BeginWrite, ProgressRead, ProgressWrite, ProcessorReturns,
              CompleteWrite, Acknowledge, Throws, FailWrite, Reject, WorkerDies,
              StalledCheck, row_vars, WriteRow, MoveExec
<1>3. ASSUME NEW s \in PauseScopes, Pause(s)
      PROVE  row'[k] # "absent"
  BY <1>3 DEF Pause, row_vars
<1>4. ASSUME NEW r \in Requests, Request(r)
      PROVE  row'[k] # "absent"
  <2>1. ASSUME NEW i \in Keys, ResumeSkip(r, i) \/ ResumeWrite(r, i)
        PROVE  row'[k] # "absent"
    <3>1. \E v \in RowStates \ {"absent"} : row' = [row EXCEPT ![i] = v]
      BY <2>1 DEF ResumeSkip, ResumeWrite, RowStates
    <3> QED
      BY <3>1
  <2>2. ASSUME UNCHANGED row_vars
        PROVE  row'[k] # "absent"
    BY <2>2 DEF row_vars
  <2>3. ASSUME NEW s \in PauseScopes, NEW m \in Modes, ResumeClear(r, s, m)
        PROVE  UNCHANGED row_vars
    BY <2>3 DEF ResumeClear
  <2>4. ResumeSelect(r) \/ ResumeEnd(r) \/ ResumeDies(r)
          \/ (\E i \in Keys : ResumeAdd(r, i)) => UNCHANGED row_vars
    BY DEF ResumeSelect, ResumeEnd, ResumeDies, ResumeAdd
  <2> QED
    BY <1>4, <2>1, <2>2, <2>3, <2>4 DEF Request
<1> QED
  BY <1>1, <1>2, <1>3, <1>4 DEF Next

\* What a request is working on had a row when the request selected it.
LEMMA RequestSelectsRows ==
  ASSUME TypeOK, TrackedInv, NEW r \in Requests, Request(r), NEW x \in Requests,
         NEW k \in req'[x].todo \cup req'[x].writing
  PROVE  row[k] # "absent"
<1> DEFINE Work(q) == q.todo \cup q.writing
<1>0. req[r] \in RequestRecord /\ req \in [Requests -> RequestRecord]
  BY DEF TypeOK
<1>1. \A i \in Work(req[x]) : row[i] # "absent"
  BY DEF TrackedInv
<1>2. ASSUME NEW next, MoveRequest(r, next), \A i \in Work(next) : row[i] # "absent"
      PROVE  row[k] # "absent"
  BY <1>0, <1>1, <1>2 DEF MoveRequest
<1>3. \A i \in Work(req[r]) : row[i] # "absent"
  BY DEF TrackedInv
<1>4. Work(IdleRequest) = {}
  BY DEF IdleRequest
<1>5. ASSUME NEW s \in PauseScopes, NEW m \in Modes, ResumeClear(r, s, m)
      PROVE  row[k] # "absent"
  <2> DEFINE next == [IdleRequest EXCEPT !.step = "cleared", !.scope = s, !.mode = m]
  <2>1. Work(next) = {}
    BY DEF IdleRequest
  <2>2. MoveRequest(r, next)
    BY <1>5 DEF ResumeClear
  <2> HIDE DEF next, Work
  <2> QED
    BY <1>2, <2>1, <2>2
<1>6. CASE ResumeSelect(r)
  <2> DEFINE next == [req[r] EXCEPT
         !.step  = "loop",
         !.todo  = {i \in Keys : row[i] \in ResumableStates /\ InScope(i, req[r].scope)},
         !.state = row,
         !.used  = used]
  <2>1. \A i \in Work(next) : row[i] # "absent"
    BY <1>0, <1>3 DEF RequestRecord, ResumableStates
  <2>2. MoveRequest(r, next)
    BY <1>6 DEF ResumeSelect
  <2> HIDE DEF next, Work
  <2> QED
    BY <1>2, <2>1, <2>2
<1>7. ASSUME NEW i \in Keys, ResumeSkip(r, i)
      PROVE  row[k] # "absent"
  <2> DEFINE next == [req[r] EXCEPT !.todo = @ \ {i}]
  <2>1. \A n \in Work(next) : row[n] # "absent"
    BY <1>0, <1>3 DEF RequestRecord
  <2>2. MoveRequest(r, next)
    BY <1>7 DEF ResumeSkip
  <2> HIDE DEF next, Work
  <2> QED
    BY <1>2, <2>1, <2>2
<1>8. ASSUME NEW i \in Keys, ResumeAdd(r, i)
      PROVE  row[k] # "absent"
  <2> DEFINE next == [req[r] EXCEPT !.todo = @ \ {i}, !.writing = {i}]
  <2>1. i \in req[r].todo /\ MoveRequest(r, next)
    BY <1>8 DEF ResumeAdd
  <2>2. \A n \in Work(next) : row[n] # "absent"
    BY <1>0, <1>3, <2>1 DEF RequestRecord
  <2> HIDE DEF next, Work
  <2> QED
    BY <1>2, <2>1, <2>2
<1>9. ASSUME NEW i \in Keys, ResumeWrite(r, i)
      PROVE  row[k] # "absent"
  <2> DEFINE next == [req[r] EXCEPT !.writing = {}]
  <2>1. \A n \in Work(next) : row[n] # "absent"
    BY <1>0, <1>3 DEF RequestRecord
  <2>2. MoveRequest(r, next)
    BY <1>9 DEF ResumeWrite
  <2> HIDE DEF next, Work
  <2> QED
    BY <1>2, <2>1, <2>2
<1>10. CASE ResumeEnd(r) \/ ResumeDies(r)
  <2>1. MoveRequest(r, IdleRequest)
    BY <1>10 DEF ResumeEnd, ResumeDies
  <2> HIDE DEF Work
  <2> QED
    BY <1>2, <1>4, <2>1
<1> QED
  BY <1>5, <1>6, <1>7, <1>8, <1>9, <1>10 DEF Request

\* BullMQ gets a job only from a producer that wrote its row, or from a request
\* that selected its row.
LEMMA JobsAdded ==
  ASSUME TypeOK, Held, TrackedInv, Next, NEW j \in JobIds, bull[j] = "absent", bull'[j] # "absent"
  PROVE  row[j[1]] # "absent"
<1> USE DEF TypeOK
<1>1. ASSUME NEW k \in Keys, Producer(k)
      PROVE  row[j[1]] # "absent"
  BY <1>1 DEF Producer, EnqueueRead, EnqueueWrite, EnqueueAdd, EnqueueDies, bull_vars,
              QueueAdd, TrackedInv
<1>2. ASSUME NEW i \in JobIds, Worker(i) \/ WorkerDies(i) \/ StalledCheck(i)
      PROVE  FALSE
  BY <1>2 DEF Held, Worker, Take, BeginWrite, ProgressRead, ProgressWrite,
              ProcessorReturns, CompleteWrite, Acknowledge, Throws, FailWrite, Reject,
              WorkerDies, StalledCheck, MoveExec, bull_vars
<1>3. ASSUME NEW s \in PauseScopes, Pause(s)
      PROVE  FALSE
  BY <1>3 DEF Pause, bull_vars
<1>4. ASSUME NEW r \in Requests, Request(r)
      PROVE  row[j[1]] # "absent"
  <2>1. ASSUME NEW k \in Keys, ResumeAdd(r, k)
        PROVE  row[j[1]] # "absent"
    <3>1. k \in req[r].todo /\ QueueAdd(ResumeJob(r, k))
      BY <2>1 DEF ResumeAdd
    <3>2. row[k] # "absent"
      BY <3>1 DEF TrackedInv
    <3> QED
      BY <3>1, <3>2 DEF QueueAdd, ResumeJob
  <2>2. ASSUME NEW s \in PauseScopes, NEW m \in Modes, ResumeClear(r, s, m)
        PROVE  UNCHANGED bull
    BY <2>2 DEF ResumeClear, bull_vars
  <2>3. ResumeSelect(r) \/ ResumeEnd(r) \/ ResumeDies(r)
          \/ (\E i \in Keys : ResumeSkip(r, i) \/ ResumeWrite(r, i)) => UNCHANGED bull
    BY DEF ResumeSelect, ResumeEnd, ResumeDies, ResumeSkip, ResumeWrite, bull_vars
  <2> QED
    BY <1>4, <2>1, <2>2, <2>3 DEF Request
<1> QED
  BY <1>1, <1>2, <1>3, <1>4 DEF Next

\* The API can see every job BullMQ may run: enqueueImportJob writes the row
\* before it adds the job, and resumeImportRuntimeJobs adds jobs for rows only.
THEOREM TrackedJobsKept == Spec => []TrackedJobs
<1>1. Init => TrackedInv
  BY DEF Init, TrackedInv, TrackedJobs, IdleRequest
<1>2. TypeOK /\ TypeOK' /\ Held /\ TrackedInv /\ [Next]_vars => TrackedInv'
  <2> SUFFICES ASSUME TypeOK, TypeOK', Held, TrackedInv, [Next]_vars
               PROVE  TrackedInv'
    OBVIOUS
  <2>1. CASE UNCHANGED vars
    BY <2>1 DEF vars, TrackedInv, TrackedJobs
  <2>2. CASE Next
    <3>1. TrackedJobs'
      BY <2>2, RowsStay, JobsAdded DEF TrackedInv, TrackedJobs, JobIds
    <3>2. \A k \in Keys : enq'[k] = "written" => row'[k] # "absent"
      <4>1. ASSUME NEW k \in Keys, enq'[k] = "written", enq[k] # "written"
            PROVE  row'[k] # "absent"
        <5>1. ASSUME NEW i \in Keys, Producer(i)
              PROVE  row'[k] # "absent"
          BY <4>1, <5>1 DEF Producer, EnqueueRead, EnqueueWrite, EnqueueAdd, EnqueueDies,
                            TypeOK
        <5>2. ASSUME NEW j \in JobIds, Worker(j) \/ WorkerDies(j) \/ StalledCheck(j)
              PROVE  UNCHANGED enq
          BY <5>2, WorkerFrame DEF enq_vars
        <5>3. ASSUME NEW s \in PauseScopes, Pause(s)
              PROVE  UNCHANGED enq
          BY <5>3, PauseFrame DEF enq_vars
        <5>4. ASSUME NEW r \in Requests, Request(r)
              PROVE  UNCHANGED enq
          BY <5>4, RequestFrame DEF enq_vars
        <5> QED
          BY <2>2, <4>1, <5>1, <5>2, <5>3, <5>4 DEF Next
      <4> QED
        BY <2>2, <4>1, RowsStay DEF TrackedInv
    <3>3. ASSUME NEW x \in Requests, NEW k \in req'[x].todo \cup req'[x].writing
          PROVE  row'[k] # "absent"
      <4>1. k \in Keys
        BY <3>3 DEF TypeOK, RequestRecord
      <4>2. ASSUME UNCHANGED req
            PROVE  row'[k] # "absent"
        BY <2>2, <3>3, <4>1, <4>2, RowsStay DEF TrackedInv
      <4>3. UNCHANGED req \/ \E r \in Requests : Request(r)
        BY <2>2, ProducerFrame, WorkerFrame, PauseFrame DEF Next, req_vars
      <4> QED
        BY <2>2, <3>3, <4>1, <4>2, <4>3, RequestSelectsRows, RowsStay
    <3> QED
      BY <3>1, <3>2, <3>3 DEF TrackedInv
  <2> QED
    BY <2>1, <2>2
<1>3. TrackedInv => TrackedJobs
  BY DEF TrackedInv
<1> QED
  BY <1>1, <1>2, <1>3, TypeCorrect, HeldKept, PTL DEF Spec

-----------------------------------------------------------------------------
(* Completion.                                                              *)

CompletionInv ==
  /\ CompletedWasProcessed
  /\ \A j \in JobIds : exec[j] \in {"done", "completed"} => processed[j[1]]

\* No row turns "completed", and nobody gets past the processor, other than in
\* the steps of a worker.
LEMMA OnlyWorkersComplete ==
  ASSUME TypeOK, Next, \A j \in JobIds : ~Worker(j)
  PROVE  /\ UNCHANGED processed
         /\ \A k \in Keys : row'[k] = "completed" => row[k] = "completed"
         /\ \A j \in JobIds : exec'[j] \in {"done", "completed"} => exec'[j] = exec[j]
<1> DEFINE Goal == /\ UNCHANGED processed
                   /\ \A k \in Keys : row'[k] = "completed" => row[k] = "completed"
                   /\ \A j \in JobIds : exec'[j] \in {"done", "completed"} => exec'[j] = exec[j]
<1>1. ASSUME NEW k \in Keys, Producer(k)
      PROVE  Goal
  <2>1. UNCHANGED <<exec, processed>>
    BY <1>1, ProducerFrame
  <2> QED
    BY <1>1, <2>1 DEF Producer, EnqueueRead, EnqueueWrite, EnqueueAdd, EnqueueDies,
                      row_vars, TypeOK
<1>2. ASSUME NEW j \in JobIds, WorkerDies(j) \/ StalledCheck(j)
      PROVE  Goal
  BY <1>2 DEF WorkerDies, StalledCheck, row_vars, hist_vars, TypeOK
<1>3. ASSUME NEW s \in PauseScopes, Pause(s)
      PROVE  Goal
  BY <1>3, PauseFrame DEF row_vars, hist_vars
<1>4. ASSUME NEW r \in Requests, Request(r)
      PROVE  Goal
  <2>1. UNCHANGED <<exec, processed>>
    BY <1>4, RequestFrame
  <2>2. ASSUME NEW k \in Keys, ResumeSkip(r, k) \/ ResumeWrite(r, k)
        PROVE  Goal
    BY <2>1, <2>2 DEF ResumeSkip, ResumeWrite, TypeOK
  <2>3. ASSUME NEW s \in PauseScopes, NEW m \in Modes, ResumeClear(r, s, m)
        PROVE  UNCHANGED row
    BY <2>3 DEF ResumeClear, row_vars
  <2>4. UNCHANGED row \/ \E k \in Keys : ResumeSkip(r, k) \/ ResumeWrite(r, k)
    BY <1>4, <2>3 DEF Request, ResumeSelect, ResumeAdd, ResumeEnd, ResumeDies, row_vars
  <2> QED
    BY <2>1, <2>2, <2>4
<1> QED
  BY <1>1, <1>2, <1>3, <1>4 DEF Next

\* A worker writes "completed" only after the processor of the key returned.
LEMMA WorkersCompleteProcessed ==
  ASSUME TypeOK, CompletionInv, NEW j \in JobIds, Worker(j)
  PROVE  CompletionInv'
<1> USE DEF TypeOK, CompletionInv, CompletedWasProcessed, MoveExec, WriteRow,
            row_vars, hist_vars
<1>1. CASE Take(j) \/ BeginWrite(j) \/ ProgressRead(j) \/ ProgressWrite(j)
  BY <1>1 DEF Take, BeginWrite, ProgressRead, ProgressWrite, ReadControl
<1>2. CASE ProcessorReturns(j)
  BY <1>2 DEF ProcessorReturns, JobIds
<1>3. CASE CompleteWrite(j)
  BY <1>3 DEF CompleteWrite
<1>4. CASE Acknowledge(j) \/ Throws(j) \/ FailWrite(j) \/ Reject(j)
  BY <1>4 DEF Acknowledge, Throws, FailWrite, Reject
<1> QED
  BY <1>1, <1>2, <1>3, <1>4 DEF Worker

\* The invariant behind CompletedProcessed holds in every behaviour.
LEMMA CompletionKept == Spec => []CompletionInv
<1>1. Init => CompletionInv
  BY DEF Init, CompletionInv, CompletedWasProcessed
<1>2. TypeOK /\ CompletionInv /\ [Next]_vars => CompletionInv'
  <2> SUFFICES ASSUME TypeOK, CompletionInv, [Next]_vars
               PROVE  CompletionInv'
    OBVIOUS
  <2>1. CASE UNCHANGED vars
    BY <2>1 DEF vars, CompletionInv, CompletedWasProcessed
  <2>2. CASE \E j \in JobIds : Worker(j)
    BY <2>2, WorkersCompleteProcessed
  <2>3. CASE Next /\ \A j \in JobIds : ~Worker(j)
    BY <2>3, OnlyWorkersComplete DEF CompletionInv, CompletedWasProcessed
  <2> QED
    BY <2>1, <2>2, <2>3
<1> QED
  BY <1>1, <1>2, TypeCorrect, PTL DEF Spec

\* A row reads "completed" only if the processor ran to its end at least once:
\* a job main.ts acknowledges because of a pause is never taken for done.
THEOREM CompletedProcessed == Spec => []CompletedWasProcessed
<1>1. CompletionInv => CompletedWasProcessed
  BY DEF CompletionInv
<1> QED
  BY <1>1, CompletionKept, PTL

-----------------------------------------------------------------------------
(* Loss.                                                                    *)

\* What holds of a key nothing unusual has happened to: its only job is the
\* producer's, and wherever that job ends the row says why.
Ordinary(k) ==
  /\ \A n \in 1 .. MaxRecovery + 1 : bull[<<k, n>>] = "absent"
  /\ \A r \in Requests : k \notin req[r].writing
  /\ enqueues[k] = 0 => enq[k] = "idle" /\ bull[<<k, 0>>] = "absent"
  /\ bull[<<k, 0>>] # "absent" => enq[k] = "idle"
  /\ bull[<<k, 0>>] = "absent" /\ enq[k] = "idle"
       => row[k] \in {"absent", "paused", "terminal_error_skipped"}
  /\ exec[<<k, 0>>] = "acking" => row[k] \in {"paused", "terminal_error_skipped"}
  /\ exec[<<k, 0>>] = "nacking" => row[k] \in {"failed", "terminal_error_skipped"}
  /\ bull[<<k, 0>>] = "completed"
       => processed[k] \/ row[k] \in {"paused", "terminal_error_skipped"}
  /\ bull[<<k, 0>>] = "failed" => row[k] \in {"failed", "terminal_error_skipped"}

LossInv == \A k \in Keys : touched[k] = {} => Ordinary(k)

\* The history of a key only grows.
LEMMA TouchedStays ==
  ASSUME TypeOK, Next, NEW k \in Keys, touched'[k] = {}
  PROVE  touched[k] = {}
<1> USE DEF TypeOK
<1>1. ASSUME NEW i \in Keys, Producer(i)
      PROVE  touched[k] = {}
  BY <1>1 DEF Producer, EnqueueRead, EnqueueWrite, EnqueueAdd, EnqueueDies, hist_vars
<1>2. ASSUME NEW j \in JobIds, Worker(j) \/ WorkerDies(j) \/ StalledCheck(j)
      PROVE  touched[k] = {}
  <2>1. CASE StalledCheck(j)
    BY <2>1 DEF StalledCheck
  <2>2. Worker(j) \/ WorkerDies(j) => UNCHANGED touched
    BY DEF Worker, Take, BeginWrite, ProgressRead, ProgressWrite, ProcessorReturns,
           CompleteWrite, Acknowledge, Throws, FailWrite, Reject, WorkerDies, hist_vars
  <2> QED
    BY <1>2, <2>1, <2>2
<1>3. ASSUME NEW s \in PauseScopes, Pause(s)
      PROVE  touched[k] = {}
  BY <1>3, PauseFrame DEF hist_vars
<1>4. ASSUME NEW r \in Requests, Request(r)
      PROVE  touched[k] = {}
  <2>1. ASSUME NEW i \in Keys, ResumeAdd(r, i)
        PROVE  touched[k] = {}
    BY <2>1 DEF ResumeAdd
  <2>2. ASSUME NEW s \in PauseScopes, NEW m \in Modes, ResumeClear(r, s, m)
        PROVE  UNCHANGED touched
    BY <2>2 DEF ResumeClear, hist_vars
  <2>3. UNCHANGED touched \/ \E i \in Keys : ResumeAdd(r, i)
    BY <1>4, <2>2 DEF Request, ResumeSelect, ResumeSkip, ResumeWrite, ResumeEnd,
                      ResumeDies, hist_vars
  <2> QED
    BY <2>1, <2>3
<1> QED
  BY <1>1, <1>2, <1>3, <1>4 DEF Next

\* A step that leaves the key alone.
LEMMA OrdinaryFrame ==
  ASSUME NEW k \in Keys, Ordinary(k),
         row'[k] = row[k], enq'[k] = enq[k], enqueues'[k] = enqueues[k],
         processed'[k] = processed[k],
         \A n \in 0 .. MaxRecovery + 1 : /\ bull'[<<k, n>>] = bull[<<k, n>>]
                                         /\ exec'[<<k, n>>] = exec[<<k, n>>],
         \A r \in Requests : k \notin req'[r].writing
  PROVE  Ordinary(k)'
<1>1. 0 \in 0 .. MaxRecovery + 1 /\ 1 .. MaxRecovery + 1 \subseteq 0 .. MaxRecovery + 1
  BY LimitsAssumption
<1> QED
  BY <1>1 DEF Ordinary

\* A step of enqueueImportJob keeps an ordinary key ordinary.
LEMMA ProducerOrdinary ==
  ASSUME TypeOK, Held, NEW k \in Keys, Ordinary(k), NEW i \in Keys, Producer(i),
         touched'[k] = {}
  PROVE  Ordinary(k)'
<1>0. UNCHANGED <<exec, req, processed>>
  BY ProducerFrame DEF req_vars
<1>1. CASE i # k
  <2>1. row'[k] = row[k] /\ enq'[k] = enq[k] /\ enqueues'[k] = enqueues[k]
    BY <1>1 DEF Producer, EnqueueRead, EnqueueWrite, EnqueueAdd, EnqueueDies, row_vars, TypeOK
  <2>2. \A n \in 0 .. MaxRecovery + 1 : bull'[<<k, n>>] = bull[<<k, n>>]
    BY <1>1 DEF Producer, EnqueueRead, EnqueueWrite, EnqueueAdd, EnqueueDies, bull_vars,
                QueueAdd, TypeOK, JobIds
  <2> QED
    BY <1>0, <2>1, <2>2, OrdinaryFrame DEF Ordinary
<1>2. CASE i = k /\ EnqueueRead(k)
  <2>1. enqueues[k] = 0
    <3>1. enqueues[k] > 0 => "enqueued_again" \in touched'[k]
      BY <1>2 DEF EnqueueRead, TypeOK
    <3> QED
      BY <3>1 DEF TypeOK
  <2> QED
    BY <1>0, <1>2, <2>1 DEF Ordinary, EnqueueRead, TypeOK, row_vars, bull_vars
<1>3. CASE i = k /\ EnqueueWrite(k)
  <2>1. exec[<<k, 0>>] = "idle" /\ bull[<<k, 0>>] = "absent"
    BY <1>3, LimitsAssumption DEF EnqueueWrite, Ordinary, Held, JobIds
  <2>2. enqueues[k] # 0
    BY <1>3 DEF EnqueueWrite, Ordinary
  <2> QED
    BY <1>0, <1>3, <2>1, <2>2 DEF Ordinary, EnqueueWrite, TypeOK, bull_vars
<1>4. CASE i = k /\ EnqueueAdd(k)
  <2>1. bull[<<k, 0>>] = "absent" /\ enqueues[k] # 0
    BY <1>4 DEF EnqueueAdd, Ordinary
  <2>2. /\ bull'[<<k, 0>>] = "waiting"
        /\ \A n \in 1 .. MaxRecovery + 1 : bull'[<<k, n>>] = bull[<<k, n>>]
    BY <1>4, <2>1, LimitsAssumption DEF EnqueueAdd, QueueAdd, TypeOK, JobIds
  <2> QED
    BY <1>0, <1>4, <2>1, <2>2 DEF Ordinary, EnqueueAdd, TypeOK, row_vars
<1>5. CASE i = k /\ EnqueueDies(k)
  BY <1>5 DEF EnqueueDies, TypeOK
<1> QED
  BY <1>1, <1>2, <1>3, <1>4, <1>5 DEF Producer

\* A step of the worker wrapper, or of BullMQ, keeps an ordinary key ordinary.
LEMMA WorkerOrdinary ==
  ASSUME TypeOK, Held, CompletionInv, NEW k \in Keys, Ordinary(k), NEW j \in JobIds,
         Worker(j) \/ WorkerDies(j) \/ StalledCheck(j), touched'[k] = {}
  PROVE  Ordinary(k)'
<1>0. UNCHANGED <<enq, enqueues, req>>
  BY WorkerFrame DEF enq_vars, req_vars
<1>1. bull[j] \in {"waiting", "active"}
  <2>1. Take(j) => bull[j] = "waiting"
    BY DEF Take
  <2>2. StalledCheck(j) => bull[j] = "active"
    BY DEF StalledCheck
  <2>3. Worker(j) \/ WorkerDies(j) => Take(j) \/ exec[j] # "idle"
    BY DEF Worker, BeginWrite, ProgressRead, ProgressWrite, ProcessorReturns,
           CompleteWrite, Acknowledge, Throws, FailWrite, Reject, WorkerDies,
           ReadControl, MoveExec
  <2> QED
    BY <2>1, <2>2, <2>3 DEF Held
<1>2. \E n \in 0 .. MaxRecovery + 1 : j = <<j[1], n>>
  BY DEF JobIds
<1>3. CASE j[1] = k
  <2>1. j = <<k, 0>>
    BY <1>1, <1>2, <1>3 DEF Ordinary
  <2>2. /\ \A n \in 1 .. MaxRecovery + 1 : bull'[<<k, n>>] = "absent"
        /\ \A r \in Requests : k \notin req'[r].writing
        /\ bull'[j] # "absent" /\ enq'[k] = "idle" /\ enqueues'[k] # 0
    <3>1. \A n \in 1 .. MaxRecovery + 1 : <<k, n>> \in JobIds /\ <<k, n>> # j
      BY <2>1 DEF JobIds
    <3>2. \A i \in JobIds : i # j => bull'[i] = bull[i]
      BY DEF Worker, Take, BeginWrite, ProgressRead, ProgressWrite, ProcessorReturns,
             CompleteWrite, Acknowledge, Throws, FailWrite, Reject, WorkerDies,
             StalledCheck, bull_vars, TypeOK
    <3>3. bull'[j] # "absent"
      BY <1>1 DEF Worker, Take, BeginWrite, ProgressRead, ProgressWrite, ProcessorReturns,
             CompleteWrite, Acknowledge, Throws, FailWrite, Reject, WorkerDies,
             StalledCheck, bull_vars, TypeOK
    <3> QED
      BY <1>0, <1>1, <2>1, <3>1, <3>2, <3>3 DEF Ordinary
  <2> SUFFICES
        /\ exec'[j] = "acking" => row'[k] \in {"paused", "terminal_error_skipped"}
        /\ exec'[j] = "nacking" => row'[k] \in {"failed", "terminal_error_skipped"}
        /\ bull'[j] = "completed"
             => processed'[k] \/ row'[k] \in {"paused", "terminal_error_skipped"}
        /\ bull'[j] = "failed" => row'[k] \in {"failed", "terminal_error_skipped"}
    BY <2>1, <2>2 DEF Ordinary
  <2> USE DEF TypeOK, MoveExec, WriteRow, row_vars, bull_vars, hist_vars
  <2>3. CASE Take(j) \/ ProgressRead(j) \/ ProcessorReturns(j) \/ Throws(j) \/ WorkerDies(j)
    BY <1>1, <2>3 DEF Take, ProgressRead, ProcessorReturns, Throws, WorkerDies, ReadControl
  <2>4. CASE BeginWrite(j) \/ ProgressWrite(j) \/ CompleteWrite(j) \/ FailWrite(j)
    BY <1>1, <1>3, <2>4 DEF BeginWrite, ProgressWrite, CompleteWrite, FailWrite
  <2>5. CASE Acknowledge(j)
    <3>1. processed[k] \/ row[k] \in {"paused", "terminal_error_skipped"}
      BY <1>3, <2>1, <2>5 DEF Acknowledge, Ordinary, CompletionInv
    <3> QED
      BY <2>5, <3>1 DEF Acknowledge
  <2>6. CASE Reject(j)
    <3>1. row[k] \in {"failed", "terminal_error_skipped"}
      BY <2>1, <2>6 DEF Reject, Ordinary
    <3> QED
      BY <2>6, <3>1 DEF Reject
  <2>7. CASE StalledCheck(j)
    <3>1. ~(stalls[j] + 1 > MaxStalledCount)
      BY <1>3, <2>7 DEF StalledCheck
    <3> QED
      BY <2>7, <3>1 DEF StalledCheck
  <2> QED
    BY <2>3, <2>4, <2>5, <2>6, <2>7 DEF Worker
<1>4. CASE j[1] # k
  <2>1. row'[k] = row[k] /\ processed'[k] = processed[k]
    BY <1>4 DEF Worker, Take, BeginWrite, ProgressRead, ProgressWrite, ProcessorReturns,
                CompleteWrite, Acknowledge, Throws, FailWrite, Reject, WorkerDies,
                StalledCheck, WriteRow, row_vars, hist_vars, TypeOK
  <2>2. \A n \in 0 .. MaxRecovery + 1 : <<k, n>> \in JobIds /\ <<k, n>> # j
    BY <1>4 DEF JobIds
  <2>3. \A i \in JobIds : i # j => bull'[i] = bull[i] /\ exec'[i] = exec[i]
    BY DEF Worker, Take, BeginWrite, ProgressRead, ProgressWrite, ProcessorReturns,
           CompleteWrite, Acknowledge, Throws, FailWrite, Reject, WorkerDies,
           StalledCheck, ReadControl, MoveExec, bull_vars, TypeOK
  <2>4. \A r \in Requests : k \notin req'[r].writing
    BY <1>0 DEF Ordinary
  <2> QED
    BY <1>0, <2>1, <2>2, <2>3, <2>4, OrdinaryFrame
<1> QED
  BY <1>3, <1>4

\* A step of resumeImportRuntimeJobs keeps an ordinary key ordinary.
LEMMA RequestOrdinary ==
  ASSUME TypeOK, NEW k \in Keys, Ordinary(k), NEW r \in Requests, Request(r),
         touched'[k] = {}
  PROVE  Ordinary(k)'
<1>0. /\ UNCHANGED <<exec, enq, enqueues, processed>>
      /\ req[r] \in RequestRecord /\ req \in [Requests -> RequestRecord]
  BY RequestFrame DEF TypeOK, enq_vars
<1>1. ASSUME NEW next, MoveRequest(r, next), k \notin next.writing
      PROVE  \A x \in Requests : k \notin req'[x].writing
  BY <1>0, <1>1 DEF MoveRequest, Ordinary
<1>2. k \notin req[r].writing
  BY DEF Ordinary
<1>3. ASSUME NEW s \in PauseScopes, NEW m \in Modes, ResumeClear(r, s, m)
      PROVE  Ordinary(k)'
  <2> DEFINE next == [IdleRequest EXCEPT !.step = "cleared", !.scope = s, !.mode = m]
  <2>1. k \notin next.writing
    BY DEF IdleRequest
  <2>2. MoveRequest(r, next) /\ UNCHANGED <<row, bull>>
    BY <1>3 DEF ResumeClear, row_vars, bull_vars
  <2> HIDE DEF next
  <2>3. \A x \in Requests : k \notin req'[x].writing
    BY <1>1, <2>1, <2>2
  <2> QED
    BY <1>0, <2>2, <2>3, OrdinaryFrame
<1>4. CASE ResumeSelect(r)
  <2> DEFINE next == [req[r] EXCEPT
         !.step  = "loop",
         !.todo  = {i \in Keys : row[i] \in ResumableStates /\ InScope(i, req[r].scope)},
         !.state = row,
         !.used  = used]
  <2>1. k \notin next.writing
    BY <1>0, <1>2 DEF RequestRecord
  <2>2. MoveRequest(r, next) /\ UNCHANGED <<row, bull>>
    BY <1>4 DEF ResumeSelect, row_vars, bull_vars
  <2> HIDE DEF next
  <2>3. \A x \in Requests : k \notin req'[x].writing
    BY <1>1, <2>1, <2>2
  <2> QED
    BY <1>0, <2>2, <2>3, OrdinaryFrame
<1>5. ASSUME NEW i \in Keys, ResumeSkip(r, i)
      PROVE  Ordinary(k)'
  <2> DEFINE next == [req[r] EXCEPT !.todo = @ \ {i}]
  <2>1. k \notin next.writing
    BY <1>0, <1>2 DEF RequestRecord
  <2>2. /\ MoveRequest(r, next) /\ UNCHANGED bull
        /\ row' = [row EXCEPT ![i] = "terminal_error_skipped"]
    BY <1>5 DEF ResumeSkip, bull_vars
  <2> HIDE DEF next
  <2>3. \A x \in Requests : k \notin req'[x].writing
    BY <1>1, <2>1, <2>2
  <2>4. row'[k] = row[k] \/ row'[k] = "terminal_error_skipped"
    BY <2>2 DEF TypeOK
  <2>5. CASE row'[k] = row[k]
    BY <1>0, <2>2, <2>3, <2>5, OrdinaryFrame
  <2>6. CASE row'[k] = "terminal_error_skipped"
    BY <1>0, <2>2, <2>3, <2>6 DEF Ordinary
  <2> QED
    BY <2>4, <2>5, <2>6
<1>6. ASSUME NEW i \in Keys, ResumeAdd(r, i)
      PROVE  Ordinary(k)'
  <2> DEFINE next == [req[r] EXCEPT !.todo = @ \ {i}, !.writing = {i}]
  <2>1. i # k
    <3>1. touched' = [touched EXCEPT ![i] = @ \cup {"resumed"}]
      BY <1>6 DEF ResumeAdd
    <3>2. "resumed" \in touched'[i]
      BY <3>1 DEF TypeOK
    <3> QED
      BY <3>2
  <2>2. k \notin next.writing
    BY <1>0, <2>1 DEF RequestRecord
  <2>3. MoveRequest(r, next) /\ UNCHANGED row /\ QueueAdd(ResumeJob(r, i))
    BY <1>6 DEF ResumeAdd, row_vars
  <2> HIDE DEF next
  <2>4. \A x \in Requests : k \notin req'[x].writing
    BY <1>1, <2>2, <2>3
  <2>5. \A n \in 0 .. MaxRecovery + 1 : bull'[<<k, n>>] = bull[<<k, n>>]
    BY <2>1, <2>3 DEF QueueAdd, ResumeJob, TypeOK, JobIds
  <2> QED
    BY <1>0, <2>3, <2>4, <2>5, OrdinaryFrame
<1>7. ASSUME NEW i \in Keys, ResumeWrite(r, i)
      PROVE  Ordinary(k)'
  <2> DEFINE next == [req[r] EXCEPT !.writing = {}]
  <2>1. i # k
    BY <1>2, <1>7 DEF ResumeWrite
  <2>2. k \notin next.writing
    BY <1>0 DEF RequestRecord
  <2>3. MoveRequest(r, next) /\ UNCHANGED bull
    BY <1>7 DEF ResumeWrite, bull_vars
  <2> HIDE DEF next
  <2>4. \A x \in Requests : k \notin req'[x].writing
    BY <1>1, <2>2, <2>3
  <2>5. row'[k] = row[k]
    BY <1>7, <2>1 DEF ResumeWrite, TypeOK
  <2> QED
    BY <1>0, <2>3, <2>4, <2>5, OrdinaryFrame
<1>8. CASE ResumeEnd(r) \/ ResumeDies(r)
  <2>1. k \notin IdleRequest.writing
    BY DEF IdleRequest
  <2>2. MoveRequest(r, IdleRequest) /\ UNCHANGED <<row, bull>>
    BY <1>8 DEF ResumeEnd, ResumeDies, row_vars, bull_vars
  <2>3. \A x \in Requests : k \notin req'[x].writing
    BY <1>1, <2>1, <2>2
  <2> QED
    BY <1>0, <2>2, <2>3, OrdinaryFrame
<1> QED
  BY <1>3, <1>4, <1>5, <1>6, <1>7, <1>8 DEF Request

\* Where a job enqueued once ends, its row says why: no pause, failed attempt or
\* crashed worker loses it (enqueueImportJob, beginImportRuntimeJob,
\* failImportRuntimeJob and BullMQ's retries taken together).
THEOREM NothingLost == Spec => []LossHasCause
<1>0. /\ 0 \in 0 .. MaxRecovery + 1
      /\ \A k \in Keys : \A n \in 1 .. MaxRecovery + 1 : <<k, n>> \in JobIds
      /\ \A k \in Keys : <<k, 0>> \in JobIds
  BY LimitsAssumption DEF JobIds
<1>1. Init => LossInv
  <2> SUFFICES ASSUME Init, NEW k \in Keys
               PROVE  Ordinary(k)
    BY DEF LossInv
  <2>1. \A r \in Requests : req[r].writing = {}
    BY DEF Init, IdleRequest
  <2>2. \A j \in JobIds : bull[j] = "absent" /\ exec[j] = "idle"
    BY DEF Init
  <2>3. row[k] = "absent" /\ enq[k] = "idle"
    BY DEF Init
  <2> QED
    BY <1>0, <2>1, <2>2, <2>3 DEF Ordinary
<1>2. TypeOK /\ Held /\ CompletionInv /\ LossInv /\ [Next]_vars => LossInv'
  <2> SUFFICES ASSUME TypeOK, Held, CompletionInv, LossInv, [Next]_vars,
                      NEW k \in Keys, touched'[k] = {}
               PROVE  Ordinary(k)'
    BY DEF LossInv
  <2>1. CASE UNCHANGED vars
    BY <2>1, OrdinaryFrame DEF vars, LossInv, Ordinary
  <2>2. CASE Next
    <3>1. Ordinary(k)
      BY <2>2, TouchedStays DEF LossInv
    <3>2. CASE \E s \in PauseScopes : Pause(s)
      BY <3>1, <3>2, PauseFrame, OrdinaryFrame
         DEF row_vars, bull_vars, enq_vars, req_vars, hist_vars, Ordinary
    <3> QED
      BY <2>2, <3>1, <3>2, ProducerOrdinary, WorkerOrdinary, RequestOrdinary DEF Next
  <2> QED
    BY <2>1, <2>2
<1>3. TypeOK /\ LossInv => LossHasCause
  <2> SUFFICES ASSUME TypeOK, LossInv, NEW k \in Keys, touched[k] = {}, Lost(k)
               PROVE  FALSE
    BY DEF LossHasCause
  <2>1. Ordinary(k)
    BY DEF LossInv
  <2>2. bull[<<k, 0>>] \in {"absent", "completed", "failed"}
    <3>1. bull[<<k, 0>>] \in BullStates
      BY <1>0 DEF TypeOK
    <3>2. bull[<<k, 0>>] \notin {"waiting", "active"}
      BY <1>0 DEF Lost, Live
    <3> QED
      BY <3>1, <3>2 DEF BullStates
  <2> QED
    BY <2>1, <2>2 DEF Ordinary, Lost, BeingEnqueued, ResumableStates
<1> QED
  BY <1>1, <1>2, <1>3, TypeCorrect, HeldKept, CompletionKept, PTL DEF Spec
=============================================================================
