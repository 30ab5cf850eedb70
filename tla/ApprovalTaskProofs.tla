-------------------------- MODULE ApprovalTaskProofs --------------------------
(***************************************************************************)
(* Proofs about ApprovalTask: type correctness, that the audit log tells   *)
(* the status of its task, that only stale reads overturn a decision, and  *)
(* that the service, its routes and the resume worker implement Verdict.   *)
(***************************************************************************)
EXTENDS ApprovalTask, TLAPS

-----------------------------------------------------------------------------
(* The inductive invariant *)

\* The decisions that a log holds
Handed(rows) == {rows[i].arg : i \in {n \in DOMAIN rows : rows[n].op = "decide"}}

\* What was handed down are decisions, a row that is decided has its decision from the log, and the log ends with its status.
TaskInv(t) ==
    /\ Handed(log[t]) \subseteq Choices
    /\ task[t].decision # Nil => task[t].decision \in Handed(log[t])
    /\ task[t].status \in {"approved", "rejected"} => task[t].decision # Nil
    /\ log[t] # <<>> => log[t][Len(log[t])].new = task[t].status
    /\ \A i \in DOMAIN log[t] :
          i < Len(log[t]) /\ log[t][i].new \notin Open => log[t][i + 1].at < i

\* A request that was let through had read a task that was open: the row of the log
\* that was the last one at that time says so, and it stays in the log.
RequestInv(r) ==
    LET q == request[r] IN
    /\ q.step # "idle" => q.task \in Tasks
    /\ q.step = "checked" =>
         /\ q.op = "assign" => q.arg \in Users
         /\ q.op = "decide" => q.arg \in Choices
         /\ q.op = "escalate" => q.arg \in MaybeUser
         /\ q.at <= Len(log[q.task])
         /\ q.at > 0 => log[q.task][q.at].new \in Open

\* A resume job belongs to a request that is done; past its first step it carries a
\* decision of the log, and it goes on only after one that says so.
JobInv(r) ==
    /\ job[r].state # "absent" => request[r].step = "done"
    /\ job[r].state = "live" /\ job[r].step # "start" =>
         job[r].decision \in Handed(log[request[r].task])
    /\ job[r].state = "live" /\ job[r].step = "follow" =>
         Continues(Kind[request[r].task], job[r].decision)

IInv ==
    /\ TypeOK
    /\ \A t \in Tasks : TaskInv(t)
    /\ \A r \in Requests : RequestInv(r) /\ JobInv(r)

-----------------------------------------------------------------------------
(* Rows, logs and records *)

LEMMA NewRecords == NewTask \in Task /\ Idle \in Request /\ NoJob \in Job
<1>1. NewTask \in Task
  BY DEF NewTask, Task, Statuses, Open, MaybeUser
<1>2. Idle \in Request
  BY <1>1 DEF Idle, Request, MaybeUser
<1>3. NoJob \in Job
  BY DEF NoJob, Job
<1> QED
  BY <1>1, <1>2, <1>3

\* Appending a row to a log adds one position behind the others.
LEMMA LogGrows ==
    ASSUME NEW s \in Seq(Row), NEW e \in Row
    PROVE  /\ Append(s, e) \in Seq(Row)
           /\ Append(s, e) # <<>>
           /\ Len(s) \in Nat
           /\ Len(Append(s, e)) = Len(s) + 1
           /\ DOMAIN s = 1 .. Len(s)
           /\ DOMAIN Append(s, e) = 1 .. Len(s) + 1
           /\ \A i \in 1 .. Len(s) : Append(s, e)[i] = s[i]
           /\ Append(s, e)[Len(s) + 1] = e
  OBVIOUS

\* What it adds to the decisions is that of a row that decides.
LEMMA HandedGrows ==
    ASSUME NEW s \in Seq(Row), NEW e \in Row
    PROVE  Handed(Append(s, e)) = IF e.op = "decide" THEN Handed(s) \cup {e.arg} ELSE Handed(s)
<1> DEFINE g == Append(s, e)
           n == Len(s)
<1>1. /\ n \in Nat /\ DOMAIN s = 1 .. n /\ DOMAIN g = 1 .. n + 1
      /\ \A i \in 1 .. n : g[i] = s[i]
      /\ g[n + 1] = e
  BY LogGrows
<1> HIDE DEF g, n
<1>2. \A i \in 1 .. n + 1 : i \in 1 .. n \/ i = n + 1
  BY <1>1
<1>3. 1 .. n \subseteq 1 .. n + 1 /\ n + 1 \in 1 .. n + 1
  BY <1>1
<1>4. ASSUME NEW x \in Handed(g)
      PROVE  x \in Handed(s) \/ (e.op = "decide" /\ x = e.arg)
  BY <1>1, <1>2, <1>4 DEF Handed
<1>5. Handed(s) \subseteq Handed(g)
  BY <1>1, <1>3 DEF Handed
<1>6. e.op = "decide" => e.arg \in Handed(g)
  BY <1>1, <1>3 DEF Handed
<1> QED
  BY <1>4, <1>5, <1>6 DEF g

\* Every effect of a decision is one.
LEMMA EffectType ==
    ASSUME NEW kind \in Kinds, NEW d \in Decisions
    PROVE  Effect(kind, d) \in Effects
  BY DEF Effect, Effects, Kinds

-----------------------------------------------------------------------------
(* The initial state *)

LEMMA InitInv == Init => IInv
<1> SUFFICES ASSUME Init PROVE IInv
  OBVIOUS
<1>1. TypeOK
  BY NewRecords DEF Init, TypeOK
<1>2. ASSUME NEW t \in Tasks PROVE TaskInv(t)
  BY DEF Init, TaskInv, NewTask, Handed
<1>3. ASSUME NEW r \in Requests PROVE RequestInv(r) /\ JobInv(r)
  BY DEF Init, RequestInv, JobInv, Idle, NoJob
<1> QED
  BY <1>1, <1>2, <1>3 DEF IInv

-----------------------------------------------------------------------------
(* What a request reads *)

\* Whatever it asks for, its record is of the right type and remembers where the log ended.
LEMMA CheckedInv ==
    ASSUME IInv, NEW r \in Requests, NEW t \in Tasks,
           NEW op \in {"assign", "decide", "escalate"}, NEW arg,
           op = "assign" => arg \in Users,
           op = "decide" => arg \in Choices,
           op = "escalate" => arg \in MaybeUser,
           task[t].status \in Open,
           Checked(r, op, t, arg)
    PROVE  IInv'
<1> DEFINE q == [step |-> "checked", op |-> op, task |-> t, arg |-> arg,
                 seen |-> task[t], at |-> Len(log[t])]
<1>1. TypeOK /\ TaskInv(t)
  BY DEF IInv
<1>2. log[t] \in Seq(Row) /\ task[t] \in Task
  BY <1>1 DEF TypeOK
<1>3. Len(log[t]) \in Nat
  BY <1>2
<1>4. arg \in MaybeUser \cup Decisions
  BY ConstantsAssumption DEF MaybeUser
<1>5. q \in Request
  BY <1>2, <1>3, <1>4 DEF Request
<1>6. /\ request[r].step = "idle"
      /\ request' = [request EXCEPT ![r] = q]
      /\ UNCHANGED <<task, log, job, outcome, held, gone>>
  BY DEF Checked
<1>7. TypeOK'
  BY <1>1, <1>5, <1>6 DEF TypeOK
<1>8. ASSUME NEW u \in Tasks PROVE TaskInv(u)'
  BY <1>6 DEF IInv, TaskInv, Handed
<1>9. request'[r] = q /\ \A s \in Requests : s # r => request'[s] = request[s]
  BY <1>1, <1>6 DEF TypeOK
<1>10. ASSUME NEW s \in Requests PROVE RequestInv(s)' /\ JobInv(s)'
  <2>1. RequestInv(s) /\ JobInv(s)
    BY DEF IInv
  <2>2. CASE s # r
    BY <2>1, <2>2, <1>6, <1>9 DEF RequestInv, JobInv, Handed
  <2>3. CASE s = r
    <3>1. Len(log[t]) > 0 => log[t][Len(log[t])].new \in Open
      BY <1>1, <1>2 DEF TaskInv
    <3>2. RequestInv(r)'
      BY <1>3, <1>6, <1>9, <3>1 DEF RequestInv
    <3>3. JobInv(r)'
      BY <2>1, <2>3, <1>6 DEF JobInv
    <3> QED
      BY <2>3, <3>2, <3>3
  <2> QED
    BY <2>2, <2>3
<1> QED
  BY <1>7, <1>8, <1>10 DEF IInv

LEMMA AskInv ==
    ASSUME IInv, NEW r \in Requests, Ask(r)
    PROVE  IInv'
<1> PICK t \in Tasks :
      \/ \E user \in Users : AskAssign(r, t, user)
      \/ \E actor \in Users, d \in Choices : AskDecide(r, t, actor, d)
      \/ \E user \in MaybeUser : AskEscalate(r, t, user)
  BY DEF Ask
<1>1. CASE \E user \in Users : AskAssign(r, t, user)
  BY <1>1, CheckedInv DEF AskAssign
<1>2. CASE \E actor \in Users, d \in Choices : AskDecide(r, t, actor, d)
  BY <1>2, CheckedInv DEF AskDecide
<1>3. CASE \E user \in MaybeUser : AskEscalate(r, t, user)
  BY <1>3, CheckedInv DEF AskEscalate
<1> QED
  BY <1>1, <1>2, <1>3

-----------------------------------------------------------------------------
(* What it writes *)

\* The row written and the row of the log have their types, and the row of the log says
\* what the row written is.
LEMMA WrittenType ==
    ASSUME IInv, NEW r \in Requests, request[r].step = "checked"
    PROVE  LET q == request[r]
               row == Written(task[q.task], q)
               entry == [op |-> q.op, old |-> q.seen.status, new |-> row.status,
                         arg |-> q.arg, at |-> q.at] IN
           /\ q.task \in Tasks /\ row \in Task /\ entry \in Row
           /\ q.op = "decide" => row.decision = q.arg
           /\ q.op # "decide" =>
                /\ row.decision = task[q.task].decision
                /\ row.status \notin {"approved", "rejected"}
<1> DEFINE q == request[r]
           old == task[q.task]
<1>1. RequestInv(r) /\ q \in Request
  BY DEF IInv, TypeOK
<1>2. q.task \in Tasks
  BY <1>1 DEF RequestInv
<1>3. old \in Task
  BY <1>2 DEF IInv, TypeOK
<1>4. CASE q.op = "assign"
  <2>1. q.arg \in Users
    BY <1>1, <1>4 DEF RequestInv
  <2>2. Written(old, q) = [old EXCEPT !.status = "assigned", !.assigned = q.arg]
    BY <1>4 DEF Written, Assigned
  <2> QED
    BY <1>1, <1>2, <1>3, <1>4, <2>1, <2>2 DEF Task, Request, Row, Statuses, Open, MaybeUser
<1>5. CASE q.op = "decide"
  <2>1. q.arg \in Decisions
    BY <1>1, <1>5, ConstantsAssumption DEF RequestInv
  <2> DEFINE st == IF q.arg \in {"approve", "merge"} THEN "approved" ELSE "rejected"
  <2>2. Written(old, q) = [old EXCEPT !.status = st, !.decision = q.arg]
    BY <1>5 DEF Written, Decided
  <2>3. st \in Statuses
    BY DEF Statuses
  <2> HIDE DEF st
  <2> QED
    BY <1>1, <1>2, <1>3, <1>5, <2>1, <2>2, <2>3 DEF Task, Request, Row
<1>6. CASE q.op = "escalate"
  <2>1. q.arg \in MaybeUser /\ q.seen \in Task
    BY <1>1, <1>6 DEF RequestInv, Request
  <2> DEFINE st == IF q.arg = Nil THEN "expired" ELSE "escalated"
             who == IF q.arg = Nil THEN q.seen.assigned ELSE q.arg
  <2>2. Written(old, q) = [old EXCEPT !.status = st, !.level = q.seen.level + 1,
                                      !.escalated = q.arg, !.assigned = who]
    BY <1>6 DEF Written, Escalated
  <2>3. /\ st \in Statuses /\ st \notin {"approved", "rejected"}
        /\ who \in MaybeUser /\ q.seen.level + 1 \in Nat
    BY <2>1 DEF Statuses, Open, Task
  <2> HIDE DEF st, who
  <2> QED
    BY <1>1, <1>2, <1>3, <1>6, <2>1, <2>2, <2>3 DEF Task, Request, Row
<1> QED
  BY <1>1, <1>4, <1>5, <1>6 DEF Request

LEMMA CommitInv ==
    ASSUME IInv, NEW r \in Requests, Commit(r)
    PROVE  /\ IInv'
           /\ \/ \E t \in Tasks, d \in Decisions :
                    \A u \in Tasks : Handed(log'[u]) = IF u = t THEN Handed(log[u]) \cup {d}
                                                              ELSE Handed(log[u])
              \/ \A u \in Tasks : Handed(log'[u]) = Handed(log[u])
<1> PICK t \in Tasks : t = request[r].task
  BY DEF Commit, IInv, RequestInv
<1> DEFINE q == request[r]
           row == Written(task[t], q)
           entry == [op |-> q.op, old |-> q.seen.status, new |-> row.status,
                     arg |-> q.arg, at |-> q.at]
           done == [Idle EXCEPT !.step = IF q.op = "decide" THEN "resume" ELSE "done",
                                !.task = q.task]
<1>1. /\ q.step = "checked"
      /\ task' = [task EXCEPT ![t] = row]
      /\ log' = [log EXCEPT ![t] = Append(log[t], entry)]
      /\ request' = [request EXCEPT ![r] = done]
      /\ UNCHANGED <<job, outcome, held, gone>>
  BY DEF Commit, Logged
<1>2. /\ q.task = t /\ row \in Task /\ entry \in Row
      /\ q.op = "decide" => row.decision = q.arg
      /\ q.op # "decide" => row.decision = task[t].decision
                            /\ row.status \notin {"approved", "rejected"}
  BY <1>1, WrittenType
<1>3. TypeOK /\ TaskInv(t) /\ RequestInv(r)
  BY DEF IInv
<1>4. log[t] \in Seq(Row) /\ q \in Request
  BY <1>2, <1>3 DEF TypeOK
<1>5. /\ entry.op = q.op /\ entry.new = row.status /\ entry.arg = q.arg /\ entry.at = q.at
      /\ done.task = t /\ done.step \in {"resume", "done"}
      /\ done \in Request
  BY <1>2, NewRecords DEF Idle, Request
<1> DEFINE n == Len(log[t])
           grown == Append(log[t], entry)
<1>6. /\ grown \in Seq(Row) /\ grown # <<>> /\ n \in Nat /\ Len(grown) = n + 1
      /\ DOMAIN log[t] = 1 .. n /\ DOMAIN grown = 1 .. n + 1
      /\ \A i \in 1 .. n : grown[i] = log[t][i]
      /\ grown[n + 1] = entry
  BY <1>2, <1>4, LogGrows
<1> HIDE DEF entry, row, done, grown, n
<1>7. TypeOK'
  BY <1>1, <1>2, <1>3, <1>5, <1>6 DEF TypeOK, grown
<1>8. /\ task'[t] = row /\ log'[t] = grown /\ request'[r] = done
      /\ \A u \in Tasks : u # t => task'[u] = task[u] /\ log'[u] = log[u]
      /\ \A s \in Requests : s # r => request'[s] = request[s]
  BY <1>1, <1>2, <1>3 DEF TypeOK, grown
<1>9. \A u \in Tasks : u # t => Handed(log'[u]) = Handed(log[u])
  BY <1>8
<1>10. Handed(log'[t]) = IF q.op = "decide" THEN Handed(log[t]) \cup {q.arg} ELSE Handed(log[t])
  <2>1. log'[t] = grown
    BY <1>8
  <2>2. Handed(grown) = IF entry.op = "decide" THEN Handed(log[t]) \cup {entry.arg}
                                               ELSE Handed(log[t])
    BY <1>2, <1>4, HandedGrows DEF grown
  <2> QED
    BY <1>5, <2>1, <2>2
<1>11. \A u \in Tasks : Handed(log[u]) \subseteq Handed(log'[u])
  BY <1>9, <1>10
<1>12. TaskInv(t)'
  <2>0. Handed(log'[t]) \subseteq Choices
    BY <1>1, <1>3, <1>10 DEF TaskInv, RequestInv
  <2>1. row.decision # Nil => row.decision \in Handed(log'[t])
    BY <1>2, <1>3, <1>10 DEF TaskInv
  <2>2. row.status \in {"approved", "rejected"} => row.decision # Nil
    <3>1. q.op = "decide" => q.arg \in Decisions
      BY <1>1, <1>3, ConstantsAssumption DEF RequestInv
    <3> QED
      BY <1>2, <3>1, ConstantsAssumption
  <2>3. grown[Len(grown)].new = row.status
    BY <1>5, <1>6
  <2>4. ASSUME NEW i \in DOMAIN grown, i < Len(grown), grown[i].new \notin Open
        PROVE  grown[i + 1].at < i
    <3>1. i \in 1 .. n
      BY <1>6, <2>4
    <3>2. CASE i < n
      <4>1. i + 1 \in 1 .. n
        BY <1>6, <3>1, <3>2
      <4> QED
        BY <1>3, <1>6, <2>4, <3>1, <3>2, <4>1 DEF TaskInv, n
    <3>3. CASE i = n
      <4>1. grown[i + 1].at = q.at /\ log[t][n].new \notin Open
        BY <1>5, <1>6, <2>4, <3>1, <3>3
      <4>2. q.at \in Nat /\ q.at <= n /\ (q.at > 0 => log[t][q.at].new \in Open)
        BY <1>1, <1>3, <1>4 DEF RequestInv, Request, n
      <4> QED
        BY <3>1, <3>3, <4>1, <4>2
    <3> QED
      BY <1>6, <3>1, <3>2, <3>3
  <2> QED
    BY <1>8, <2>0, <2>1, <2>2, <2>3, <2>4 DEF TaskInv
<1>13. ASSUME NEW u \in Tasks PROVE TaskInv(u)'
  <2>1. CASE u # t
    BY <1>8, <1>9, <2>1 DEF IInv, TaskInv
  <2> QED
    BY <1>12, <2>1
<1>14. ASSUME NEW s \in Requests PROVE RequestInv(s)'
  <2>1. CASE s = r
    BY <1>2, <1>5, <1>8, <2>1 DEF RequestInv
  <2>2. CASE s # r
    <3>1. RequestInv(s) /\ request'[s] = request[s] /\ request[s] \in Request
      BY <1>3, <1>8, <2>2 DEF IInv, TypeOK
    <3>2. CASE request[s].step = "checked" /\ request[s].task = t
      <4>1. request[s].at \in Nat /\ request[s].at <= n
        BY <3>1, <3>2 DEF RequestInv, Request, n
      <4>2. request[s].at > 0 => grown[request[s].at].new \in Open
        BY <1>6, <3>1, <3>2, <4>1 DEF RequestInv
      <4> QED
        BY <1>6, <1>8, <3>1, <3>2, <4>1, <4>2 DEF RequestInv
    <3>3. CASE ~(request[s].step = "checked" /\ request[s].task = t)
      BY <1>8, <3>1, <3>3 DEF RequestInv
    <3> QED
      BY <3>2, <3>3
  <2> QED
    BY <2>1, <2>2
<1>15. ASSUME NEW s \in Requests PROVE JobInv(s)'
  <2>1. JobInv(s) /\ job'[s] = job[s] /\ RequestInv(s)
    BY <1>1 DEF IInv
  <2>2. CASE s = r
    BY <1>1, <2>1, <2>2 DEF JobInv, TypeOK, Job
  <2>3. CASE s # r
    <3>1. request'[s] = request[s]
      BY <1>8, <2>3
    <3>2. job[s].state # "absent" => Handed(log[request[s].task]) \subseteq Handed(log'[request[s].task])
      BY <1>11, <2>1 DEF JobInv, RequestInv
    <3> QED
      BY <2>1, <3>1, <3>2 DEF JobInv
  <2> QED
    BY <2>2, <2>3
<1>16. IInv'
  BY <1>7, <1>13, <1>14, <1>15 DEF IInv
<1>17. q.op = "decide" => q.arg \in Decisions
  BY <1>1, <1>3, ConstantsAssumption DEF RequestInv
<1> QED
  BY <1>2, <1>9, <1>10, <1>16, <1>17

-----------------------------------------------------------------------------
(* The resume job *)

\* What is left to show when only the job of one request changes.
LEMMA JobStepInv ==
    ASSUME IInv, NEW r \in Requests, NEW x \in Job,
           UNCHANGED <<task, log>>,
           \/ request' = request /\ job[r].state # "absent"
           \/ request' = [request EXCEPT ![r].step = "done"] /\ request[r].step = "resume",
           job' = [job EXCEPT ![r] = x],
           x.state = "live" /\ x.step # "start" => x.decision \in Handed(log[request[r].task]),
           x.state = "live" /\ x.step = "follow" => Continues(Kind[request[r].task], x.decision),
           outcome' \in [Tasks -> Effects \cup {Nil}],
           held' \subseteq FollowIds,
           gone' \subseteq Tasks
    PROVE  IInv'
<1>1. TypeOK /\ RequestInv(r) /\ JobInv(r)
  BY DEF IInv
<1>2. /\ request' \in [Requests -> Request]
      /\ \A s \in Requests : s # r => request'[s] = request[s]
      /\ request'[r].task = request[r].task /\ request'[r].step = "done"
  <2>1. CASE request' = request /\ job[r].state # "absent"
    BY <1>1, <2>1 DEF TypeOK, JobInv
  <2>2. CASE request' = [request EXCEPT ![r].step = "done"] /\ request[r].step = "resume"
    <3> DEFINE q == [request[r] EXCEPT !.step = "done"]
    <3>1. q \in Request /\ q.task = request[r].task /\ q.step = "done"
      BY <1>1 DEF TypeOK, Request
    <3>2. request' = [request EXCEPT ![r] = q]
      BY <2>2
    <3> HIDE DEF q
    <3> QED
      BY <1>1, <3>1, <3>2 DEF TypeOK
  <2> QED
    BY <2>1, <2>2
<1>3. TypeOK'
  BY <1>1, <1>2 DEF TypeOK
<1>4. job'[r] = x /\ \A s \in Requests : s # r => job'[s] = job[s]
  BY <1>1 DEF TypeOK
<1>5. request[r].task \in Tasks
  BY <1>1 DEF RequestInv, JobInv
<1>6. ASSUME NEW t \in Tasks PROVE TaskInv(t)'
  BY DEF IInv, TaskInv
<1>7. ASSUME NEW s \in Requests PROVE RequestInv(s)' /\ JobInv(s)'
  <2>1. CASE s = r
    <3>1. RequestInv(s)'
      BY <1>2, <1>5, <2>1 DEF RequestInv
    <3>2. JobInv(s)'
      BY <1>2, <1>4, <2>1 DEF JobInv
    <3> QED
      BY <3>1, <3>2
  <2>2. CASE s # r
    <3>1. RequestInv(s) /\ JobInv(s) /\ request'[s] = request[s] /\ job'[s] = job[s]
      BY <1>2, <1>4, <2>2 DEF IInv
    <3>2. RequestInv(s)'
      BY <3>1 DEF RequestInv
    <3>3. JobInv(s)'
      BY <3>1 DEF JobInv
    <3> QED
      BY <3>2, <3>3
  <2> QED
    BY <2>1, <2>2
<1> QED
  BY <1>3, <1>6, <1>7 DEF IInv

\* A job record with its state, its step or its decision replaced.
LEMMA JobChanged ==
    ASSUME NEW x \in Job
    PROVE  /\ \A s \in {"absent", "live", "completed", "failed"} :
                [x EXCEPT !.state = s] \in Job /\ [x EXCEPT !.state = s].state = s
           /\ \A s \in {"start", "apply", "follow"} :
                LET y == [x EXCEPT !.step = s] IN
                y \in Job /\ y.step = s /\ y.decision = x.decision /\ y.state = x.state
           /\ \A d \in Decisions \cup {Nil}, s \in {"start", "apply", "follow"} :
                LET y == [x EXCEPT !.decision = d, !.step = s] IN
                y \in Job /\ y.step = s /\ y.decision = d /\ y.state = x.state
  BY DEF Job

LEMMA ResumeInv ==
    ASSUME IInv, NEW r \in Requests, Resume(r) \/ Die(r)
    PROVE  IInv'
<1>1. TypeOK
  BY DEF IInv
<1>2. CASE Resume(r)
  <2> DEFINE x == [NoJob EXCEPT !.state = "live"]
  <2>1. x \in Job /\ x.step = "start"
    BY NewRecords DEF NoJob, Job
  <2> QED
    BY <1>1, <1>2, <2>1, JobStepInv DEF Resume, TypeOK
<1>3. CASE Die(r)
  <2>1. job[r] \in Job /\ job' = [job EXCEPT ![r] = job[r]]
    BY <1>1, <1>3 DEF Die, TypeOK
  <2>2. /\ job[r].state = "live" /\ job[r].step # "start" =>
             job[r].decision \in Handed(log[request[r].task])
        /\ job[r].state = "live" /\ job[r].step = "follow" =>
             Continues(Kind[request[r].task], job[r].decision)
    BY DEF IInv, JobInv
  <2> QED
    BY <1>1, <1>3, <2>1, <2>2, JobStepInv DEF Die, TypeOK
<1> QED
  BY <1>2, <1>3

LEMMA StartInv ==
    ASSUME IInv, NEW r \in Requests, Start(r)
    PROVE  IInv'
<1> DEFINE row == task[request[r].task]
           step == IF KindOf(r) = "error_review" /\ Continues(KindOf(r), row.decision)
                   THEN "follow" ELSE "apply"
           x == IF row.status \notin {"approved", "rejected"}
                THEN [job[r] EXCEPT !.state = "completed"]
                ELSE [job[r] EXCEPT !.decision = row.decision, !.step = step]
<1>1. /\ job[r].state = "live"
      /\ job' = [job EXCEPT ![r] = x]
      /\ UNCHANGED <<task, log, request, outcome, held, gone>>
  BY DEF Start, At
<1>2. TypeOK /\ RequestInv(r) /\ JobInv(r)
  BY DEF IInv
<1>3. request[r].task \in Tasks
  BY <1>1, <1>2 DEF RequestInv, JobInv
<1>4. job[r] \in Job /\ row \in Task /\ TaskInv(request[r].task)
  BY <1>2, <1>3 DEF IInv, TypeOK
<1>5. row.decision \in Decisions \cup {Nil} /\ step \in {"start", "apply", "follow"}
  BY <1>4 DEF Task
<1>6. /\ x \in Job
      /\ x.state = "live" /\ x.step # "start" => x.decision \in Handed(log[request[r].task])
      /\ x.state = "live" /\ x.step = "follow" => Continues(Kind[request[r].task], x.decision)
  <2>1. CASE row.status \notin {"approved", "rejected"}
    BY <1>4, <2>1, JobChanged
  <2>2. CASE row.status \in {"approved", "rejected"}
    <3>1. row.decision \in Handed(log[request[r].task])
      BY <1>4, <2>2 DEF TaskInv
    <3>2. step = "follow" => Continues(Kind[request[r].task], row.decision)
      BY DEF KindOf
    <3>3. x = [job[r] EXCEPT !.decision = row.decision, !.step = step]
      BY <2>2
    <3> HIDE DEF x, step, row
    <3>4. x \in Job /\ x.step = step /\ x.decision = row.decision
      BY <1>4, <1>5, <3>3 DEF Job
    <3> QED
      BY <3>1, <3>2, <3>4
  <2> QED
    BY <2>1, <2>2
<1> HIDE DEF x
<1> QED
  BY <1>1, <1>2, <1>6, JobStepInv DEF TypeOK

\* A worker past its first step has a decision that was handed down for its task.
LEMMA WorkerHolds ==
    ASSUME IInv, NEW r \in Requests, job[r].state = "live"
    PROVE  /\ request[r].task \in Tasks
           /\ Kind[request[r].task] \in Kinds
           /\ job[r] \in Job
           /\ job[r].step # "start" =>
                job[r].decision \in Decisions /\ job[r].decision \in Handed(log[request[r].task])
           /\ job[r].step = "follow" => Continues(Kind[request[r].task], job[r].decision)
<1>1. TypeOK /\ RequestInv(r) /\ JobInv(r)
  BY DEF IInv
<1>2. request[r].task \in Tasks /\ job[r] \in Job
  BY <1>1 DEF RequestInv, JobInv, TypeOK
<1>3. job[r].step # "start" => job[r].decision \in Handed(log[request[r].task])
  BY <1>1 DEF JobInv
<1>4. Handed(log[request[r].task]) \subseteq Decisions
  BY <1>2, ConstantsAssumption DEF IInv, TaskInv
<1>5. Kind[request[r].task] \in Kinds
  BY <1>2, ConstantsAssumption
<1>6. job[r].step = "follow" => Continues(Kind[request[r].task], job[r].decision)
  BY <1>1 DEF JobInv
<1> QED
  BY <1>2, <1>3, <1>4, <1>5, <1>6

LEMMA ApplyInv ==
    ASSUME IInv, NEW r \in Requests, Apply(r)
    PROVE  IInv'
<1> PICK t \in Tasks : t = request[r].task
  BY WorkerHolds DEF Apply, At
<1> DEFINE d == job[r].decision
           closed == [job[r] EXCEPT !.state = "completed"]
           onward == [job[r] EXCEPT !.step = "follow"]
<1>1. /\ job[r].state = "live" /\ job[r].step = "apply"
      /\ UNCHANGED <<task, log, request, held, gone>>
      /\ \/ job' = [job EXCEPT ![r] = closed] /\ UNCHANGED outcome
         \/ /\ outcome' = [outcome EXCEPT ![t] = Effect(Kind[t], d)]
            /\ \/ job' = [job EXCEPT ![r] = closed]
               \/ job' = [job EXCEPT ![r] = onward] /\ Continues(Kind[t], d)
  BY DEF Apply, At
<1>2. /\ job[r] \in Job /\ d \in Decisions /\ d \in Handed(log[t]) /\ Kind[t] \in Kinds
  BY <1>1, WorkerHolds
<1>3. TypeOK
  BY DEF IInv
<1>4. outcome' \in [Tasks -> Effects \cup {Nil}]
  BY <1>1, <1>2, <1>3, EffectType DEF TypeOK
<1>5. closed \in Job /\ closed.state = "completed"
  BY <1>2 DEF Job
<1>6. onward \in Job /\ onward.decision = d /\ onward.step = "follow"
  BY <1>2 DEF Job
<1> HIDE DEF closed, onward, d
<1>7. CASE job' = [job EXCEPT ![r] = closed]
  BY <1>1, <1>3, <1>4, <1>5, <1>7, JobStepInv DEF TypeOK
<1>8. CASE job' = [job EXCEPT ![r] = onward] /\ Continues(Kind[t], d)
  BY <1>1, <1>2, <1>3, <1>4, <1>6, <1>8, JobStepInv DEF TypeOK
<1> QED
  BY <1>1, <1>7, <1>8

LEMMA FollowUpInv ==
    ASSUME IInv, NEW r \in Requests, FollowUp(r)
    PROVE  IInv'
<1> PICK t \in Tasks : t = request[r].task
  BY WorkerHolds DEF FollowUp, At
<1> DEFINE x == IF KindOf(r) = "error_review" THEN [job[r] EXCEPT !.step = "apply"]
                ELSE [job[r] EXCEPT !.state = "completed"]
<1>1. /\ job[r].state = "live" /\ job[r].step = "follow"
      /\ UNCHANGED <<task, log, request, outcome>>
      /\ job' = [job EXCEPT ![r] = x]
  BY DEF FollowUp, At
<1>2. TypeOK /\ job[r] \in Job /\ job[r].decision \in Handed(log[t])
  BY <1>1, WorkerHolds DEF IInv
<1>3. held' \subseteq held \cup {FollowId(t)} /\ gone' \subseteq gone \cup {t}
  BY <1>1 DEF FollowUp, AddFollowUp
<1>4. held' \subseteq FollowIds /\ gone' \subseteq Tasks
  BY <1>2, <1>3 DEF TypeOK, FollowIds
<1>5. x \in Job /\ x.step # "start" /\ (x.state = "live" => x.step = "apply")
      /\ x.decision = job[r].decision
  BY <1>1, <1>2 DEF Job
<1> HIDE DEF x
<1> QED
  BY <1>1, <1>2, <1>4, <1>5, JobStepInv DEF TypeOK

LEMMA BreakInv ==
    ASSUME IInv, NEW r \in Requests, Break(r)
    PROVE  IInv'
<1> DEFINE made == job[r].tries + 1
           x == [NoJob EXCEPT !.state = IF made < Attempts THEN "live" ELSE "failed",
                              !.tries = made]
<1>1. /\ job[r].state = "live"
      /\ UNCHANGED <<task, log, request, outcome, held, gone>>
      /\ job' = [job EXCEPT ![r] = x]
  BY DEF Break
<1>2. TypeOK /\ job[r] \in Job
  BY <1>1, WorkerHolds DEF IInv
<1>3. made \in Nat
  BY <1>2 DEF Job
<1> HIDE DEF made
<1>4. x \in Job /\ x.step = "start"
  BY <1>3 DEF NoJob, Job
<1> HIDE DEF x
<1> QED
  BY <1>1, <1>2, <1>4, JobStepInv DEF TypeOK

\* Nothing but what BullMQ holds changes, or nothing at all.
LEMMA QuietInv ==
    ASSUME IInv, UNCHANGED <<task, log, request, job, outcome, gone>>, held' \subseteq held
    PROVE  IInv'
<1>1. TypeOK'
  BY DEF IInv, TypeOK
<1>2. ASSUME NEW t \in Tasks PROVE TaskInv(t)'
  BY DEF IInv, TaskInv
<1>3. ASSUME NEW r \in Requests PROVE RequestInv(r)' /\ JobInv(r)'
  BY DEF IInv, RequestInv, JobInv
<1> QED
  BY <1>1, <1>2, <1>3 DEF IInv

LEMMA NextInv == IInv /\ [Next]_vars => IInv'
<1> SUFFICES ASSUME IInv, [Next]_vars PROVE IInv'
  OBVIOUS
<1>1. ASSUME NEW r \in Requests, Ask(r) PROVE IInv'
  BY <1>1, AskInv
<1>2. ASSUME NEW r \in Requests, Serve(r) PROVE IInv'
  BY <1>2, CommitInv, ResumeInv DEF Serve
<1>3. ASSUME NEW r \in Requests, Die(r) PROVE IInv'
  BY <1>3, ResumeInv
<1>4. ASSUME NEW r \in Requests, Work(r) PROVE IInv'
  BY <1>4, StartInv, ApplyInv, FollowUpInv DEF Work
<1>5. ASSUME NEW r \in Requests, Break(r) PROVE IInv'
  BY <1>5, BreakInv
<1>6. ASSUME NEW id \in held, Forget(id) PROVE IInv'
  BY <1>6, QuietInv DEF Forget
<1>7. CASE UNCHANGED vars
  BY <1>7, QuietInv DEF vars
<1> QED
  BY <1>1, <1>2, <1>3, <1>4, <1>5, <1>6, <1>7 DEF Next

LEMMA Invariance == Spec => []IInv
<1>1. Init => IInv
  BY InitInv
<1>2. IInv /\ [Next]_vars => IInv'
  BY NextInv
<1> QED
  BY <1>1, <1>2, PTL DEF Spec

-----------------------------------------------------------------------------
(* The theorems *)

\* Tasks, logs, requests, jobs and what the entities were told keep their types
\* (approval-service.ts, hitl-resume-after-approval.ts).
THEOREM TypeCorrect == Spec => []TypeOK
<1>1. IInv => TypeOK
  BY DEF IInv
<1> QED
  BY <1>1, Invariance, PTL

\* The last row of the audit log names the status of its task, whichever requests
\* overtook each other (logAction, inside the transactions of approval-service.ts).
THEOREM LogTells == Spec => []LogTellsStatus
<1>1. IInv => LogTellsStatus
  BY DEF IInv, TaskInv, LogTellsStatus
<1> QED
  BY <1>1, Invariance, PTL

\* A closed task is changed only by a request that had read it before it was closed
\* (the status checks of assignTask, decide and escalate).
THEOREM OverturnedOnlyByStale == Spec => []OverturnedByStaleRead
<1>1. IInv => OverturnedByStaleRead
  BY DEF IInv, TaskInv, OverturnedByStaleRead
<1> QED
  BY <1>1, Invariance, PTL

-----------------------------------------------------------------------------
(* The refinement: every step hands down a decision, lets one take effect, goes on
   behind one, or is none of the abstract specification's business. *)

HandedDown == [t \in Tasks |-> Handed(log[t])]

LEMMA CommitRefines ==
    ASSUME IInv, NEW r \in Requests, Commit(r)
    PROVE  /\ UNCHANGED <<outcome, gone>>
           /\ \/ HandedDown' = HandedDown
              \/ \E t \in Tasks, d \in Decisions :
                    HandedDown' = [HandedDown EXCEPT ![t] = @ \cup {d}]
<1>1. UNCHANGED <<outcome, gone>>
  BY DEF Commit
<1>2. CASE \A u \in Tasks : Handed(log'[u]) = Handed(log[u])
  BY <1>1, <1>2 DEF HandedDown
<1>3. CASE \E t \in Tasks, d \in Decisions :
             \A u \in Tasks : Handed(log'[u]) = IF u = t THEN Handed(log[u]) \cup {d}
                                                ELSE Handed(log[u])
  <2> PICK t \in Tasks, d \in Decisions :
        \A u \in Tasks : Handed(log'[u]) = IF u = t THEN Handed(log[u]) \cup {d}
                                           ELSE Handed(log[u])
    BY <1>3
  <2>1. HandedDown' = [HandedDown EXCEPT ![t] = @ \cup {d}]
    BY DEF HandedDown
  <2> QED
    BY <1>1, <2>1
<1> QED
  BY <1>1, <1>2, <1>3, CommitInv

LEMMA ApplyRefines ==
    ASSUME IInv, NEW r \in Requests, Apply(r)
    PROVE  /\ UNCHANGED <<log, gone>>
           /\ \/ UNCHANGED outcome
              \/ \E t \in Tasks : \E d \in HandedDown[t] :
                    outcome' = [outcome EXCEPT ![t] = Effect(Kind[t], d)]
<1> DEFINE t == request[r].task
           d == job[r].decision
<1>1. job[r].state = "live" /\ job[r].step = "apply"
  BY DEF Apply, At
<1>2. t \in Tasks /\ d \in Handed(log[t])
  BY <1>1, WorkerHolds
<1>3. HandedDown[t] = Handed(log[t])
  BY <1>2 DEF HandedDown
<1>4. UNCHANGED outcome \/ outcome' = [outcome EXCEPT ![t] = Effect(Kind[t], d)]
  BY DEF Apply
<1> HIDE DEF t, d
<1> QED
  BY <1>2, <1>3, <1>4 DEF Apply

LEMMA FollowUpRefines ==
    ASSUME IInv, NEW r \in Requests, FollowUp(r)
    PROVE  /\ UNCHANGED <<log, outcome>>
           /\ \/ UNCHANGED gone
              \/ \E t \in Tasks : \E d \in HandedDown[t] :
                    Continues(Kind[t], d) /\ gone' = gone \cup {t}
<1> DEFINE t == request[r].task
           d == job[r].decision
<1>1. job[r].state = "live" /\ job[r].step = "follow"
  BY DEF FollowUp, At
<1>2. t \in Tasks /\ d \in Handed(log[t]) /\ Continues(Kind[t], d)
  BY <1>1, WorkerHolds
<1>3. HandedDown[t] = Handed(log[t])
  BY <1>2 DEF HandedDown
<1>4. UNCHANGED gone \/ gone' = gone \cup {t}
  BY DEF FollowUp, AddFollowUp
<1> HIDE DEF t, d
<1> QED
  BY <1>2, <1>3, <1>4 DEF FollowUp

LEMMA InitRefines == Init => Abstract!Init
  BY DEF Init, Abstract!Init

LEMMA NextRefines == IInv /\ [Next]_vars => [Abstract!Next]_<<HandedDown, outcome, gone>>
<1> SUFFICES ASSUME IInv, [Next]_vars
             PROVE  [Abstract!Next]_<<HandedDown, outcome, gone>>
  OBVIOUS
<1>1. ASSUME NEW r \in Requests, Commit(r)
      PROVE  [Abstract!Next]_<<HandedDown, outcome, gone>>
  BY <1>1, CommitRefines DEF Abstract!Next, Abstract!HandDown, HandedDown, Handed
<1>2. ASSUME NEW r \in Requests, Apply(r)
      PROVE  [Abstract!Next]_<<HandedDown, outcome, gone>>
  BY <1>2, ApplyRefines DEF Abstract!Next, Abstract!TakeEffect, HandedDown, Handed
<1>3. ASSUME NEW r \in Requests, FollowUp(r)
      PROVE  [Abstract!Next]_<<HandedDown, outcome, gone>>
  BY <1>3, FollowUpRefines DEF Abstract!Next, Abstract!GoOn, HandedDown, Handed
<1>4. ASSUME NEW r \in Requests, Ask(r) \/ Resume(r) \/ Die(r) \/ Start(r) \/ Break(r)
      PROVE  UNCHANGED <<log, outcome, gone>>
  BY <1>4 DEF Ask, AskAssign, AskDecide, AskEscalate, Checked, Resume, Die, Start, Break
<1>5. ASSUME NEW id \in held, Forget(id) PROVE UNCHANGED <<log, outcome, gone>>
  BY <1>5 DEF Forget
<1>6. CASE UNCHANGED <<log, outcome, gone>>
  BY <1>6 DEF HandedDown
<1> QED
  BY <1>1, <1>2, <1>3, <1>4, <1>5, <1>6 DEF Next, Serve, Work, vars

\* Whatever is done to the entity under review was decided for its task, and the pipeline
\* goes on behind the review only after a decision that says so (the worker of
\* hitl:resume, which reads the task again some time after the decision).
THEOREM Refinement == Spec => Implements
<1>1. Init => Abstract!Init
  BY InitRefines
<1>2. IInv /\ [Next]_vars => [Abstract!Next]_<<HandedDown, outcome, gone>>
  BY NextRefines
<1> QED
  BY <1>1, <1>2, Invariance, PTL DEF Spec, Implements, Abstract!Spec, HandedDown, Handed
===============================================================================
