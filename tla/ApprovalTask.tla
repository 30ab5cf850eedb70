------------------------------ MODULE ApprovalTask ------------------------------
(***************************************************************************)
(* Approval tasks (packages/db/src/services/approval-service.ts), their    *)
(* routes and the worker that resumes the pipeline after a decision        *)
(* (hitl-resume-after-approval.ts).  Every request and the SLA scan read a *)
(* task, check what they read, and write in a later transaction that does  *)
(* not look at the status again; the transaction writes the row and one    *)
(* row of the audit log.  A decision is followed by a job of hitl:resume,  *)
(* which reads the task once more, writes the entity under review and adds *)
(* the job that continues the pipeline.                                    *)
(***************************************************************************)
EXTENDS Naturals, Sequences, FiniteSets

CONSTANTS
    Tasks,
    Kind,          \* what each task asks
    Entity,        \* the company or contact under review
    Users,
    Role,
    Nil,
    Choices,       \* the decisions that reviewers take
    Requests,      \* calls of assign, decide and escalate (bound: each is made once)
    Attempts,      \* BullMQ attempts of a resume job
    Breaks,        \* the steps at which an attempt may throw
    Blocked,       \* what may have become of the job an error review is about
    Unresolved,    \* identity conflicts whose company is missing or has other keys
    MayDie,        \* the requests whose process may die before it adds the resume job
    Forgets        \* whether BullMQ may drop finished records

Kinds == {"quality_review", "dedup_review", "ai_review", "error_review", "identity_conflict"}

Decisions == {"approve", "reject", "merge", "skip"}

Roles == {"operator", "manager", "admin", "owner"}

ASSUME ConstantsAssumption ==
    /\ Kind \in [Tasks -> Kinds]
    /\ DOMAIN Entity = Tasks
    /\ Role \in [Users -> Roles]
    /\ Nil \notin Users \cup Decisions
    /\ Choices \subseteq Decisions
    /\ Attempts \in Nat \ {0}
    /\ Breaks \subseteq {"start", "apply", "follow"}
    /\ Blocked \subseteq {"failed", "waiting", "other"}
    /\ Unresolved \subseteq Tasks
    /\ MayDie \subseteq Requests
    /\ Forgets \in BOOLEAN

Open == {"pending", "assigned", "escalated"}

Statuses == Open \cup {"approved", "rejected", "expired"}

MaybeUser == Users \cup {Nil}

Task == [status : Statuses, decision : Decisions \cup {Nil}, assigned : MaybeUser,
         escalated : MaybeUser, level : Nat]

\* A request and what it read; "arg" is the assignee, the decision or the user escalated to,
\* "at" the length of the log when it read (ghost)
Request == [step : {"idle", "checked", "resume", "done"},
            op : {"assign", "decide", "escalate"}, task : Tasks \cup {Nil},
            arg : MaybeUser \cup Decisions, seen : Task, at : Nat]

Row == [op : {"assign", "decide", "escalate"}, old : Statuses, new : Statuses,
        arg : MaybeUser \cup Decisions, at : Nat]

Job == [state : {"absent", "live", "completed", "failed"}, tries : Nat,
        step : {"start", "apply", "follow"}, decision : Decisions \cup {Nil}]

\* What a resume job tells the entity under review
Effects == {"eligible", "blocked", "merged", "rejected", "resolved", "invalid"} \cup Decisions

Effect(kind, d) ==
    CASE kind = "quality_review" -> IF d \in {"approve", "merge"} THEN "eligible" ELSE "blocked"
      [] kind = "dedup_review" -> IF d \in {"approve", "merge"} THEN "merged" ELSE "rejected"
      [] kind = "identity_conflict" -> IF d = "reject" THEN "invalid" ELSE "resolved"
      [] OTHER -> d

\* Whether it adds a job that continues the pipeline
Continues(kind, d) ==
    CASE kind = "quality_review" -> d \in {"approve", "merge"}
      [] kind = "error_review" -> d \in {"approve", "skip"}
      [] kind = "identity_conflict" -> d # "reject"
      [] OTHER -> TRUE

\* The id addQueueJob derives for it: of the company, the stage and the source
FollowId(t) == <<Kind[t], IF Kind[t] = "identity_conflict" THEN Nil ELSE Entity[t]>>

FollowIds == {FollowId(t) : t \in Tasks}

VARIABLES
    task,      \* approval_tasks
    log,       \* approval_audit_log, per task in the order of commits
    request,   \* the calls under way
    job,       \* the jobs of hitl:resume, one per decision
    outcome,   \* what the entity under review was last told
    held,      \* the ids of continuing jobs that BullMQ holds
    gone       \* the tasks whose continuing job was added (ghost)

vars == <<task, log, request, job, outcome, held, gone>>

NewTask == [status |-> "pending", decision |-> Nil, assigned |-> Nil, escalated |-> Nil,
            level |-> 0]

Idle == [step |-> "idle", op |-> "assign", task |-> Nil, arg |-> Nil, seen |-> NewTask, at |-> 0]

NoJob == [state |-> "absent", tries |-> 0, step |-> "start", decision |-> Nil]

Init ==
    /\ task = [t \in Tasks |-> NewTask]
    /\ log = [t \in Tasks |-> <<>>]
    /\ request = [r \in Requests |-> Idle]
    /\ job = [r \in Requests |-> NoJob]
    /\ outcome = [t \in Tasks |-> Nil]
    /\ held = {}
    /\ gone = {}

-----------------------------------------------------------------------------
(* The service: read and check, then write and log *)

Checked(r, op, t, arg) ==
    /\ request[r].step = "idle"
    /\ request' = [request EXCEPT ![r] =
                     [step |-> "checked", op |-> op, task |-> t, arg |-> arg, seen |-> task[t], at |-> Len(log[t])]]
    /\ UNCHANGED <<task, log, job, outcome, held, gone>>

\* assignTask; who asks is only logged, and left out
AskAssign(r, t, user) ==
    /\ task[t].status \in Open
    /\ Checked(r, "assign", t, user)

\* decide: the assignee, whom it was escalated to, anybody while it is unassigned, a manager
MayDecide(actor, row) ==
    \/ actor \in {row.assigned, row.escalated}
    \/ row.assigned = Nil
    \/ Role[actor] \in {"manager", "admin", "owner"}

AskDecide(r, t, actor, d) ==
    /\ task[t].status \in Open
    /\ MayDecide(actor, task[t])
    /\ Checked(r, "decide", t, d)

\* The role above the level of a task
Ladder(level) ==
    IF level = 0 THEN "operator" ELSE IF level = 1 THEN "manager"
    ELSE IF level = 2 THEN "admin" ELSE "owner"

Holders(role) == {u \in Users : Role[u] = role}

\* escalate, by a user or by the SLA scan: to one who holds the next role, if any
Targets(level) ==
    IF Holders(Ladder(level + 1)) = {} THEN {Nil} ELSE Holders(Ladder(level + 1))

\* Mutant: a closed task is escalated, too
AskEscalateAny(r, t, user) ==
    /\ user \in Targets(task[t].level)
    /\ Checked(r, "escalate", t, user)

AskEscalate(r, t, user) ==
    /\ task[t].status \in Open
    /\ user \in Targets(task[t].level)
    /\ Checked(r, "escalate", t, user)

Assigned(row, q) == [row EXCEPT !.status = "assigned", !.assigned = q.arg]

\* Mutant: the decision is stored as the status
DecidedRaw(row, q) == [row EXCEPT !.status = q.arg, !.decision = q.arg]

Decided(row, q) ==
    [row EXCEPT !.status = IF q.arg \in {"approve", "merge"} THEN "approved" ELSE "rejected",
                !.decision = q.arg]

Escalated(row, q) ==
    [row EXCEPT !.status = IF q.arg = Nil THEN "expired" ELSE "escalated",
                !.level = q.seen.level + 1,
                !.escalated = q.arg,
                !.assigned = IF q.arg = Nil THEN q.seen.assigned ELSE q.arg]

Written(row, q) ==
    IF q.op = "assign" THEN Assigned(row, q)
    ELSE IF q.op = "decide" THEN Decided(row, q) ELSE Escalated(row, q)

\* logAction, in the transaction that wrote "row"
\* Mutant: the two statuses of a row of the log are swapped
LoggedSwapped(q, row) ==
    Append(log[q.task], [op |-> q.op, old |-> row.status, new |-> q.seen.status,
                         arg |-> q.arg, at |-> q.at])

Logged(q, row) ==
    Append(log[q.task], [op |-> q.op, old |-> q.seen.status, new |-> row.status,
                         arg |-> q.arg, at |-> q.at])

Commit(r) ==
    /\ request[r].step = "checked"
    /\ LET q == request[r]
           row == Written(task[q.task], q) IN
       /\ task' = [task EXCEPT ![q.task] = row]
       /\ log' = [log EXCEPT ![q.task] = Logged(q, row)]
       /\ request' = [request EXCEPT ![r] =
                        [Idle EXCEPT !.step = IF q.op = "decide" THEN "resume" ELSE "done",
                                     !.task = q.task]]
    /\ UNCHANGED <<job, outcome, held, gone>>

\* The route adds the resume job after the decision is committed
Resume(r) ==
    /\ request[r].step = "resume"
    /\ request' = [request EXCEPT ![r].step = "done"]
    /\ job' = [job EXCEPT ![r] = [NoJob EXCEPT !.state = "live"]]
    /\ UNCHANGED <<task, log, outcome, held, gone>>

Die(r) ==
    /\ r \in MayDie
    /\ request[r].step = "resume"
    /\ request' = [request EXCEPT ![r].step = "done"]
    /\ UNCHANGED <<task, log, job, outcome, held, gone>>

-----------------------------------------------------------------------------
(* The resume worker *)

At(r, step) == job[r].state = "live" /\ job[r].step = step

KindOf(r) == Kind[request[r].task]

\* Mutant: an error review goes on before its decision is looked at
StartAhead(r) ==
    /\ At(r, "start")
    /\ job' = [job EXCEPT ![r].decision = task[request[r].task].decision, ![r].step = "follow"]
    /\ UNCHANGED <<task, log, request, outcome, held, gone>>

\* Mutant: a rejection is skipped
StartApproved(r) ==
    /\ At(r, "start")
    /\ job' = [job EXCEPT ![r] =
                 IF task[request[r].task].status # "approved"
                 THEN [@ EXCEPT !.state = "completed"]
                 ELSE [@ EXCEPT !.decision = task[request[r].task].decision, !.step = "apply"]]
    /\ UNCHANGED <<task, log, request, outcome, held, gone>>

Start(r) ==
    /\ At(r, "start")
    /\ LET row == task[request[r].task] IN
       job' = [job EXCEPT ![r] =
                 IF row.status \notin {"approved", "rejected"}
                 THEN [@ EXCEPT !.state = "completed"]
                 ELSE [@ EXCEPT !.decision = row.decision,
                                !.step = IF KindOf(r) = "error_review"
                                            /\ Continues(KindOf(r), row.decision)
                                         THEN "follow" ELSE "apply"]]
    /\ UNCHANGED <<task, log, request, outcome, held, gone>>

\* handleIdentityConflict: without a company, or when its keys belong to another one,
\* the conflict is left as it is
Settles(t, d) == Kind[t] # "identity_conflict" \/ d = "reject" \/ t \notin Unresolved

Apply(r) ==
    /\ At(r, "apply")
    /\ LET t == request[r].task
           d == job[r].decision IN
       IF ~Settles(t, d)
       THEN /\ job' = [job EXCEPT ![r].state = "completed"]
            /\ UNCHANGED outcome
       ELSE /\ outcome' = [outcome EXCEPT ![t] = Effect(Kind[t], d)]
            /\ job' = [job EXCEPT ![r] =
                         IF Continues(Kind[t], d) /\ Kind[t] # "error_review"
                         THEN [@ EXCEPT !.step = "follow"] ELSE [@ EXCEPT !.state = "completed"]]
    /\ UNCHANGED <<task, log, request, held, gone>>

\* addQueueJob: nothing happens while BullMQ holds the id
AddFollowUp(t) ==
    /\ held' = held \cup {FollowId(t)}
    /\ gone' = IF FollowId(t) \in held THEN gone ELSE gone \cup {t}

\* The continuing job; an error review retries the failed job itself, replays one that
\* cannot be retried, and does nothing for one that is gone or went on meanwhile
FollowUp(r) ==
    /\ At(r, "follow")
    /\ LET t == request[r].task IN
       IF Kind[t] # "error_review" THEN AddFollowUp(t)
       ELSE \E b \in Blocked :
              CASE b = "failed" -> gone' = gone \cup {t} /\ UNCHANGED held
                [] b = "waiting" -> AddFollowUp(t)
                [] OTHER -> UNCHANGED <<held, gone>>
    /\ job' = [job EXCEPT ![r] = IF KindOf(r) = "error_review"
                                 THEN [@ EXCEPT !.step = "apply"]
                                 ELSE [@ EXCEPT !.state = "completed"]]
    /\ UNCHANGED <<task, log, request, outcome>>

Break(r) ==
    /\ job[r].state = "live" /\ job[r].step \in Breaks
    /\ LET made == job[r].tries + 1 IN
       job' = [job EXCEPT ![r] = [NoJob EXCEPT !.state = IF made < Attempts THEN "live"
                                                         ELSE "failed",
                                               !.tries = made]]
    /\ UNCHANGED <<task, log, request, outcome, held, gone>>

\* A continuing job ends and its record is dropped
Forget(id) ==
    /\ Forgets
    /\ held' = held \ {id}
    /\ UNCHANGED <<task, log, request, job, outcome, gone>>

-----------------------------------------------------------------------------
Ask(r) ==
    \E t \in Tasks :
        \/ \E user \in Users : AskAssign(r, t, user)
        \/ \E actor \in Users, d \in Choices : AskDecide(r, t, actor, d)
        \/ \E user \in MaybeUser : AskEscalate(r, t, user)

Serve(r) == Commit(r) \/ Resume(r)

Work(r) == Start(r) \/ Apply(r) \/ FollowUp(r)

Next ==
    \/ \E r \in Requests : Ask(r) \/ Serve(r) \/ Die(r) \/ Work(r) \/ Break(r)
    \/ \E id \in held : Forget(id)

Spec == Init /\ [][Next]_vars

\* A call that was begun goes on unless its process dies, and BullMQ hands out its jobs
FairSpec == Spec /\ \A r \in Requests : WF_vars(Serve(r)) /\ WF_vars(Work(r))

-----------------------------------------------------------------------------
TypeOK ==
    /\ task \in [Tasks -> Task]
    /\ log \in [Tasks -> Seq(Row)]
    /\ request \in [Requests -> Request]
    /\ job \in [Requests -> Job]
    /\ outcome \in [Tasks -> Effects \cup {Nil}]
    /\ held \subseteq FollowIds
    /\ gone \subseteq Tasks

\* The audit log tells the truth: its last row names the status the task has, although
\* the requests that write both read the task before they could know of each other.
LogTellsStatus ==
    \A t \in Tasks :
        log[t] # <<>> => log[t][Len(log[t])].new = task[t].status

\* Only a request that had read a task before its decision or expiry overturns it: none
\* that reads it closed is let through (the status checks of assignTask, decide and
\* escalate, which their transactions do not repeat).
OverturnedByStaleRead ==
    \A t \in Tasks : \A i \in DOMAIN log[t] :
        i < Len(log[t]) /\ log[t][i].new \notin Open => log[t][i + 1].at < i

\* Every effect was decided, and the pipeline goes on only behind a decision that says so.
Abstract == INSTANCE Verdict WITH
    handed <- [t \in Tasks |-> {log[t][i].arg : i \in {n \in DOMAIN log[t] : log[t][n].op = "decide"}}],
    effect <- outcome

Implements == Abstract!Spec

\* A decision takes effect unless the task is opened again, as long as the process that
\* took it lives to add the resume job and BullMQ's attempts suffice.
DecidedTakesEffect ==
    \A r \in Requests \ MayDie, t \in Tasks \ Unresolved :
        request[r].step = "resume" /\ request[r].task = t
            ~> \/ outcome[t] # Nil \/ job[r].state = "failed"
               \/ task[t].status \notin {"approved", "rejected"}
=============================================================================
