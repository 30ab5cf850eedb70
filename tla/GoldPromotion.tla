----------------------------- MODULE GoldPromotion -----------------------------
(***************************************************************************)
(* What happens to silver companies after they were scored: the dedup      *)
(* workers M1 and M2 and an operator merge records of one company, and P2  *)
(* makes a gold company with its contacts of those that are eligible, or   *)
(* that somebody forces.  Roll-up, quality reviews, the monitor P3 and the *)
(* API all add promotion jobs, P4 takes the eligibility back, and every    *)
(* await of a job is a step of its own.                                    *)
(***************************************************************************)
EXTENDS Naturals, FiniteSets

CONSTANTS
    Companies,     \* rows of silver_companies
    Cuis,          \* their identifiers; nr_reg_com has the same index and worker as cui
    Contacts,      \* rows of silver_contacts
    Nil,
    Age,           \* createdAt of a company
    FirstCui,      \* the cui a company begins with, or Nil
    Finds,         \* what J1 may find later: a company and its cui
    FirstContacts, \* the contacts a company begins with
    Address,       \* the contacts that carry the e-mail or telephone of a company
    Similar,       \* M2's score of two companies: "unlike", "likely" or "same"
    Verdicts,      \* what the roll-up may find
    Attempts,      \* BullMQ attempts of a job
    Breaks,        \* the steps at which an attempt of P2 may throw
    Failures,      \* how classifyErrorType may name what was thrown
    Forgets,       \* the kinds of jobs whose finished records BullMQ may drop
    MaxCopies,     \* bound: promotion jobs of a company without an id of their own
    MaxCalls,      \* bound: roll-ups, API calls, decisions included, and rounds of the monitor
    MaxRounds,     \* bound: times companies are sent through deduplication
    MaxDecisions   \* bound: merges an operator decides, of the calls

Steps == {"read", "look", "upsert", "copy", "mark", "find", "insert", "merge"}

FailureTypes == {"transient", "permanent", "validation", "other"}

ASSUME ConstantsAssumption ==
    /\ Age \in [Companies -> Nat]
    /\ FirstCui \in [Companies -> Cuis \cup {Nil}]
    /\ \A c, d \in Companies : c # d /\ FirstCui[c] = FirstCui[d] => FirstCui[c] = Nil
    /\ Finds \subseteq Companies \X Cuis
    /\ FirstContacts \in [Companies -> SUBSET Contacts]
    /\ \A c, d \in Companies : c # d => FirstContacts[c] \cap FirstContacts[d] = {}
    /\ Address \in [Companies -> SUBSET Contacts]
    /\ Similar \in [Companies \X Companies -> {"unlike", "likely", "same"}]
    /\ Verdicts \subseteq {"blocked", "eligible", "review_required"}
    /\ Attempts \in Nat \ {0}
    /\ Breaks \subseteq Steps
    /\ Failures \subseteq FailureTypes
    /\ Forgets \subseteq {"promote", "exact", "fuzzy"}
    /\ {MaxCopies, MaxCalls, MaxRounds, MaxDecisions} \subseteq Nat
    /\ Nil \notin Companies \cup Cuis

\* 0 is the copy with the id that addQueueJob derives, the others are jobs without one
Jobs == ({"promote"} \X Companies \X (0..MaxCopies)) \cup ({"exact", "fuzzy"} \X Companies \X {0})

Silver == [cui : Cuis \cup {Nil},
           master : BOOLEAN,                     \* isMasterRecord
           masterOf : Companies \cup {Nil},      \* masterRecordId
           promotion : {"blocked", "eligible", "review_required", "promoted"},
           gold : Cuis \cup {Nil},               \* promotedToGoldId
           moved : BOOLEAN,                      \* J1 replaced its cui by another (ghost)
           contacts : SUBSET Contacts]

\* gold_companies has one row of a tenant and cui
Gold == [from : Companies \cup {Nil},          \* silverId
         copied : BOOLEAN]                     \* gold_contacts were inserted

Job == [state : {"absent", "live", "done", "failed"}, tries : 0..Attempts, step : Steps,
        force : BOOLEAN, cui : Cuis \cup {Nil}, other : Companies \cup {Nil}, auto : BOOLEAN]

VARIABLES
    silver,     \* the rows of silver_companies
    gold,       \* the rows of gold_companies, with their gold_contacts
    candidates, \* the pairs of silver_dedup_candidates; no code decides by their status
    job,        \* BullMQ's jobs and what their workers remember
    errors,     \* the jobs of pipeline:error-handler
    tasks,      \* approval tasks that wait for a person
    left        \* what is left of the bounds

vars == <<silver, gold, candidates, job, errors, tasks, left>>

NoJob == [state |-> "absent", tries |-> 0, step |-> "read", force |-> FALSE, cui |-> Nil,
          other |-> Nil, auto |-> FALSE]

Init ==
    /\ silver = [c \in Companies |->
                   [cui |-> FirstCui[c], master |-> TRUE, masterOf |-> Nil,
                    promotion |-> "blocked", gold |-> Nil, moved |-> FALSE,
                    contacts |-> FirstContacts[c]]]
    /\ gold = [k \in Cuis |-> [from |-> Nil, copied |-> FALSE]]
    /\ candidates = {}
    /\ job = [j \in Jobs |-> NoJob]
    /\ errors = {}
    /\ tasks = {}
    /\ left = [calls |-> MaxCalls, rounds |-> MaxRounds, decisions |-> MaxDecisions]

Started(f) == [NoJob EXCEPT !.state = "live", !.force = f]

Free(c) == {n \in 1..MaxCopies : job[<<"promote", c, n>>].state = "absent"}

\* Queue.add of a promotion without an id: one more job
Anew(js, c, f) ==
    [js EXCEPT ![<<"promote", c, CHOOSE n \in Free(c) : TRUE>>] = Started(f)]

\* Queue.add under an id: nothing while BullMQ holds it
Added(js, j, f) == IF js[j].state = "absent" THEN [js EXCEPT ![j] = Started(f)] ELSE js

\* Only a job with an id is looked up after its end
Ended(j) == IF j[3] = 0 THEN [NoJob EXCEPT !.state = "done"] ELSE NoJob

At(j, kind, step) == j[1] = kind /\ job[j].state = "live" /\ job[j].step = step

-----------------------------------------------------------------------------
(* Who asks for a promotion *)

\* O2 writes its verdict and adds the job or the task, unless its worker dies in between
Rollup(c) ==
    /\ left.calls > 0
    /\ left' = [left EXCEPT !.calls = @ - 1]
    /\ \E v \in Verdicts, sent \in BOOLEAN :
         /\ silver' = [silver EXCEPT ![c].promotion = v]
         /\ IF v = "eligible" /\ sent THEN Free(c) # {} /\ job' = Anew(job, c, FALSE)
            ELSE UNCHANGED job
         /\ tasks' = tasks \cup (IF v = "review_required" /\ sent THEN {<<"quality", c>>} ELSE {})
    /\ UNCHANGED <<gold, candidates, errors>>

\* POST /silver/companies/:id/promote
AskPromotion(c) ==
    /\ left.calls > 0 /\ Free(c) # {}
    /\ left' = [left EXCEPT !.calls = @ - 1]
    /\ \E f \in BOOLEAN : job' = Anew(job, c, f)
    /\ UNCHANGED <<silver, gold, candidates, errors, tasks>>

\* P3 promotes again what is eligible and has no gold company
Monitor ==
    /\ left.calls > 0
    /\ LET stuck == {c \in Companies : silver[c].promotion = "eligible" /\ silver[c].gold = Nil} IN
       /\ stuck # {}
       /\ \A c \in stuck : Free(c) # {}
       /\ job' = [j \in Jobs |-> IF j[2] \in stuck THEN Anew(job, j[2], FALSE)[j] ELSE job[j]]
    /\ left' = [left EXCEPT !.calls = @ - 1]
    /\ UNCHANGED <<silver, gold, candidates, errors, tasks>>

\* handleQualityReview, which may die half way as well
QualityReview(c) ==
    /\ <<"quality", c>> \in tasks
    /\ tasks' = tasks \ {<<"quality", c>>}
    /\ \E approved, sent \in BOOLEAN :
         /\ silver' = [silver EXCEPT ![c].promotion = IF approved THEN "eligible" ELSE "blocked"]
         /\ job' = IF approved /\ sent THEN Added(job, <<"promote", c, 0>>, TRUE) ELSE job
    /\ UNCHANGED <<gold, candidates, errors, left>>

-----------------------------------------------------------------------------
(* P2 *)

ReadSilver(j) ==
    /\ At(j, "promote", "read")
    /\ LET row == silver[j[2]] IN
       job' = [job EXCEPT ![j] =
                 IF row.cui = Nil \/ (~@.force /\ row.promotion # "eligible") THEN Ended(j)
                 ELSE [@ EXCEPT !.step = "look", !.cui = row.cui]]
    /\ UNCHANGED <<silver, gold, candidates, errors, tasks, left>>

LookForGold(j) ==
    /\ At(j, "promote", "look")
    /\ job' = [job EXCEPT ![j] = IF \E k \in Cuis : gold[k].from = j[2] THEN Ended(j)
                                 ELSE [@ EXCEPT !.step = "upsert"]]
    /\ UNCHANGED <<silver, gold, candidates, errors, tasks, left>>

\* Mutant: a conflict takes the gold company over
UpsertTakesOver(j) ==
    /\ At(j, "promote", "upsert")
    /\ gold' = [gold EXCEPT ![job[j].cui].from = j[2]]
    /\ job' = [job EXCEPT ![j].step = IF gold[job[j].cui].from = Nil THEN "copy" ELSE "mark"]
    /\ UNCHANGED <<silver, candidates, errors, tasks, left>>

\* INSERT ... ON CONFLICT (tenant, cui) DO UPDATE: "mark" when the row is another company's
Upsert(j) ==
    /\ At(j, "promote", "upsert")
    /\ gold' = [gold EXCEPT ![job[j].cui].from = IF @ = Nil THEN j[2] ELSE @]
    /\ job' = [job EXCEPT ![j].step = IF gold'[job[j].cui].from = j[2] THEN "copy" ELSE "mark"]
    /\ UNCHANGED <<silver, candidates, errors, tasks, left>>

CopyContacts(j) ==
    /\ At(j, "promote", "copy")
    /\ gold' = [gold EXCEPT ![job[j].cui].copied = TRUE]
    /\ job' = [job EXCEPT ![j].step = "mark"]
    /\ UNCHANGED <<silver, candidates, errors, tasks, left>>

\* Mutant: the silver company points to itself
MarkItself(j) ==
    /\ At(j, "promote", "mark")
    /\ silver' = [silver EXCEPT ![j[2]].promotion = "promoted", ![j[2]].gold = j[2]]
    /\ job' = [job EXCEPT ![j] = Ended(j)]
    /\ UNCHANGED <<gold, candidates, errors, tasks, left>>

MarkPromoted(j) ==
    /\ At(j, "promote", "mark")
    /\ silver' = [silver EXCEPT ![j[2]].promotion = "promoted", ![j[2]].gold = job[j].cui]
    /\ job' = [job EXCEPT ![j] = Ended(j)]
    /\ UNCHANGED <<gold, candidates, errors, tasks, left>>

Promoter(j) ==
    ReadSilver(j) \/ LookForGold(j) \/ Upsert(j) \/ CopyContacts(j) \/ MarkPromoted(j)

-----------------------------------------------------------------------------
(* M1 and M2 *)

\* handlePostEnrichment sends a company through both
SendToDedup(js, c) == Added(Added(js, <<"exact", c, 0>>, FALSE), <<"fuzzy", c, 0>>, FALSE)

PostEnrichment(c) ==
    /\ left.rounds > 0
    /\ left' = [left EXCEPT !.rounds = @ - 1]
    /\ job' = SendToDedup(job, c)
    /\ UNCHANGED <<silver, gold, candidates, errors, tasks>>

\* Mutant: an index that is not unique
CuiAnyway(c, k) == TRUE

\* The partial unique index on cui, over the records that are masters
CuiFree(c, k) ==
    silver[c].master => \A d \in Companies \ {c} : silver[d].cui = k => ~silver[d].master

\* J1 writes the cui of the structured data, over another if there is one
WriteCui(c) ==
    /\ \E k \in Cuis :
         /\ <<c, k>> \in Finds /\ silver[c].cui # k
         /\ CuiFree(c, k)
         /\ silver' = [silver EXCEPT ![c].cui = k, ![c].moved = @ \/ silver[c].cui # Nil]
    /\ UNCHANGED <<gold, candidates, job, errors, tasks, left>>

ReadCompany(j) ==
    /\ At(j, "exact", "read") \/ At(j, "fuzzy", "read")
    /\ job' = [job EXCEPT ![j].cui = silver[j[2]].cui, ![j].step = "find"]
    /\ UNCHANGED <<silver, gold, candidates, errors, tasks, left>>

\* findExactMatches: other masters with the cui; else companies of contacts at its address
SameCui(c, k) == {d \in Companies \ {c} : k # Nil /\ silver[d].cui = k /\ silver[d].master}
SameAddress(c) == {d \in Companies \ {c} : silver[d].contacts \cap Address[c] # {}}

Exact(c, k) == IF SameCui(c, k) # {} THEN SameCui(c, k) ELSE SameAddress(c)

FindExact(j) ==
    /\ At(j, "exact", "find")
    /\ LET found == Exact(j[2], job[j].cui) IN
       \/ found = {} /\ job' = [job EXCEPT ![j] = Ended(j)]
       \/ \E d \in found :
            job' = [job EXCEPT ![j] = [@ EXCEPT !.other = d, !.step = "insert", !.cui = Nil,
                                                !.auto = SameCui(j[2], job[j].cui) # {}]]
    /\ UNCHANGED <<silver, gold, candidates, errors, tasks, left>>

\* Candidates with another cui are left out, the best of the others is taken
FindFuzzy(j) ==
    /\ At(j, "fuzzy", "find")
    /\ LET c == j[2]
           near == {d \in Companies \ {c} : Nil \in {job[j].cui, silver[d].cui}
                                              \/ job[j].cui = silver[d].cui}
           same == {d \in near : Similar[c, d] = "same"}
           likely == {d \in near : Similar[c, d] = "likely"} IN
       \/ same \cup likely = {} /\ job' = [job EXCEPT ![j] = Ended(j)]
       \/ \E d \in IF same # {} THEN same ELSE likely :
            job' = [job EXCEPT ![j] = [@ EXCEPT !.other = d, !.auto = same # {},
                                                !.step = "insert", !.cui = Nil]]
    /\ UNCHANGED <<silver, gold, candidates, errors, tasks, left>>

\* M1 puts the older company first, as [a, b].sort does; M2 its own
Pair(j) ==
    LET c == j[2] d == job[j].other IN
    IF j[1] = "exact" /\ Age[d] < Age[c] THEN <<d, c>> ELSE <<c, d>>

InsertCandidate(j) ==
    /\ At(j, "exact", "insert") \/ At(j, "fuzzy", "insert")
    /\ Pair(j) \notin candidates
    /\ candidates' = candidates \cup {Pair(j)}
    /\ job' = [job EXCEPT ![j].step = "merge"]
    /\ UNCHANGED <<silver, gold, errors, tasks, left>>

MergeExact(j) ==
    /\ At(j, "exact", "merge")
    /\ silver' = IF job[j].auto
                 THEN [silver EXCEPT ![Pair(j)[2]].master = FALSE,
                                     ![Pair(j)[2]].masterOf = Pair(j)[1]]
                 ELSE silver
    /\ job' = [job EXCEPT ![j] = Ended(j)]
    /\ UNCHANGED <<gold, candidates, errors, tasks, left>>

MergeFuzzy(j) ==
    /\ At(j, "fuzzy", "merge")
    /\ tasks' = tasks \cup (IF job[j].auto THEN {} ELSE {<<"dedup", j[2], job[j].other>>})
    /\ job' = [job EXCEPT ![j] = Ended(j)]
    /\ UNCHANGED <<silver, gold, candidates, errors, left>>

Deduplicator(j) ==
    \/ ReadCompany(j) \/ FindExact(j) \/ FindFuzzy(j)
    \/ InsertCandidate(j) \/ MergeExact(j) \/ MergeFuzzy(j)

\* handleDedupReview: whatever was decided, deduplication and scores once more
DedupReview(c, d) ==
    /\ <<"dedup", c, d>> \in tasks
    /\ tasks' = tasks \ {<<"dedup", c, d>>}
    /\ job' = SendToDedup(job, c)
    /\ UNCHANGED <<silver, gold, candidates, errors, left>>

\* POST /silver/dedup-candidates/:id/decide: a transaction merges one of the pair into the
\* master that the body names, whatever was decided before
Decide(c, d) ==
    /\ left.calls > 0 /\ left.decisions > 0
    /\ <<c, d>> \in candidates
    /\ left' = [left EXCEPT !.calls = @ - 1, !.decisions = @ - 1]
    /\ \E m \in Companies :
         LET slave == IF m = c THEN d ELSE c IN
         silver' = [silver EXCEPT ![slave].master = FALSE, ![slave].masterOf = m,
                                  ![slave].contacts = {},
                                  ![m].contacts = @ \cup silver[slave].contacts]
    /\ UNCHANGED <<gold, candidates, job, errors, tasks>>

-----------------------------------------------------------------------------
(* Failures *)

\* Mutant: a retry begins with the payload of an ordinary promotion
RetriedUnforced(j, made) ==
    IF made < Attempts THEN [Started(FALSE) EXCEPT !.tries = made]
    ELSE IF j[3] = 0 THEN [NoJob EXCEPT !.state = "failed"] ELSE NoJob

\* BullMQ's retry of an attempt that threw
Retried(j, made) ==
    IF made < Attempts THEN [Started(job[j].force) EXCEPT !.tries = made]
    ELSE IF j[3] = 0 THEN [NoJob EXCEPT !.state = "failed"] ELSE NoJob

\* Each failed attempt is a job of P4
Throw(j, failures) ==
    LET made == job[j].tries + 1 IN
    /\ job' = [job EXCEPT ![j] = Retried(j, made)]
    /\ \E f \in failures : errors' = errors \cup {<<f, j[1], j[2], job[j].force, made>>}
    /\ UNCHANGED <<silver, gold, candidates, tasks, left>>

Break(j) ==
    /\ j[1] = "promote" /\ job[j].state = "live" /\ job[j].step \in Breaks
    /\ Throw(j, Failures)

\* The unique constraint of a pair refuses its second row
PairExists(j) ==
    /\ At(j, "exact", "insert") \/ At(j, "fuzzy", "insert")
    /\ Pair(j) \in candidates
    /\ Throw(j, Failures \cap {"permanent", "validation"})

\* P4: replay, block, or ask a person
Handle(e) ==
    /\ e \in errors
    /\ errors' = errors \ {e}
    /\ CASE e[1] = "transient" /\ e[5] < Attempts ->
              Free(e[3]) # {} /\ job' = Anew(job, e[3], e[4]) /\ UNCHANGED <<silver, tasks>>
         [] e[1] = "permanent" ->
              silver' = [silver EXCEPT ![e[3]].promotion = "blocked"] /\ UNCHANGED <<job, tasks>>
         [] e[1] = "validation" ->
              tasks' = tasks \cup {<<"quality", e[3]>>} /\ UNCHANGED <<silver, job>>
         [] OTHER -> UNCHANGED <<silver, job, tasks>>
    /\ UNCHANGED <<gold, candidates, left>>

\* BullMQ drops the record of a finished job
Forget(j) ==
    /\ j[1] \in Forgets /\ j[3] = 0 /\ job[j].state \in {"done", "failed"}
    /\ job' = [job EXCEPT ![j] = NoJob]
    /\ UNCHANGED <<silver, gold, candidates, errors, tasks, left>>

-----------------------------------------------------------------------------
Work(j) ==
    /\ job[j].state = "live"
    /\ Promoter(j) \/ Deduplicator(j) \/ PairExists(j)

Next ==
    \/ \E c \in Companies :
         Rollup(c) \/ AskPromotion(c) \/ QualityReview(c) \/ PostEnrichment(c) \/ WriteCui(c)
    \/ Monitor
    \/ \E c, d \in Companies : DedupReview(c, d) \/ Decide(c, d)
    \/ \E j \in Jobs : Work(j) \/ Break(j) \/ Forget(j)
    \/ \E e \in errors : Handle(e)

Spec == Init /\ [][Next]_vars

-----------------------------------------------------------------------------
TypeOK ==
    /\ silver \in [Companies -> Silver]
    /\ gold \in [Cuis -> Gold]
    /\ candidates \subseteq Companies \X Companies
    /\ job \in [Jobs -> Job]
    /\ errors \subseteq FailureTypes \X {"promote", "exact", "fuzzy"} \X Companies
                         \X BOOLEAN \X (1..Attempts)
    /\ tasks \subseteq ({"quality"} \X Companies) \cup ({"dedup"} \X Companies \X Companies)
    /\ left \in [calls : 0..MaxCalls, rounds : 0..MaxRounds, decisions : 0..MaxDecisions]

\* A silver company that points to a gold company points to one that exists, and if it is
\* the one it was made of, the contacts were copied: P2 inserts the gold company, copies and
\* marks in steps between which other promotions of the same cui, retries and crashes fall.
PromotedCarriesContacts ==
    \A c \in Companies :
        silver[c].gold # Nil =>
            LET g == gold[silver[c].gold] IN g.from # Nil /\ (g.from = c => g.copied)

\* M1 merges two companies on its own only after an operator merged some or J1 replaced an
\* identifier: while all records are masters the index keeps their identifiers apart, so that
\* only one that M1 had read before it was replaced, or one of a record merged before, matches.
AutoMergeNeedsDecision ==
    \A c \in Companies :
        ~silver[c].master =>
            left.decisions < MaxDecisions \/ \E d \in Companies : silver[d].moved

\* A promotion that a reviewer forced and that did not fail found or made a gold company,
\* even if an attempt threw and P4 blocked the company before the next one.
ForcedMakesGold ==
    \A c \in Companies :
        FirstCui[c] # Nil /\ job[<<"promote", c, 0>>].state = "done"
            => silver[c].gold # Nil \/ \E k \in Cuis : gold[k].from = c
=============================================================================
