---------------------------- MODULE EnrichmentFlow ----------------------------
(***************************************************************************)
(* A silver company on its way through enrichment: the orchestrator P1     *)
(* fans out to the sources D1-F3 and to the discovery workers, each source *)
(* reports itself complete in silver_companies.enrichment_sources_completed*)
(* (lib/enrichment-completion.ts), the last one starts deduplication and   *)
(* the scores N1-N3, and the roll-up O2 decides whether the company may be *)
(* promoted.  P3 asks again for companies that look stalled, P4 answers    *)
(* every failed attempt.  All of them write the same row, await by await.  *)
(***************************************************************************)
EXTENDS Naturals, FiniteSets, Sequences

CONSTANTS
    Companies,     \* rows of silver_companies
    Nil,           \* an answer that holds nothing
    InUse,         \* the enrichment queues a model looks at
    Shape,         \* what P1 finds in a company: cui, validated, domain, address, agri
    Says,          \* what the service behind a queue may answer
    Completeness,  \* N1, N2, N3: the score of a company in which a set of workers wrote
    Accuracy,      \* (a model covers the 30 days in which no score drops with age)
    Freshness,
    Attempts,      \* BullMQ attempts of a job
    Breaks,        \* where an attempt may throw: queue and step
    Failures,      \* how classifyErrorType may name what was thrown
    Forgets,       \* the queues whose finished records BullMQ may drop
    MaxCopies,     \* bound: jobs of one queue and company without an id of their own
    MaxRequests,   \* bound: enrichment requests of an operator per company
    MaxChecks      \* bound: rounds of the monitor

\* REQUIRED_ENRICHMENT_SOURCES, in the order P1 adds their jobs
SourceOrder ==
    <<"anaf_fiscal", "anaf_tva", "anaf_efactura", "anaf_datorii", "anaf_caen",
      "termene_balance", "termene_risk", "termene_dosare", "termene_actionari",
      "onrc_data", "onrc_administratori", "onrc_sedii">>

Sources == {SourceOrder[n] : n \in DOMAIN SourceOrder}

Required == Sources \cap InUse

Discoveries ==
    {"hunter", "geocode", "zones", "proximity", "apia", "finder", "contact", "structure"}

\* The queue of the job that K1, K2 and I3 add for what they found
NextQueue == [q \in {"geocode", "zones", "finder"} |->
                IF q = "geocode" THEN "zones" ELSE IF q = "zones" THEN "proximity" ELSE "contact"]

Enrichers == Sources \cup Discoveries

Flow == {"orchestrate", "post", "resume", "scored", "completeness", "accuracy", "freshness",
         "rollup"}

Scores == {"completeness", "accuracy", "freshness"}

Statuses == {"ACTIVA", "INACTIVA", "DIZOLVARE", "RADIATA", "INSOLVENTA"}

Answers == Statuses \cup {Nil, "found", "unsure"}

FailureTypes == {"transient", "auth", "validation", "absent", "permanent"}

Steps == {"fetch", "write", "check", "mark", "send", "read", "close"}

ASSUME ConstantsAssumption ==
    /\ InUse \subseteq Enrichers
    /\ \A q \in InUse \cap DOMAIN NextQueue : NextQueue[q] \in InUse
    /\ Shape \in [Companies -> SUBSET {"cui", "validated", "domain", "address", "agri"}]
    /\ Says \in [Enrichers -> SUBSET Answers]
    /\ Says["anaf_fiscal"] \subseteq Statuses \cup {Nil}
    /\ {Completeness, Accuracy, Freshness} \subseteq [SUBSET InUse -> 0..100]
    /\ {Attempts, MaxCopies} \subseteq Nat \ {0}
    /\ Breaks \subseteq (Enrichers \cup Flow) \X Steps
    /\ Failures \subseteq FailureTypes
    /\ Forgets \subseteq Enrichers \cup Flow
    /\ {MaxRequests, MaxChecks} \subseteq Nat

Queues == InUse \cup Flow

\* addQueueJob derives an id (copy 0); queue.add without one makes a new job each time
Jobs == Queues \X Companies \X (0..MaxCopies)

Company == [status : Statuses \cup {Nil},         \* statusFirma
            wrote : SUBSET InUse,                 \* whose columns and metadata it holds
            sources : SUBSET InUse,               \* enrichmentSourcesCompleted
            enrichment : {"pending", "in_progress", "complete", "failed"},
            completeness : 0..100, accuracy : 0..100, freshness : 0..100,
            scored : SUBSET InUse,                \* what N1 counted (ghost)
            reported : SUBSET InUse,              \* sources that had written when they first
                                                  \* reported themselves complete (ghost)
            ahead : BOOLEAN,                      \* an AI review sent it on (ghost)
            given : SUBSET Scores,                \* the scores it was given, and those
            again : SUBSET Scores,                \* it was given more than once (ghosts)
            promotion : {"blocked", "eligible", "review_required"}]

Job == [state : {"absent", "live", "completed", "failed"}, tries : Nat, step : Steps,
        next : Nat, found : Answers, seen : BOOLEAN, score : 0..100,
        counted : SUBSET InUse, verdict : {"blocked", "eligible", "review_required"}]

VARIABLES
    company,    \* the rows
    job,        \* BullMQ's jobs and what their workers remember
    request,    \* POST /silver/companies/:id/enrich: requests left and step
    errors,     \* the jobs of pipeline:error-handler
    handed,     \* what was handed to other modules: promotions, reviews, deduplication
    checks      \* rounds left to the monitor

vars == <<company, job, request, errors, handed, checks>>

NoJob == [state |-> "absent", tries |-> 0, step |-> "send", next |-> 1, found |-> Nil,
          seen |-> FALSE, score |-> 0, counted |-> {}, verdict |-> "blocked"]

Init ==
    /\ company = [c \in Companies |->
                    [status |-> Nil, wrote |-> {}, sources |-> {}, enrichment |-> "pending",
                     completeness |-> 0, accuracy |-> 0, freshness |-> 0, scored |-> {},
                     reported |-> {}, ahead |-> FALSE, given |-> {}, again |-> {},
                     promotion |-> "blocked"]]
    /\ job = [j \in Jobs |-> NoJob]
    /\ request = [c \in Companies |-> [left |-> MaxRequests, step |-> "idle"]]
    /\ errors = {}
    /\ handed = {}
    /\ checks = MaxChecks

FirstStep(q) ==
    IF q \in Enrichers THEN "fetch"
    ELSE IF q \in Scores \cup {"rollup"} THEN "read"
    ELSE "send"

Started(q) == [NoJob EXCEPT !.state = "live", !.step = FirstStep(q)]

\* Queue.add under an id: nothing happens while BullMQ holds the id
Added(js, q, c) ==
    IF js[<<q, c, 0>>].state = "absent"
    THEN [js EXCEPT ![<<q, c, 0>>] = Started(q)] ELSE js

Free(js, q, c) == {n \in 1..MaxCopies : js[<<q, c, n>>].state = "absent"}

\* Queue.add without an id
Anew(js, q, c) ==
    [js EXCEPT ![<<q, c, CHOOSE n \in Free(js, q, c) : TRUE>>] = Started(q)]

\* A finished job: its record stays under its id, one without an id is never asked for
Ended(j, how) == IF j[3] = 0 THEN [job[j] EXCEPT !.state = how] ELSE NoJob

At(j, q, step) == j[1] = q /\ job[j].state = "live" /\ job[j].step = step

-----------------------------------------------------------------------------
(* The operator and the monitor *)

\* POST /silver/companies/:id/enrich adds the job, then marks the row
Ask(c) ==
    /\ request[c].step = "idle" /\ request[c].left > 0
    /\ Free(job, "orchestrate", c) # {}
    /\ request' = [request EXCEPT ![c] = [left |-> @.left - 1, step |-> "mark"]]
    /\ job' = Anew(job, "orchestrate", c)
    /\ UNCHANGED <<company, errors, handed, checks>>

MarkAsked(c) ==
    /\ request[c].step = "mark"
    /\ request' = [request EXCEPT ![c].step = "idle"]
    /\ company' = [company EXCEPT ![c].enrichment = "in_progress"]
    /\ UNCHANGED <<job, errors, handed, checks>>

\* P3: stalled companies are orchestrated again, eligible ones promoted again
Monitor ==
    /\ checks > 0
    /\ LET stalled == {c \in Companies : company[c].enrichment = "in_progress"}
           stuck == {c \in Companies : company[c].promotion = "eligible"} IN
       /\ stalled \cup stuck # {}
       /\ \A c \in stalled : Free(job, "orchestrate", c) # {}
       /\ job' = [j \in Jobs |->
                    IF j[2] \in stalled /\ j[1] = "orchestrate"
                    THEN Anew(job, "orchestrate", j[2])[j] ELSE job[j]]
       /\ handed' = handed \cup ({"promote"} \X stuck)
    /\ checks' = checks - 1
    /\ UNCHANGED <<company, request, errors>>

-----------------------------------------------------------------------------
(* P1: one addQueueJob after another *)

\* handlePostValidation
FanOutOrder == SourceOrder \o <<"hunter", "geocode", "apia", "finder", "structure">>

FanOut(c) ==
    InUse \cap ((IF {"cui", "validated"} \subseteq Shape[c] THEN Sources ELSE {})
                 \cup (IF "domain" \in Shape[c] THEN {"hunter"} ELSE {})
                 \cup (IF "address" \in Shape[c] THEN {"geocode"} ELSE {})
                 \cup (IF "agri" \in Shape[c] THEN {"apia"} ELSE {})
                 \cup {"finder", "structure"})

Orchestrate(j) ==
    /\ At(j, "orchestrate", "send")
    /\ LET c == j[2]
           todo == {n \in DOMAIN FanOutOrder : n >= job[j].next /\ FanOutOrder[n] \in FanOut(c)} IN
       IF todo = {}
       THEN job' = [job EXCEPT ![j] = Ended(j, "completed")]
       ELSE \E n \in todo :
              /\ \A m \in todo : n <= m
              /\ job' = [Added(job, FanOutOrder[n], c) EXCEPT ![j].next = n + 1]
    /\ UNCHANGED <<company, request, errors, handed, checks>>

\* handlePostEnrichment: "post" is the job of the last source, "resume" that of an AI review
PostEnrichment(j) ==
    /\ j[1] \in {"post", "resume"} /\ job[j].state = "live"
    /\ \/ /\ job[j].step = "send"
          /\ handed' = handed \cup {<<"dedup:exact", j[2]>>, <<"dedup:fuzzy", j[2]>>}
          /\ company' = [company EXCEPT ![j[2]].enrichment = "complete"]
          /\ job' = [job EXCEPT ![j].step = "close"]
       \/ /\ job[j].step = "close"
          /\ job' = [Added(job, "completeness", j[2]) EXCEPT ![j] = Ended(j, "completed")]
          /\ UNCHANGED <<company, handed>>
    /\ UNCHANGED <<request, errors, checks>>

\* handlePostScoring
PostScoring(j) ==
    /\ At(j, "scored", "send")
    /\ job' = [Added(job, "rollup", j[2]) EXCEPT ![j] = Ended(j, "completed")]
    /\ UNCHANGED <<company, request, errors, handed, checks>>

-----------------------------------------------------------------------------
(* What the enrichment workers write: one UPDATE that sets columns and one key of the
   metadata; "row" is the row it finds, "a" what the service answered *)

Wrote(row, q) == [row EXCEPT !.wrote = @ \cup {q}]

AnafFiscal(row, a) ==
    IF a = Nil THEN row ELSE [Wrote(row, "anaf_fiscal") EXCEPT !.status = a]
AnafTva(row, a) == IF a = Nil THEN row ELSE Wrote(row, "anaf_tva")
AnafEfactura(row, a) == IF a = Nil THEN row ELSE Wrote(row, "anaf_efactura")
AnafDatorii(row, a) ==
    IF a = Nil THEN row
    ELSE [Wrote(row, "anaf_datorii") EXCEPT !.status = IF a = "INACTIVA" THEN a ELSE @]
AnafCaen(row, a) == IF a = Nil THEN row ELSE Wrote(row, "anaf_caen")
TermeneBalance(row, a) == IF a = Nil THEN row ELSE Wrote(row, "termene_balance")
TermeneRisk(row, a) == IF a = Nil THEN row ELSE Wrote(row, "termene_risk")
TermeneDosare(row, a) ==
    [Wrote(row, "termene_dosare") EXCEPT !.status = IF a = "INSOLVENTA" THEN a ELSE @]
TermeneAssociates(row, a) == Wrote(row, "termene_actionari")
OnrcData(row, a) == Wrote(row, "onrc_data")
OnrcAdministratori(row, a) == Wrote(row, "onrc_administratori")
OnrcSedii(row, a) == Wrote(row, "onrc_sedii")
HunterEmail(row, a) ==
    IF a = Nil THEN row ELSE [Wrote(row, "hunter") EXCEPT !.enrichment = "in_progress"]
Geocode(row, a) == IF a = Nil THEN row ELSE Wrote(row, "geocode")
Zones(row, a) == Wrote(row, "zones")
Proximity(row, a) == Wrote(row, "proximity")
Apia(row, a) == IF a = Nil THEN row ELSE Wrote(row, "apia")
WebsiteFinder(row, a) == IF a = Nil THEN row ELSE Wrote(row, "finder")
ContactPage(row, a) == IF a = Nil THEN row ELSE Wrote(row, "contact")
Structuring(row, a) == IF a = "found" THEN Wrote(row, "structure") ELSE row

Written(q, row, a) ==
    CASE q = "anaf_fiscal" -> AnafFiscal(row, a)
      [] q = "anaf_tva" -> AnafTva(row, a)
      [] q = "anaf_efactura" -> AnafEfactura(row, a)
      [] q = "anaf_datorii" -> AnafDatorii(row, a)
      [] q = "anaf_caen" -> AnafCaen(row, a)
      [] q = "termene_balance" -> TermeneBalance(row, a)
      [] q = "termene_risk" -> TermeneRisk(row, a)
      [] q = "termene_dosare" -> TermeneDosare(row, a)
      [] q = "termene_actionari" -> TermeneAssociates(row, a)
      [] q = "onrc_data" -> OnrcData(row, a)
      [] q = "onrc_administratori" -> OnrcAdministratori(row, a)
      [] q = "onrc_sedii" -> OnrcSedii(row, a)
      [] q = "hunter" -> HunterEmail(row, a)
      [] q = "geocode" -> Geocode(row, a)
      [] q = "zones" -> Zones(row, a)
      [] q = "proximity" -> Proximity(row, a)
      [] q = "apia" -> Apia(row, a)
      [] q = "finder" -> WebsiteFinder(row, a)
      [] q = "contact" -> ContactPage(row, a)
      [] OTHER -> Structuring(row, a)

Fetch(j) ==
    /\ j[1] \in Enrichers /\ At(j, j[1], "fetch")
    /\ \E a \in Says[j[1]] :
         job' = [job EXCEPT ![j].found = a, ![j].step = "write"]
    /\ UNCHANGED <<company, request, errors, handed, checks>>

Write(j) ==
    /\ j[1] \in Enrichers /\ At(j, j[1], "write")
    /\ company' = [company EXCEPT ![j[2]] = Written(j[1], @, job[j].found)]
    /\ handed' = handed \cup (IF j[1] = "structure" /\ job[j].found = "unsure"
                              THEN {<<"ai_review", j[2]>>} ELSE {})
    /\ job' = [job EXCEPT ![j] =
                 IF j[1] \notin Discoveries THEN [@ EXCEPT !.step = "check"]
                 ELSE IF j[1] \in DOMAIN NextQueue /\ (j[1] = "zones" \/ @.found # Nil)
                      THEN [@ EXCEPT !.step = "send"]
                 ELSE Ended(j, "completed")]
    /\ UNCHANGED <<request, errors, checks>>

Follow(j) ==
    /\ j[1] \in DOMAIN NextQueue /\ At(j, j[1], "send")
    /\ Free(job, NextQueue[j[1]], j[2]) # {}
    /\ job' = [Anew(job, NextQueue[j[1]], j[2]) EXCEPT ![j] = Ended(j, "completed")]
    /\ UNCHANGED <<company, request, errors, handed, checks>>

-----------------------------------------------------------------------------
(* markEnrichmentSourceComplete: SELECT, UPDATE ... RETURNING, queue.add *)

\* Mutant: the last source is not waited for
AllButOne(sources) == Cardinality(Required \ sources) <= 1

AllComplete(sources) == Required \subseteq sources

CheckSource(j) ==
    /\ j[1] \in Enrichers /\ At(j, j[1], "check")
    /\ job' = [job EXCEPT ![j] = IF j[1] \in company[j[2]].sources
                                 THEN Ended(j, "completed") ELSE [@ EXCEPT !.step = "mark"]]
    /\ UNCHANGED <<company, request, errors, handed, checks>>

\* The UPDATE appends a source that the list does not have yet
Reported(row, q) ==
    [row EXCEPT !.sources = @ \cup {q},
                !.reported = IF q \in row.sources THEN @ ELSE @ \cup ({q} \cap row.wrote)]

\* Mutant: the list as it was before the UPDATE decides who is last
MarkStale(j) ==
    /\ j[1] \in Enrichers /\ At(j, j[1], "mark")
    /\ company' = [company EXCEPT ![j[2]] = Reported(@, j[1])]
    /\ job' = [job EXCEPT ![j] = IF AllComplete(company[j[2]].sources)
                                 THEN [@ EXCEPT !.step = "send"] ELSE Ended(j, "completed")]
    /\ UNCHANGED <<request, errors, handed, checks>>

MarkSource(j) ==
    /\ j[1] \in Enrichers /\ At(j, j[1], "mark")
    /\ company' = [company EXCEPT ![j[2]] = Reported(@, j[1])]
    /\ job' = [job EXCEPT ![j] = IF AllComplete(company'[j[2]].sources)
                                 THEN [@ EXCEPT !.step = "send"] ELSE Ended(j, "completed")]
    /\ UNCHANGED <<request, errors, handed, checks>>

SendPost(j) ==
    /\ j[1] \in Sources /\ At(j, j[1], "send")
    /\ job' = [Added(job, "post", j[2]) EXCEPT ![j] = Ended(j, "completed")]
    /\ UNCHANGED <<company, request, errors, handed, checks>>

-----------------------------------------------------------------------------
(* N1, N2, N3: read the row, write the score, add the next job *)

\* Mutant: the weights add up to more than a hundred
PointsTwice(q, row) ==
    2 * (IF q = "completeness" THEN Completeness[row.wrote] ELSE Accuracy[row.wrote])

Points(q, row) ==
    IF q = "completeness" THEN Completeness[row.wrote]
    ELSE IF q = "accuracy" THEN Accuracy[row.wrote] ELSE Freshness[row.wrote]

AfterScore == [q \in Scores |->
                 IF q = "completeness" THEN "accuracy"
                 ELSE IF q = "accuracy" THEN "freshness" ELSE "scored"]

ReadScore(j) ==
    /\ j[1] \in Scores /\ At(j, j[1], "read")
    /\ job' = [job EXCEPT ![j].score = Points(j[1], company[j[2]]),
                          ![j].counted = company[j[2]].wrote, ![j].step = "write"]
    /\ UNCHANGED <<company, request, errors, handed, checks>>

Given(row, q) == [row EXCEPT !.given = @ \cup {q}, !.again = @ \cup ({q} \cap row.given)]

WriteScore(j) ==
    /\ j[1] \in Scores /\ At(j, j[1], "write")
    /\ LET row == Given(company[j[2]], j[1]) IN
       company' = [company EXCEPT ![j[2]] =
                     CASE j[1] = "completeness" -> [row EXCEPT !.completeness = job[j].score,
                                                               !.scored = job[j].counted]
                       [] j[1] = "accuracy" -> [row EXCEPT !.accuracy = job[j].score]
                       [] OTHER -> [row EXCEPT !.freshness = job[j].score]]
    /\ job' = [job EXCEPT ![j].step = "send"]
    /\ UNCHANGED <<request, errors, handed, checks>>

SendScore(j) ==
    /\ j[1] \in Scores /\ At(j, j[1], "send")
    /\ Free(job, AfterScore[j[1]], j[2]) # {}
    /\ job' = [Anew(job, AfterScore[j[1]], j[2]) EXCEPT ![j] = Ended(j, "completed")]
    /\ UNCHANGED <<company, request, errors, handed, checks>>

-----------------------------------------------------------------------------
(* O2: the roll-up *)

\* Math.round of the weighted sum
Total(row) == (40 * row.completeness + 35 * row.accuracy + 25 * row.freshness + 50) \div 100

\* Mutant: the threshold of a review makes eligible
VerdictSoon(c, row) == IF Total(row) >= 40 THEN "eligible" ELSE "blocked"

Verdict(c, row) ==
    IF Total(row) >= 70 /\ "cui" \in Shape[c] /\ row.status \in {Nil, "ACTIVA"}
    THEN "eligible" ELSE IF Total(row) >= 40 THEN "review_required" ELSE "blocked"

ReadRollup(j) ==
    /\ At(j, "rollup", "read")
    /\ job' = [job EXCEPT ![j].verdict = Verdict(j[2], company[j[2]]), ![j].step = "write"]
    /\ UNCHANGED <<company, request, errors, handed, checks>>

WriteRollup(j) ==
    /\ At(j, "rollup", "write")
    /\ company' = [company EXCEPT ![j[2]].promotion = job[j].verdict]
    /\ job' = [job EXCEPT ![j].step = "send"]
    /\ UNCHANGED <<request, errors, handed, checks>>

SendRollup(j) ==
    /\ At(j, "rollup", "send")
    /\ handed' = handed \cup (CASE job[j].verdict = "eligible" -> {<<"promote", j[2]>>}
                                [] job[j].verdict = "review_required" -> {<<"review", j[2]>>}
                                [] OTHER -> {})
    /\ job' = [job EXCEPT ![j] = Ended(j, "completed")]
    /\ UNCHANGED <<company, request, errors, checks>>

-----------------------------------------------------------------------------
(* Failures: BullMQ's retries, enqueuePipelineError and P4 *)

\* Errors of the error handler itself are not handled, hence are left out
Break(j) ==
    /\ job[j].state = "live" /\ <<j[1], job[j].step>> \in Breaks
    /\ LET made == job[j].tries + 1 IN
       /\ job' = [job EXCEPT ![j] = IF made < Attempts
                                    THEN [Started(j[1]) EXCEPT !.tries = made]
                                    ELSE Ended(j, "failed")]
       /\ \E f \in Failures : errors' = errors \cup {<<f, j[1], j[2], made>>}
    /\ UNCHANGED <<company, request, handed, checks>>

\* P4.  A transient failure is replayed while BullMQ retries it as well
HandleTransient(e) ==
    IF e[4] < Attempts
    THEN /\ Free(job, e[2], e[3]) # {}
         /\ job' = Anew(job, e[2], e[3])
         /\ UNCHANGED <<company, handed>>
    ELSE /\ handed' = handed \cup {<<"exhausted", e[2], e[3]>>}
         /\ UNCHANGED <<company, job>>

HandlePermanent(e) ==
    /\ company' = [company EXCEPT ![e[3]].enrichment = "failed", ![e[3]].promotion = "blocked"]
    /\ UNCHANGED <<job, handed>>

Handle(e) ==
    /\ e \in errors
    /\ errors' = errors \ {e}
    /\ CASE e[1] = "transient" -> HandleTransient(e)
         [] e[1] = "permanent" -> HandlePermanent(e)
         [] e[1] = "absent" -> UNCHANGED <<company, job, handed>>
         [] OTHER -> /\ handed' = handed \cup
                          {<<IF e[1] = "auth" THEN "error_review" ELSE "review", e[3]>>}
                     /\ UNCHANGED <<company, job>>
    /\ UNCHANGED <<request, checks>>

\* handleAiReview: whatever was decided, the company is sent on
ResumeAi(c) ==
    /\ <<"ai_review", c>> \in handed
    /\ handed' = handed \ {<<"ai_review", c>>}
    /\ job' = Added(job, "resume", c)
    /\ company' = [company EXCEPT ![c].ahead = TRUE]
    /\ UNCHANGED <<request, errors, checks>>

Forget(j) ==
    /\ j[1] \in Forgets /\ j[3] = 0 /\ job[j].state \in {"completed", "failed"}
    /\ job' = [job EXCEPT ![j] = NoJob]
    /\ UNCHANGED <<company, request, errors, handed, checks>>

-----------------------------------------------------------------------------
Enricher(j) == Fetch(j) \/ Write(j) \/ Follow(j) \/ CheckSource(j) \/ MarkSource(j) \/ SendPost(j)
Orchestrator(j) == Orchestrate(j) \/ PostEnrichment(j) \/ PostScoring(j)
Scorer(j) == ReadScore(j) \/ WriteScore(j) \/ SendScore(j)
Rollup(j) == ReadRollup(j) \/ WriteRollup(j) \/ SendRollup(j)

Work(j) ==
    /\ job[j].state = "live"
    /\ IF j[1] \in Enrichers THEN Enricher(j)
       ELSE Orchestrator(j) \/ Scorer(j) \/ Rollup(j)

Next ==
    \/ \E c \in Companies : Ask(c) \/ MarkAsked(c) \/ ResumeAi(c)
    \/ Monitor
    \/ \E j \in Jobs : Work(j) \/ Break(j) \/ Forget(j)
    \/ \E e \in errors : Handle(e)

Spec == Init /\ [][Next]_vars

\* BullMQ hands every job to a worker again and again until it ends
FairSpec == Spec /\ \A j \in Jobs : WF_vars(Work(j))

-----------------------------------------------------------------------------
TypeOK ==
    /\ company \in [Companies -> Company]
    /\ job \in [Jobs -> Job]
    /\ request \in [Companies -> [left : 0..MaxRequests, step : {"idle", "mark"}]]
    /\ errors \subseteq Failures \X Queues \X Companies \X (1..Attempts)
    /\ handed \subseteq
         ({"dedup:exact", "dedup:fuzzy", "promote", "review", "error_review", "ai_review"}
            \X Companies) \cup ({"exhausted"} \X Queues \X Companies)
    /\ checks \in 0..MaxChecks

Present(q, c) == job[<<q, c, 0>>].state # "absent"

\* A company goes on to deduplication and scoring only when every required source has
\* reported itself complete, however the sources' workers interleave, fail and run again:
\* the last two of them may both read and update enrichment_sources_completed
\* (enrichment-completion.ts); only the review of an AI proposal may go ahead of them.
BarrierHolds ==
    \A c \in Companies :
        /\ Present("post", c) => Required \subseteq company[c].sources
        /\ Present("completeness", c) /\ ~company[c].ahead => Required \subseteq company[c].sources

\* Completeness, hence the roll-up, counts what every required source had written when it
\* reported itself complete: a source reports after its write, and N1 reads after the last
\* report.  (What a replayed job of a source writes later may be missed.)
ScoresCountAllSources ==
    \A c \in Companies :
        job[<<"completeness", c, 0>>].state = "completed" /\ ~company[c].ahead
            => company[c].reported \cap Required \subseteq company[c].scored

\* A company eligible for promotion has a CUI and the three scores it holds reach the
\* threshold together, although N1, N2, N3 and O2 each read the row in a job of its own and
\* any of them may fail and be replayed.  A company that was given a score twice is excepted:
\* a later round writes under the verdict of the earlier one, and O2's job is not added again.
EligibleByScore ==
    \A c \in Companies :
        company[c].promotion = "eligible" /\ company[c].again = {}
            => Total(company[c]) >= 70 /\ "cui" \in Shape[c]

\* When all required sources have reported, the company is scored and rolled up.
AllDoneIsRolledUp ==
    \A c \in Companies :
        Required \subseteq company[c].sources
            ~> job[<<"rollup", c, 0>>].state \in {"completed", "failed"}
=============================================================================
