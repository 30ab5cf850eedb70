------------------------ MODULE EnrichmentFlowProofs ------------------------
(***************************************************************************)
(* Proofs about EnrichmentFlow: type correctness, that no company passes   *)
(* the barrier of the required sources early, that its completeness counts *)
(* what they had written, and that an eligible company has the scores.     *)
(***************************************************************************)
EXTENDS EnrichmentFlow, TLAPS

-----------------------------------------------------------------------------
(* The inductive invariant *)

\* What a row must hold for a queue to have, or to have had, a job of its company.
Allowed(q, r) ==
    /\ q = "post" => Required \subseteq r.sources
    /\ q = "resume" => r.ahead
    /\ q = "completeness" => r.ahead \/ Required \subseteq r.sources
    /\ q = "accuracy" => "completeness" \in r.given
    /\ q = "freshness" => {"completeness", "accuracy"} \subseteq r.given
    /\ q \in {"scored", "rollup"} => Scores \subseteq r.given

\* N1 read the row after the last report, and writes what it read.
Counts(s, r) == r.ahead \/ r.reported \cap Required \subseteq s

\* O2 judged the company by three scores, and by those it holds unless one was given again.
Judged(c, r) ==
    /\ Scores \subseteq r.given
    /\ r.again = {} => Total(r) >= 70 /\ "cui" \in Shape[c]

JobInv(j) ==
    LET q == j[1] r == company[j[2]] IN
    /\ job[j].state # "absent" => Allowed(q, r)
    /\ job[j].state = "live" => job[j].tries < Attempts
    /\ job[j].state = "live" /\ job[j].step = "send" /\ q \in Sources => Required \subseteq r.sources
    /\ job[j].state = "live" /\ job[j].step = "write" /\ q = "anaf_fiscal" =>
         job[j].found \in Statuses \cup {Nil}
    /\ job[j].state = "live" /\ job[j].step = "write" /\ q = "completeness" =>
         Counts(job[j].counted, r)
    /\ job[j].state = "live" /\ job[j].step = "send" /\ q = "completeness" => Counts(r.scored, r)
    /\ job[j].state = "completed" /\ q = "completeness" => Counts(r.scored, r)
    /\ job[j].state = "live" /\ job[j].step = "send" /\ q \in Scores => q \in r.given
    /\ job[j].state = "live" /\ job[j].step = "write" /\ q = "rollup"
         /\ job[j].verdict = "eligible" => Judged(j[2], r)

ReportInv(r) == r.reported \subseteq r.wrote

VerdictInv(c) == company[c].promotion = "eligible" => Judged(c, company[c])

IInv ==
    /\ TypeOK
    /\ \A c \in Companies : ReportInv(company[c]) /\ VerdictInv(c)
    /\ \A j \in Jobs : JobInv(j)
    /\ \A e \in errors : Allowed(e[2], company[e[3]])

-----------------------------------------------------------------------------
(* Facts about queues, jobs and rows *)

LEMMA SourceNames ==
    Sources = {"anaf_fiscal", "anaf_tva", "anaf_efactura", "anaf_datorii", "anaf_caen",
               "termene_balance", "termene_risk", "termene_dosare", "termene_actionari",
               "onrc_data", "onrc_administratori", "onrc_sedii"}
<1>1. DOMAIN SourceOrder = 1..12
  BY DEF SourceOrder
<1>2. \A n \in 1..12 : n = 1 \/ n = 2 \/ n = 3 \/ n = 4 \/ n = 5 \/ n = 6 \/ n = 7 \/ n = 8
                         \/ n = 9 \/ n = 10 \/ n = 11 \/ n = 12
  OBVIOUS
<1>3. 1 \in 1..12 /\ 2 \in 1..12 /\ 3 \in 1..12 /\ 4 \in 1..12 /\ 5 \in 1..12 /\ 6 \in 1..12
        /\ 7 \in 1..12 /\ 8 \in 1..12 /\ 9 \in 1..12 /\ 10 \in 1..12 /\ 11 \in 1..12 /\ 12 \in 1..12
  OBVIOUS
<1>4. /\ SourceOrder[1] = "anaf_fiscal" /\ SourceOrder[2] = "anaf_tva"
      /\ SourceOrder[3] = "anaf_efactura" /\ SourceOrder[4] = "anaf_datorii"
      /\ SourceOrder[5] = "anaf_caen" /\ SourceOrder[6] = "termene_balance"
      /\ SourceOrder[7] = "termene_risk" /\ SourceOrder[8] = "termene_dosare"
      /\ SourceOrder[9] = "termene_actionari" /\ SourceOrder[10] = "onrc_data"
      /\ SourceOrder[11] = "onrc_administratori" /\ SourceOrder[12] = "onrc_sedii"
  BY DEF SourceOrder
<1> QED
  BY <1>1, <1>2, <1>3, <1>4 DEF Sources

LEMMA QueueFacts ==
    /\ InUse \subseteq Queues /\ Flow \subseteq Queues
    /\ Enrichers \cap Flow = {} /\ InUse \subseteq Enrichers
    /\ \A q \in Sources : q \in Enrichers /\ q \notin Discoveries /\ q \notin DOMAIN NextQueue
    /\ \A q \in Enrichers : q \notin Scores /\ q # "rollup" /\ q # "completeness"
  BY SourceNames, ConstantsAssumption
  DEF Queues, Flow, Enrichers, Discoveries, NextQueue, Scores

LEMMA JobParts ==
    \A j \in Jobs : j[1] \in Queues /\ j[2] \in Companies /\ j[3] \in 0..MaxCopies
  BY DEF Jobs

LEMMA JobIds ==
    \A q \in Queues, c \in Companies :
        <<q, c, 0>> \in Jobs /\ \A n \in 1..MaxCopies : <<q, c, n>> \in Jobs
<1>1. 0 \in 0..MaxCopies /\ 1..MaxCopies \subseteq 0..MaxCopies
  BY ConstantsAssumption
<1> QED
  BY <1>1 DEF Jobs

LEMMA NoJobTyped == NoJob \in Job /\ NoJob.state = "absent"
  BY DEF NoJob, Job, Steps, Answers

LEMMA StartedTyped ==
    \A q : /\ Started(q) \in Job /\ Started(q).state = "live" /\ Started(q).tries = 0
           /\ Started(q).step = FirstStep(q)
<1>1. TAKE q
<1>2. FirstStep(q) \in Steps
  BY DEF FirstStep, Steps
<1> QED
  BY <1>2, NoJobTyped DEF Started, Job, NoJob

LEMMA EndedTyped ==
    ASSUME TypeOK, NEW j \in Jobs, NEW how \in {"completed", "failed"}
    PROVE  /\ Ended(j, how) \in Job
           /\ \/ Ended(j, how).state = how
              \/ Ended(j, how).state = "absent"
<1>1. job[j] \in Job
  BY DEF TypeOK
<1>2. [job[j] EXCEPT !.state = how] \in Job /\ [job[j] EXCEPT !.state = how].state = how
  BY <1>1 DEF Job
<1> QED
  BY <1>2, NoJobTyped DEF Ended

\* One job of a queue and company more, or none.
Extends(js, q, c) ==
    /\ js \in [Jobs -> Job]
    /\ \A i \in Jobs : js[i] = job[i] \/ (i[1] = q /\ i[2] = c /\ js[i] = Started(q))

LEMMA AddedExtends ==
    ASSUME TypeOK, NEW q \in Queues, NEW c \in Companies
    PROVE  Extends(Added(job, q, c), q, c)
<1>1. <<q, c, 0>> \in Jobs /\ job \in [Jobs -> Job]
  BY JobIds DEF TypeOK
<1> DEFINE p == <<q, c, 0>>
<1>2. p[1] = q /\ p[2] = c
  OBVIOUS
<1>3. Added(job, q, c) = IF job[p].state = "absent" THEN [job EXCEPT ![p] = Started(q)] ELSE job
  BY DEF Added
<1> HIDE DEF p
<1> QED
  BY <1>1, <1>2, <1>3, StartedTyped DEF Extends, p

LEMMA AnewExtends ==
    ASSUME TypeOK, NEW q \in Queues, NEW c \in Companies, Free(job, q, c) # {}
    PROVE  Extends(Anew(job, q, c), q, c)
<1> DEFINE n == CHOOSE m \in Free(job, q, c) : TRUE
           p == <<q, c, n>>
<1>1. n \in 1..MaxCopies
  <2>1. n \in Free(job, q, c)
    OBVIOUS
  <2> QED
    BY <2>1 DEF Free
<1>2. Anew(job, q, c) = [job EXCEPT ![p] = Started(q)]
  BY DEF Anew
<1> HIDE DEF n
<1>3. p \in Jobs /\ p[1] = q /\ p[2] = c
  BY <1>1, JobIds
<1> HIDE DEF p
<1> QED
  BY <1>2, <1>3, StartedTyped DEF Extends, TypeOK

SameScores(r, new) ==
    /\ new.completeness = r.completeness /\ new.accuracy = r.accuracy
    /\ new.freshness = r.freshness

\* What the UPDATEs of the other workers leave of a row.
Stays(r, new) ==
    /\ r.sources \subseteq new.sources /\ r.wrote \subseteq new.wrote
    /\ r.ahead => new.ahead
    /\ Required \subseteq r.sources => new.reported \cap Required = r.reported \cap Required
    /\ r.given \subseteq new.given /\ r.again \subseteq new.again
    /\ Scores \subseteq r.given /\ new.again = {} => SameScores(r, new)

LEMMA AllowedStays ==
    ASSUME NEW q, NEW r, NEW new, Stays(r, new), Allowed(q, r)
    PROVE  Allowed(q, new)
  BY DEF Stays, Allowed

LEMMA StaysSame == \A r : Stays(r, r)
  BY DEF Stays, SameScores

\* A company that was judged stays so: each of its scores is given again, or none changes.
LEMMA JudgedStays ==
    ASSUME NEW c, NEW r, NEW new, Stays(r, new), Judged(c, r)
    PROVE  Judged(c, new)
<1>1. Scores \subseteq new.given
  BY DEF Stays, Judged
<1>2. ASSUME new.again = {} PROVE Total(new) >= 70 /\ "cui" \in Shape[c]
  <2>1. r.again = {} /\ SameScores(r, new)
    BY <1>2 DEF Stays, Judged
  <2>2. Total(new) = Total(r)
    BY <2>1 DEF SameScores, Total
  <2> QED
    BY <2>1, <2>2 DEF Judged
<1> QED
  BY <1>1, <1>2 DEF Judged

\* A count that was complete stays so, and a score as well unless N1 writes another.
LEMMA CountsStay ==
    ASSUME NEW s, NEW r, NEW new, Stays(r, new), Allowed("completeness", r), Counts(s, r)
    PROVE  Counts(s, new)
  BY DEF Stays, Allowed, Counts

Begun(j) == job'[j] = Started(j[1]) /\ Allowed(j[1], company'[j[2]])

LEMMA JobBegun ==
    ASSUME NEW j \in Jobs, Begun(j)
    PROVE  JobInv(j)'
<1> DEFINE q == j[1]
<1>1. /\ job'[j].state = "live" /\ job'[j].tries = 0 /\ job'[j].step = FirstStep(q)
      /\ Allowed(q, company'[j[2]])
  BY StartedTyped DEF Begun
<1>2. 0 < Attempts
  BY ConstantsAssumption
<1>3. q \in Sources => FirstStep(q) = "fetch"
  BY QueueFacts DEF FirstStep
<1>4. q = "completeness" => FirstStep(q) = "read"
  BY QueueFacts DEF FirstStep, Scores
<1>5. q = "anaf_fiscal" => q \in Sources
  BY SourceNames
<1>6. q \in Scores \cup {"rollup"} => FirstStep(q) = "read"
  BY QueueFacts DEF FirstStep
<1> HIDE DEF q
<1> QED
  BY <1>1, <1>2, <1>3, <1>4, <1>5, <1>6 DEF JobInv, q

\* Where a company goes in a step.
Moves(c) ==
    /\ Stays(company[c], company'[c])
    /\ company'[c].reported \subseteq company'[c].wrote
    /\ company'[c].scored = company[c].scored \/ Counts(company'[c].scored, company'[c])
    /\ company'[c].promotion = "eligible" =>
         company[c].promotion = "eligible" \/ Judged(c, company'[c])

LEMMA JobKept ==
    ASSUME NEW j \in Jobs, JobInv(j), job'[j] = job[j], Moves(j[2])
    PROVE  JobInv(j)'
<1> DEFINE q == j[1]
           r == company[j[2]]
           new == company'[j[2]]
<1>1. Stays(r, new) /\ (new.scored = r.scored \/ Counts(new.scored, new))
  BY DEF Moves
<1>2. job[j].state # "absent" => Allowed(q, r) /\ Allowed(q, new)
  BY <1>1, AllowedStays DEF JobInv
<1>3. Required \subseteq r.sources => Required \subseteq new.sources
  BY <1>1 DEF Stays
<1>4. \A s : job[j].state # "absent" /\ q = "completeness" /\ Counts(s, r) => Counts(s, new)
  BY <1>1, <1>2, CountsStay
<1>5. (q \in r.given => q \in new.given) /\ (Judged(j[2], r) => Judged(j[2], new))
  BY <1>1, JudgedStays DEF Stays
<1> HIDE DEF q, r, new
<1>6. /\ job[j].state # "absent" => Allowed(q, r)
      /\ job[j].state = "live" => job[j].tries < Attempts
      /\ job[j].state = "live" /\ job[j].step = "send" /\ q \in Sources => Required \subseteq r.sources
      /\ job[j].state = "live" /\ job[j].step = "write" /\ q = "anaf_fiscal" =>
           job[j].found \in Statuses \cup {Nil}
      /\ job[j].state = "live" /\ job[j].step = "write" /\ q = "completeness" =>
           Counts(job[j].counted, r)
      /\ job[j].state = "live" /\ job[j].step = "send" /\ q = "completeness" => Counts(r.scored, r)
      /\ job[j].state = "completed" /\ q = "completeness" => Counts(r.scored, r)
      /\ job[j].state = "live" /\ job[j].step = "send" /\ q \in Scores => q \in r.given
      /\ job[j].state = "live" /\ job[j].step = "write" /\ q = "rollup"
           /\ job[j].verdict = "eligible" => Judged(j[2], r)
  BY DEF JobInv, q, r
<1>7. job[j].state # "absent" /\ q = "completeness" /\ Counts(r.scored, r) => Counts(new.scored, new)
  BY <1>1, <1>4
<1>8. /\ job[j].state # "absent" => Allowed(q, new)
      /\ job[j].state = "live" => job[j].tries < Attempts
      /\ job[j].state = "live" /\ job[j].step = "send" /\ q \in Sources => Required \subseteq new.sources
      /\ job[j].state = "live" /\ job[j].step = "write" /\ q = "anaf_fiscal" =>
           job[j].found \in Statuses \cup {Nil}
      /\ job[j].state = "live" /\ job[j].step = "write" /\ q = "completeness" =>
           Counts(job[j].counted, new)
      /\ job[j].state = "live" /\ job[j].step = "send" /\ q = "completeness" => Counts(new.scored, new)
      /\ job[j].state = "completed" /\ q = "completeness" => Counts(new.scored, new)
      /\ job[j].state = "live" /\ job[j].step = "send" /\ q \in Scores => q \in new.given
      /\ job[j].state = "live" /\ job[j].step = "write" /\ q = "rollup"
           /\ job[j].verdict = "eligible" => Judged(j[2], new)
  BY <1>2, <1>3, <1>4, <1>6, <1>7, <1>5
<1> QED
  BY <1>8 DEF JobInv, q, r, new

LEMMA StepInv ==
    ASSUME IInv, TypeOK', \A c \in Companies : Moves(c),
           \A j \in Jobs : job'[j] = job[j] \/ Begun(j) \/ JobInv(j)',
           \A e \in errors' : e \in errors \/ Allowed(e[2], company'[e[3]])
    PROVE  IInv'
<1>1. ASSUME NEW c \in Companies PROVE ReportInv(company'[c]) /\ VerdictInv(c)'
  BY JudgedStays DEF Moves, ReportInv, VerdictInv, IInv
<1>2. ASSUME NEW j \in Jobs PROVE JobInv(j)'
  <2>1. CASE job'[j] = job[j]
    BY <2>1, JobKept, JobParts DEF IInv
  <2>2. CASE Begun(j)
    BY <2>2, JobBegun
  <2> QED
    BY <2>1, <2>2
<1>3. ASSUME NEW e \in errors' PROVE Allowed(e[2], company'[e[3]])
  <2>1. CASE e \in errors
    <3>1. e[3] \in Companies
      BY <2>1 DEF IInv, TypeOK
    <3> QED
      BY <2>1, <3>1, AllowedStays DEF IInv, Moves
  <2> QED
    BY <2>1
<1>4. (\A c \in Companies : ReportInv(company[c]) /\ VerdictInv(c))'
  BY <1>1
<1> QED
  BY <1>2, <1>3, <1>4 DEF IInv

LEMMA MovesSame ==
    ASSUME IInv, UNCHANGED company
    PROVE  \A c \in Companies : Moves(c)
  BY StaysSame DEF Moves, IInv, ReportInv

\* A step that adds a job, or none, and changes no other.
LEMMA QueueInv ==
    ASSUME IInv, TypeOK', NEW q \in Queues, NEW c \in Companies, Extends(job', q, c),
           Allowed(q, company'[c]), \A d \in Companies : Moves(d), errors' \subseteq errors
    PROVE  IInv'
<1>1. ASSUME NEW j \in Jobs PROVE job'[j] = job[j] \/ Begun(j)
  BY DEF Extends, Begun
<1> QED
  BY <1>1, StepInv

\* A step of a job that changes no other.
LEMMA OneJobInv ==
    ASSUME IInv, TypeOK', NEW j \in Jobs, NEW x \in Job, job' = [job EXCEPT ![j] = x],
           JobInv(j)', \A d \in Companies : Moves(d), errors' \subseteq errors
    PROVE  IInv'
<1>1. \A i \in Jobs : job'[i] = job[i] \/ JobInv(i)'
  BY DEF IInv, TypeOK
<1> QED
  BY <1>1, StepInv

\* A step of a job that adds another.
LEMMA TwoJobsInv ==
    ASSUME IInv, TypeOK', NEW q \in Queues, NEW c \in Companies, NEW js, Extends(js, q, c),
           NEW j \in Jobs, NEW x \in Job, job' = [js EXCEPT ![j] = x], JobInv(j)',
           Allowed(q, company'[c]), \A d \in Companies : Moves(d), errors' \subseteq errors
    PROVE  IInv'
<1>1. ASSUME NEW i \in Jobs PROVE job'[i] = job[i] \/ Begun(i) \/ JobInv(i)'
  BY DEF Extends, Begun
<1> QED
  BY <1>1, StepInv

LEMMA JobEnds ==
    ASSUME NEW j \in Jobs, NEW how \in {"completed", "failed"}, TypeOK,
           JobInv(j), job[j].state # "absent", job'[j] = Ended(j, how), Moves(j[2]),
           how = "completed" /\ j[1] = "completeness" =>
               Counts(company'[j[2]].scored, company'[j[2]])
    PROVE  JobInv(j)'
<1>1. Allowed(j[1], company'[j[2]])
  BY AllowedStays DEF JobInv, Moves
<1>2. job'[j].state = how \/ job'[j].state = "absent"
  BY EndedTyped
<1> QED
  BY <1>1, <1>2 DEF JobInv

LEMMA JobGoesOn ==
    ASSUME NEW j \in Jobs, JobInv(j), job[j].state = "live", Moves(j[2]),
           job'[j].state = "live", job'[j].tries < Attempts,
           job'[j].step = "send" /\ j[1] \in Sources => Required \subseteq company'[j[2]].sources,
           job'[j].step = "write" /\ j[1] = "anaf_fiscal" => job'[j].found \in Statuses \cup {Nil},
           job'[j].step = "write" /\ j[1] = "completeness" =>
               Counts(job'[j].counted, company'[j[2]]),
           job'[j].step = "send" /\ j[1] = "completeness" =>
               Counts(company'[j[2]].scored, company'[j[2]]),
           job'[j].step = "send" /\ j[1] \in Scores => j[1] \in company'[j[2]].given,
           job'[j].step = "write" /\ j[1] = "rollup" /\ job'[j].verdict = "eligible" =>
               Judged(j[2], company'[j[2]])
    PROVE  JobInv(j)'
<1>1. Allowed(j[1], company'[j[2]])
  BY AllowedStays DEF JobInv, Moves
<1> QED
  BY <1>1 DEF JobInv

LEMMA InitInv == Init => IInv
<1> SUFFICES ASSUME Init PROVE IInv
  OBVIOUS
<1>1. TypeOK
  <2>1. job \in [Jobs -> Job]
    BY NoJobTyped DEF Init
  <2>2. company \in [Companies -> Company]
    BY DEF Init, Company
  <2>3. request \in [Companies -> [left : 0..MaxRequests, step : {"idle", "mark"}]]
    BY ConstantsAssumption DEF Init
  <2>4. checks \in 0..MaxChecks
    BY ConstantsAssumption DEF Init
  <2>5. errors = {} /\ handed = {}
    BY DEF Init
  <2> QED
    BY <2>1, <2>2, <2>3, <2>4, <2>5 DEF TypeOK
<1>2. \A c \in Companies : ReportInv(company[c]) /\ VerdictInv(c)
  BY DEF Init, ReportInv, VerdictInv
<1>3. \A j \in Jobs : JobInv(j)
  BY NoJobTyped DEF Init, JobInv
<1> QED
  BY <1>1, <1>2, <1>3 DEF Init, IInv

-----------------------------------------------------------------------------
(* The operator and the monitor *)

LEMMA FreelyAllowed ==
    \A q, r : q \notin {"post", "resume", "completeness", "accuracy", "freshness", "scored",
                        "rollup"} => Allowed(q, r)
  BY DEF Allowed

LEMMA AskInv ==
    ASSUME IInv, NEW c \in Companies, Ask(c)
    PROVE  IInv'
<1>1. TypeOK
  BY DEF IInv
<1>2. "orchestrate" \in Queues
  BY QueueFacts DEF Flow
<1>3. Extends(job', "orchestrate", c)
  BY <1>1, <1>2, AnewExtends DEF Ask
<1>4. request' \in [Companies -> [left : 0..MaxRequests, step : {"idle", "mark"}]]
  BY <1>1, ConstantsAssumption DEF Ask, TypeOK
<1>5. TypeOK'
  BY <1>1, <1>3, <1>4 DEF Ask, TypeOK, Extends
<1> QED
  BY <1>2, <1>3, <1>5, QueueInv, MovesSame, FreelyAllowed DEF Ask

\* A row whose status or verdict changes moves as it may.
LEMMA RowMoves ==
    ASSUME IInv, NEW c \in Companies, NEW row \in Company, company' = [company EXCEPT ![c] = row],
           Stays(company[c], row), row.reported \subseteq row.wrote,
           row.scored = company[c].scored \/ Counts(row.scored, row),
           row.promotion = "eligible" => company[c].promotion = "eligible" \/ Judged(c, row)
    PROVE  /\ company' \in [Companies -> Company] /\ company'[c] = row
           /\ \A d \in Companies : Moves(d)
<1>1. company' \in [Companies -> Company] /\ company'[c] = row
      /\ \A d \in Companies : d # c => company'[d] = company[d]
  BY DEF IInv, TypeOK
<1>2. ASSUME NEW d \in Companies PROVE Moves(d)
  <2>1. CASE d = c
    BY <1>1, <2>1 DEF Moves
  <2>2. CASE d # c
    BY <1>1, <2>2, StaysSame DEF Moves, IInv, ReportInv
  <2> QED
    BY <2>1, <2>2
<1> QED
  BY <1>1, <1>2

\* A row in which only columns of no concern to the barrier and the scores change.
Beside(r, row) ==
    /\ row \in Company
    /\ row.sources = r.sources /\ row.wrote = r.wrote /\ row.reported = r.reported
    /\ row.scored = r.scored /\ (row.ahead <=> r.ahead)
    /\ row.given = r.given /\ row.again = r.again /\ SameScores(r, row)

LEMMA BesideStays ==
    ASSUME NEW r, NEW row, Beside(r, row)
    PROVE  Stays(r, row)
  BY DEF Beside, Stays

LEMMA BesideMoves ==
    ASSUME IInv, NEW c \in Companies, NEW row, Beside(company[c], row),
           row.promotion = "eligible" => company[c].promotion = "eligible" \/ Judged(c, row),
           company' = [company EXCEPT ![c] = row]
    PROVE  /\ company' \in [Companies -> Company] /\ company'[c] = row
           /\ \A d \in Companies : Moves(d)
<1>1. /\ row \in Company /\ Stays(company[c], row) /\ row.reported \subseteq row.wrote
      /\ row.scored = company[c].scored
  BY DEF Beside, Stays, IInv, ReportInv
<1> QED
  BY <1>1, RowMoves

LEMMA BesideStatus ==
    ASSUME NEW r \in Company, NEW e \in {"pending", "in_progress", "complete", "failed"}
    PROVE  /\ Beside(r, [r EXCEPT !.enrichment = e])
           /\ [r EXCEPT !.enrichment = e].promotion = r.promotion
<1> DEFINE row == [r EXCEPT !.enrichment = e]
<1>1. row \in Company /\ row.sources = r.sources /\ row.wrote = r.wrote
      /\ row.reported = r.reported /\ row.scored = r.scored
      /\ row.given = r.given /\ row.again = r.again /\ SameScores(r, row)
      /\ row.promotion = r.promotion
  BY DEF Company, SameScores
<1>2. row.ahead = r.ahead
  BY Zenon DEF Company
<1> QED
  BY <1>1, <1>2 DEF Beside

LEMMA BesideVerdict ==
    ASSUME NEW r \in Company, NEW p \in {"blocked", "eligible", "review_required"}
    PROVE  /\ Beside(r, [r EXCEPT !.promotion = p])
           /\ [r EXCEPT !.promotion = p].promotion = p
<1> DEFINE row == [r EXCEPT !.promotion = p]
<1>1. row \in Company /\ row.sources = r.sources /\ row.wrote = r.wrote
      /\ row.reported = r.reported /\ row.scored = r.scored
      /\ row.given = r.given /\ row.again = r.again /\ SameScores(r, row)
      /\ row.promotion = p
  BY DEF Company, SameScores
<1>2. row.ahead = r.ahead
  BY Zenon DEF Company
<1> QED
  BY <1>1, <1>2 DEF Beside

LEMMA MarkAskedInv ==
    ASSUME IInv, NEW c \in Companies, MarkAsked(c)
    PROVE  IInv'
<1>1. TypeOK /\ company[c] \in Company
  BY DEF IInv, TypeOK
<1> DEFINE row == [company[c] EXCEPT !.enrichment = "in_progress"]
<1>2. company' = [company EXCEPT ![c] = row] /\ UNCHANGED <<job, errors, handed, checks>>
  BY DEF MarkAsked
<1>3. Beside(company[c], row) /\ row.promotion = company[c].promotion
  BY <1>1, BesideStatus
<1> HIDE DEF row
<1>4. company' \in [Companies -> Company] /\ \A d \in Companies : Moves(d)
  BY <1>2, <1>3, BesideMoves
<1>5. request' \in [Companies -> [left : 0..MaxRequests, step : {"idle", "mark"}]]
  BY <1>1 DEF MarkAsked, TypeOK
<1>6. TypeOK'
  BY <1>1, <1>2, <1>4, <1>5 DEF TypeOK
<1> QED
  BY <1>2, <1>4, <1>6, StepInv

LEMMA MonitorInv ==
    ASSUME IInv, Monitor
    PROVE  IInv'
<1>1. TypeOK /\ "orchestrate" \in Queues
  BY QueueFacts DEF IInv, Flow
<1> DEFINE stalled == {c \in Companies : company[c].enrichment = "in_progress"}
           stuck == {c \in Companies : company[c].promotion = "eligible"}
<1>2. /\ \A c \in stalled : Free(job, "orchestrate", c) # {}
      /\ job' = [j \in Jobs |-> IF j[2] \in stalled /\ j[1] = "orchestrate"
                                THEN Anew(job, "orchestrate", j[2])[j] ELSE job[j]]
      /\ handed' = handed \cup ({"promote"} \X stuck)
      /\ checks > 0 /\ checks' = checks - 1
      /\ UNCHANGED <<company, request, errors>>
  BY DEF Monitor
<1>3. stalled \subseteq Companies /\ stuck \subseteq Companies
  OBVIOUS
<1> HIDE DEF stalled, stuck
<1>4. ASSUME NEW j \in Jobs PROVE job'[j] \in Job /\ (job'[j] = job[j] \/ Begun(j))
  <2>1. CASE j[2] \in stalled /\ j[1] = "orchestrate"
    <3>1. Extends(Anew(job, "orchestrate", j[2]), "orchestrate", j[2])
      BY <1>1, <1>2, <1>3, <2>1, AnewExtends
    <3>2. job'[j] = Anew(job, "orchestrate", j[2])[j]
      BY <1>2, <2>1
    <3>3. job'[j] = job[j] \/ job'[j] = Started(j[1])
      BY <2>1, <3>1, <3>2 DEF Extends
    <3>4. Allowed(j[1], company'[j[2]])
      BY <2>1, FreelyAllowed
    <3> QED
      BY <3>1, <3>2, <3>3, <3>4 DEF Extends, Begun
  <2>2. CASE ~(j[2] \in stalled /\ j[1] = "orchestrate")
    BY <1>1, <1>2, <2>2 DEF TypeOK
  <2> QED
    BY <2>1, <2>2
<1>5. job' \in [Jobs -> Job]
  BY <1>2, <1>4
<1>6. TypeOK'
  BY <1>1, <1>2, <1>3, <1>5, ConstantsAssumption DEF TypeOK
<1> QED
  BY <1>2, <1>4, <1>6, StepInv, MovesSame

-----------------------------------------------------------------------------
(* P1 *)

LEMMA OrderTyped == DOMAIN FanOutOrder \subseteq Nat
  BY DEF FanOutOrder, SourceOrder

LEMMA OrchestrateInv ==
    ASSUME IInv, NEW j \in Jobs, Orchestrate(j)
    PROVE  IInv'
<1>1. /\ TypeOK /\ JobInv(j) /\ job[j] \in Job /\ j[2] \in Companies
      /\ \A d \in Companies : Moves(d)
  BY JobParts, MovesSame DEF IInv, TypeOK, Orchestrate
<1>2. /\ j[1] = "orchestrate" /\ job[j].state = "live" /\ job[j].step = "send"
      /\ UNCHANGED <<company, request, errors, handed, checks>>
  BY DEF Orchestrate, At
<1> DEFINE todo == {n \in DOMAIN FanOutOrder :
                      n >= job[j].next /\ FanOutOrder[n] \in FanOut(j[2])}
<1>3. CASE todo = {}
  <2>1. job' = [job EXCEPT ![j] = Ended(j, "completed")] /\ Ended(j, "completed") \in Job
    BY <1>1, <1>3, EndedTyped DEF Orchestrate
  <2>2. TypeOK' /\ job'[j] = Ended(j, "completed")
    BY <1>1, <1>2, <2>1 DEF TypeOK
  <2>3. JobInv(j)'
    BY <1>1, <1>2, <2>2, JobEnds
  <2> QED
    BY <1>1, <1>2, <2>1, <2>2, <2>3, OneJobInv
<1>4. CASE todo # {}
  <2>1. PICK n \in todo : job' = [Added(job, FanOutOrder[n], j[2]) EXCEPT ![j].next = n + 1]
    BY <1>4 DEF Orchestrate
  <2>2. n \in Nat /\ FanOutOrder[n] \in InUse
    BY OrderTyped DEF FanOut
  <2> DEFINE q == FanOutOrder[n]
             js == Added(job, q, j[2])
             x == [js[j] EXCEPT !.next = n + 1]
  <2>3. q \in Queues /\ q \notin Flow
    BY <2>2, QueueFacts
  <2>4. job' = [js EXCEPT ![j] = x]
    BY <2>1
  <2> HIDE DEF q
  <2>5. Extends(js, q, j[2])
    BY <1>1, <2>3, AddedExtends
  <2> HIDE DEF js
  <2>6. js \in [Jobs -> Job] /\ js[j] = job[j]
    BY <1>2, <2>3, <2>5 DEF Extends, Flow
  <2>7. x \in Job /\ x.state = "live" /\ x.tries = job[j].tries /\ x.step = "send"
    BY <1>1, <1>2, <2>2, <2>6 DEF Job
  <2> HIDE DEF x
  <2>8. TypeOK' /\ job'[j] = x
    BY <1>1, <1>2, <2>4, <2>6, <2>7 DEF TypeOK
  <2>9. JobInv(j)'
    BY <1>1, <1>2, <2>7, <2>8, QueueFacts, JobGoesOn DEF JobInv, Flow
  <2>10. Allowed(q, company'[j[2]])
    BY <2>3, FreelyAllowed DEF Flow
  <2> QED
    BY <1>1, <1>2, <2>3, <2>4, <2>5, <2>7, <2>8, <2>9, <2>10, TwoJobsInv
<1> QED
  BY <1>3, <1>4

LEMMA PostEnrichmentInv ==
    ASSUME IInv, NEW j \in Jobs, PostEnrichment(j)
    PROVE  IInv'
<1>1. /\ TypeOK /\ JobInv(j) /\ job[j] \in Job /\ j[2] \in Companies
      /\ company[j[2]] \in Company
  BY JobParts DEF IInv, TypeOK
<1>2. /\ j[1] \in {"post", "resume"} /\ job[j].state = "live"
      /\ UNCHANGED <<request, errors, checks>>
  BY DEF PostEnrichment
<1>3. j[1] \notin Sources
  BY <1>2, QueueFacts DEF Flow
<1>4. job[j].tries < Attempts
  BY <1>1, <1>2 DEF JobInv
<1>5. CASE /\ job[j].step = "send"
           /\ handed' = handed \cup {<<"dedup:exact", j[2]>>, <<"dedup:fuzzy", j[2]>>}
           /\ company' = [company EXCEPT ![j[2]].enrichment = "complete"]
           /\ job' = [job EXCEPT ![j].step = "close"]
  <2> DEFINE row == [company[j[2]] EXCEPT !.enrichment = "complete"]
             x == [job[j] EXCEPT !.step = "close"]
  <2>1. Beside(company[j[2]], row) /\ row.promotion = company[j[2]].promotion
    BY <1>1, BesideStatus
  <2>2. x \in Job /\ x.state = "live" /\ x.tries = job[j].tries /\ x.step = "close"
    BY <1>1, <1>2 DEF Job, Steps
  <2>3. company' = [company EXCEPT ![j[2]] = row] /\ job' = [job EXCEPT ![j] = x]
    BY <1>5
  <2> HIDE DEF row, x
  <2>4. company' \in [Companies -> Company] /\ \A d \in Companies : Moves(d)
    BY <1>1, <2>1, <2>3, BesideMoves
  <2>5. TypeOK' /\ job'[j] = x
    BY <1>1, <1>2, <1>5, <2>2, <2>3, <2>4 DEF TypeOK
  <2>6. JobInv(j)'
    BY <1>1, <1>2, <1>4, <2>2, <2>4, <2>5, JobGoesOn
  <2> QED
    BY <1>2, <2>2, <2>3, <2>4, <2>5, <2>6, OneJobInv
<1>6. CASE /\ job[j].step = "close"
           /\ job' = [Added(job, "completeness", j[2]) EXCEPT ![j] = Ended(j, "completed")]
           /\ UNCHANGED <<company, handed>>
  <2> DEFINE js == Added(job, "completeness", j[2])
  <2>1. "completeness" \in Queues
    BY QueueFacts DEF Flow
  <2>2. Extends(js, "completeness", j[2])
    BY <1>1, <2>1, AddedExtends
  <2>3. job' = [js EXCEPT ![j] = Ended(j, "completed")] /\ Ended(j, "completed") \in Job
    BY <1>1, <1>6, EndedTyped
  <2> HIDE DEF js
  <2>4. TypeOK' /\ job'[j] = Ended(j, "completed")
    BY <1>1, <1>2, <1>6, <2>2, <2>3 DEF TypeOK, Extends
  <2>5. \A d \in Companies : Moves(d)
    BY <1>6, MovesSame
  <2>6. JobInv(j)'
    BY <1>1, <1>2, <2>4, <2>5, JobEnds
  <2>7. Allowed("completeness", company'[j[2]])
    BY <1>1, <1>2, <1>6 DEF JobInv, Allowed
  <2> QED
    BY <1>1, <1>2, <2>1, <2>2, <2>3, <2>4, <2>5, <2>6, <2>7, TwoJobsInv
<1> QED
  BY <1>5, <1>6 DEF PostEnrichment

\* A job that ends as it adds another of its company.
LEMMA HandsOver ==
    ASSUME IInv, NEW j \in Jobs, NEW q \in Queues, NEW js, Extends(js, q, j[2]),
           Allowed(q, company[j[2]]), job[j].state = "live",
           j[1] = "completeness" => job[j].step = "send",
           job' = [js EXCEPT ![j] = Ended(j, "completed")],
           UNCHANGED <<company, request, errors, handed, checks>>
    PROVE  IInv'
<1>1. /\ TypeOK /\ JobInv(j) /\ j[2] \in Companies /\ Ended(j, "completed") \in Job
      /\ \A d \in Companies : Moves(d)
  BY JobParts, EndedTyped, MovesSame DEF IInv
<1>2. TypeOK' /\ job'[j] = Ended(j, "completed")
  BY <1>1 DEF TypeOK, Extends
<1>3. j[1] = "completeness" => Counts(company'[j[2]].scored, company'[j[2]])
  BY <1>1 DEF JobInv
<1>4. JobInv(j)'
  BY <1>1, <1>2, <1>3, JobEnds
<1> QED
  BY <1>1, <1>2, <1>4, TwoJobsInv

LEMMA PostScoringInv ==
    ASSUME IInv, NEW j \in Jobs, PostScoring(j)
    PROVE  IInv'
<1>1. TypeOK /\ j[2] \in Companies /\ "rollup" \in Queues
  BY JobParts, QueueFacts DEF IInv, Flow
<1>2. Extends(Added(job, "rollup", j[2]), "rollup", j[2])
  BY <1>1, AddedExtends
<1>3. Allowed("rollup", company[j[2]])
  BY DEF PostScoring, At, IInv, JobInv, Allowed
<1> QED
  BY <1>1, <1>2, <1>3, HandsOver DEF PostScoring, At

-----------------------------------------------------------------------------
(* The enrichment workers *)

LEMMA FetchInv ==
    ASSUME IInv, NEW j \in Jobs, Fetch(j)
    PROVE  IInv'
<1>1. /\ TypeOK /\ JobInv(j) /\ job[j] \in Job /\ j[2] \in Companies
      /\ \A d \in Companies : Moves(d)
  BY JobParts, MovesSame DEF IInv, TypeOK, Fetch
<1>2. /\ j[1] \in Enrichers /\ job[j].state = "live" /\ job[j].step = "fetch"
      /\ UNCHANGED <<company, request, errors, handed, checks>>
  BY DEF Fetch, At
<1>3. PICK a \in Says[j[1]] : job' = [job EXCEPT ![j].found = a, ![j].step = "write"]
  BY DEF Fetch
<1>4. a \in Answers /\ (j[1] = "anaf_fiscal" => a \in Statuses \cup {Nil})
  BY <1>2, ConstantsAssumption
<1> DEFINE x == [job[j] EXCEPT !.found = a, !.step = "write"]
<1>5. x \in Job /\ x.state = "live" /\ x.tries = job[j].tries /\ x.step = "write" /\ x.found = a
  BY <1>1, <1>2, <1>4 DEF Job, Steps
<1>6. job' = [job EXCEPT ![j] = x]
  BY <1>3
<1> HIDE DEF x
<1>7. TypeOK' /\ job'[j] = x
  BY <1>1, <1>2, <1>5, <1>6 DEF TypeOK
<1>8. job[j].tries < Attempts /\ j[1] # "completeness"
  BY <1>1, <1>2, QueueFacts DEF JobInv, Flow
<1>9. JobInv(j)'
  BY <1>1, <1>2, <1>4, <1>5, <1>7, <1>8, QueueFacts, JobGoesOn
<1> QED
  BY <1>1, <1>2, <1>5, <1>6, <1>7, <1>9, OneJobInv

\* The row after the UPDATE of a worker.
LEMMA WrittenForms ==
    ASSUME NEW q \in Enrichers, NEW row, NEW a
    PROVE  \/ Written(q, row, a) = row
           \/ Written(q, row, a) = Wrote(row, q)
           \/ q = "anaf_fiscal" /\ Written(q, row, a) = [Wrote(row, q) EXCEPT !.status = a]
           \/ \E s \in {Wrote(row, q).status, "INACTIVA", "INSOLVENTA"} :
                Written(q, row, a) = [Wrote(row, q) EXCEPT !.status = s]
           \/ Written(q, row, a) = [Wrote(row, q) EXCEPT !.enrichment = "in_progress"]
<1>1. CASE q = "anaf_fiscal"
  BY <1>1 DEF Written, AnafFiscal
<1>2. CASE q = "anaf_datorii"
  BY <1>2 DEF Written, AnafDatorii
<1>3. CASE q = "termene_dosare"
  BY <1>3 DEF Written, TermeneDosare
<1>4. CASE q = "hunter"
  BY <1>4 DEF Written, HunterEmail
<1>5. CASE q \in {"anaf_tva", "anaf_efactura", "anaf_caen"}
  BY <1>5 DEF Written, AnafTva, AnafEfactura, AnafCaen
<1>6. CASE q \in {"termene_balance", "termene_risk", "termene_actionari"}
  BY <1>6 DEF Written, TermeneBalance, TermeneRisk, TermeneAssociates
<1>7. CASE q \in {"onrc_data", "onrc_administratori", "onrc_sedii"}
  BY <1>7 DEF Written, OnrcData, OnrcAdministratori, OnrcSedii
<1>8. CASE q \in {"geocode", "zones", "proximity", "apia"}
  BY <1>8 DEF Written, Geocode, Zones, Proximity, Apia
<1>9. CASE q \in {"finder", "contact", "structure"}
  BY <1>9 DEF Written, WebsiteFinder, ContactPage, Structuring
<1> QED
  BY <1>1, <1>2, <1>3, <1>4, <1>5, <1>6, <1>7, <1>8, <1>9, SourceNames DEF Enrichers, Discoveries

\* An UPDATE that has to do with neither scores nor verdict.
Unscored(r, new) ==
    /\ new.given = r.given /\ new.again = r.again /\ SameScores(r, new)
    /\ new.promotion = r.promotion

LEMMA WrittenStays ==
    ASSUME NEW q \in InUse, NEW row \in Company, NEW a \in Answers,
           q = "anaf_fiscal" => a \in Statuses \cup {Nil}
    PROVE  LET new == Written(q, row, a) IN
           /\ new \in Company
           /\ new.sources = row.sources /\ new.reported = row.reported /\ new.scored = row.scored
           /\ new.ahead = row.ahead /\ row.wrote \subseteq new.wrote /\ Unscored(row, new)
<1> DEFINE new == Written(q, row, a)
           w == Wrote(row, q)
<1>1. /\ w \in Company /\ w.sources = row.sources /\ w.reported = row.reported
      /\ w.scored = row.scored /\ w.wrote = row.wrote \cup {q} /\ w.status = row.status
      /\ Unscored(row, w) /\ Unscored(row, row)
  BY DEF Wrote, Company, Unscored, SameScores
<1>2. w.ahead = row.ahead
  BY Zenon DEF Wrote, Company
<1>3. \/ new = row
      \/ new = w
      \/ \E s \in Statuses \cup {Nil} : new = [w EXCEPT !.status = s]
      \/ new = [w EXCEPT !.enrichment = "in_progress"]
  <2>1. q \in Enrichers
    BY QueueFacts
  <2>2. w.status \in Statuses \cup {Nil}
    BY <1>1 DEF Company
  <2> HIDE DEF new, w
  <2>3. \/ new = row
        \/ new = w
        \/ q = "anaf_fiscal" /\ new = [w EXCEPT !.status = a]
        \/ \E s \in {w.status, "INACTIVA", "INSOLVENTA"} : new = [w EXCEPT !.status = s]
        \/ new = [w EXCEPT !.enrichment = "in_progress"]
    BY <2>1, WrittenForms DEF new, w
  <2> QED
    BY <2>2, <2>3 DEF Statuses
<1> HIDE DEF new, w
<1>4. ASSUME NEW s \in Statuses \cup {Nil}
      PROVE  LET z == [w EXCEPT !.status = s] IN
             /\ z \in Company /\ z.sources = w.sources /\ z.reported = w.reported
             /\ z.scored = w.scored /\ z.wrote = w.wrote /\ z.ahead = w.ahead
             /\ Unscored(row, z)
  <2> DEFINE z == [w EXCEPT !.status = s]
  <2>1. /\ z \in Company /\ z.sources = w.sources /\ z.reported = w.reported
        /\ z.scored = w.scored /\ z.wrote = w.wrote /\ Unscored(row, z)
    BY <1>1 DEF Company, Unscored, SameScores
  <2>2. z.ahead = w.ahead
    BY Zenon, <1>1 DEF Company
  <2> QED
    BY <2>1, <2>2
<1>5. LET z == [w EXCEPT !.enrichment = "in_progress"] IN
      /\ z \in Company /\ z.sources = w.sources /\ z.reported = w.reported
      /\ z.scored = w.scored /\ z.wrote = w.wrote /\ z.ahead = w.ahead
      /\ Unscored(row, z)
  <2> DEFINE z == [w EXCEPT !.enrichment = "in_progress"]
  <2>1. /\ z \in Company /\ z.sources = w.sources /\ z.reported = w.reported
        /\ z.scored = w.scored /\ z.wrote = w.wrote /\ Unscored(row, z)
    BY <1>1 DEF Company, Unscored, SameScores
  <2>2. z.ahead = w.ahead
    BY Zenon, <1>1 DEF Company
  <2> QED
    BY <2>1, <2>2
<1>6. CASE new = row \/ new = w
  BY <1>1, <1>2, <1>6 DEF new
<1>7. CASE \E s \in Statuses \cup {Nil} : new = [w EXCEPT !.status = s]
  BY <1>1, <1>2, <1>4, <1>7 DEF new
<1>8. CASE new = [w EXCEPT !.enrichment = "in_progress"]
  BY <1>1, <1>2, <1>5, <1>8 DEF new
<1> QED
  BY <1>3, <1>6, <1>7, <1>8

LEMMA WriteInv ==
    ASSUME IInv, NEW j \in Jobs, Write(j)
    PROVE  IInv'
<1>1. /\ TypeOK /\ JobInv(j) /\ job[j] \in Job /\ j[2] \in Companies /\ j[1] \in Queues
      /\ company[j[2]] \in Company
  BY JobParts DEF IInv, TypeOK
<1>2. /\ j[1] \in Enrichers /\ job[j].state = "live" /\ job[j].step = "write"
      /\ UNCHANGED <<request, errors, checks>>
  BY DEF Write, At
<1>3. j[1] \in InUse /\ j[1] # "completeness" /\ (j[1] \in Sources => j[1] \notin Discoveries)
  BY <1>1, <1>2, QueueFacts DEF Queues, Flow
<1>4. job[j].found \in Answers /\ job[j].tries < Attempts
      /\ (j[1] = "anaf_fiscal" => job[j].found \in Statuses \cup {Nil})
  BY <1>1, <1>2 DEF JobInv, Job
<1> DEFINE row == Written(j[1], company[j[2]], job[j].found)
<1>5. /\ row \in Company /\ row.sources = company[j[2]].sources
      /\ row.reported = company[j[2]].reported /\ row.scored = company[j[2]].scored
      /\ row.ahead = company[j[2]].ahead /\ company[j[2]].wrote \subseteq row.wrote
      /\ Unscored(company[j[2]], row)
  BY <1>1, <1>3, <1>4, WrittenStays
<1>6. company' = [company EXCEPT ![j[2]] = row]
  BY DEF Write
<1> HIDE DEF row
<1>7. Stays(company[j[2]], row) /\ row.reported \subseteq row.wrote
  BY <1>1, <1>5 DEF Stays, Unscored, IInv, ReportInv
<1>8. company' \in [Companies -> Company] /\ \A d \in Companies : Moves(d)
  BY <1>1, <1>5, <1>6, <1>7, RowMoves DEF Unscored
<1> PICK s \in {"check", "send"} :
          \/ /\ job' = [job EXCEPT ![j].step = s]
             /\ s = "send" => j[1] \in Discoveries
          \/ job' = [job EXCEPT ![j] = Ended(j, "completed")]
  BY DEF Write
<1>9. handed' \subseteq
        ({"dedup:exact", "dedup:fuzzy", "promote", "review", "error_review", "ai_review"}
           \X Companies) \cup ({"exhausted"} \X Queues \X Companies)
  BY <1>1 DEF Write, TypeOK
<1>10. CASE job' = [job EXCEPT ![j] = Ended(j, "completed")]
  <2>1. Ended(j, "completed") \in Job
    BY <1>1, EndedTyped
  <2>2. TypeOK' /\ job'[j] = Ended(j, "completed")
    BY <1>1, <1>2, <1>8, <1>9, <1>10, <2>1 DEF TypeOK
  <2>3. JobInv(j)'
    BY <1>1, <1>2, <1>3, <1>8, <2>2, JobEnds
  <2> QED
    BY <1>2, <1>8, <1>10, <2>1, <2>2, <2>3, OneJobInv
<1>11. CASE job' = [job EXCEPT ![j].step = s] /\ (s = "send" => j[1] \in Discoveries)
  <2> DEFINE x == [job[j] EXCEPT !.step = s]
  <2>1. x \in Job /\ x.state = "live" /\ x.tries = job[j].tries /\ x.step = s
    BY <1>1, <1>2 DEF Job, Steps
  <2>2. job' = [job EXCEPT ![j] = x]
    BY <1>11
  <2> HIDE DEF x
  <2>3. TypeOK' /\ job'[j] = x
    BY <1>1, <1>2, <1>8, <1>9, <2>1, <2>2 DEF TypeOK
  <2>4. JobInv(j)'
    BY <1>1, <1>2, <1>3, <1>4, <1>8, <1>11, <2>1, <2>3, QueueFacts, JobGoesOn
  <2> QED
    BY <1>2, <1>8, <2>1, <2>2, <2>3, <2>4, OneJobInv
<1> QED
  BY <1>10, <1>11

LEMMA FollowInv ==
    ASSUME IInv, NEW j \in Jobs, Follow(j)
    PROVE  IInv'
<1>1. TypeOK /\ j[2] \in Companies
  BY JobParts DEF IInv
<1>2. /\ j[1] \in DOMAIN NextQueue /\ job[j].state = "live"
      /\ UNCHANGED <<company, request, errors, handed, checks>>
      /\ Free(job, NextQueue[j[1]], j[2]) # {}
      /\ job' = [Anew(job, NextQueue[j[1]], j[2]) EXCEPT ![j] = Ended(j, "completed")]
  BY DEF Follow, At
<1>3. /\ NextQueue[j[1]] \in {"zones", "proximity", "contact"}
      /\ j[1] \in {"geocode", "zones", "finder"}
  BY <1>2 DEF NextQueue
<1> PICK q : q = NextQueue[j[1]]
  OBVIOUS
<1>4. q \in Queues /\ j[1] # "completeness"
  <2>1. j[1] \in InUse
    BY <1>3, JobParts DEF Queues, Flow
  <2> QED
    BY <1>2, <1>3, <2>1, ConstantsAssumption, QueueFacts
<1>5. Extends(Anew(job, q, j[2]), q, j[2])
  BY <1>1, <1>2, <1>4, AnewExtends
<1>6. Allowed(q, company[j[2]])
  BY <1>3, FreelyAllowed
<1> QED
  BY <1>2, <1>4, <1>5, <1>6, HandsOver

LEMMA CheckSourceInv ==
    ASSUME IInv, NEW j \in Jobs, CheckSource(j)
    PROVE  IInv'
<1>1. /\ TypeOK /\ JobInv(j) /\ job[j] \in Job /\ j[2] \in Companies
      /\ \A d \in Companies : Moves(d)
  BY JobParts, MovesSame DEF IInv, TypeOK, CheckSource
<1>2. /\ j[1] \in Enrichers /\ job[j].state = "live" /\ job[j].step = "check"
      /\ UNCHANGED <<company, request, errors, handed, checks>>
  BY DEF CheckSource, At
<1>3. j[1] # "completeness" /\ job[j].tries < Attempts
  BY <1>1, <1>2, QueueFacts DEF Flow, JobInv
<1> DEFINE x == [job[j] EXCEPT !.step = "mark"]
<1>4. job' = [job EXCEPT ![j] = Ended(j, "completed")] \/ job' = [job EXCEPT ![j] = x]
  BY DEF CheckSource
<1>5. CASE job' = [job EXCEPT ![j] = Ended(j, "completed")]
  <2>1. Ended(j, "completed") \in Job
    BY <1>1, EndedTyped
  <2>2. TypeOK' /\ job'[j] = Ended(j, "completed")
    BY <1>1, <1>2, <1>5, <2>1 DEF TypeOK
  <2>3. JobInv(j)'
    BY <1>1, <1>2, <1>3, <2>2, JobEnds
  <2> QED
    BY <1>1, <1>2, <1>5, <2>1, <2>2, <2>3, OneJobInv
<1>6. CASE job' = [job EXCEPT ![j] = x]
  <2>1. x \in Job /\ x.state = "live" /\ x.tries = job[j].tries /\ x.step = "mark"
    BY <1>1, <1>2 DEF Job, Steps
  <2> HIDE DEF x
  <2>2. TypeOK' /\ job'[j] = x
    BY <1>1, <1>2, <1>6, <2>1 DEF TypeOK
  <2>3. JobInv(j)'
    BY <1>1, <1>2, <1>3, <2>1, <2>2, QueueFacts, JobGoesOn
  <2> QED
    BY <1>1, <1>2, <1>6, <2>1, <2>2, <2>3, OneJobInv
<1> QED
  BY <1>4, <1>5, <1>6

LEMMA ReportedStays ==
    ASSUME NEW r \in Company, NEW q \in InUse, ReportInv(r)
    PROVE  LET new == Reported(r, q) IN
           /\ new \in Company /\ Stays(r, new) /\ new.reported \subseteq new.wrote
           /\ new.sources = r.sources \cup {q} /\ new.scored = r.scored
           /\ new.promotion = r.promotion
<1> DEFINE new == Reported(r, q)
<1>1. /\ new \in Company
      /\ new.sources = r.sources \cup {q} /\ new.scored = r.scored /\ new.wrote = r.wrote
      /\ new.reported = IF q \in r.sources THEN r.reported ELSE r.reported \cup ({q} \cap r.wrote)
      /\ Unscored(r, new)
  BY DEF Reported, Company, Unscored, SameScores
<1>2. new.ahead = r.ahead
  BY Zenon DEF Reported, Company
<1> HIDE DEF new
<1>3. new.reported \subseteq new.wrote
  BY <1>1 DEF ReportInv
<1>4. Required \subseteq r.sources => new.reported \cap Required = r.reported \cap Required
  BY <1>1
<1> QED
  BY <1>1, <1>2, <1>3, <1>4 DEF Stays, Unscored, new

LEMMA MarkSourceInv ==
    ASSUME IInv, NEW j \in Jobs, MarkSource(j)
    PROVE  IInv'
<1>1. /\ TypeOK /\ JobInv(j) /\ job[j] \in Job /\ j[2] \in Companies /\ j[1] \in Queues
      /\ company[j[2]] \in Company /\ ReportInv(company[j[2]])
  BY JobParts DEF IInv, TypeOK
<1>2. /\ j[1] \in Enrichers /\ job[j].state = "live" /\ job[j].step = "mark"
      /\ UNCHANGED <<request, errors, handed, checks>>
  BY DEF MarkSource, At
<1>3. j[1] \in InUse /\ j[1] # "completeness" /\ job[j].tries < Attempts
  BY <1>1, <1>2, QueueFacts DEF Flow, Queues, JobInv
<1> DEFINE row == Reported(company[j[2]], j[1])
<1>4. /\ row \in Company /\ Stays(company[j[2]], row) /\ row.reported \subseteq row.wrote
      /\ row.scored = company[j[2]].scored /\ row.promotion = company[j[2]].promotion
  BY <1>1, <1>3, ReportedStays
<1>5. company' = [company EXCEPT ![j[2]] = row]
  BY DEF MarkSource
<1> HIDE DEF row
<1>6. company' \in [Companies -> Company] /\ \A d \in Companies : Moves(d)
  BY <1>1, <1>4, <1>5, RowMoves
<1> DEFINE x == [job[j] EXCEPT !.step = "send"]
<1>7. \/ job' = [job EXCEPT ![j] = Ended(j, "completed")]
      \/ job' = [job EXCEPT ![j] = x] /\ Required \subseteq company'[j[2]].sources
  BY DEF MarkSource, AllComplete
<1>8. CASE job' = [job EXCEPT ![j] = Ended(j, "completed")]
  <2>1. Ended(j, "completed") \in Job
    BY <1>1, EndedTyped
  <2>2. TypeOK' /\ job'[j] = Ended(j, "completed")
    BY <1>1, <1>2, <1>6, <1>8, <2>1 DEF TypeOK
  <2>3. JobInv(j)'
    BY <1>1, <1>2, <1>3, <1>6, <2>2, JobEnds
  <2> QED
    BY <1>2, <1>6, <1>8, <2>1, <2>2, <2>3, OneJobInv
<1>9. CASE job' = [job EXCEPT ![j] = x] /\ Required \subseteq company'[j[2]].sources
  <2>1. x \in Job /\ x.state = "live" /\ x.tries = job[j].tries /\ x.step = "send"
    BY <1>1, <1>2 DEF Job, Steps
  <2> HIDE DEF x
  <2>2. TypeOK' /\ job'[j] = x
    BY <1>1, <1>2, <1>6, <1>9, <2>1 DEF TypeOK
  <2>3. JobInv(j)'
    BY <1>1, <1>2, <1>3, <1>6, <1>9, <2>1, <2>2, QueueFacts, JobGoesOn
  <2> QED
    BY <1>2, <1>6, <1>9, <2>1, <2>2, <2>3, OneJobInv
<1> QED
  BY <1>7, <1>8, <1>9

LEMMA SendPostInv ==
    ASSUME IInv, NEW j \in Jobs, SendPost(j)
    PROVE  IInv'
<1>1. TypeOK /\ JobInv(j) /\ j[2] \in Companies /\ "post" \in Queues
  BY JobParts, QueueFacts DEF IInv, Flow
<1>2. /\ j[1] \in Sources /\ job[j].state = "live" /\ job[j].step = "send"
      /\ UNCHANGED <<company, request, errors, handed, checks>>
      /\ job' = [Added(job, "post", j[2]) EXCEPT ![j] = Ended(j, "completed")]
  BY DEF SendPost, At
<1>3. Allowed("post", company[j[2]])
  BY <1>1, <1>2 DEF JobInv, Allowed
<1>4. Extends(Added(job, "post", j[2]), "post", j[2])
  BY <1>1, AddedExtends
<1> QED
  BY <1>1, <1>2, <1>3, <1>4, HandsOver

-----------------------------------------------------------------------------
(* The scores and the roll-up *)

\* A step of a job that goes on, beside a row that moves as it may.
LEMMA WorkGoesOn ==
    ASSUME IInv, NEW j \in Jobs, NEW x \in Job, job' = [job EXCEPT ![j] = x],
           job[j].state = "live", x.state = "live", x.tries = job[j].tries,
           j[1] \in Scores \cup {"rollup"},
           company' \in [Companies -> Company], \A d \in Companies : Moves(d),
           UNCHANGED <<request, errors, handed, checks>>,
           x.step = "write" /\ j[1] = "completeness" => Counts(x.counted, company'[j[2]]),
           x.step = "send" /\ j[1] = "completeness" => Counts(company'[j[2]].scored, company'[j[2]]),
           x.step = "send" /\ j[1] \in Scores => j[1] \in company'[j[2]].given,
           x.step = "write" /\ j[1] = "rollup" /\ x.verdict = "eligible" =>
               Judged(j[2], company'[j[2]])
    PROVE  IInv'
<1>1. TypeOK /\ JobInv(j) /\ j[2] \in Companies
  BY JobParts DEF IInv
<1>2. TypeOK' /\ job'[j] = x
  BY <1>1 DEF TypeOK
<1>3. j[1] \notin Sources /\ j[1] # "anaf_fiscal" /\ x.tries < Attempts
  BY <1>1, QueueFacts, SourceNames DEF JobInv
<1>4. JobInv(j)'
  BY <1>1, <1>2, <1>3, JobGoesOn
<1> QED
  BY <1>2, <1>4, OneJobInv

LEMMA PointsTyped ==
    ASSUME NEW q, NEW r \in Company
    PROVE  Points(q, r) \in 0..100
<1>1. r.wrote \in SUBSET InUse
  BY DEF Company
<1>2. /\ Completeness \in [SUBSET InUse -> 0..100] /\ Accuracy \in [SUBSET InUse -> 0..100]
      /\ Freshness \in [SUBSET InUse -> 0..100]
  BY ConstantsAssumption
<1> QED
  BY <1>1, <1>2 DEF Points

LEMMA ReadScoreInv ==
    ASSUME IInv, NEW j \in Jobs, ReadScore(j)
    PROVE  IInv'
<1>1. /\ TypeOK /\ JobInv(j) /\ job[j] \in Job /\ j[2] \in Companies
      /\ company[j[2]] \in Company /\ ReportInv(company[j[2]])
      /\ \A d \in Companies : Moves(d)
  BY JobParts, MovesSame DEF IInv, TypeOK, ReadScore
<1>2. /\ j[1] \in Scores /\ job[j].state = "live" /\ j[1] # "rollup"
      /\ UNCHANGED <<company, request, errors, handed, checks>>
  BY DEF ReadScore, At, Scores
<1> DEFINE r == company[j[2]]
           p == Points(j[1], r)
           x == [job[j] EXCEPT !.score = p, !.counted = r.wrote, !.step = "write"]
<1>3. p \in 0..100 /\ r.wrote \in SUBSET InUse
  BY <1>1, PointsTyped DEF Company
<1>4. job' = [job EXCEPT ![j] = x]
  BY DEF ReadScore
<1> HIDE DEF p
<1>5. /\ x \in Job /\ x.state = "live" /\ x.tries = job[j].tries /\ x.step = "write"
      /\ x.counted = r.wrote
  BY <1>1, <1>2, <1>3 DEF Job, Steps
<1> HIDE DEF x
<1>6. Counts(x.counted, company'[j[2]])
  BY <1>1, <1>2, <1>5 DEF Counts, ReportInv
<1>7. company' \in [Companies -> Company]
  BY <1>1, <1>2 DEF TypeOK
<1> QED
  BY <1>1, <1>2, <1>4, <1>5, <1>6, <1>7, WorkGoesOn

\* A score that is written is given; when it was given before, it is given again.
LEMMA ScoredRow ==
    ASSUME NEW r \in Company, NEW q \in Scores, NEW new \in Company,
           new.given = r.given \cup {q}, new.again = r.again \cup ({q} \cap r.given),
           new.sources = r.sources, new.wrote = r.wrote, new.reported = r.reported,
           new.ahead <=> r.ahead
    PROVE  Stays(r, new) /\ q \in new.given
<1>1. Scores \subseteq r.given => new.again # {}
  OBVIOUS
<1> QED
  BY <1>1 DEF Stays

LEMMA GivenTyped ==
    ASSUME NEW r \in Company, NEW q \in Scores
    PROVE  LET g == Given(r, q) IN
           /\ g \in Company
           /\ g.given = r.given \cup {q} /\ g.again = r.again \cup ({q} \cap r.given)
           /\ g.sources = r.sources /\ g.wrote = r.wrote /\ g.reported = r.reported
           /\ g.scored = r.scored /\ g.promotion = r.promotion /\ g.ahead = r.ahead
<1> DEFINE g == Given(r, q)
<1>1. /\ g \in Company
      /\ g.given = r.given \cup {q} /\ g.again = r.again \cup ({q} \cap r.given)
      /\ g.sources = r.sources /\ g.wrote = r.wrote /\ g.reported = r.reported
      /\ g.scored = r.scored /\ g.promotion = r.promotion
  BY DEF Given, Company
<1>2. g.ahead = r.ahead
  BY Zenon DEF Given, Company
<1> QED
  BY <1>1, <1>2

\* What the UPDATE of N1, N2 or N3 leaves of a row.
Rescored(g, new) ==
    /\ new \in Company
    /\ new.given = g.given /\ new.again = g.again /\ new.promotion = g.promotion
    /\ new.sources = g.sources /\ new.wrote = g.wrote /\ new.reported = g.reported
    /\ new.ahead <=> g.ahead

LEMMA ScoreWritten ==
    ASSUME NEW g \in Company, NEW p \in 0..100, NEW s \in SUBSET InUse
    PROVE  /\ Rescored(g, [g EXCEPT !.completeness = p, !.scored = s])
           /\ Rescored(g, [g EXCEPT !.accuracy = p])
           /\ Rescored(g, [g EXCEPT !.freshness = p])
<1> DEFINE x == [g EXCEPT !.completeness = p, !.scored = s]
           y == [g EXCEPT !.accuracy = p]
           z == [g EXCEPT !.freshness = p]
<1>1. Rescored(g, x)
  <2>1. /\ x \in Company
        /\ x.given = g.given /\ x.again = g.again /\ x.promotion = g.promotion
        /\ x.sources = g.sources /\ x.wrote = g.wrote /\ x.reported = g.reported
    BY DEF Company
  <2>2. x.ahead = g.ahead
    BY Zenon DEF Company
  <2> HIDE DEF x
  <2> QED
    BY <2>1, <2>2 DEF Rescored
<1>2. Rescored(g, y)
  <2>1. /\ y \in Company
        /\ y.given = g.given /\ y.again = g.again /\ y.promotion = g.promotion
        /\ y.sources = g.sources /\ y.wrote = g.wrote /\ y.reported = g.reported
    BY DEF Company
  <2>2. y.ahead = g.ahead
    BY Zenon DEF Company
  <2> HIDE DEF y
  <2> QED
    BY <2>1, <2>2 DEF Rescored
<1>3. Rescored(g, z)
  <2>1. /\ z \in Company
        /\ z.given = g.given /\ z.again = g.again /\ z.promotion = g.promotion
        /\ z.sources = g.sources /\ z.wrote = g.wrote /\ z.reported = g.reported
    BY DEF Company
  <2>2. z.ahead = g.ahead
    BY Zenon DEF Company
  <2> HIDE DEF z
  <2> QED
    BY <2>1, <2>2 DEF Rescored
<1> QED
  BY <1>1, <1>2, <1>3

LEMMA WriteScoreInv ==
    ASSUME IInv, NEW j \in Jobs, WriteScore(j)
    PROVE  IInv'
<1>1. /\ TypeOK /\ JobInv(j) /\ job[j] \in Job /\ j[2] \in Companies
      /\ company[j[2]] \in Company /\ ReportInv(company[j[2]])
  BY JobParts DEF IInv, TypeOK
<1>2. /\ j[1] \in Scores /\ job[j].state = "live"
      /\ job[j].step = "write" /\ UNCHANGED <<request, errors, handed, checks>>
  BY DEF WriteScore, At
<1> DEFINE q == j[1]
           r == company[j[2]]
           g == Given(r, q)
           p == job[j].score
           s == job[j].counted
           row == CASE q = "completeness" -> [g EXCEPT !.completeness = p, !.scored = s]
                    [] q = "accuracy" -> [g EXCEPT !.accuracy = p]
                    [] OTHER -> [g EXCEPT !.freshness = p]
           x == [job[j] EXCEPT !.step = "send"]
<1>3. p \in 0..100 /\ s \in SUBSET InUse
  BY <1>1 DEF Job
<1>4. x \in Job /\ x.state = "live" /\ x.tries = job[j].tries /\ x.step = "send"
  BY <1>1, <1>2 DEF Job, Steps
<1>5. job' = [job EXCEPT ![j] = x] /\ company' = [company EXCEPT ![j[2]] = row]
  BY DEF WriteScore
<1>6. /\ g \in Company
      /\ g.given = r.given \cup {q} /\ g.again = r.again \cup ({q} \cap r.given)
      /\ g.sources = r.sources /\ g.wrote = r.wrote /\ g.reported = r.reported
      /\ g.scored = r.scored /\ g.promotion = r.promotion /\ g.ahead = r.ahead
  BY <1>1, <1>2, GivenTyped
<1>7. q = "completeness" => Counts(s, r)
  BY <1>1, <1>2 DEF JobInv
<1>8. r \in Company /\ r.reported \subseteq r.wrote /\ q \in Scores
  BY <1>1, <1>2 DEF ReportInv
<1> HIDE DEF x, g, p, s, r
<1> DEFINE a == [g EXCEPT !.completeness = p, !.scored = s]
           b == [g EXCEPT !.accuracy = p]
           f == [g EXCEPT !.freshness = p]
<1>9. row = IF q = "completeness" THEN a ELSE IF q = "accuracy" THEN b ELSE f
  OBVIOUS
<1>10. a.scored = s /\ b.scored = g.scored /\ f.scored = g.scored
  BY <1>6 DEF Company
<1>11. Rescored(g, a) /\ Rescored(g, b) /\ Rescored(g, f)
  <2>1. p \in 0..100 /\ s \in SUBSET InUse
    BY <1>3 DEF p, s
  <2> QED
    BY <1>6, <2>1, ScoreWritten
<1> HIDE DEF row, a, b, f
<1>12. /\ Rescored(g, row)
       /\ IF q = "completeness" THEN row.scored = s ELSE row.scored = g.scored
  BY <1>9, <1>10, <1>11
<1>13. Stays(r, row) /\ q \in row.given
  <2>1. row.given = r.given \cup {q} /\ row.again = r.again \cup ({q} \cap r.given)
    BY <1>6, <1>12 DEF Rescored
  <2> QED
    BY <1>6, <1>8, <1>12, <2>1, ScoredRow DEF Rescored
<1>14. q = "completeness" => Counts(row.scored, row)
  BY <1>6, <1>7, <1>12 DEF Counts, Rescored
<1>15. row.scored = r.scored \/ Counts(row.scored, row)
  BY <1>6, <1>12, <1>14
<1>16. row.reported \subseteq row.wrote /\ row.promotion = r.promotion
  BY <1>6, <1>8, <1>12 DEF Rescored
<1>17. /\ company' \in [Companies -> Company] /\ company'[j[2]] = row
       /\ \A d \in Companies : Moves(d)
  BY <1>1, <1>5, <1>12, <1>13, <1>15, <1>16, RowMoves DEF r, Rescored
<1>18. q # "rollup"
  BY <1>2 DEF Scores
<1> QED
  BY <1>2, <1>4, <1>5, <1>13, <1>14, <1>17, <1>18, WorkGoesOn

LEMMA SendScoreInv ==
    ASSUME IInv, NEW j \in Jobs, SendScore(j)
    PROVE  IInv'
<1>1. TypeOK /\ JobInv(j) /\ j[2] \in Companies
  BY JobParts DEF IInv
<1>2. /\ j[1] \in Scores /\ job[j].state = "live" /\ job[j].step = "send"
      /\ UNCHANGED <<company, request, errors, handed, checks>>
      /\ Free(job, AfterScore[j[1]], j[2]) # {}
      /\ job' = [Anew(job, AfterScore[j[1]], j[2]) EXCEPT ![j] = Ended(j, "completed")]
  BY DEF SendScore, At
<1> PICK q : q = AfterScore[j[1]]
  OBVIOUS
<1>3. \/ j[1] = "completeness" /\ q = "accuracy"
      \/ j[1] = "accuracy" /\ q = "freshness"
      \/ j[1] = "freshness" /\ q = "scored"
  BY <1>2 DEF AfterScore, Scores
<1>4. q \in Queues
  BY <1>3, QueueFacts DEF Flow
<1>5. Extends(Anew(job, q, j[2]), q, j[2])
  BY <1>1, <1>2, <1>4, AnewExtends
<1>6. Allowed(q, company[j[2]])
  BY <1>1, <1>2, <1>3 DEF JobInv, Allowed, Scores
<1> QED
  BY <1>2, <1>4, <1>5, <1>6, HandsOver

LEMMA ReadRollupInv ==
    ASSUME IInv, NEW j \in Jobs, ReadRollup(j)
    PROVE  IInv'
<1>1. /\ TypeOK /\ JobInv(j) /\ job[j] \in Job /\ \A d \in Companies : Moves(d)
  BY MovesSame DEF IInv, TypeOK, ReadRollup
<1>2. /\ j[1] = "rollup" /\ job[j].state = "live"
      /\ UNCHANGED <<company, request, errors, handed, checks>>
  BY DEF ReadRollup, At
<1> DEFINE v == Verdict(j[2], company[j[2]])
           x == [job[j] EXCEPT !.verdict = v, !.step = "write"]
<1>3. v \in {"blocked", "eligible", "review_required"}
  BY DEF Verdict
<1>4. job' = [job EXCEPT ![j] = x]
  BY DEF ReadRollup
<1>5. v = "eligible" => Judged(j[2], company'[j[2]])
  BY <1>1, <1>2 DEF Verdict, Judged, JobInv, Allowed
<1> HIDE DEF v
<1>6. x \in Job /\ x.state = "live" /\ x.tries = job[j].tries /\ x.verdict = v /\ x.step = "write"
  BY <1>1, <1>2, <1>3 DEF Job, Steps
<1> HIDE DEF x
<1>7. company' \in [Companies -> Company]
  BY <1>1, <1>2 DEF TypeOK
<1>8. j[1] \notin Scores
  BY <1>2 DEF Scores
<1> QED
  BY <1>1, <1>2, <1>4, <1>6, <1>7, <1>5, <1>8, WorkGoesOn

LEMMA WriteRollupInv ==
    ASSUME IInv, NEW j \in Jobs, WriteRollup(j)
    PROVE  IInv'
<1>1. TypeOK /\ JobInv(j) /\ job[j] \in Job /\ j[2] \in Companies /\ company[j[2]] \in Company
  BY JobParts DEF IInv, TypeOK
<1>2. /\ j[1] = "rollup" /\ job[j].state = "live" /\ job[j].step = "write"
      /\ UNCHANGED <<request, errors, handed, checks>>
  BY DEF WriteRollup, At
<1> DEFINE v == job[j].verdict
           row == [company[j[2]] EXCEPT !.promotion = v]
           x == [job[j] EXCEPT !.step = "send"]
<1>3. v \in {"blocked", "eligible", "review_required"}
  BY <1>1 DEF Job
<1>4. x \in Job /\ x.state = "live" /\ x.tries = job[j].tries /\ x.step = "send"
  BY <1>1, <1>2 DEF Job, Steps
<1>5. company' = [company EXCEPT ![j[2]] = row] /\ job' = [job EXCEPT ![j] = x]
  BY DEF WriteRollup
<1>6. v = "eligible" => Judged(j[2], company[j[2]])
  BY <1>1, <1>2 DEF JobInv
<1> HIDE DEF v, x
<1>7. Beside(company[j[2]], row) /\ row.promotion = v
  BY <1>1, <1>3, BesideVerdict
<1>8. row.promotion = "eligible" => Judged(j[2], row)
  BY <1>7, <1>6, BesideStays, JudgedStays
<1>9. j[1] \notin Scores
  BY <1>2 DEF Scores
<1> HIDE DEF row
<1>10. company' \in [Companies -> Company] /\ \A d \in Companies : Moves(d)
  BY <1>1, <1>5, <1>7, <1>8, BesideMoves
<1> QED
  BY <1>2, <1>4, <1>5, <1>10, <1>9, WorkGoesOn

LEMMA SendRollupInv ==
    ASSUME IInv, NEW j \in Jobs, SendRollup(j)
    PROVE  IInv'
<1>1. /\ TypeOK /\ JobInv(j) /\ j[2] \in Companies /\ Ended(j, "completed") \in Job
      /\ \A d \in Companies : Moves(d)
  BY JobParts, EndedTyped, MovesSame DEF IInv, SendRollup
<1>2. /\ j[1] = "rollup" /\ job[j].state = "live"
      /\ job' = [job EXCEPT ![j] = Ended(j, "completed")]
      /\ UNCHANGED <<company, request, errors, checks>>
  BY DEF SendRollup, At
<1>3. handed' \subseteq handed \cup {<<"promote", j[2]>>, <<"review", j[2]>>}
  BY DEF SendRollup
<1>4. TypeOK' /\ job'[j] = Ended(j, "completed")
  BY <1>1, <1>2, <1>3 DEF TypeOK
<1>5. JobInv(j)'
  BY <1>1, <1>2, <1>4, JobEnds
<1> QED
  BY <1>1, <1>2, <1>4, <1>5, OneJobInv

-----------------------------------------------------------------------------
(* Failures *)

\* BullMQ takes the job up again from its first step.
LEMMA JobRetried ==
    ASSUME NEW j \in Jobs, NEW n \in Nat, n < Attempts, Allowed(j[1], company'[j[2]]),
           job'[j] = [Started(j[1]) EXCEPT !.tries = n]
    PROVE  job'[j] \in Job /\ JobInv(j)'
<1> DEFINE q == j[1]
<1>1. /\ job'[j] \in Job /\ job'[j].state = "live" /\ job'[j].tries = n
      /\ job'[j].step = FirstStep(q)
  BY StartedTyped DEF Job
<1>2. q \in Sources => FirstStep(q) = "fetch"
  BY QueueFacts DEF FirstStep
<1>3. q = "completeness" => FirstStep(q) = "read"
  BY QueueFacts DEF FirstStep, Scores
<1>4. q = "anaf_fiscal" => q \in Sources
  BY SourceNames
<1>5. q \in Scores \cup {"rollup"} => FirstStep(q) = "read"
  BY QueueFacts DEF FirstStep
<1> HIDE DEF q
<1>6. Allowed(q, company'[j[2]])
  BY DEF q
<1> QED
  BY <1>1, <1>2, <1>3, <1>4, <1>5, <1>6 DEF JobInv, q

LEMMA BreakInv ==
    ASSUME IInv, NEW j \in Jobs, Break(j)
    PROVE  IInv'
<1>1. /\ TypeOK /\ JobInv(j) /\ job[j] \in Job /\ j[1] \in Queues /\ j[2] \in Companies
      /\ Ended(j, "failed") \in Job /\ \A d \in Companies : Moves(d)
  BY JobParts, EndedTyped, MovesSame DEF IInv, TypeOK, Break
<1> DEFINE made == job[j].tries + 1
           again == [Started(j[1]) EXCEPT !.tries = made]
<1>2. /\ job[j].state = "live" /\ UNCHANGED <<company, request, handed, checks>>
      /\ \/ made < Attempts /\ job' = [job EXCEPT ![j] = again]
         \/ job' = [job EXCEPT ![j] = Ended(j, "failed")]
  BY DEF Break
<1>3. PICK f \in Failures : errors' = errors \cup {<<f, j[1], j[2], made>>}
  BY DEF Break
<1>4. made \in Nat /\ made \in 1..Attempts /\ Allowed(j[1], company'[j[2]])
  BY <1>1, <1>2, ConstantsAssumption DEF JobInv, Job
<1> HIDE DEF made
<1> DEFINE e == <<f, j[1], j[2], made>>
<1>5. e \in Failures \X Queues \X Companies \X (1..Attempts) /\ e[2] = j[1] /\ e[3] = j[2]
  BY <1>1, <1>4
<1>6. errors' = errors \cup {e}
  BY <1>3
<1> HIDE DEF e
<1>7. job' \in [Jobs -> Job] /\ JobInv(j)' /\ \A i \in Jobs : i # j => job'[i] = job[i]
  <2>1. CASE made < Attempts /\ job' = [job EXCEPT ![j] = again]
    <3>1. job'[j] = again /\ \A i \in Jobs : i # j => job'[i] = job[i]
      BY <1>1, <2>1 DEF TypeOK
    <3>2. job'[j] \in Job /\ JobInv(j)'
      BY <1>4, <2>1, <3>1, JobRetried
    <3> HIDE DEF again
    <3> QED
      BY <1>1, <2>1, <3>1, <3>2 DEF TypeOK
  <2>2. CASE job' = [job EXCEPT ![j] = Ended(j, "failed")]
    <3>1. /\ job' \in [Jobs -> Job] /\ job'[j] = Ended(j, "failed")
          /\ \A i \in Jobs : i # j => job'[i] = job[i]
      BY <1>1, <2>2 DEF TypeOK
    <3>2. JobInv(j)'
      BY <1>1, <1>2, <3>1, JobEnds
    <3> QED
      BY <3>1, <3>2
  <2> QED
    BY <1>2, <2>1, <2>2
<1>8. TypeOK'
  BY <1>1, <1>2, <1>5, <1>6, <1>7 DEF TypeOK
<1>9. \A i \in Jobs : job'[i] = job[i] \/ JobInv(i)'
  BY <1>7
<1>10. \A o \in errors' : o \in errors \/ Allowed(o[2], company'[o[3]])
  BY <1>4, <1>5, <1>6
<1> QED
  BY <1>1, <1>8, <1>9, <1>10, StepInv

LEMMA BesideFailed ==
    ASSUME NEW r \in Company
    PROVE  /\ Beside(r, [r EXCEPT !.enrichment = "failed", !.promotion = "blocked"])
           /\ [r EXCEPT !.enrichment = "failed", !.promotion = "blocked"].promotion = "blocked"
<1> DEFINE row == [r EXCEPT !.enrichment = "failed", !.promotion = "blocked"]
<1>1. row \in Company /\ row.sources = r.sources /\ row.wrote = r.wrote
      /\ row.reported = r.reported /\ row.scored = r.scored
      /\ row.given = r.given /\ row.again = r.again /\ SameScores(r, row)
      /\ row.promotion = "blocked"
  BY DEF Company, SameScores
<1>2. row.ahead = r.ahead
  BY Zenon DEF Company
<1> QED
  BY <1>1, <1>2 DEF Beside

LEMMA HandleInv ==
    ASSUME IInv, NEW e, Handle(e)
    PROVE  IInv'
<1>1. /\ TypeOK /\ e \in errors /\ errors' = errors \ {e} /\ UNCHANGED <<request, checks>>
  BY DEF IInv, Handle
<1>2. e[2] \in Queues /\ e[3] \in Companies /\ Allowed(e[2], company[e[3]])
  BY <1>1 DEF IInv, TypeOK
<1>3. \/ HandleTransient(e)
      \/ HandlePermanent(e)
      \/ /\ UNCHANGED <<company, job>>
         /\ handed' \subseteq handed \cup {<<"error_review", e[3]>>, <<"review", e[3]>>}
  BY DEF Handle
<1>4. ASSUME UNCHANGED <<company, job>>,
             handed' \subseteq
               ({"dedup:exact", "dedup:fuzzy", "promote", "review", "error_review", "ai_review"}
                  \X Companies) \cup ({"exhausted"} \X Queues \X Companies)
      PROVE  IInv'
  <2>1. TypeOK'
    BY <1>1, <1>4 DEF TypeOK
  <2> QED
    BY <1>1, <1>4, <2>1, MovesSame, StepInv
<1>5. CASE HandleTransient(e)
  <2>1. \/ /\ UNCHANGED <<company, job>>
           /\ handed' = handed \cup {<<"exhausted", e[2], e[3]>>}
        \/ /\ Free(job, e[2], e[3]) # {} /\ job' = Anew(job, e[2], e[3])
           /\ UNCHANGED <<company, handed>>
    BY <1>5 DEF HandleTransient
  <2>2. CASE /\ UNCHANGED <<company, job>>
             /\ handed' = handed \cup {<<"exhausted", e[2], e[3]>>}
    BY <1>1, <1>2, <1>4, <2>2 DEF TypeOK
  <2>3. CASE /\ Free(job, e[2], e[3]) # {} /\ job' = Anew(job, e[2], e[3])
             /\ UNCHANGED <<company, handed>>
    <3>1. Extends(job', e[2], e[3])
      BY <1>1, <1>2, <2>3, AnewExtends
    <3>2. TypeOK'
      BY <1>1, <2>3, <3>1 DEF TypeOK, Extends
    <3> QED
      BY <1>1, <1>2, <2>3, <3>1, <3>2, MovesSame, QueueInv
  <2> QED
    BY <2>1, <2>2, <2>3
<1>6. CASE HandlePermanent(e)
  <2> DEFINE row == [company[e[3]] EXCEPT !.enrichment = "failed", !.promotion = "blocked"]
  <2>1. company[e[3]] \in Company
    BY <1>1, <1>2 DEF TypeOK
  <2>2. company' = [company EXCEPT ![e[3]] = row] /\ UNCHANGED <<job, handed>>
    BY <1>6 DEF HandlePermanent
  <2>3. Beside(company[e[3]], row) /\ row.promotion = "blocked"
    BY <2>1, BesideFailed
  <2> HIDE DEF row
  <2>4. company' \in [Companies -> Company] /\ \A d \in Companies : Moves(d)
    BY <1>2, <2>2, <2>3, BesideMoves
  <2>5. TypeOK'
    BY <1>1, <2>2, <2>4 DEF TypeOK
  <2> QED
    BY <1>1, <2>2, <2>4, <2>5, StepInv
<1>7. CASE /\ UNCHANGED <<company, job>>
           /\ handed' \subseteq handed \cup {<<"error_review", e[3]>>, <<"review", e[3]>>}
  BY <1>1, <1>2, <1>4, <1>7 DEF TypeOK
<1> QED
  BY <1>3, <1>5, <1>6, <1>7

LEMMA ResumeAiInv ==
    ASSUME IInv, NEW c \in Companies, ResumeAi(c)
    PROVE  IInv'
<1>1. TypeOK /\ company[c] \in Company /\ "resume" \in Queues /\ ReportInv(company[c])
  BY QueueFacts DEF IInv, TypeOK, Flow
<1> DEFINE r == company[c]
           row == [r EXCEPT !.ahead = TRUE]
<1>2. /\ row \in Company /\ row.sources = r.sources /\ row.wrote = r.wrote
      /\ row.reported = r.reported /\ row.scored = r.scored /\ Unscored(r, row)
  BY <1>1 DEF Company, Unscored, SameScores
<1>3. row.ahead
  BY Zenon, <1>1 DEF Company
<1>4. /\ company' = [company EXCEPT ![c] = row] /\ job' = Added(job, "resume", c)
      /\ handed' \subseteq handed /\ UNCHANGED <<request, errors, checks>>
  BY DEF ResumeAi
<1> HIDE DEF row
<1>5. Stays(r, row) /\ row.reported \subseteq row.wrote
  BY <1>1, <1>2, <1>3 DEF Stays, Unscored, ReportInv
<1>6. /\ company' \in [Companies -> Company] /\ company'[c] = row
      /\ \A d \in Companies : Moves(d)
  BY <1>2, <1>4, <1>5, RowMoves DEF Unscored
<1>7. Extends(job', "resume", c)
  BY <1>1, <1>4, AddedExtends
<1>8. TypeOK'
  BY <1>1, <1>4, <1>6, <1>7 DEF TypeOK, Extends
<1>9. Allowed("resume", company'[c])
  BY <1>3, <1>6 DEF Allowed
<1> QED
  BY <1>1, <1>4, <1>6, <1>7, <1>8, <1>9, QueueInv

LEMMA ForgetInv ==
    ASSUME IInv, NEW j \in Jobs, Forget(j)
    PROVE  IInv'
<1>1. TypeOK /\ \A d \in Companies : Moves(d)
  BY MovesSame DEF IInv, Forget
<1>2. job' = [job EXCEPT ![j] = NoJob] /\ UNCHANGED <<company, request, errors, handed, checks>>
  BY DEF Forget
<1>3. TypeOK' /\ job'[j] = NoJob
  BY <1>1, <1>2, NoJobTyped DEF TypeOK
<1>4. JobInv(j)'
  BY <1>3, NoJobTyped DEF JobInv
<1> QED
  BY <1>1, <1>2, <1>3, <1>4, NoJobTyped, OneJobInv

-----------------------------------------------------------------------------
(* The theorems *)

LEMMA WorkInv ==
    ASSUME IInv, NEW j \in Jobs, Work(j)
    PROVE  IInv'
<1>1. Enricher(j) \/ Orchestrator(j) \/ Scorer(j) \/ Rollup(j)
  BY DEF Work
<1>2. CASE Enricher(j)
  BY <1>2, FetchInv, WriteInv, FollowInv, CheckSourceInv, MarkSourceInv, SendPostInv DEF Enricher
<1>3. CASE Orchestrator(j)
  BY <1>3, OrchestrateInv, PostEnrichmentInv, PostScoringInv DEF Orchestrator
<1>4. CASE Scorer(j)
  BY <1>4, ReadScoreInv, WriteScoreInv, SendScoreInv DEF Scorer
<1>5. CASE Rollup(j)
  BY <1>5, ReadRollupInv, WriteRollupInv, SendRollupInv DEF Rollup
<1> QED
  BY <1>1, <1>2, <1>3, <1>4, <1>5

LEMMA StutterInv ==
    ASSUME IInv, UNCHANGED vars
    PROVE  IInv'
<1>1. /\ UNCHANGED <<company, job, request, errors, handed, checks>>
      /\ \A d \in Companies : Moves(d)
  BY MovesSame DEF vars
<1>2. TypeOK'
  BY <1>1 DEF IInv, TypeOK
<1> QED
  BY <1>1, <1>2, StepInv

LEMMA NextInv == IInv /\ [Next]_vars => IInv'
<1> SUFFICES ASSUME IInv, [Next]_vars PROVE IInv'
  OBVIOUS
<1>1. ASSUME NEW c \in Companies, Ask(c) \/ MarkAsked(c) \/ ResumeAi(c) PROVE IInv'
  BY <1>1, AskInv, MarkAskedInv, ResumeAiInv
<1>2. CASE Monitor
  BY <1>2, MonitorInv
<1>3. ASSUME NEW j \in Jobs, Work(j) \/ Break(j) \/ Forget(j) PROVE IInv'
  BY <1>3, WorkInv, BreakInv, ForgetInv
<1>4. ASSUME NEW e \in errors, Handle(e) PROVE IInv'
  BY <1>4, HandleInv
<1>5. CASE UNCHANGED vars
  BY <1>5, StutterInv
<1> QED
  BY <1>1, <1>2, <1>3, <1>4, <1>5 DEF Next

LEMMA Invariant == Spec => []IInv
  BY InitInv, NextInv, PTL DEF Spec

\* Every reachable state is well typed: rows, jobs, requests, errors and what is handed on.
THEOREM TypeCorrect == Spec => []TypeOK
<1>1. IInv => TypeOK
  BY DEF IInv
<1> QED
  BY <1>1, Invariant, PTL

\* No company passes the barrier of the required sources early, whatever the order in which
\* the sources' workers read and update enrichment_sources_completed, fail, are retried by
\* BullMQ, replayed by P4 and orchestrated again by P3.
THEOREM Barrier == Spec => []BarrierHolds
<1>1. ASSUME IInv PROVE BarrierHolds
  <2>1. "post" \in Queues /\ "completeness" \in Queues
    BY QueueFacts DEF Flow
  <2> SUFFICES ASSUME NEW c \in Companies
               PROVE  /\ Present("post", c) => Required \subseteq company[c].sources
                      /\ Present("completeness", c) /\ ~company[c].ahead
                           => Required \subseteq company[c].sources
    BY DEF BarrierHolds
  <2>2. ASSUME NEW q \in Queues, Present(q, c) PROVE Allowed(q, company[c])
    <3> DEFINE j == <<q, c, 0>>
    <3>1. j \in Jobs /\ j[1] = q /\ j[2] = c /\ job[j].state # "absent"
      BY <2>2, JobIds DEF Present
    <3> HIDE DEF j
    <3> QED
      BY <1>1, <3>1 DEF IInv, JobInv
  <2> QED
    BY <2>1, <2>2 DEF Allowed
<1> QED
  BY <1>1, Invariant, PTL

\* The completeness a company is scored with counts what every required source had written
\* when it first reported itself complete: N1 reads the row after the last report.
THEOREM ScoresCount == Spec => []ScoresCountAllSources
<1>1. ASSUME IInv PROVE ScoresCountAllSources
  <2>1. "completeness" \in Queues
    BY QueueFacts DEF Flow
  <2> SUFFICES ASSUME NEW c \in Companies,
                      job[<<"completeness", c, 0>>].state = "completed", ~company[c].ahead
               PROVE  company[c].reported \cap Required \subseteq company[c].scored
    BY DEF ScoresCountAllSources
  <2> DEFINE j == <<"completeness", c, 0>>
  <2>2. j \in Jobs /\ j[1] = "completeness" /\ j[2] = c /\ job[j].state = "completed"
    BY <2>1, JobIds
  <2> HIDE DEF j
  <2>3. Counts(company[c].scored, company[c])
    BY <1>1, <2>2 DEF IInv, JobInv
  <2> QED
    BY <2>3 DEF Counts
<1> QED
  BY <1>1, Invariant, PTL

\* An eligible company has a CUI and the scores for it, whichever of N1, N2, N3 and O2 fail and
\* are retried or replayed, unless one of the scores was given to it more than once: each of
\* these workers is added after the one before it has written.
THEOREM Eligible == Spec => []EligibleByScore
<1>1. ASSUME IInv PROVE EligibleByScore
  BY <1>1 DEF IInv, VerdictInv, Judged, EligibleByScore
<1> QED
  BY <1>1, Invariant, PTL
===============================================================================
