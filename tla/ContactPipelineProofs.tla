------------------------ MODULE ContactPipelineProofs ------------------------
(***************************************************************************)
(* Proofs about ContactPipeline: type correctness, that only contacts      *)
(* whose own row ANAF has confirmed are sent to promotion as companies,    *)
(* that none whose CUI fails the checksum is, and that contacts no file    *)
(* brought in are put through the checksum.                                *)
(***************************************************************************)
EXTENDS ContactPipeline, TLAPS

-----------------------------------------------------------------------------
(* Job records *)

LEMMA JobKinds ==
    ASSUME NEW j \in Jobs
    PROVE  j[1] \in Kinds /\ FirstStep[j[1]] \in Steps
<1>1. j[1] \in Kinds
  BY DEF Jobs, NormaliseJobs, EnrichJobs, ChecksumJobs, ValidateJobs, Kinds
<1>2. FirstStep[j[1]] \in Steps
  BY <1>1 DEF FirstStep, Kinds, Steps
<1> QED
  BY <1>1, <1>2

LEMMA NoJobType == NoJob \in Job /\ Done \in Job
  BY DEF NoJob, Done, Job, Steps, MaybeCui, MaybeReg

\* A job record with one field replaced is a job record.
LEMMA JobChanged ==
    ASSUME NEW r \in Job
    PROVE  /\ \A s \in Steps : [r EXCEPT !.step = s] \in Job
           /\ \A u \in SUBSET Contacts : [r EXCEPT !.left = u] \in Job
           /\ \A x \in MaybeCui : [r EXCEPT !.cui = x] \in Job
           /\ \A x \in MaybeReg : [r EXCEPT !.reg = x] \in Job
           /\ \A c \in Contacts \cup {Nil} : [r EXCEPT !.contact = c] \in Job
           /\ \A u \in SUBSET Cuis : [r EXCEPT !.cuis = u] \in Job
           /\ \A u \in SUBSET Cuis : [r EXCEPT !.seen = u] \in Job
           /\ \A u \in SUBSET (Contacts \X Cuis) : [r EXCEPT !.due = u] \in Job
  BY DEF Job

LEMMA AddedType ==
    ASSUME TypeOK, NEW j \in Jobs, NEW p \in Job
    PROVE  Added(j, p) \in Job
<1>1. job[j] \in Job
  BY DEF TypeOK
<1>2. [p EXCEPT !.state = "live", !.step = FirstStep[j[1]]] \in Job
  BY JobKinds DEF Job
<1> QED
  BY <1>1, <1>2 DEF Added

\* One or two job records replaced by job records.
LEMMA JobsMoved ==
    ASSUME TypeOK, NEW j \in Jobs, NEW r \in Job, NEW k \in Jobs, NEW s \in Job
    PROVE  /\ job' = [job EXCEPT ![j] = r] => job' \in [Jobs -> Job]
           /\ job' = [job EXCEPT ![j] = r, ![k] = s] => job' \in [Jobs -> Job]
  BY DEF TypeOK

LEMMA RowFields ==
    ASSUME NEW row \in Row
    PROVE  /\ \A x \in MaybeCui : [row EXCEPT !.cui = x] \in Row
           /\ \A x \in MaybeReg : [row EXCEPT !.reg = x] \in Row
           /\ \A b \in BOOLEAN : [row EXCEPT !.pending = b] \in Row
           /\ \A e \in {"completed", "cross_referenced", "not_found"} :
                [row EXCEPT !.enriched = e] \in Row
           /\ \A k \in {"valid", "invalid", "skipped"} : [row EXCEPT !.checked = k] \in Row
           /\ \A a \in {"valid", "not_found"} : [row EXCEPT !.anaf = a] \in Row
  BY DEF Row

\* The register number ANAF gives for a CUI it knows.
LEMMA AnafReg ==
    ASSUME NEW x \in Cuis, Found(x)
    PROVE  Anaf[x] \in MaybeReg
  BY ConstantsAssumption DEF Found

-----------------------------------------------------------------------------
(* The inductive invariant.  What a worker remembers about a row between two
   awaits stays true of the row, because nobody takes back a CUI or the verdict
   "valid": that is what each part says of one row or of one job. *)

\* B1 writes back the CUI it read with the name: for a contact of a file, which may
\* get its CUI from B5 in the meantime, this would erase it.
NamesHaveCuis == \A o \in Intake : o.source \in Files /\ "name" \in o.fields => o.cui # Nil

Carries(c, x) == c \in Contacts /\ x \in Cuis /\ contact[c].cui = x

RowInv(c) ==
    /\ contact[c].source \in Files /\ "name" \in contact[c].fields => contact[c].cui # Nil
    /\ contact[c].anaf = "valid" => (contact[c].cui \in ChecksumOk /\ Found(contact[c].cui))
    /\ contact[c].checked = "invalid" => (contact[c].cui \in Cuis \ ChecksumOk)

NormaliserInv(j) ==
    /\ job[j].cui # Nil => contact[j[3]].cui = job[j].cui
    /\ job[j].step = "write" /\ j[2] = "name" =>
         /\ job[j].cui = contact[j[3]].cui
         /\ contact[j[3]].source \in Files => job[j].cui # Nil

EnricherInv(j) ==
    /\ \A p \in job[j].due : contact[p[1]].cui = p[2]
    /\ job[j].step = "update" =>
         job[j].cui \in Cuis /\ \A c \in job[j].left : contact[c].cui = job[j].cui
    /\ job[j].step = "cross" =>
         /\ job[j].cui \in Cuis
         /\ \A c \in job[j].left : contact[c].cui = Nil /\ contact[c].source = j[2]
    /\ job[j].step \in {"gate", "skip", "hand"} => Carries(job[j].contact, job[j].cui)

ChecksumInv(j) ==
    /\ job[j].step # "start" => Carries(j[2], job[j].cui)
    /\ job[j].step = "send" => job[j].cui \in ChecksumOk

ValidatorInv(j) ==
    LET step == job[j].step IN
    /\ step # "start" => (Carries(job[j].contact, j[2]) /\ j[2] \in ChecksumOk)
    /\ step \in {"reuse", "mark", "siblings", "spread", "fan"} => Found(j[2])
    /\ step \in {"siblings", "spread", "fan", "promote"} =>
         contact[job[j].contact].anaf = "valid"
    /\ step \in {"spread", "fan"} => \A c \in job[j].left : contact[c].cui = j[2]
    /\ step = "spread" => job[j].left \subseteq Present
    /\ step = "fan" => \A c \in job[j].left : contact[c].anaf = "valid"

JobInv(j) ==
    /\ job[j].state = "live" => job[j].step # "start"
    /\ j \in NormaliseJobs => NormaliserInv(j)
    /\ j \in EnrichJobs => EnricherInv(j)
    /\ j \in ChecksumJobs => ChecksumInv(j)
    /\ j \in ValidateJobs => ValidatorInv(j)

IInv ==
    /\ TypeOK
    /\ \A c \in Contacts : RowInv(c)
    /\ \A j \in Jobs : JobInv(j)
    /\ PromotedIsValidated

\* What no step may do to a row, nor to its visibility.
RowsGrow ==
    /\ Present \subseteq Present'
    /\ \A c \in Contacts :
         /\ contact'[c].source = contact[c].source
         /\ contact[c].cui # Nil \/ contact[c].source \in Singles =>
              contact'[c].cui = contact[c].cui
         /\ contact[c].anaf = "valid" => contact'[c].anaf = "valid"

\* No row of the file of an enrichment job obtains a CUI.
Undisturbed(j) ==
    j \in EnrichJobs =>
      \A c \in Contacts :
         contact[c].source = j[2] /\ contact[c].cui = Nil => contact'[c].cui = Nil

\* What is known of a job stays true when others act.
LEMMA OthersAct ==
    ASSUME TypeOK, TypeOK', RowsGrow, NEW j \in Jobs, job'[j] = job[j], JobInv(j), Undisturbed(j)
    PROVE  JobInv(j)'
<1>0. job[j] \in Job /\ \A c \in Contacts : contact[c] \in Row /\ contact'[c] \in Row
  BY DEF TypeOK
<1>1. ASSUME j \in NormaliseJobs PROVE NormaliserInv(j)'
  <2>1. j[3] \in Contacts
    BY <1>1 DEF NormaliseJobs
  <2> QED
    BY <1>0, <1>1, <2>1 DEF JobInv, NormaliserInv, RowsGrow, Row, Deliveries
<1>2. ASSUME j \in EnrichJobs PROVE EnricherInv(j)'
  <2>1. EnricherInv(j)
    BY <1>2 DEF JobInv
  <2>2. job[j].left \subseteq Contacts /\ job[j].due \subseteq Contacts \X Cuis
    BY <1>0 DEF Job
  <2>3. \A x \in Cuis : x # Nil
    BY ConstantsAssumption
  <2>4. \A p \in job[j].due : contact'[p[1]].cui = p[2]
    BY <2>1, <2>2, <2>3 DEF EnricherInv, RowsGrow
  <2>5. job[j].step = "update" =>
          job[j].cui \in Cuis /\ \A c \in job[j].left : contact'[c].cui = job[j].cui
    BY <2>1, <2>2, <2>3 DEF EnricherInv, RowsGrow
  <2>6. job[j].step = "cross" =>
          /\ job[j].cui \in Cuis
          /\ \A c \in job[j].left : contact'[c].cui = Nil /\ contact'[c].source = j[2]
    BY <1>2, <2>1, <2>2 DEF EnricherInv, RowsGrow, Undisturbed
  <2>7. job[j].step \in {"gate", "skip", "hand"} => Carries(job[j].contact, job[j].cui)'
    BY <2>1, <2>3 DEF EnricherInv, RowsGrow, Carries
  <2> QED
    BY <2>4, <2>5, <2>6, <2>7 DEF EnricherInv
<1>3. ASSUME j \in ChecksumJobs PROVE ChecksumInv(j)'
  BY <1>3, ConstantsAssumption DEF JobInv, ChecksumInv, RowsGrow, Carries
<1>4. ASSUME j \in ValidateJobs PROVE ValidatorInv(j)'
  <2>1. ValidatorInv(j)
    BY <1>4 DEF JobInv
  <2>2. job[j].left \subseteq Contacts /\ j[2] # Nil
    BY <1>0, <1>4, ConstantsAssumption DEF Job, ValidateJobs
  <2>3. job[j].step # "start" => Carries(job[j].contact, j[2])'
    BY <2>1, <2>2 DEF ValidatorInv, Carries, RowsGrow
  <2>4. job[j].step \in {"siblings", "spread", "fan", "promote"} =>
          contact'[job[j].contact].anaf = "valid"
    BY <2>1 DEF ValidatorInv, Carries, RowsGrow
  <2>5. job[j].step \in {"spread", "fan"} => \A c \in job[j].left : contact'[c].cui = j[2]
    BY <2>1, <2>2 DEF ValidatorInv, RowsGrow
  <2>6. job[j].step = "spread" => job[j].left \subseteq Present'
    BY <2>1 DEF ValidatorInv, RowsGrow
  <2>7. job[j].step = "fan" => \A c \in job[j].left : contact'[c].anaf = "valid"
    BY <2>1, <2>2 DEF ValidatorInv, RowsGrow
  <2> QED
    BY <2>1, <2>3, <2>4, <2>5, <2>6, <2>7 DEF ValidatorInv
<1> QED
  BY <1>1, <1>2, <1>3, <1>4 DEF JobInv

\* The invariant is kept by a step that keeps the types, lets the rows grow, and
\* leaves each job alone or with its part of the invariant.
LEMMA StepKeeps ==
    ASSUME IInv, TypeOK', RowsGrow,
           \A c \in Contacts : RowInv(c)',
           \A j \in Jobs : (job'[j] = job[j] /\ Undisturbed(j)) \/ JobInv(j)',
           \A c \in Contacts : <<"promote", c>> \in promotions' =>
                (<<"promote", c>> \in promotions \/ contact'[c].anaf = "valid")
    PROVE  IInv'
<1>1. \A j \in Jobs : JobInv(j)'
  BY OthersAct DEF IInv
<1>2. PromotedIsValidated'
  BY DEF IInv, PromotedIsValidated, RowsGrow
<1> QED
  BY <1>1, <1>2 DEF IInv

-----------------------------------------------------------------------------
(* Initial states, and the workers of deliveries *)

LEMMA InitType == Init => TypeOK
<1> SUFFICES ASSUME Init PROVE TypeOK
  OBVIOUS
<1>1. PICK origin \in [Contacts -> Intake] :
        contact = [c \in Contacts |->
                     [source |-> origin[c].source, cui |-> origin[c].cui, reg |-> origin[c].reg,
                      fields |-> origin[c].fields, pending |-> FALSE, enriched |-> "no",
                      checked |-> "no", anaf |-> "no"]]
  BY DEF Init
<1>2. \A c \in Contacts : origin[c] \in Origins
  BY ConstantsAssumption
<1>3. contact \in [Contacts -> Row]
  BY <1>1, <1>2 DEF Origins, Row
<1>4. delivery \in [Deliveries -> Delivery]
  BY DEF Init, Delivery
<1>5. job \in [Jobs -> Job] /\ promotions \subseteq Promotions
  BY NoJobType DEF Init
<1> QED
  BY <1>3, <1>4, <1>5 DEF TypeOK

\* An empty addition.
LEMMA JobUntouched ==
    ASSUME job \in [Jobs -> Job], NEW j, job' = [job EXCEPT ![j] = job[j]]
    PROVE  job' = job
  OBVIOUS

\* The worker of a delivery keeps the types.
LEMMA DeliverType ==
    ASSUME TypeOK, NEW d \in Deliveries, Deliver(d)
    PROVE  TypeOK'
<1>0. delivery[d] \in Delivery /\ \A c \in Contacts : contact[c] \in Row
  BY DEF TypeOK
<1>1. \A from, to : to \in Delivery /\ DeliveryStep(d, from, to)
                    => delivery' \in [Deliveries -> Delivery]
  BY DEF TypeOK, DeliveryStep
<1>2. CASE Insert(d)
  <2>1. [delivery[d] EXCEPT !.step = "normalise"] \in Delivery
    BY <1>0 DEF Delivery
  <2> QED
    BY <1>1, <1>2, <2>1 DEF Insert, TypeOK
<1>8. CASE Refuse(d)
  <2>1. [delivery[d] EXCEPT !.step = "done"] \in Delivery
    BY <1>0 DEF Delivery
  <2> QED
    BY <1>1, <1>8, <2>1 DEF Refuse, TypeOK
<1>3. ASSUME NEW q \in Normalisers, Dispatch(d, q)
      PROVE  TypeOK'
  <2> DEFINE to == [delivery[d] EXCEPT
                      !.unsent = @ \ {q},
                      !.step = IF delivery[d].unsent # {q} THEN "normalise"
                               ELSE IF d \in Files THEN "select" ELSE "done"]
  <2>1. to \in Delivery
    BY <1>0 DEF Delivery
  <2>2. DeliveryStep(d, "normalise", to)
    BY <1>3 DEF Dispatch
  <2> HIDE DEF to
  <2>3. delivery' \in [Deliveries -> Delivery]
    BY <1>1, <2>1, <2>2
  <2>4. \A j \in Jobs : Added(j, NoJob) \in Job /\ job[j] \in Job
    BY AddedType, NoJobType DEF TypeOK
  <2>5. job' = [j \in Jobs |-> IF j \in {"normalise"} \X {q} \X Of(d)
                               THEN Added(j, NoJob) ELSE job[j]]
    BY <1>3 DEF Dispatch
  <2>6. job' \in [Jobs -> Job]
    BY <2>4, <2>5
  <2> QED
    BY <1>3, <2>3, <2>6 DEF Dispatch, TypeOK
<1>4. CASE SelectCuis(d)
  <2> DEFINE found == {c \in Of(d) : contact[c].cui # Nil}
  <2> DEFINE to == [delivery[d] EXCEPT !.step = IF found = {} THEN "done" ELSE "mark",
                                       !.picked = found,
                                       !.cuis = {contact[c].cui : c \in found}]
  <2>1. found \subseteq Contacts /\ {contact[c].cui : c \in found} \subseteq Cuis
    BY <1>0 DEF Of, Row, MaybeCui
  <2>2. to \in Delivery
    <3> HIDE DEF found
    <3> QED
      BY <1>0, <2>1 DEF Delivery
  <2>3. DeliveryStep(d, "select", to)
    BY <1>4 DEF SelectCuis
  <2> HIDE DEF to
  <2> QED
    BY <1>1, <1>4, <2>2, <2>3 DEF SelectCuis, TypeOK
<1>5. CASE SelectRegs(d)
  <2> DEFINE to == [delivery[d] EXCEPT !.step = "mark_reg",
                                       !.picked = {c \in Of(d) : /\ contact[c].cui = Nil
                                                                 /\ contact[c].reg # Nil}]
  <2>1. to \in Delivery
    BY <1>0 DEF Delivery, Of
  <2>2. DeliveryStep(d, "select_reg", to)
    BY <1>5 DEF SelectRegs
  <2> HIDE DEF to
  <2> QED
    BY <1>1, <1>5, <2>1, <2>2 DEF SelectRegs, TypeOK
<1>6. CASE MarkPending(d)
  <2>1. [delivery[d] EXCEPT !.step = "select_reg"] \in Delivery
    BY <1>0 DEF Delivery
  <2>2. [delivery[d] EXCEPT !.step = "enqueue"] \in Delivery
    BY <1>0 DEF Delivery
  <2>3. delivery' \in [Deliveries -> Delivery]
    BY <1>1, <1>6, <2>1, <2>2 DEF MarkPending
  <2>4. \A c \in Contacts :
          [contact[c] EXCEPT !.pending = @ \/ c \in delivery[d].picked] \in Row
    BY <1>0 DEF Row
  <2>5. contact' \in [Contacts -> Row]
    BY <1>6, <2>4 DEF MarkPending
  <2> QED
    BY <1>6, <2>3, <2>5 DEF MarkPending, TypeOK
<1>7. CASE EnqueueEnrich(d)
  <2> DEFINE payload == [NoJob EXCEPT !.cuis = delivery[d].cuis]
  <2> DEFINE to == [delivery[d] EXCEPT !.step = "done"]
  <2>2. payload \in Job
    BY <1>0, NoJobType, JobChanged DEF Delivery
  <2>3. to \in Delivery
    BY <1>0 DEF Delivery
  <2>4. /\ DeliveryStep(d, "enqueue", to)
        /\ \/ UNCHANGED job
           \/ job' = [job EXCEPT ![<<"anaf-bronze", d>>] = Added(<<"anaf-bronze", d>>, payload)]
        /\ UNCHANGED <<contact, promotions>>
    BY <1>0, <1>7, JobUntouched DEF EnqueueEnrich, TypeOK
  <2> HIDE DEF payload, to
  <2>5. <<"anaf-bronze", d>> \in Jobs => Added(<<"anaf-bronze", d>>, payload) \in Job
    BY <2>2, AddedType
  <2>6. job' \in [Jobs -> Job]
    BY <2>4, <2>5 DEF TypeOK
  <2>7. delivery' \in [Deliveries -> Delivery]
    BY <1>1, <2>3, <2>4
  <2> QED
    BY <2>4, <2>6, <2>7 DEF TypeOK
<1> QED
  BY <1>2, <1>3, <1>4, <1>5, <1>6, <1>7, <1>8 DEF Deliver

\* So does a request for enrichment.
LEMMA RequestType ==
    ASSUME TypeOK, NEW d \in Files, EnrichRequest(d)
    PROVE  TypeOK'
<1> DEFINE coded == {c \in {k \in Of(d) : ~contact[k].pending} : contact[c].cui # Nil}
<1> DEFINE cuis == {contact[c].cui : c \in coded}
<1> DEFINE to == [delivery[d] EXCEPT !.step = "mark", !.picked = coded, !.cuis = cuis]
<1>0. d \in Deliveries /\ delivery[d] \in Delivery /\ \A c \in Contacts : contact[c] \in Row
  BY DEF TypeOK, Deliveries
<1>1. coded \subseteq Contacts /\ cuis \subseteq Cuis
  BY <1>0 DEF Of, Row, MaybeCui
<1>2. delivery' = [delivery EXCEPT ![d] = to] /\ UNCHANGED <<contact, job, promotions>>
  BY DEF EnrichRequest, DeliveryStep
<1>3. to \in Delivery
  <2> HIDE DEF coded, cuis
  <2> QED
    BY <1>0, <1>1 DEF Delivery
<1> HIDE DEF to
<1> QED
  BY <1>0, <1>2, <1>3 DEF TypeOK

\* The first steps of jobs, by kind, and what is known of a job that starts.
LEMMA Fresh ==
    ASSUME NEW j \in Jobs
    PROVE  /\ j \in NormaliseJobs =>
                j \notin EnrichJobs \cup ChecksumJobs \cup ValidateJobs /\ FirstStep[j[1]] = "read"
           /\ j \in EnrichJobs =>
                j \notin NormaliseJobs \cup ChecksumJobs \cup ValidateJobs /\ FirstStep[j[1]] = "ask"
           /\ j \in ChecksumJobs =>
                j \notin NormaliseJobs \cup EnrichJobs \cup ValidateJobs /\ FirstStep[j[1]] = "check"
           /\ j \in ValidateJobs =>
                j \notin NormaliseJobs \cup EnrichJobs \cup ChecksumJobs /\ FirstStep[j[1]] = "dedup"
<1>1. /\ j \in NormaliseJobs => j[1] = "normalise"
      /\ j \in EnrichJobs => j[1] = "anaf-bronze"
      /\ j \in ChecksumJobs => j[1] = "c1"
      /\ j \in ValidateJobs => j[1] = "c2"
  BY DEF NormaliseJobs, EnrichJobs, ChecksumJobs, ValidateJobs
<1>2. /\ FirstStep["normalise"] = "read" /\ FirstStep["anaf-bronze"] = "ask"
      /\ FirstStep["c1"] = "check" /\ FirstStep["c2"] = "dedup"
  BY DEF FirstStep, Kinds
<1> QED
  BY <1>1, <1>2

\* The invariant of a job that is over, or not there.
LEMMA IdleInv ==
    ASSUME NEW j \in Jobs, job'[j].step = "start", job'[j].state # "live", job'[j].cui = Nil, job'[j].due = {}
    PROVE  JobInv(j)'
<1>1. NormaliserInv(j)' /\ EnricherInv(j)' /\ ChecksumInv(j)' /\ ValidatorInv(j)'
  BY DEF NormaliserInv, EnricherInv, ChecksumInv, ValidatorInv
<1> QED
  BY <1>1 DEF JobInv

\* A step that leaves the rows alone.
LEMMA RowsStill ==
    ASSUME IInv, UNCHANGED contact, Present \subseteq Present'
    PROVE  /\ RowsGrow
           /\ \A c \in Contacts : RowInv(c)'
           /\ \A j \in Jobs : Undisturbed(j)
  BY DEF IInv, RowsGrow, RowInv, Undisturbed

LEMMA PresentStays == delivery' = delivery /\ contact' = contact => Present' = Present
  BY DEF Present

LEMMA DeliverInv ==
    ASSUME IInv, NEW d \in Deliveries, Deliver(d)
    PROVE  IInv'
<1>0. TypeOK /\ TypeOK'
  BY DeliverType DEF IInv
<1>1. \A c \in Contacts : /\ contact'[c].source = contact[c].source
                          /\ contact'[c].cui = contact[c].cui
                          /\ contact'[c].anaf = contact[c].anaf
                          /\ contact'[c].fields = contact[c].fields
                          /\ contact'[c].checked = contact[c].checked
  <2>1. \A c \in Contacts : contact[c] \in Row
    BY <1>0 DEF TypeOK
  <2>2. CASE MarkPending(d)
    BY <2>1, <2>2 DEF MarkPending, Row
  <2>3. CASE UNCHANGED contact
    BY <2>3
  <2> QED
    BY <2>2, <2>3 DEF Deliver, Insert, Refuse, Dispatch, SelectCuis, SelectRegs, EnqueueEnrich
<1>2. Present \subseteq Present'
  <2>1. \A e \in Deliveries : delivery[e].step # "parsing" => delivery'[e].step # "parsing"
    <3>0. delivery[d] \in Delivery
      BY <1>0 DEF TypeOK
    <3>1. \A from, to : DeliveryStep(d, from, to) /\ to.step # "parsing" =>
            \A e \in Deliveries : delivery[e].step # "parsing" => delivery'[e].step # "parsing"
      BY <1>0 DEF DeliveryStep, TypeOK
    <3>2. \A s \in {"normalise", "mark_reg", "select_reg", "enqueue", "done"} :
            [delivery[d] EXCEPT !.step = s].step = s
      BY <3>0 DEF Delivery
    <3>3. CASE Insert(d) \/ Refuse(d) \/ MarkPending(d) \/ EnqueueEnrich(d)
      BY <3>1, <3>2, <3>3 DEF Insert, Refuse, MarkPending, EnqueueEnrich
    <3>4. ASSUME NEW q \in Normalisers, Dispatch(d, q)
          PROVE  \A e \in Deliveries : delivery[e].step # "parsing" => delivery'[e].step # "parsing"
      <4> DEFINE to == [delivery[d] EXCEPT
                          !.unsent = @ \ {q},
                          !.step = IF delivery[d].unsent # {q} THEN "normalise"
                                   ELSE IF d \in Files THEN "select" ELSE "done"]
      <4>1. DeliveryStep(d, "normalise", to)
        BY <3>4 DEF Dispatch
      <4>2. to.step # "parsing"
        BY <3>0 DEF Delivery
      <4> HIDE DEF to
      <4> QED
        BY <3>1, <4>1, <4>2
    <3>5. CASE SelectCuis(d)
      <4> DEFINE found == {c \in Of(d) : contact[c].cui # Nil}
      <4> DEFINE cuis == {contact[c].cui : c \in found}
      <4> DEFINE to == [delivery[d] EXCEPT !.step = IF found = {} THEN "done" ELSE "mark",
                                           !.picked = found, !.cuis = cuis]
      <4>1. DeliveryStep(d, "select", to)
        BY <3>5 DEF SelectCuis
      <4>2. to.step # "parsing"
        <5> HIDE DEF found, cuis
        <5> QED
          BY <3>0 DEF Delivery
      <4> HIDE DEF to
      <4> QED
        BY <3>1, <4>1, <4>2
    <3>6. CASE SelectRegs(d)
      <4> DEFINE picked == {c \in Of(d) : contact[c].cui = Nil /\ contact[c].reg # Nil}
      <4> DEFINE to == [delivery[d] EXCEPT !.step = "mark_reg", !.picked = picked]
      <4>1. DeliveryStep(d, "select_reg", to)
        BY <3>6 DEF SelectRegs
      <4>2. to.step # "parsing"
        <5> HIDE DEF picked
        <5> QED
          BY <3>0 DEF Delivery
      <4> HIDE DEF to
      <4> QED
        BY <3>1, <4>1, <4>2
    <3> QED
      BY <3>3, <3>4, <3>5, <3>6 DEF Deliver
  <2> QED
    BY <1>0, <1>1, <2>1 DEF Present, TypeOK, Row
<1>3. RowsGrow /\ (\A c \in Contacts : RowInv(c)') /\ \A j \in Jobs : Undisturbed(j)
  BY <1>1, <1>2 DEF IInv, RowsGrow, RowInv, Undisturbed
<1>4. \A j \in Jobs : job'[j] = job[j] \/ JobInv(j)'
  <2>1. ASSUME NEW q \in Normalisers, Dispatch(d, q), NEW j \in Jobs, job'[j] # job[j]
        PROVE  JobInv(j)'
    <3>1. j \in NormaliseJobs
      BY <1>0, <2>1 DEF Dispatch, Of, NormaliseJobs, TypeOK
    <3>2. job'[j] = [NoJob EXCEPT !.state = "live", !.step = FirstStep[j[1]]]
      BY <1>0, <2>1 DEF Dispatch, Added, TypeOK
    <3>3. job'[j].step = "read" /\ job'[j].cui = Nil
      BY <3>1, <3>2, Fresh DEF NoJob
    <3> QED
      BY <3>1, <3>3, Fresh DEF JobInv, NormaliserInv
  <2>2. ASSUME EnqueueEnrich(d), NEW j \in Jobs, job'[j] # job[j]
        PROVE  JobInv(j)'
    <3>1. j \in EnrichJobs
      BY <1>0, <2>2, Fresh DEF EnqueueEnrich, Jobs, EnrichJobs, NormaliseJobs, ChecksumJobs,
                               ValidateJobs, TypeOK
    <3>2. job'[j] = [[NoJob EXCEPT !.cuis = delivery[d].cuis]
                       EXCEPT !.state = "live", !.step = FirstStep[j[1]]]
      BY <1>0, <2>2 DEF EnqueueEnrich, Added, TypeOK
    <3>3. job'[j].step = "ask" /\ job'[j].due = {}
      BY <3>1, <3>2, Fresh DEF NoJob
    <3> QED
      BY <3>1, <3>3, Fresh DEF JobInv, EnricherInv
  <2>3. CASE UNCHANGED job
    BY <2>3
  <2> QED
    BY <2>1, <2>2, <2>3 DEF Deliver, Insert, Refuse, SelectCuis, SelectRegs, MarkPending
<1>5. promotions' = promotions
  BY DEF Deliver, Insert, Refuse, Dispatch, SelectCuis, SelectRegs, MarkPending, EnqueueEnrich
<1> QED
  BY <1>0, <1>3, <1>4, <1>5, StepKeeps

LEMMA RequestInv ==
    ASSUME IInv, NEW d \in Files, EnrichRequest(d)
    PROVE  IInv'
<1>0. TypeOK /\ TypeOK' /\ d \in Deliveries
  BY RequestType DEF IInv, Deliveries
<1> DEFINE coded == {c \in {k \in Of(d) : ~contact[k].pending} : contact[c].cui # Nil}
<1> DEFINE cuis == {contact[c].cui : c \in coded}
<1> DEFINE to == [delivery[d] EXCEPT !.step = "mark", !.picked = coded, !.cuis = cuis]
<1>1. delivery' = [delivery EXCEPT ![d] = to] /\ UNCHANGED <<contact, job, promotions>>
  BY DEF EnrichRequest, DeliveryStep
<1>2. to.step = "mark"
  <2> HIDE DEF coded, cuis
  <2> QED
    BY <1>0 DEF TypeOK, Delivery
<1> HIDE DEF to
<1>3. Present \subseteq Present'
  BY <1>0, <1>1, <1>2 DEF Present, TypeOK, Row
<1>4. /\ RowsGrow /\ (\A c \in Contacts : RowInv(c)') /\ \A j \in Jobs : Undisturbed(j)
  BY <1>1, <1>3, RowsStill
<1> QED
  BY <1>0, <1>1, <1>4, StepKeeps

\* A step of the worker of job j.
LEMMA WorkerStep ==
    ASSUME IInv, NEW j \in Jobs, NEW r \in Job, job' = [job EXCEPT ![j] = r], JobInv(j)',
           UNCHANGED delivery, contact' \in [Contacts -> Row], promotions' \subseteq Promotions,
           RowsGrow, \A c \in Contacts : RowInv(c)', \A k \in Jobs \ {j} : Undisturbed(k),
           \A c \in Contacts : <<"promote", c>> \in promotions' =>
                (<<"promote", c>> \in promotions \/ contact'[c].anaf = "valid")
    PROVE  IInv'
<1>1. TypeOK'
  BY DEF IInv, TypeOK
<1>2. \A k \in Jobs \ {j} : job'[k] = job[k]
  BY DEF IInv, TypeOK
<1> QED
  BY <1>1, <1>2, StepKeeps

\* One that touches no row and adds no job.
LEMMA QuietStep ==
    ASSUME IInv, NEW j \in Jobs, NEW r \in Job, job' = [job EXCEPT ![j] = r], JobInv(j)',
           UNCHANGED <<contact, delivery, promotions>>
    PROVE  IInv'
<1>1. contact' \in [Contacts -> Row] /\ promotions' \subseteq Promotions
  BY DEF IInv, TypeOK
<1>2. Present \subseteq Present'
  BY PresentStays
<1> QED
  BY <1>1, <1>2, RowsStill, WorkerStep

\* One that ends the job.
LEMMA DoneInv ==
    ASSUME NEW j \in Jobs, job'[j] = Done
    PROVE  JobInv(j)'
<1>1. Done.step = "start" /\ Done.state # "live" /\ Done.cui = Nil /\ Done.due = {}
  BY DEF Done, NoJob
<1> QED
  BY <1>1, IdleInv

\* Moving on changes the step only.
LEMMA GotoFields ==
    ASSUME TypeOK, NEW j \in Jobs, NEW s \in Steps
    PROVE  /\ Goto(j, s) \in Job
           /\ Goto(j, s).step = s
           /\ Goto(j, s).state = job[j].state
           /\ Goto(j, s).contact = job[j].contact
           /\ Goto(j, s).cui = job[j].cui
           /\ Goto(j, s).left = job[j].left
           /\ Goto(j, s).due = job[j].due
<1> DEFINE r == job[j]
<1>1. r \in Job
  BY DEF TypeOK
<1>2. Goto(j, s) = [r EXCEPT !.step = s]
  BY DEF Goto
<1> HIDE DEF r
<1>3. /\ [r EXCEPT !.step = s].step = s
      /\ [r EXCEPT !.step = s].state = r.state
      /\ [r EXCEPT !.step = s].contact = r.contact
      /\ [r EXCEPT !.step = s].cui = r.cui
      /\ [r EXCEPT !.step = s].left = r.left
      /\ [r EXCEPT !.step = s].due = r.due
  BY <1>1 DEF Job
<1>4. Goto(j, s) \in Job
  BY <1>1, <1>2, JobChanged
<1> QED
  BY <1>2, <1>3, <1>4 DEF r

\* A job is replaced by a record: what it is afterwards.
LEMMA JobAfter ==
    ASSUME TypeOK, NEW j \in Jobs, NEW r, job' = [job EXCEPT ![j] = r]
    PROVE  job'[j] = r
  BY DEF TypeOK

-----------------------------------------------------------------------------
(* The life of any job *)

LEMMA LifeInv ==
    ASSUME IInv, NEW j \in Jobs, Break(j) \/ Forget(j)
    PROVE  IInv'
<1>0. TypeOK /\ job[j] \in Job /\ FirstStep[j[1]] \in Steps
  BY JobKinds DEF TypeOK, IInv
<1> DEFINE again == [NoJob EXCEPT !.state = "live", !.step = FirstStep[j[1]],
                                  !.tries = job[j].tries + 1,
                                  !.contact = job[j].contact, !.cuis = job[j].cuis,
                                  !.cui = IF j[1] = "c1" THEN job[j].cui ELSE Nil]
<1> DEFINE lost == [NoJob EXCEPT !.state = "failed"]
<1>1. \E r \in {again, lost, NoJob} : job' = [job EXCEPT ![j] = r]
  BY DEF Break, Forget
<1>2. UNCHANGED <<contact, delivery, promotions>>
  BY DEF Break, Forget
<1>3. again \in Job
  <2> DEFINE x == IF j[1] = "c1" THEN job[j].cui ELSE Nil
  <2> DEFINE n == job[j].tries + 1
  <2>1. x \in MaybeCui /\ n \in Nat /\ job[j].contact \in Contacts \cup {Nil}
    BY <1>0 DEF Job, MaybeCui
  <2>2. job[j].cuis \in SUBSET Cuis
    BY <1>0 DEF Job
  <2> HIDE DEF x, n
  <2>3. [NoJob EXCEPT !.state = "live", !.step = FirstStep[j[1]], !.tries = n,
                      !.contact = job[j].contact, !.cuis = job[j].cuis, !.cui = x] \in Job
    BY <1>0, <2>1, <2>2, NoJobType DEF Job
  <2> QED
    BY <2>3 DEF x, n
<1>4. lost \in Job
  BY NoJobType DEF Job
<1>5. again.step = FirstStep[j[1]] /\ again.due = {} /\ again.contact = job[j].contact
  BY DEF NoJob
<1>6. again.cui = IF j[1] = "c1" THEN job[j].cui ELSE Nil
  BY DEF NoJob
<1>7. \A r \in {lost, NoJob} : r.step = "start" /\ r.state # "live" /\ r.due = {} /\ r.cui = Nil
  BY DEF NoJob
<1>8. JobInv(j)
  BY DEF IInv
<1>9. ASSUME Break(j), job' = [job EXCEPT ![j] = again]
      PROVE  JobInv(j)'
  <2> HIDE DEF again, lost
  <2>1. job'[j] = again /\ job[j].state = "live"
    BY <1>0, <1>9 DEF TypeOK, Break
  <2>2. job[j].step # "start"
    BY <1>8, <2>1 DEF JobInv
  <2>3. j \in NormaliseJobs => NormaliserInv(j)'
    BY <1>5, <1>6, <2>1, Fresh, JobKinds DEF NormaliserInv, NormaliseJobs
  <2>4. j \in EnrichJobs => EnricherInv(j)'
    BY <1>5, <2>1, Fresh DEF EnricherInv
  <2>5. j \in ChecksumJobs => ChecksumInv(j)'
    BY <1>2, <1>5, <1>6, <1>8, <2>1, <2>2, Fresh DEF ChecksumInv, JobInv, Carries, ChecksumJobs
  <2>6. j \in ValidateJobs => ValidatorInv(j)'
    BY <1>2, <1>5, <1>8, <2>1, <2>2, Fresh DEF ValidatorInv, JobInv, Carries
  <2>7. again.step # "start"
    BY <1>5, Fresh DEF Jobs
  <2> QED
    BY <2>1, <2>3, <2>4, <2>5, <2>6, <2>7 DEF JobInv
<1> HIDE DEF again, lost
<1>10. Break(j) \/ job' = [job EXCEPT ![j] = lost] \/ job' = [job EXCEPT ![j] = NoJob]
  BY DEF Forget
<1>11. JobInv(j)'
  <2>1. ASSUME NEW r \in {lost, NoJob}, job' = [job EXCEPT ![j] = r]
        PROVE  JobInv(j)'
    <3>1. job'[j] = r
      BY <1>0, <2>1 DEF TypeOK
    <3> QED
      BY <1>7, <2>1, <3>1, IdleInv
  <2> QED
    BY <1>1, <1>9, <1>10, <2>1
<1>12. \A k \in Jobs : k # j => job'[k] = job[k]
  BY <1>0, <1>1 DEF TypeOK
<1>13. TypeOK'
  BY <1>0, <1>1, <1>2, <1>3, <1>4, NoJobType DEF TypeOK
<1> QED
  BY <1>2, <1>11, <1>12, <1>13, PresentStays, RowsStill, StepKeeps

-----------------------------------------------------------------------------
(* triggerCuiValidationIfPossible *)

LEMMA SubjectInv ==
    ASSUME IInv, NEW j \in NormaliseJobs \cup EnrichJobs,
           job[j].step \in {"gate", "skip", "hand"}
    PROVE  /\ Subject(j) \in Contacts
           /\ job[j].cui # Nil => Carries(Subject(j), job[j].cui)
<1>0. j \in Jobs /\ job[j] \in Job /\ JobInv(j)
  BY DEF IInv, TypeOK, Jobs
<1>1. CASE j \in NormaliseJobs
  <2>1. Subject(j) = j[3] /\ j[3] \in Contacts
    BY <1>1 DEF NormaliseJobs, Subject
  <2>2. job[j].cui # Nil => job[j].cui \in Cuis
    BY <1>0 DEF Job, MaybeCui
  <2> QED
    BY <1>0, <1>1, <2>1, <2>2 DEF JobInv, NormaliserInv, Carries
<1>2. CASE j \in EnrichJobs
  <2>1. Subject(j) = job[j].contact
    BY <1>2 DEF EnrichJobs, Subject
  <2> QED
    BY <1>0, <1>2, <2>1 DEF JobInv, EnricherInv, Carries
<1> QED
  BY <1>1, <1>2

\* The caller goes on with what it knew.
LEMMA CallerInv ==
    ASSUME IInv, NEW j \in NormaliseJobs \cup EnrichJobs, UNCHANGED contact
    PROVE  /\ Caller(j) \in Job
           /\ job'[j] = Caller(j) => JobInv(j)'
<1>0. j \in Jobs /\ TypeOK /\ JobInv(j) /\ "select" \in Steps
  BY DEF IInv, Jobs, Steps
<1>1. Caller(j) \in Job
  BY <1>0, NoJobType, GotoFields DEF Caller
<1>2. ASSUME job'[j] = Goto(j, "select"), j \in EnrichJobs
      PROVE  JobInv(j)'
  <2>1. job'[j].step = "select" /\ job'[j].due = job[j].due
    BY <1>0, <1>2, GotoFields
  <2>2. EnricherInv(j)'
    BY <1>0, <1>2, <2>1 DEF EnricherInv, JobInv
  <2> QED
    BY <1>0, <1>2, <2>1, <2>2, Fresh DEF JobInv
<1>3. j[1] # "normalise" => j \in EnrichJobs
  BY DEF NormaliseJobs
<1> QED
  BY <1>0, <1>1, <1>2, <1>3, DoneInv DEF Caller

\* To another step of the trigger.
LEMMA TriggerMoves ==
    ASSUME IInv, NEW j \in NormaliseJobs \cup EnrichJobs, NEW s \in {"gate", "skip", "hand"},
           job[j].step \in {"gate", "skip", "hand"},
           job'[j] = Goto(j, s), RowsGrow
    PROVE  JobInv(j)'
<1>0. j \in Jobs /\ TypeOK /\ JobInv(j) /\ s \in Steps /\ job[j] \in Job
  BY DEF IInv, Jobs, Steps, TypeOK
<1>1. /\ job'[j].step = s /\ job'[j].due = job[j].due /\ job'[j].cui = job[j].cui
      /\ job'[j].contact = job[j].contact
  BY <1>0, GotoFields
<1>2. ASSUME j \in NormaliseJobs PROVE NormaliserInv(j)'
  <2>1. j[3] \in Contacts
    BY <1>2 DEF NormaliseJobs
  <2> QED
    BY <1>0, <1>1, <1>2, <2>1 DEF JobInv, NormaliserInv, RowsGrow
<1>3. ASSUME j \in EnrichJobs PROVE EnricherInv(j)'
  <2>1. job[j].due \subseteq Contacts \X Cuis /\ Nil \notin Cuis
    BY <1>0, ConstantsAssumption DEF Job
  <2>2. EnricherInv(j)
    BY <1>0, <1>3 DEF JobInv
  <2>3. \A p \in job'[j].due : contact'[p[1]].cui = p[2]
    BY <1>1, <2>1, <2>2 DEF EnricherInv, RowsGrow
  <2>4. /\ job[j].contact \in Contacts /\ job[j].cui \in Cuis
        /\ contact'[job[j].contact].cui = job[j].cui
    BY <2>1, <2>2 DEF EnricherInv, RowsGrow, Carries
  <2> QED
    BY <1>1, <2>3, <2>4 DEF EnricherInv, Carries
<1> QED
  BY <1>0, <1>1, <1>2, <1>3, Fresh DEF JobInv

LEMMA TriggerInv ==
    ASSUME IInv, NEW j \in NormaliseJobs \cup EnrichJobs, Trigger(j)
    PROVE  IInv'
<1>0. j \in Jobs /\ TypeOK /\ {"skip", "hand", "gate"} \subseteq Steps
  BY DEF IInv, Jobs, Steps
<1>1. CASE Gate(j)
  <2>1. UNCHANGED <<contact, delivery, promotions>> /\ job[j].step = "gate"
    BY <1>1 DEF Gate, At
  <2>2. RowsGrow
    BY <2>1, PresentStays, RowsStill
  <2>3. \E r \in {Caller(j), Goto(j, "hand"), Goto(j, "skip")} : job' = [job EXCEPT ![j] = r]
    BY <1>1 DEF Gate
  <2>4. PICK r \in {Caller(j), Goto(j, "hand"), Goto(j, "skip")} : job' = [job EXCEPT ![j] = r]
    BY <2>3
  <2>5. job'[j] = r
    BY <1>0, <2>4, JobAfter
  <2>6. r \in Job
    BY <1>0, <2>1, CallerInv, GotoFields
  <2>7. JobInv(j)'
    BY <2>1, <2>2, <2>5, CallerInv, TriggerMoves
  <2> QED
    BY <1>0, <2>1, <2>4, <2>6, <2>7, QuietStep
<1>2. CASE SkipChecks(j)
  <2> DEFINE c == Subject(j)
  <2>1. /\ job[j].step = "skip" /\ job' = [job EXCEPT ![j] = Goto(j, "hand")]
        /\ contact' = [contact EXCEPT ![c].checked = "skipped"]
        /\ UNCHANGED <<delivery, promotions>>
    BY <1>2 DEF SkipChecks, At
  <2>2. c \in Contacts
    BY <2>1, SubjectInv
  <2>3. \A k \in Contacts : contact[k] \in Row
    BY <1>0 DEF TypeOK
  <2> HIDE DEF c
  <2>4. \A k \in Contacts :
          /\ contact'[k].source = contact[k].source /\ contact'[k].cui = contact[k].cui
          /\ contact'[k].anaf = contact[k].anaf /\ contact'[k].fields = contact[k].fields
    BY <1>0, <2>1, <2>2, <2>3 DEF TypeOK, Row
  <2>5. contact' \in [Contacts -> Row]
    BY <1>0, <2>1, <2>2, <2>3, RowFields DEF TypeOK
  <2>6. RowsGrow /\ (\A k \in Contacts : RowInv(k)') /\ \A k \in Jobs : Undisturbed(k)
    BY <2>1, <2>4 DEF IInv, RowsGrow, RowInv, Undisturbed, Present
  <2>7. JobInv(j)' /\ Goto(j, "hand") \in Job
    BY <1>0, <2>1, <2>6, JobAfter, TriggerMoves, GotoFields
  <2>8. promotions' \subseteq Promotions
    BY <1>0, <2>1 DEF TypeOK
  <2> QED
    BY <1>0, <2>1, <2>5, <2>6, <2>7, <2>8, WorkerStep
<1>3. CASE Hand(j)
  <2>1. job[j].step = "hand" /\ UNCHANGED <<contact, delivery>>
    BY <1>3 DEF Hand, At
  <2>0. PICK c \in Contacts : c = Subject(j)
    BY <2>1, SubjectInv
  <2>2. (job[j].cui # Nil => Carries(c, job[j].cui)) /\ job[j] \in Job
    BY <1>0, <2>0, <2>1, SubjectInv DEF TypeOK
  <2>3. /\ RowsGrow /\ (\A k \in Contacts : RowInv(k)') /\ (\A k \in Jobs : Undisturbed(k))
        /\ contact' \in [Contacts -> Row]
    BY <1>0, <2>1, PresentStays, RowsStill DEF TypeOK
  <2>4. CASE job[j].cui # Nil
    <3> DEFINE payload == [NoJob EXCEPT !.cui = job[j].cui]
    <3>0. PICK check \in Jobs : check = <<"c1", c>>
      BY DEF Jobs, ChecksumJobs
    <3>1. /\ job' = [job EXCEPT ![j] = Caller(j), ![check] = Added(check, payload)]
          /\ UNCHANGED promotions
      BY <1>3, <2>0, <2>4, <3>0 DEF Hand
    <3>2. check \in ChecksumJobs /\ check # j
      BY <1>0, <3>0, Fresh DEF Jobs, ChecksumJobs
    <3>3. payload \in Job
      <4>1. job[j].cui \in MaybeCui
        BY <2>2 DEF Job
      <4> QED
        BY <4>1, NoJobType, JobChanged
    <3>4. payload.cui = job[j].cui
      BY DEF NoJob
    <3>5. Added(check, payload) = job[check]
          \/ Added(check, payload) = [payload EXCEPT !.state = "live", !.step = FirstStep[check[1]]]
      BY DEF Added
    <3> HIDE DEF payload
    <3>6. Added(check, payload) \in Job /\ Caller(j) \in Job
      BY <1>0, <2>1, <3>2, <3>3, AddedType, CallerInv
    <3>7. /\ job' \in [Jobs -> Job]
          /\ job'[j] = Caller(j) /\ job'[check] = Added(check, payload)
          /\ \A k \in Jobs \ {j, check} : job'[k] = job[k]
      BY <1>0, <3>1, <3>2, <3>6 DEF TypeOK
    <3>8. JobInv(j)'
      BY <2>1, <3>7, CallerInv
    <3>9. job'[check] = job[check] \/ JobInv(check)'
      <4> SUFFICES ASSUME Added(check, payload)
                            = [payload EXCEPT !.state = "live", !.step = FirstStep[check[1]]]
                   PROVE  JobInv(check)'
        BY <3>5, <3>7
      <4>1. job'[check].step = "check" /\ job'[check].cui = job[j].cui
        BY <3>2, <3>3, <3>4, <3>7, Fresh DEF Job
      <4>2. check[2] = c
        BY <3>0
      <4>3. /\ check[2] \in Contacts /\ job'[check].cui \in Cuis
            /\ contact'[check[2]].cui = job'[check].cui
        BY <2>1, <2>2, <2>4, <4>1, <4>2 DEF Carries
      <4> QED
        BY <3>2, <4>1, <4>3, Fresh DEF JobInv, ChecksumInv, Carries
    <3>10. TypeOK'
      BY <1>0, <2>1, <2>3, <3>1, <3>7 DEF TypeOK
    <3>11. \A k \in Jobs : (job'[k] = job[k] /\ Undisturbed(k)) \/ JobInv(k)'
      BY <2>3, <3>7, <3>8, <3>9
    <3> QED
      BY <2>3, <3>1, <3>10, <3>11, StepKeeps
  <2>5. CASE job[j].cui = Nil
    <3>1. /\ job' = [job EXCEPT ![j] = Caller(j)]
          /\ promotions' = promotions \cup {<<"promote-nrc", c>>}
      BY <1>3, <2>0, <2>5 DEF Hand
    <3>2. promotions' \subseteq Promotions
      BY <1>0, <2>2, <3>1 DEF TypeOK, Promotions
    <3>3. \A k \in Contacts : <<"promote", k>> \in promotions' => <<"promote", k>> \in promotions
      BY <3>1
    <3>4. Caller(j) \in Job /\ JobInv(j)'
      BY <1>0, <2>1, <3>1, JobAfter, CallerInv
    <3> QED
      BY <1>0, <2>1, <2>3, <3>1, <3>2, <3>3, <3>4, WorkerStep
  <2> QED
    BY <2>4, <2>5
<1> QED
  BY <1>1, <1>2, <1>3 DEF Trigger

-----------------------------------------------------------------------------
(* B1-B4 *)

LEMMA NormaliserKeeps ==
    ASSUME IInv, NEW j \in NormaliseJobs, Normaliser(j)
    PROVE  IInv'
<1>0. /\ j \in Jobs /\ TypeOK /\ job[j] \in Job /\ JobInv(j) /\ "gate" \in Steps
      /\ j[3] \in Contacts /\ contact[j[3]] \in Row /\ RowInv(j[3])
  BY DEF IInv, Jobs, Steps, TypeOK, NormaliseJobs
<1>1. CASE NormaliseRead(j)
  <2> DEFINE row == contact[j[3]]
  <2> DEFINE r == [job[j] EXCEPT !.step = "write", !.cui = row.cui, !.reg = row.reg]
  <2>1. UNCHANGED <<contact, delivery, promotions>>
    BY <1>1 DEF NormaliseRead
  <2>2. (j[2] \in row.fields /\ job' = [job EXCEPT ![j] = r]) \/ job' = [job EXCEPT ![j] = Done]
    BY <1>1 DEF NormaliseRead
  <2>3. row.cui \in MaybeCui /\ row.reg \in MaybeReg
    BY <1>0 DEF Row
  <2>4. r \in Job /\ r.step = "write" /\ r.cui = row.cui
    BY <1>0, <2>3 DEF Job, Steps
  <2>5. CASE job' = [job EXCEPT ![j] = Done]
    BY <1>0, <2>1, <2>5, NoJobType, JobAfter, DoneInv, QuietStep
  <2>6. CASE j[2] \in row.fields /\ job' = [job EXCEPT ![j] = r]
    <3> HIDE DEF r
    <3>1. job'[j] = r
      BY <1>0, <2>6, JobAfter
    <3>2. r.state = job[j].state
      BY <1>0 DEF r, Job
    <3>3. j[2] = "name" /\ row.source \in Files => row.cui # Nil
      BY <1>0, <2>6 DEF RowInv
    <3>4. NormaliserInv(j)'
      BY <2>1, <2>4, <3>1, <3>3 DEF NormaliserInv
    <3>5. JobInv(j)'
      BY <1>0, <2>4, <3>1, <3>4, Fresh DEF JobInv
    <3> QED
      BY <1>0, <2>1, <2>4, <2>6, <3>5, QuietStep
  <2> QED
    BY <2>2, <2>5, <2>6
<1>2. CASE NormaliseWrite(j)
  <2>1. /\ job[j].step = "write" /\ job' = [job EXCEPT ![j] = Goto(j, "gate")]
        /\ contact' = [contact EXCEPT ![j[3]].cui = IF j[2] = "name" THEN job[j].cui ELSE @]
        /\ UNCHANGED <<delivery, promotions>>
    BY <1>2 DEF NormaliseWrite, At
  <2>2. j[2] = "name" => job[j].cui = contact[j[3]].cui
    BY <1>0, <2>1 DEF JobInv, NormaliserInv
  <2>3. contact' = contact
    BY <1>0, <2>1, <2>2 DEF TypeOK, Row
  <2>4. /\ job'[j].step = "gate" /\ job'[j].cui = job[j].cui /\ Goto(j, "gate") \in Job
    BY <1>0, <2>1, JobAfter, GotoFields
  <2>5. JobInv(j)'
    BY <1>0, <2>3, <2>4, Fresh DEF JobInv, NormaliserInv
  <2> QED
    BY <1>0, <2>1, <2>3, <2>4, <2>5, QuietStep
<1> QED
  BY <1>1, <1>2 DEF Normaliser

-----------------------------------------------------------------------------
(* C1 *)

LEMMA ChecksumKeeps ==
    ASSUME IInv, NEW j \in ChecksumJobs, Checksum(j)
    PROVE  IInv'
<1>0. /\ j \in Jobs /\ TypeOK /\ job[j] \in Job /\ JobInv(j) /\ "send" \in Steps
      /\ j[2] \in Contacts /\ contact[j[2]] \in Row
  BY DEF IInv, Jobs, Steps, TypeOK, ChecksumJobs
<1>1. job[j].step # "start" => Carries(j[2], job[j].cui)
  BY <1>0 DEF JobInv, ChecksumInv
<1>2. CASE ChecksumWrite(j)
  <2> DEFINE k == IF job[j].cui \in ChecksumOk THEN "valid" ELSE "invalid"
  <2>1. /\ job[j].step = "check"
        /\ contact' = [contact EXCEPT ![j[2]].cui = job[j].cui, ![j[2]].checked = k]
        /\ UNCHANGED <<delivery, promotions>>
    BY <1>2 DEF ChecksumWrite, At
  <2>2. PICK r \in {Goto(j, "send"), Done} :
          /\ job' = [job EXCEPT ![j] = r]
          /\ r = Done \/ job[j].cui \in ChecksumOk
    BY <1>2 DEF ChecksumWrite
  <2>3. /\ job[j].cui = contact[j[2]].cui /\ job[j].cui \in Cuis /\ k \in {"valid", "invalid"}
        /\ k = "invalid" => job[j].cui \notin ChecksumOk
    BY <1>1, <2>1 DEF Carries
  <2> HIDE DEF k
  <2>4. contact' = [contact EXCEPT ![j[2]].checked = k]
    BY <1>0, <2>1, <2>3 DEF TypeOK, Row
  <2>5. [contact[j[2]] EXCEPT !.checked = k] \in Row
    BY <1>0, <2>3, RowFields
  <2>6. contact' \in [Contacts -> Row]
    BY <1>0, <2>4, <2>5 DEF TypeOK
  <2>7. \A c \in Contacts :
          /\ contact'[c].source = contact[c].source /\ contact'[c].cui = contact[c].cui
          /\ contact'[c].anaf = contact[c].anaf /\ contact'[c].fields = contact[c].fields
          /\ contact'[c].checked = contact[c].checked
             \/ (c = j[2] /\ contact'[c].checked = k)
    BY <1>0, <2>4 DEF TypeOK, Row
  <2>8. RowsGrow /\ (\A c \in Contacts : RowInv(c)') /\ \A i \in Jobs : Undisturbed(i)
    <3>1. \A c \in Contacts : RowInv(c)'
      BY <2>3, <2>7 DEF IInv, RowInv
    <3> QED
      BY <2>1, <2>7, <3>1 DEF RowsGrow, Undisturbed, Present
  <2>9. r \in Job
    BY <1>0, NoJobType, GotoFields
  <2>10. JobInv(j)'
    <3>1. job'[j] = r
      BY <1>0, <2>2, JobAfter
    <3>2. ASSUME r = Goto(j, "send") PROVE JobInv(j)'
      <4>1. job'[j].step = "send" /\ job'[j].cui = job[j].cui
        BY <1>0, <3>1, <3>2, GotoFields
      <4>2. job[j].cui \in ChecksumOk
        <5>1. Done.step = "start" /\ Goto(j, "send").step = "send"
          BY <1>0, GotoFields DEF Done, NoJob
        <5> QED
          BY <2>2, <3>2, <5>1
      <4>3. ChecksumInv(j)'
        BY <1>0, <2>3, <2>7, <4>1, <4>2 DEF ChecksumInv, Carries
      <4> QED
        BY <1>0, <4>1, <4>3, Fresh DEF JobInv
    <3> QED
      BY <1>0, <3>1, <3>2, DoneInv
  <2>11. promotions' \subseteq Promotions
    BY <1>0, <2>1 DEF TypeOK
  <2> QED
    BY <1>0, <2>1, <2>2, <2>6, <2>8, <2>9, <2>10, <2>11, WorkerStep
<1>3. CASE ChecksumSend(j)
  <2> DEFINE payload == [NoJob EXCEPT !.contact = j[2]]
  <2>1. job[j].step = "send" /\ UNCHANGED <<contact, delivery, promotions>>
    BY <1>3 DEF ChecksumSend, At
  <2>2. Carries(j[2], job[j].cui) /\ job[j].cui \in ChecksumOk
    BY <1>0, <1>1, <2>1 DEF JobInv, ChecksumInv
  <2>3. PICK v \in ValidateJobs : v = <<"c2", job[j].cui>>
    BY <2>2 DEF Carries, ValidateJobs
  <2>4. job' = [job EXCEPT ![j] = Done, ![v] = Added(v, payload)]
    BY <1>3, <2>3 DEF ChecksumSend
  <2>5. v \in Jobs /\ v # j /\ v[2] = job[j].cui
    BY <1>0, <2>3, Fresh DEF Jobs
  <2>6. payload \in Job /\ payload.contact = j[2]
    BY <1>0, NoJobType, JobChanged DEF NoJob
  <2>7. Added(v, payload) = job[v]
        \/ Added(v, payload) = [payload EXCEPT !.state = "live", !.step = FirstStep[v[1]]]
    BY DEF Added
  <2> HIDE DEF payload
  <2>8. Added(v, payload) \in Job
    BY <1>0, <2>5, <2>6, AddedType
  <2>9. /\ job' \in [Jobs -> Job]
        /\ job'[j] = Done /\ job'[v] = Added(v, payload)
        /\ \A k \in Jobs \ {j, v} : job'[k] = job[k]
    BY <1>0, <2>4, <2>5, <2>8, NoJobType DEF TypeOK
  <2>10. JobInv(j)'
    BY <1>0, <2>9, DoneInv
  <2>11. job'[v] = job[v] \/ JobInv(v)'
    <3> SUFFICES ASSUME Added(v, payload)
                          = [payload EXCEPT !.state = "live", !.step = FirstStep[v[1]]]
                 PROVE  JobInv(v)'
      BY <2>7, <2>9
    <3>0. FirstStep[v[1]] = "dedup"
      BY <2>5, Fresh
    <3>1. job'[v].step = "dedup" /\ job'[v].contact = j[2]
      BY <2>6, <2>9, <3>0 DEF Job
    <3>2. contact'[j[2]].cui = v[2] /\ v[2] \in Cuis /\ v[2] \in ChecksumOk
      BY <2>1, <2>2, <2>5 DEF Carries
    <3>3. ValidatorInv(v)'
      BY <1>0, <3>1, <3>2 DEF ValidatorInv, Carries
    <3> QED
      BY <2>3, <2>5, <3>1, <3>3, Fresh DEF JobInv
  <2>12. /\ RowsGrow /\ (\A k \in Contacts : RowInv(k)') /\ (\A k \in Jobs : Undisturbed(k))
    BY <2>1, PresentStays, RowsStill
  <2>13. \A k \in Jobs : (job'[k] = job[k] /\ Undisturbed(k)) \/ JobInv(k)'
    BY <2>9, <2>10, <2>11, <2>12
  <2>14. TypeOK'
    BY <1>0, <2>1, <2>9 DEF TypeOK
  <2> QED
    BY <2>1, <2>12, <2>13, <2>14, StepKeeps
<1> QED
  BY <1>2, <1>3 DEF Checksum

-----------------------------------------------------------------------------
(* B5 *)

LEMMA DueInv ==
    ASSUME TypeOK, NEW j \in EnrichJobs, NEW c \in Contacts, job[j].cui \in Cuis,
           NEW S, S = Due(j, c)
    PROVE  /\ S \subseteq Contacts \X Cuis
           /\ \A p \in S : p \in job[j].due \/ (p[1] = c /\ p[2] = job[j].cui)
<1>1. job[j] \in Job
  BY DEF TypeOK, Jobs
<1>2. job[j].due \subseteq Contacts \X Cuis
  BY <1>1 DEF Job
<1> QED
  BY <1>2 DEF Due

\* The steps of B5 that write no row.
LEMMA EnricherQuiet ==
    ASSUME IInv, NEW j \in EnrichJobs,
           EnrichAsk(j) \/ (\E x \in Cuis : EnrichSelect(j, x)) \/ EnrichCross(j) \/ EnrichTrigger(j)
    PROVE  IInv'
<1>0. /\ j \in Jobs /\ TypeOK /\ job[j] \in Job /\ EnricherInv(j) /\ "select" \in Steps
      /\ job[j].due \subseteq Contacts \X Cuis
  <2>1. j \in Jobs /\ TypeOK /\ job[j] \in Job /\ EnricherInv(j) /\ "select" \in Steps
    BY DEF IInv, Jobs, Steps, TypeOK, JobInv
  <2> QED
    BY <2>1 DEF Job
<1>1. UNCHANGED <<contact, delivery, promotions>>
  BY DEF EnrichAsk, EnrichSelect, EnrichCross, EnrichTrigger
<1>2. CASE EnrichAsk(j)
  <2>1. job' = [job EXCEPT ![j] = Goto(j, "select")]
    BY <1>2 DEF EnrichAsk
  <2>0. job'[j] = Goto(j, "select")
    BY <1>0, <2>1, JobAfter
  <2>2. job'[j].step = "select" /\ job'[j].due = job[j].due /\ Goto(j, "select") \in Job
    BY <1>0, <2>0, GotoFields
  <2>3. EnricherInv(j)'
    BY <1>0, <1>1, <2>2 DEF EnricherInv
  <2>4. JobInv(j)'
    BY <1>0, <2>2, <2>3, Fresh DEF JobInv
  <2> QED
    BY <1>0, <1>1, <2>1, <2>2, <2>4, QuietStep
<1>3. ASSUME NEW x \in Cuis, EnrichSelect(j, x)
      PROVE  IInv'
  <2> DEFINE left == {c \in Of(j[2]) : contact[c].cui = x}
  <2> DEFINE seen == job[j].seen \cup {x}
  <2> DEFINE r == [job[j] EXCEPT !.step = "update", !.cui = x, !.seen = seen, !.left = left]
  <2>1. job' = [job EXCEPT ![j] = r]
    BY <1>0, <1>3 DEF EnrichSelect, TypeOK
  <2>2. left \subseteq Contacts /\ \A c \in left : contact[c].cui = x
    BY DEF Of
  <2>3. seen \subseteq Cuis /\ x \in MaybeCui
    BY <1>0 DEF Job, MaybeCui
  <2> HIDE DEF left, seen
  <2>4. /\ r \in Job /\ r.step = "update" /\ r.cui = x /\ r.left = left
        /\ r.due = job[j].due
    BY <1>0, <2>2, <2>3 DEF Job, Steps
  <2> HIDE DEF r
  <2>5. job'[j] = r
    BY <1>0, <2>1, JobAfter
  <2>6. EnricherInv(j)'
    BY <1>0, <1>1, <2>2, <2>4, <2>5 DEF EnricherInv
  <2>7. JobInv(j)'
    BY <1>0, <2>4, <2>5, <2>6, Fresh DEF JobInv
  <2> QED
    BY <1>0, <1>1, <2>1, <2>4, <2>7, QuietStep
<1>4. CASE EnrichCross(j)
  <2> DEFINE left == {c \in Of(j[2]) : /\ contact[c].cui = Nil
                                       /\ contact[c].reg = Anaf[job[j].cui]}
  <2> DEFINE r == [job[j] EXCEPT !.step = "cross", !.left = left]
  <2>1. job' = [job EXCEPT ![j] = r] /\ job[j].step = "update"
    BY <1>0, <1>4 DEF EnrichCross, At, TypeOK
  <2>2. left \subseteq Contacts /\ \A c \in left : contact[c].cui = Nil /\ contact[c].source = j[2]
    BY DEF Of
  <2> HIDE DEF left
  <2>3. /\ r \in Job /\ r.step = "cross" /\ r.cui = job[j].cui /\ r.left = left
        /\ r.due = job[j].due
    BY <1>0, <2>2 DEF Job, Steps
  <2> HIDE DEF r
  <2>4. job'[j] = r
    BY <1>0, <2>1, JobAfter
  <2>5. EnricherInv(j)'
    BY <1>0, <1>1, <2>1, <2>2, <2>3, <2>4 DEF EnricherInv
  <2>6. JobInv(j)'
    BY <1>0, <2>3, <2>4, <2>5, Fresh DEF JobInv
  <2> QED
    BY <1>0, <1>1, <2>1, <2>3, <2>6, QuietStep
<1>5. CASE EnrichTrigger(j)
  <2>1. ASSUME NEW p \in job[j].due,
               job' = [job EXCEPT ![j].step = "gate", ![j].due = @ \ {p},
                                  ![j].contact = p[1], ![j].cui = p[2]]
        PROVE  IInv'
    <3> DEFINE due == job[j].due \ {p}
    <3> DEFINE r == [job[j] EXCEPT !.step = "gate", !.due = due, !.contact = p[1], !.cui = p[2]]
    <3>1. job' = [job EXCEPT ![j] = r]
      BY <1>0, <2>1 DEF TypeOK
    <3>2. p[1] \in Contacts /\ p[2] \in Cuis /\ contact[p[1]].cui = p[2]
      BY <1>0 DEF EnricherInv
    <3>3. due \subseteq job[j].due /\ due \subseteq Contacts \X Cuis
      BY <1>0
    <3> HIDE DEF due
    <3>4. /\ r \in Job /\ r.step = "gate" /\ r.cui = p[2] /\ r.contact = p[1] /\ r.due = due
      BY <1>0, <3>2, <3>3 DEF Job, Steps, MaybeCui
    <3> HIDE DEF r
    <3>5. job'[j] = r
      BY <1>0, <3>1, JobAfter
    <3>6. EnricherInv(j)'
      BY <1>0, <1>1, <3>2, <3>3, <3>4, <3>5 DEF EnricherInv, Carries
    <3>7. JobInv(j)'
      BY <1>0, <3>4, <3>5, <3>6, Fresh DEF JobInv
    <3> QED
      BY <1>0, <1>1, <3>1, <3>4, <3>7, QuietStep
  <2>2. CASE job' = [job EXCEPT ![j] = Done]
    BY <1>0, <1>1, <2>2, NoJobType, JobAfter, DoneInv, QuietStep
  <2> QED
    BY <1>5, <2>1, <2>2 DEF EnrichTrigger
<1> QED
  BY <1>2, <1>3, <1>4, <1>5

\* An answer stored in a row that has the CUI.
LEMMA EnrichUpdateInv ==
    ASSUME IInv, NEW j \in EnrichJobs, NEW c \in Contacts, EnrichUpdate(j, c)
    PROVE  IInv'
<1>0. /\ j \in Jobs /\ TypeOK /\ job[j] \in Job /\ EnricherInv(j) /\ contact[c] \in Row
      /\ \A k \in Contacts : contact[k] \in Row
  BY DEF IInv, Jobs, TypeOK, JobInv
<1> DEFINE x == job[j].cui
<1> DEFINE e == IF Found(x) THEN "completed" ELSE "not_found"
<1> DEFINE g == IF contact[c].reg = Nil /\ Found(x) THEN Anaf[x] ELSE contact[c].reg
<1> DEFINE left == job[j].left \ {c}
<1> DEFINE due == Due(j, c)
<1> DEFINE r == [job[j] EXCEPT !.left = left, !.due = due]
<1>1. /\ job[j].step = "update" /\ c \in job[j].left /\ UNCHANGED <<delivery, promotions>>
      /\ contact' = [contact EXCEPT ![c] = [contact[c] EXCEPT !.enriched = e, !.reg = g]]
      /\ job' = [job EXCEPT ![j] = r]
  BY <1>0 DEF EnrichUpdate, At, TypeOK
<1>2. x \in Cuis /\ contact[c].cui = x
  BY <1>0, <1>1 DEF EnricherInv
<1>3. e \in {"completed", "not_found"} /\ g \in MaybeReg
  BY <1>0, <1>2, AnafReg DEF Row
<1>4. due \subseteq Contacts \X Cuis /\ \A p \in due : p \in job[j].due \/ (p[1] = c /\ p[2] = x)
  BY <1>0, <1>2, DueInv
<1>5. left \subseteq Contacts /\ left \subseteq job[j].left
  BY <1>0 DEF Job
<1> HIDE DEF e, g, left, due
<1>6. [contact[c] EXCEPT !.enriched = e, !.reg = g] \in Row
  BY <1>0, <1>3 DEF Row
<1>7. contact' \in [Contacts -> Row]
  BY <1>0, <1>1, <1>6 DEF TypeOK
<1>8. \A k \in Contacts :
        /\ contact'[k].source = contact[k].source /\ contact'[k].cui = contact[k].cui
        /\ contact'[k].anaf = contact[k].anaf /\ contact'[k].fields = contact[k].fields
        /\ contact'[k].checked = contact[k].checked
  BY <1>0, <1>1 DEF TypeOK, Row
<1>9. RowsGrow /\ (\A k \in Contacts : RowInv(k)') /\ \A i \in Jobs : Undisturbed(i)
  BY <1>1, <1>8 DEF IInv, RowsGrow, RowInv, Undisturbed, Present
<1>10. /\ r \in Job /\ r.step = "update" /\ r.cui = x /\ r.left = left /\ r.due = due
  BY <1>0, <1>1, <1>4, <1>5 DEF Job
<1> HIDE DEF r
<1>11. job'[j] = r
  BY <1>0, <1>1, JobAfter
<1>12. EnricherInv(j)'
  BY <1>0, <1>1, <1>2, <1>4, <1>5, <1>8, <1>10, <1>11 DEF EnricherInv, Job
<1>13. JobInv(j)'
  BY <1>0, <1>10, <1>11, <1>12, Fresh DEF JobInv
<1>14. promotions' \subseteq Promotions
  BY <1>0, <1>1 DEF TypeOK
<1> QED
  BY <1>0, <1>1, <1>7, <1>9, <1>10, <1>13, <1>14, WorkerStep

\* A row without a CUI obtains one: only B5 of the row's own file does this.
LEMMA EnrichCrossWriteInv ==
    ASSUME IInv, NEW j \in EnrichJobs, NEW c \in Contacts, EnrichCrossWrite(j, c)
    PROVE  IInv'
<1>0. /\ j \in Jobs /\ TypeOK /\ job[j] \in Job /\ EnricherInv(j) /\ contact[c] \in Row
      /\ RowInv(c) /\ \A k \in Contacts : contact[k] \in Row
  BY DEF IInv, Jobs, TypeOK, JobInv
<1> DEFINE x == job[j].cui
<1> DEFINE left == job[j].left \ {c}
<1> DEFINE due == Due(j, c)
<1> DEFINE r == [job[j] EXCEPT !.left = left, !.due = due]
<1> DEFINE row == [contact[c] EXCEPT !.cui = x, !.enriched = "cross_referenced"]
<1>1. /\ job[j].step = "cross" /\ c \in job[j].left /\ UNCHANGED <<delivery, promotions>>
      /\ contact' = [contact EXCEPT ![c] = row]
      /\ job' = [job EXCEPT ![j] = r]
  BY <1>0 DEF EnrichCrossWrite, At, TypeOK
<1>2. x \in Cuis /\ x \in MaybeCui /\ contact[c].cui = Nil /\ contact[c].source = j[2] /\ x # Nil
  BY <1>0, <1>1, ConstantsAssumption DEF EnricherInv, MaybeCui
<1>3. contact[c].anaf # "valid" /\ contact[c].checked # "invalid"
  BY <1>0, <1>2, ConstantsAssumption DEF RowInv
<1>4. due \subseteq Contacts \X Cuis /\ \A p \in due : p \in job[j].due \/ (p[1] = c /\ p[2] = x)
  BY <1>0, <1>2, DueInv
<1>5. left \subseteq Contacts /\ left \subseteq job[j].left /\ c \notin left
  BY <1>0 DEF Job
<1>6. /\ row \in Row /\ row.cui = x /\ row.source = contact[c].source /\ row.anaf = contact[c].anaf
      /\ row.fields = contact[c].fields /\ row.checked = contact[c].checked
  BY <1>0, <1>2 DEF Row
<1>7. /\ r \in Job /\ r.step = "cross" /\ r.cui = x /\ r.left = left /\ r.due = due
  <2> HIDE DEF left, due
  <2> QED
    BY <1>0, <1>1, <1>4, <1>5 DEF Job
<1> HIDE DEF left, due, r, row
<1>8. contact'[c] = row /\ (\A k \in Contacts \ {c} : contact'[k] = contact[k])
      /\ contact' \in [Contacts -> Row]
  BY <1>0, <1>1, <1>6 DEF TypeOK
<1>9. Present' = Present
  <2>1. \A k \in Contacts : contact'[k].source = contact[k].source
    BY <1>6, <1>8
  <2> QED
    BY <1>1, <2>1 DEF Present
<1>10. RowsGrow /\ \A k \in Contacts : RowInv(k)'
  <2>1. RowInv(c)'
    BY <1>2, <1>3, <1>6, <1>8 DEF RowInv
  <2>2. \A k \in Contacts \ {c} : RowInv(k)'
    BY <1>8 DEF IInv, RowInv
  <2>4. contact[c].source \notin Singles
    BY <1>2, ConstantsAssumption DEF EnrichJobs
  <2>3. RowsGrow
    BY <1>2, <1>3, <1>6, <1>8, <1>9, <2>4 DEF RowsGrow
  <2> QED
    BY <2>1, <2>2, <2>3
<1>11. \A i \in Jobs \ {j} : Undisturbed(i)
  <2>1. \A i \in EnrichJobs : i # j => i[2] # j[2]
    BY DEF EnrichJobs
  <2> QED
    BY <1>2, <1>8, <2>1 DEF Undisturbed
<1>12. job'[j] = r
  BY <1>0, <1>1, JobAfter
<1>13. EnricherInv(j)'
  <2>1. \A p \in due : contact'[p[1]].cui = p[2]
    <3>1. \A p \in job[j].due : p[1] \in Contacts /\ p[2] # Nil /\ contact[p[1]].cui = p[2]
      BY <1>0, ConstantsAssumption DEF EnricherInv, Job
    <3> QED
      BY <1>2, <1>4, <1>6, <1>8, <3>1
  <2>2. \A k \in left : contact'[k].cui = Nil /\ contact'[k].source = j[2]
    BY <1>0, <1>1, <1>5, <1>8 DEF EnricherInv
  <2> QED
    BY <1>2, <1>7, <1>12, <2>1, <2>2 DEF EnricherInv
<1>14. JobInv(j)'
  BY <1>0, <1>7, <1>12, <1>13, Fresh DEF JobInv
<1>15. promotions' \subseteq Promotions
  BY <1>0, <1>1 DEF TypeOK
<1> QED
  BY <1>0, <1>1, <1>7, <1>8, <1>10, <1>11, <1>14, <1>15, WorkerStep

LEMMA EnricherKeeps ==
    ASSUME IInv, NEW j \in EnrichJobs, Enricher(j)
    PROVE  IInv'
  BY EnricherQuiet, EnrichUpdateInv, EnrichCrossWriteInv DEF Enricher

-----------------------------------------------------------------------------
(* C2 *)

\* A job of C2 that goes on knows what it knew.
LEMMA ValidatorMoves ==
    ASSUME IInv, RowsGrow, NEW j \in ValidateJobs, NEW s \in Steps,
           job[j].step # "start", s # "start", job'[j] = Goto(j, s),
           s \in {"reuse", "mark", "siblings", "spread", "fan"} => Found(j[2]),
           s \in {"siblings", "spread", "fan", "promote"} =>
             contact'[job[j].contact].anaf = "valid",
           s \in {"spread", "fan"} => \A c \in job[j].left : contact'[c].cui = j[2],
           s = "spread" => job[j].left \subseteq Present',
           s = "fan" => \A c \in job[j].left : contact'[c].anaf = "valid"
    PROVE  JobInv(j)'
<1>0. /\ j \in Jobs /\ TypeOK /\ ValidatorInv(j) /\ j[2] # Nil /\ j[2] \in Cuis
  BY ConstantsAssumption DEF IInv, Jobs, JobInv, ValidateJobs
<1>1. /\ job'[j].step = s /\ job'[j].contact = job[j].contact /\ job'[j].left = job[j].left
  BY <1>0, GotoFields
<1>2. job[j].contact \in Contacts /\ contact'[job[j].contact].cui = j[2]
  BY <1>0 DEF ValidatorInv, Carries, RowsGrow
<1>3. ValidatorInv(j)'
  BY <1>0, <1>1, <1>2 DEF ValidatorInv, Carries
<1> QED
  BY <1>0, <1>1, <1>3, Fresh DEF JobInv

\* Storing ANAF's answer in some rows that have the CUI.
LEMMA ValidatedRows ==
    ASSUME IInv, NEW x \in ChecksumOk, Found(x), NEW C \in SUBSET Contacts,
           \A c \in C : contact[c].cui = x, UNCHANGED delivery,
           contact' = [c \in Contacts |-> IF c \in C THEN Validated(contact[c], x) ELSE contact[c]]
    PROVE  /\ contact' \in [Contacts -> Row]
           /\ RowsGrow
           /\ \A c \in Contacts : RowInv(c)'
           /\ \A j \in Jobs : Undisturbed(j)
           /\ \A c \in C : contact'[c].anaf = "valid"
           /\ Present' = Present
<1>0. \A c \in Contacts : contact[c] \in Row /\ RowInv(c)
  BY DEF IInv, TypeOK
<1>1. \A c \in C : /\ Validated(contact[c], x) \in Row
                   /\ Validated(contact[c], x).cui = contact[c].cui
                   /\ Validated(contact[c], x).source = contact[c].source
                   /\ Validated(contact[c], x).fields = contact[c].fields
                   /\ Validated(contact[c], x).checked = contact[c].checked
                   /\ Validated(contact[c], x).anaf = "valid"
  <2> SUFFICES ASSUME NEW c \in C
               PROVE  /\ Validated(contact[c], x) \in Row
                      /\ Validated(contact[c], x).cui = contact[c].cui
                      /\ Validated(contact[c], x).source = contact[c].source
                      /\ Validated(contact[c], x).fields = contact[c].fields
                      /\ Validated(contact[c], x).checked = contact[c].checked
                      /\ Validated(contact[c], x).anaf = "valid"
    OBVIOUS
  <2> DEFINE g == IF Anaf[x] # Nil THEN Anaf[x] ELSE contact[c].reg
  <2>1. contact[c] \in Row /\ contact[c].cui = x /\ x \in Cuis /\ x \in MaybeCui
    BY <1>0, ConstantsAssumption DEF MaybeCui
  <2>2. g \in MaybeReg
    BY <2>1, AnafReg DEF Row
  <2>3. Validated(contact[c], x) = [contact[c] EXCEPT !.cui = x, !.anaf = "valid", !.reg = g]
    BY DEF Validated
  <2> HIDE DEF g
  <2> QED
    BY <2>1, <2>2, <2>3 DEF Row
<1>2. contact' \in [Contacts -> Row]
  BY <1>0, <1>1
<1>3. \A c \in Contacts : /\ contact'[c].cui = contact[c].cui
                          /\ contact'[c].source = contact[c].source
                          /\ contact'[c].fields = contact[c].fields
                          /\ contact'[c].checked = contact[c].checked
  BY <1>1
<1>4. \A c \in Contacts : IF c \in C THEN contact'[c].anaf = "valid"
                          ELSE contact'[c].anaf = contact[c].anaf
  BY <1>1
<1>5. Present' = Present
  BY <1>3 DEF Present
<1>6. \A c \in Contacts : RowInv(c)'
  BY <1>0, <1>3, <1>4 DEF RowInv
<1> QED
  BY <1>2, <1>3, <1>4, <1>5, <1>6 DEF RowsGrow, Undisturbed

\* The steps that write no row and no promotion.
LEMMA ValidatorQuiet ==
    ASSUME IInv, NEW j \in ValidateJobs,
           ValidateDedup(j) \/ (ValidateAsk(j) /\ Found(j[2])) \/ ValidateSiblings(j)
    PROVE  IInv'
<1>0. /\ j \in Jobs /\ TypeOK /\ job[j] \in Job /\ ValidatorInv(j) /\ j[2] \in Cuis
      /\ {"reuse", "ask", "mark", "promote", "spread"} \subseteq Steps
  BY DEF IInv, Jobs, TypeOK, JobInv, ValidateJobs, Steps
<1>1. UNCHANGED <<contact, delivery, promotions>>
  BY DEF ValidateDedup, ValidateAsk, ValidateSiblings
<1>2. RowsGrow /\ Present' = Present
  BY <1>1, PresentStays, RowsStill
<1>3. CASE ValidateDedup(j)
  <2>1. /\ job[j].step = "dedup"
        /\ \/ job' = [job EXCEPT ![j] = Goto(j, "ask")]
           \/ job' = [job EXCEPT ![j] = Goto(j, "reuse")] /\ \E c \in Contacts : Valid(c, j[2])
    BY <1>3 DEF ValidateDedup, At, Present
  <2>2. (\E c \in Contacts : Valid(c, j[2])) => Found(j[2])
    BY DEF IInv, Valid, RowInv
  <2>3. PICK s \in {"ask", "reuse"} : job' = [job EXCEPT ![j] = Goto(j, s)]
                                     /\ (s = "reuse" => Found(j[2]))
    BY <2>1, <2>2
  <2>4. job'[j] = Goto(j, s)
    BY <1>0, <2>3, JobAfter
  <2>5. JobInv(j)' /\ Goto(j, s) \in Job
    BY <1>0, <1>2, <2>1, <2>3, <2>4, ValidatorMoves, GotoFields
  <2> QED
    BY <1>0, <1>1, <2>3, <2>5, QuietStep
<1>4. CASE ValidateAsk(j) /\ Found(j[2])
  <2>1. job[j].step = "ask" /\ job' = [job EXCEPT ![j] = Goto(j, "mark")]
    BY <1>4 DEF ValidateAsk, At
  <2>2. job'[j] = Goto(j, "mark")
    BY <1>0, <2>1, JobAfter
  <2>3. JobInv(j)' /\ Goto(j, "mark") \in Job
    BY <1>0, <1>2, <1>4, <2>1, <2>2, ValidatorMoves, GotoFields
  <2> QED
    BY <1>0, <1>1, <2>1, <2>3, QuietStep
<1>5. CASE ValidateSiblings(j)
  <2> DEFINE left == Siblings(j)
  <2> DEFINE s == IF left = {} THEN "promote" ELSE "spread"
  <2> DEFINE r == [job[j] EXCEPT !.left = left, !.step = s]
  <2>1. job[j].step = "siblings" /\ job' = [job EXCEPT ![j] = r]
    BY <1>0, <1>5 DEF ValidateSiblings, At, TypeOK
  <2>2. left \subseteq Contacts /\ left \subseteq Present /\ \A c \in left : contact[c].cui = j[2]
    BY DEF Siblings, Present
  <2>3. s \in {"promote", "spread"}
    OBVIOUS
  <2> HIDE DEF left, s
  <2>4. r \in Job /\ r.step = s /\ r.left = left /\ r.contact = job[j].contact
    BY <1>0, <2>2, <2>3 DEF Job
  <2> HIDE DEF r
  <2>5. job'[j] = r
    BY <1>0, <2>1, JobAfter
  <2>6. /\ contact[job[j].contact].anaf = "valid" /\ Found(j[2])
        /\ job[j].contact \in Contacts /\ contact[job[j].contact].cui = j[2] /\ j[2] \in ChecksumOk
    BY <1>0, <2>1 DEF ValidatorInv, Carries
  <2>7. ValidatorInv(j)'
    BY <1>0, <1>1, <1>2, <2>2, <2>3, <2>4, <2>5, <2>6 DEF ValidatorInv, Carries
  <2>8. JobInv(j)'
    BY <1>0, <2>3, <2>4, <2>5, <2>7, Fresh DEF JobInv
  <2> QED
    BY <1>0, <1>1, <2>1, <2>4, <2>8, QuietStep
<1> QED
  BY <1>3, <1>4, <1>5

\* Not found: a contact that has the CUI cannot have been valid.
LEMMA ValidateNotFound ==
    ASSUME IInv, NEW j \in ValidateJobs, ValidateAsk(j), ~Found(j[2])
    PROVE  IInv'
<1>0. /\ j \in Jobs /\ TypeOK /\ ValidatorInv(j) /\ \A c \in Contacts : contact[c] \in Row
  BY DEF IInv, Jobs, TypeOK, JobInv
<1>1. /\ job[j].step = "ask" /\ UNCHANGED <<delivery, promotions>>
      /\ contact' = [contact EXCEPT ![job[j].contact].anaf = "not_found"]
      /\ job' = [job EXCEPT ![j] = Done]
  BY DEF ValidateAsk, At
<1>2. PICK own \in Contacts : own = job[j].contact /\ contact[own].cui = j[2]
  BY <1>0, <1>1 DEF ValidatorInv, Carries
<1>3. contact[own].anaf # "valid"
  BY <1>2 DEF IInv, RowInv
<1>4. contact' \in [Contacts -> Row]
  BY <1>0, <1>1, RowFields DEF TypeOK
<1>5. \A k \in Contacts : /\ contact'[k].cui = contact[k].cui
                          /\ contact'[k].source = contact[k].source
                          /\ contact'[k].fields = contact[k].fields
                          /\ contact'[k].checked = contact[k].checked
                          /\ k # own => contact'[k].anaf = contact[k].anaf
  BY <1>0, <1>1, <1>2 DEF TypeOK, Row
<1>6. contact'[own].anaf = "not_found"
  BY <1>0, <1>1, <1>2 DEF TypeOK, Row
<1>7. Present' = Present
  BY <1>1, <1>5 DEF Present
<1>8. RowsGrow /\ (\A k \in Contacts : RowInv(k)') /\ \A i \in Jobs : Undisturbed(i)
  BY <1>3, <1>5, <1>6, <1>7 DEF IInv, RowsGrow, RowInv, Undisturbed
<1>9. JobInv(j)' /\ promotions' \subseteq Promotions
  BY <1>0, <1>1, JobAfter, DoneInv DEF TypeOK
<1> QED
  BY <1>0, <1>1, <1>4, <1>8, <1>9, NoJobType, WorkerStep

\* The steps that write ANAF's answer.
LEMMA ValidatorWrites ==
    ASSUME IInv, NEW j \in ValidateJobs, ValidateMark(j) \/ ValidateSpread(j)
    PROVE  IInv'
<1>0. /\ j \in Jobs /\ TypeOK /\ job[j] \in Job /\ ValidatorInv(j) /\ j[2] \in Cuis
      /\ {"siblings", "promote", "fan"} \subseteq Steps /\ promotions \subseteq Promotions
      /\ job[j].left \subseteq Contacts
  <2>1. job[j] \in Job
    BY DEF IInv, Jobs, TypeOK
  <2> QED
    BY <2>1 DEF IInv, Jobs, TypeOK, JobInv, ValidateJobs, Steps, Job
<1>1. CASE ValidateMark(j)
  <2>1. /\ job[j].step \in {"mark", "reuse"} /\ UNCHANGED <<delivery, promotions>>
        /\ contact' = [contact EXCEPT ![job[j].contact] = Validated(@, j[2])]
    BY <1>1 DEF ValidateMark, At
  <2>2. PICK s \in {"siblings", "promote"} : job' = [job EXCEPT ![j] = Goto(j, s)]
    BY <1>1 DEF ValidateMark
  <2>3. PICK own \in Contacts : /\ own = job[j].contact /\ contact[own].cui = j[2]
                                /\ Found(j[2]) /\ j[2] \in ChecksumOk
    BY <1>0, <2>1 DEF ValidatorInv, Carries
  <2> DEFINE C == {own}
  <2>4. /\ contact' = [c \in Contacts |->
                         IF c \in C THEN Validated(contact[c], j[2]) ELSE contact[c]]
        /\ C \in SUBSET Contacts /\ own \in C /\ \A c \in C : contact[c].cui = j[2]
    BY <1>0, <2>1, <2>3 DEF TypeOK
  <2> HIDE DEF C
  <2>5. /\ contact' \in [Contacts -> Row] /\ RowsGrow /\ (\A c \in Contacts : RowInv(c)')
        /\ (\A i \in Jobs : Undisturbed(i)) /\ contact'[own].anaf = "valid"
    <3>1. j[2] \in ChecksumOk /\ Found(j[2]) /\ C \in SUBSET Contacts /\ UNCHANGED delivery
      BY <1>0, <2>1, <2>3, <2>4
    <3>2. \A c \in C : contact[c].cui = j[2]
      BY <2>4
    <3>3. contact' = [c \in Contacts |->
                       IF c \in C THEN Validated(contact[c], j[2]) ELSE contact[c]]
      BY <2>4
    <3>4. /\ contact' \in [Contacts -> Row] /\ RowsGrow /\ (\A c \in Contacts : RowInv(c)')
          /\ (\A i \in Jobs : Undisturbed(i)) /\ \A c \in C : contact'[c].anaf = "valid"
      BY <3>1, <3>2, <3>3, ValidatedRows
    <3> QED
      BY <2>4, <3>4
  <2>6. JobInv(j)' /\ Goto(j, s) \in Job
    <3>1. job'[j] = Goto(j, s)
      BY <1>0, <2>2, JobAfter
    <3> QED
      BY <1>0, <2>1, <2>3, <2>5, <3>1, ValidatorMoves, GotoFields
  <2> QED
    BY <1>0, <2>1, <2>2, <2>5, <2>6, WorkerStep
<1>2. CASE ValidateSpread(j)
  <2>1. /\ job[j].step = "spread" /\ UNCHANGED <<delivery, promotions>>
        /\ contact' = [c \in Contacts |->
                         IF c \in Siblings(j) THEN Validated(contact[c], j[2]) ELSE contact[c]]
        /\ job' = [job EXCEPT ![j] = Goto(j, "fan")]
    BY <1>2 DEF ValidateSpread, At
  <2>2. PICK own \in Contacts : /\ own = job[j].contact /\ contact[own].cui = j[2]
                                /\ Found(j[2]) /\ contact[own].anaf = "valid"
                                /\ j[2] \in ChecksumOk
    BY <1>0, <2>1 DEF ValidatorInv, Carries
  <2>3. Siblings(j) \in SUBSET Contacts /\ \A c \in Siblings(j) : contact[c].cui = j[2]
    BY DEF Siblings, Present
  <2>4. /\ contact' \in [Contacts -> Row] /\ RowsGrow /\ (\A c \in Contacts : RowInv(c)')
        /\ (\A i \in Jobs : Undisturbed(i))
        /\ \A c \in Contacts : c \in Siblings(j) => contact'[c].anaf = "valid"
    BY <1>0, <2>1, <2>2, <2>3, ValidatedRows
  <2>5. \A c \in job[j].left : contact'[c].cui = j[2] /\ contact'[c].anaf = "valid"
    <3>1. \A c \in job[j].left : c \in Present /\ contact[c].cui = j[2] /\ c \in Contacts
      BY <1>0, <2>1 DEF ValidatorInv
    <3>2. \A c \in job[j].left : c \in Siblings(j) \/ contact[c].anaf = "valid"
      BY <2>2, <3>1 DEF Siblings
    <3>3. j[2] # Nil
      BY <1>0, ConstantsAssumption
    <3> QED
      BY <2>4, <3>1, <3>2, <3>3 DEF RowsGrow
  <2>6. contact'[own].anaf = "valid"
    BY <2>2, <2>4 DEF RowsGrow
  <2>7. JobInv(j)' /\ Goto(j, "fan") \in Job
    <3>1. job'[j] = Goto(j, "fan")
      BY <1>0, <2>1, JobAfter
    <3> QED
      BY <1>0, <2>1, <2>2, <2>4, <2>5, <2>6, <3>1, ValidatorMoves, GotoFields
  <2> QED
    BY <1>0, <2>1, <2>4, <2>7, WorkerStep
<1> QED
  BY <1>1, <1>2

\* The steps that add promotion jobs.
LEMMA ValidatorPromotes ==
    ASSUME IInv, NEW j \in ValidateJobs, ValidateFan(j) \/ ValidatePromote(j)
    PROVE  IInv'
<1>0. /\ j \in Jobs /\ TypeOK /\ job[j] \in Job /\ ValidatorInv(j) /\ promotions \subseteq Promotions
      /\ job[j].left \subseteq Contacts /\ contact \in [Contacts -> Row]
  <2>1. job[j] \in Job
    BY DEF IInv, Jobs, TypeOK
  <2> QED
    BY <2>1 DEF IInv, Jobs, TypeOK, JobInv, Job
<1>1. UNCHANGED <<contact, delivery>>
  BY DEF ValidateFan, ValidatePromote
<1>2. /\ RowsGrow /\ (\A c \in Contacts : RowInv(c)') /\ (\A i \in Jobs : Undisturbed(i))
      /\ Present' = Present
  BY <1>1, PresentStays, RowsStill
<1>3. CASE ValidateFan(j)
  <2>1. PICK c \in job[j].left : /\ promotions' = promotions \cup {<<"promote", c>>}
                                 /\ job' = [job EXCEPT ![j].left = @ \ {c}]
    BY <1>3 DEF ValidateFan
  <2> DEFINE left == job[j].left \ {c}
  <2> DEFINE r == [job[j] EXCEPT !.left = left]
  <2>2. job[j].step = "fan" /\ job' = [job EXCEPT ![j] = r]
    BY <1>0, <1>3, <2>1 DEF ValidateFan, At, TypeOK
  <2>3. left \subseteq Contacts /\ left \subseteq job[j].left
    BY <1>0
  <2> HIDE DEF left
  <2>4. /\ r \in Job /\ r.step = "fan" /\ r.left = left /\ r.contact = job[j].contact
        /\ r.state = job[j].state
    BY <1>0, <2>2, <2>3 DEF Job
  <2> HIDE DEF r
  <2>5. job'[j] = r
    BY <1>0, <2>2, JobAfter
  <2>6. ValidatorInv(j)'
    BY <1>0, <1>1, <2>2, <2>3, <2>4, <2>5 DEF ValidatorInv, Carries
  <2>7. JobInv(j)'
    BY <1>0, <2>4, <2>5, <2>6, Fresh DEF JobInv
  <2>8. c \in Contacts /\ contact'[c].anaf = "valid"
    BY <1>0, <1>1, <2>2 DEF ValidatorInv
  <2>9. promotions' \subseteq Promotions
    BY <1>0, <2>1, <2>8 DEF Promotions
  <2> QED
    BY <1>0, <1>1, <1>2, <2>1, <2>2, <2>4, <2>7, <2>8, <2>9, WorkerStep
<1>4. CASE ValidatePromote(j)
  <2>1. /\ job[j].step \in {"promote", "fan"} /\ job' = [job EXCEPT ![j] = Done]
        /\ promotions' = promotions \cup {<<"promote", job[j].contact>>}
    BY <1>4 DEF ValidatePromote, At
  <2>2. PICK own \in Contacts : own = job[j].contact /\ contact[own].anaf = "valid"
    BY <1>0, <2>1 DEF ValidatorInv, Carries
  <2>3. promotions' \subseteq Promotions
    BY <1>0, <2>1, <2>2 DEF Promotions
  <2>4. JobInv(j)'
    BY <1>0, <2>1, JobAfter, DoneInv
  <2> QED
    BY <1>0, <1>1, <1>2, <2>1, <2>2, <2>3, <2>4, NoJobType, WorkerStep
<1> QED
  BY <1>3, <1>4

LEMMA ValidatorKeeps ==
    ASSUME IInv, NEW j \in ValidateJobs, Validator(j)
    PROVE  IInv'
  BY ValidatorQuiet, ValidateNotFound, ValidatorWrites, ValidatorPromotes DEF Validator

-----------------------------------------------------------------------------
(* The theorems *)

LEMMA InitInv == Init /\ NamesHaveCuis => IInv
<1> SUFFICES ASSUME Init, NamesHaveCuis PROVE IInv
  OBVIOUS
<1>1. PICK origin \in [Contacts -> Intake] :
        contact = [c \in Contacts |->
                     [source |-> origin[c].source, cui |-> origin[c].cui, reg |-> origin[c].reg,
                      fields |-> origin[c].fields, pending |-> FALSE, enriched |-> "no",
                      checked |-> "no", anaf |-> "no"]]
  BY DEF Init
<1>2. \A c \in Contacts : RowInv(c)
  BY <1>1 DEF RowInv, NamesHaveCuis
<1>3. \A j \in Jobs : JobInv(j)
  BY DEF Init, NoJob, JobInv, NormaliserInv, EnricherInv, ChecksumInv, ValidatorInv
<1>4. PromotedIsValidated
  BY DEF Init, PromotedIsValidated
<1> QED
  BY <1>2, <1>3, <1>4, InitType DEF IInv

LEMMA NextInv == IInv /\ [Next]_vars => IInv'
<1> SUFFICES ASSUME IInv, [Next]_vars PROVE IInv'
  OBVIOUS
<1>1. ASSUME NEW j \in Jobs, Break(j) \/ Forget(j) PROVE IInv'
  BY <1>1, LifeInv
<1>2. CASE Work
  BY <1>2, DeliverInv, NormaliserKeeps, TriggerInv, EnricherKeeps, ChecksumKeeps, ValidatorKeeps
     DEF Work
<1>3. CASE UNCHANGED vars
  <2>1. UNCHANGED <<contact, delivery, job, promotions>>
    BY <1>3 DEF vars
  <2>2. TypeOK' /\ PromotedIsValidated'
    BY <2>1 DEF IInv, TypeOK, PromotedIsValidated
  <2>3. /\ RowsGrow /\ (\A c \in Contacts : RowInv(c)') /\ (\A i \in Jobs : Undisturbed(i))
    BY <2>1, PresentStays, RowsStill
  <2> QED
    BY <2>1, <2>2, <2>3, StepKeeps
<1>4. ASSUME NEW d \in Files, EnrichRequest(d) PROVE IInv'
  BY <1>4, RequestInv
<1> QED
  BY <1>1, <1>2, <1>3, <1>4 DEF Next

LEMMA Invariance == NamesHaveCuis /\ Spec => []IInv
  BY InitInv, NextInv, PTL DEF Spec

\* Every row, delivery, job and promotion keeps its type: no worker stores a
\* register number ANAF did not give, and every job names a contact there is.
\* Contacts of a file with a name must come with a CUI (NamesHaveCuis).
THEOREM TypeCorrect == NamesHaveCuis /\ Spec => []TypeOK
<1>1. IInv => TypeOK
  BY DEF IInv
<1> QED
  BY <1>1, Invariance, PTL

\* For any contacts, files, failures and numbers of workers: only a contact whose own
\* row says "valid" is sent to promotion as a company ANAF knows.
THEOREM PromotionsValidated == NamesHaveCuis /\ Spec => []PromotedIsValidated
<1>1. IInv => PromotedIsValidated
  BY DEF IInv
<1> QED
  BY <1>1, Invariance, PTL

\* For any contacts, files, failures and forgotten jobs: a contact whose CUI fails
\* the checksum is not sent to promotion, whatever ANAF knows of that CUI and whoever
\* else carries it.
THEOREM InvalidKeptOut == NamesHaveCuis /\ Spec => []InvalidStaysOut
<1>1. IInv => InvalidStaysOut
  <2> SUFFICES ASSUME IInv, NEW c \in Contacts, contact[c].checked = "invalid",
                      <<"promote", c>> \in promotions
               PROVE  FALSE
    BY DEF InvalidStaysOut
  <2>1. contact[c].anaf = "valid"
    BY DEF IInv, PromotedIsValidated
  <2>2. contact[c].cui \in ChecksumOk /\ contact[c].cui \notin ChecksumOk
    BY <2>1 DEF IInv, RowInv
  <2> QED
    BY <2>2
<1> QED
  BY <1>1, Invariance, PTL
-----------------------------------------------------------------------------
(* Contacts of webhooks and manual entries.  Nobody waits for B5 on their
   behalf, and their CUI is the one they came with: as long as the normalisers
   and C1 get through, some job is on its way to the checksum until it is done. *)

\* No attempt of a normaliser or of C1 throws.
StepsGoThrough == \A b \in Breaks : b[1] \notin {"normalise", "c1"}

Unsent(c) == delivery[contact[c].source].unsent

Checkable(c) == contact[c].source \in Singles /\ contact[c].cui # Nil

NormaliseWay(q, c) ==
    LET j == <<"normalise", q, c>> IN
    /\ q \in Unsent(c) => job[j].state = "absent"
    /\ Checkable(c) /\ job[j].state = "live" =>
         /\ job[j].step \in {"read", "write", "gate", "hand"}
         /\ job[j].step # "read" => job[j].cui # Nil

\* C1 begins with its verdict.
CheckWay(c) ==
    LET j == <<"c1", c>> IN
    \/ job[j].state = "absent"
    \/ contact[c].checked # "no"
    \/ job[j].state = "live" /\ job[j].step = "check"

Promised(c) ==
    Checkable(c) /\ contact[c].fields # {} /\ contact[c].checked = "no" =>
      \/ \E q \in contact[c].fields : q \in Unsent(c) \/ job[<<"normalise", q, c>>].state = "live"
      \/ job[<<"c1", c>>].state = "live"

Way(c) ==
    /\ contact[c].source \in Singles => ~contact[c].pending
    /\ \A q \in Normalisers : NormaliseWay(q, c)
    /\ CheckWay(c)
    /\ Promised(c)

DeliveryWay(d) ==
    /\ \A c \in delivery[d].picked : contact[c].source = d
    /\ d \in Singles => /\ delivery[d].step \in {"parsing", "normalise", "done"}
                        /\ delivery[d].step = "done" => delivery[d].unsent = {}

WayInv ==
    /\ \A d \in Deliveries : DeliveryWay(d)
    /\ \A c \in Contacts : Way(c)

\* What no step does to a row.
Kept(c) ==
    /\ contact'[c].source = contact[c].source /\ contact'[c].fields = contact[c].fields
    /\ contact[c].source \in Singles =>
         contact'[c].cui = contact[c].cui /\ contact'[c].pending = contact[c].pending
    /\ contact[c].checked # "no" => contact'[c].checked # "no"

LEMMA WayJobs ==
    ASSUME NEW c \in Contacts
    PROVE  /\ \A q \in Normalisers : <<"normalise", q, c>> \in NormaliseJobs
           /\ <<"c1", c>> \in ChecksumJobs
           /\ NormaliseJobs \subseteq Jobs /\ EnrichJobs \subseteq Jobs
           /\ ChecksumJobs \subseteq Jobs /\ ValidateJobs \subseteq Jobs
  BY DEF NormaliseJobs, ChecksumJobs, Jobs

LEMMA WayTypes ==
    ASSUME IInv, NEW c \in Contacts
    PROVE  /\ contact[c] \in Row /\ contact[c].source \in Deliveries
           /\ contact[c].fields \subseteq Normalisers
           /\ contact[c].cui \in MaybeCui /\ contact[c].pending \in BOOLEAN
  BY DEF IInv, TypeOK, Row

\* A contact whose jobs and whose row are left alone.
LEMMA WayStays ==
    ASSUME IInv, NEW c \in Contacts, Way(c), Kept(c), Unsent(c)' = Unsent(c),
           \A q \in Normalisers : job'[<<"normalise", q, c>>] = job[<<"normalise", q, c>>],
           job'[<<"c1", c>>] = job[<<"c1", c>>]
    PROVE  Way(c)'
<1>0. contact[c].fields \subseteq Normalisers
  BY WayTypes
<1>1. Checkable(c)' = Checkable(c)
  BY DEF Checkable, Kept
<1>2. \A q \in Normalisers : NormaliseWay(q, c)'
  BY <1>1 DEF Way, NormaliseWay
<1>3. CheckWay(c)'
  BY DEF Way, CheckWay, Kept
<1>4. Promised(c)'
  BY <1>0, <1>1 DEF Way, Promised, Kept
<1> QED
  BY <1>2, <1>3, <1>4 DEF Way, Kept

\* One normalisation job or the C1 job of the contact changes, or both do.
LEMMA WayMoves ==
    ASSUME IInv, NEW c \in Contacts, NEW q \in Normalisers, Way(c), Kept(c),
           Unsent(c)' \subseteq Unsent(c),
           \A p \in Normalisers \ {q} :
             job'[<<"normalise", p, c>>] = job[<<"normalise", p, c>>]
             /\ (p \in Unsent(c) => p \in Unsent(c)'),
           NormaliseWay(q, c)', CheckWay(c)',
           job[<<"c1", c>>].state = "live" /\ contact'[c].checked = "no" =>
             job'[<<"c1", c>>].state = "live",
           (/\ Checkable(c) /\ q \in contact[c].fields /\ contact'[c].checked = "no"
            /\ q \in Unsent(c) \/ job[<<"normalise", q, c>>].state = "live")
             => \/ q \in Unsent(c)' \/ job'[<<"normalise", q, c>>].state = "live"
                \/ job'[<<"c1", c>>].state = "live"
    PROVE  Way(c)'
<1>0. contact[c].fields \subseteq Normalisers
  BY WayTypes
<1>1. Checkable(c)' = Checkable(c)
  BY DEF Checkable, Kept
<1>2. ASSUME NEW p \in Normalisers PROVE NormaliseWay(p, c)'
  BY <1>1, <1>2 DEF Way, NormaliseWay
<1>3. Promised(c)'
  <2> SUFFICES ASSUME Checkable(c), contact[c].fields # {}, contact'[c].checked = "no"
               PROVE  \/ \E p \in contact[c].fields :
                           p \in Unsent(c)' \/ job'[<<"normalise", p, c>>].state = "live"
                      \/ job'[<<"c1", c>>].state = "live"
    BY <1>1 DEF Promised, Kept
  <2>1. contact[c].checked = "no"
    BY DEF Kept
  <2>2. CASE job[<<"c1", c>>].state = "live"
    BY <2>2
  <2>3. ASSUME NEW p \in contact[c].fields,
               p \in Unsent(c) \/ job[<<"normalise", p, c>>].state = "live"
        PROVE  \/ p \in Unsent(c)' \/ job'[<<"normalise", p, c>>].state = "live"
               \/ job'[<<"c1", c>>].state = "live"
    BY <1>0, <2>3
  <2> QED
    BY <2>1, <2>2, <2>3 DEF Way, Promised
<1> QED
  BY <1>2, <1>3 DEF Way, Kept

LEMMA DeliveriesStay ==
    ASSUME IInv, NEW d \in Deliveries, DeliveryWay(d), delivery'[d] = delivery[d],
           \A c \in Contacts : Kept(c)
    PROVE  DeliveryWay(d)'
<1>1. delivery[d].picked \subseteq Contacts
  BY DEF IInv, TypeOK, Delivery
<1> QED
  BY <1>1 DEF DeliveryWay, Kept

\* Which contact's way a job is on.
OnWay(j, c) == (j \in NormaliseJobs /\ j[3] = c) \/ j = <<"c1", c>>

\* A step of a worker.
LEMMA WayWorker ==
    ASSUME IInv, WayInv, UNCHANGED delivery, \A c \in Contacts : Kept(c),
           NEW M, \A k \in Jobs \ M : job'[k] = job[k],
           \A c \in Contacts : (\E k \in M : OnWay(k, c)) => Way(c)'
    PROVE  WayInv'
<1>1. ASSUME NEW c \in Contacts, \A k \in M : ~OnWay(k, c)
      PROVE  Way(c)'
  <2>1. \A q \in Normalisers : OnWay(<<"normalise", q, c>>, c)
    BY WayJobs DEF OnWay
  <2>2. OnWay(<<"c1", c>>, c)
    BY DEF OnWay
  <2>3. \A q \in Normalisers : job'[<<"normalise", q, c>>] = job[<<"normalise", q, c>>]
    BY <1>1, <2>1, WayJobs
  <2>4. job'[<<"c1", c>>] = job[<<"c1", c>>]
    BY <1>1, <2>2, WayJobs
  <2>5. Unsent(c)' = Unsent(c)
    BY DEF Unsent, Kept
  <2> QED
    BY <2>3, <2>4, <2>5, WayStays DEF WayInv
<1>2. \A d \in Deliveries : DeliveryWay(d)'
  BY DeliveriesStay DEF WayInv
<1> QED
  BY <1>1, <1>2 DEF WayInv

\* A step of a job of B5 or C2.
LEMMA WayBeside ==
    ASSUME IInv, WayInv, NEW j \in EnrichJobs \cup ValidateJobs, UNCHANGED delivery,
           \A c \in Contacts : Kept(c), \A k \in Jobs \ {j} : job'[k] = job[k]
    PROVE  WayInv'
<1>1. j \in Jobs /\ \A c \in Contacts : ~OnWay(j, c)
  <2>1. j \in Jobs
    BY DEF Jobs
  <2>2. j \notin NormaliseJobs \cup ChecksumJobs
    BY <2>1, Fresh
  <2> QED
    BY <2>1, <2>2, WayJobs DEF OnWay
<1> DEFINE M == {j}
<1>2. \A k \in Jobs \ M : job'[k] = job[k]
  OBVIOUS
<1>3. \A k \in M, c \in Contacts : ~OnWay(k, c)
  BY <1>1
<1> HIDE DEF M
<1> QED
  BY <1>2, <1>3, WayWorker

\* A row that is left alone, or where only columns change that nobody waits for.
LEMMA RowsKept ==
    ASSUME UNCHANGED contact
    PROVE  \A c \in Contacts : Kept(c)
  BY DEF Kept

\* What is known of a delivery that moves on without dispatching.
LEMMA WayDelivery ==
    ASSUME IInv, WayInv, NEW d \in Deliveries, NEW to, delivery' = [delivery EXCEPT ![d] = to],
           to.unsent = delivery[d].unsent, \A c \in Contacts : Kept(c),
           \A c \in to.picked : c \in Contacts /\ contact[c].source = d,
           d \in Singles => to.step = "normalise",
           \A k \in Jobs : k \notin EnrichJobs => job'[k] = job[k]
    PROVE  WayInv'
<1>1. delivery'[d] = to /\ \A e \in Deliveries \ {d} : delivery'[e] = delivery[e]
  BY DEF IInv, TypeOK
<1>2. DeliveryWay(d)'
  BY <1>1 DEF DeliveryWay, Kept
<1>3. \A e \in Deliveries : DeliveryWay(e)'
  BY <1>1, <1>2, DeliveriesStay DEF WayInv
<1>4. ASSUME NEW c \in Contacts PROVE Way(c)'
  <2>1. Unsent(c)' = Unsent(c)
    BY <1>1, WayTypes DEF Unsent, Kept
  <2>2. \A k \in NormaliseJobs \cup ChecksumJobs : job'[k] = job[k]
    BY Fresh DEF Jobs
  <2> QED
    BY <2>1, <2>2, WayJobs, WayStays DEF WayInv
<1> QED
  BY <1>3, <1>4 DEF WayInv

LEMMA WayDispatch ==
    ASSUME IInv, WayInv, NEW d \in Deliveries, NEW q \in Normalisers, Dispatch(d, q)
    PROVE  WayInv'
<1>0. TypeOK /\ delivery[d] \in Delivery /\ UNCHANGED contact
  BY DEF IInv, TypeOK, Dispatch
<1> DEFINE step == IF delivery[d].unsent # {q} THEN "normalise"
                   ELSE IF d \in Files THEN "select" ELSE "done"
           unsent == delivery[d].unsent \ {q}
           to == [delivery[d] EXCEPT !.unsent = unsent, !.step = step]
<1>1. /\ q \in delivery[d].unsent /\ delivery[d].step = "normalise"
      /\ delivery' = [delivery EXCEPT ![d] = to]
      /\ job' = [j \in Jobs |-> IF j \in {"normalise"} \X {q} \X Of(d)
                                THEN Added(j, NoJob) ELSE job[j]]
  BY DEF Dispatch, DeliveryStep
<1>2. to.unsent = unsent /\ to.step = step /\ to.picked = delivery[d].picked
  BY <1>0 DEF Delivery
<1>3. d \in Singles => step \in {"normalise", "done"} /\ (step = "done" => unsent = {})
  BY ConstantsAssumption
<1> HIDE DEF to, step, unsent
<1>4. delivery'[d] = to /\ \A e \in Deliveries \ {d} : delivery'[e] = delivery[e]
  BY <1>0, <1>1 DEF TypeOK
<1>5. \A c \in Contacts : Kept(c)
  BY <1>0, RowsKept
<1>6. DeliveryWay(d)'
  BY <1>0, <1>2, <1>3, <1>4 DEF DeliveryWay, WayInv
<1>7. \A e \in Deliveries : DeliveryWay(e)'
  BY <1>4, <1>5, <1>6, DeliveriesStay DEF WayInv
<1>8. ASSUME NEW c \in Contacts, contact[c].source # d PROVE Way(c)'
  <2>1. Unsent(c)' = Unsent(c)
    BY <1>0, <1>4, <1>8, WayTypes DEF Unsent
  <2>2. \A p \in Normalisers : job'[<<"normalise", p, c>>] = job[<<"normalise", p, c>>]
    BY <1>1, <1>8, WayJobs DEF Of
  <2>3. job'[<<"c1", c>>] = job[<<"c1", c>>]
    BY <1>1, WayJobs
  <2> QED
    BY <1>5, <2>1, <2>2, <2>3, WayStays DEF WayInv
<1>9. ASSUME NEW c \in Contacts, contact[c].source = d PROVE Way(c)'
  <2> DEFINE j == <<"normalise", q, c>>
  <2>1. Unsent(c)' = Unsent(c) \ {q} /\ q \in Unsent(c)
    BY <1>0, <1>1, <1>2, <1>4, <1>9 DEF Unsent, unsent
  <2>2. j \in NormaliseJobs /\ j \in Jobs /\ c \in Of(d) /\ j[1] = "normalise"
    BY <1>9, WayJobs DEF Of
  <2>3. job[j].state = "absent" /\ Way(c)
    BY <2>1 DEF WayInv, Way, NormaliseWay
  <2>4. job'[j] = [NoJob EXCEPT !.state = "live", !.step = FirstStep[j[1]]]
    BY <1>1, <2>2, <2>3 DEF Added
  <2>5. job'[j].state = "live" /\ job'[j].step = "read"
    BY <2>2, <2>4, Fresh DEF NoJob
  <2>6. NormaliseWay(q, c)'
    BY <2>1, <2>5 DEF NormaliseWay
  <2>7. \A p \in Normalisers \ {q} : job'[<<"normalise", p, c>>] = job[<<"normalise", p, c>>]
    BY <1>1, WayJobs
  <2>8. job'[<<"c1", c>>] = job[<<"c1", c>>]
    BY <1>1, WayJobs
  <2>9. CheckWay(c)'
    BY <1>0, <2>3, <2>8 DEF CheckWay, Way
  <2>10. job'[<<"normalise", q, c>>].state = "live"
    BY <2>5
  <2> HIDE DEF j
  <2>11. \A p \in Normalisers \ {q} :
            /\ job'[<<"normalise", p, c>>] = job[<<"normalise", p, c>>]
            /\ p \in Unsent(c) => p \in Unsent(c)'
    BY <2>1, <2>7
  <2>12. Unsent(c)' \subseteq Unsent(c) /\ Kept(c)
    BY <1>5, <2>1
  <2> QED
    BY <2>3, <2>6, <2>8, <2>9, <2>10, <2>11, <2>12, WayMoves
<1> QED
  BY <1>7, <1>8, <1>9 DEF WayInv

LEMMA WayDeliver ==
    ASSUME IInv, WayInv, NEW d \in Deliveries, Deliver(d)
    PROVE  WayInv'
<1>0. /\ TypeOK /\ delivery[d] \in Delivery /\ DeliveryWay(d) /\ (d \in Singles => d \notin Files)
      /\ \A c \in Contacts : contact[c] \in Row
  BY ConstantsAssumption DEF IInv, TypeOK, WayInv
<1>00. delivery[d].picked \subseteq Contacts
  BY <1>0 DEF Delivery
<1>1. ASSUME NEW q \in Normalisers, Dispatch(d, q) PROVE WayInv'
  BY <1>1, WayDispatch
<1>2. CASE Insert(d)
  <2> DEFINE to == [delivery[d] EXCEPT !.step = "normalise"]
  <2>1. delivery' = [delivery EXCEPT ![d] = to] /\ UNCHANGED <<contact, job>>
    BY <1>2 DEF Insert, DeliveryStep
  <2>2. to.unsent = delivery[d].unsent /\ to.picked = delivery[d].picked /\ to.step = "normalise"
    BY <1>0 DEF Delivery
  <2> HIDE DEF to
  <2>3. \A c \in to.picked : c \in Contacts /\ contact[c].source = d
    BY <1>0, <1>00, <2>2 DEF DeliveryWay
  <2> QED
    BY <2>1, <2>2, <2>3, RowsKept, WayDelivery
<1>3. CASE Refuse(d)
  <2> DEFINE to == [delivery[d] EXCEPT !.step = "done"]
  <2>1. delivery' = [delivery EXCEPT ![d] = to] /\ UNCHANGED <<contact, job>> /\ d \in Files
    BY <1>3 DEF Refuse, Refused, DeliveryStep
  <2>2. to.unsent = delivery[d].unsent /\ to.picked = delivery[d].picked
    BY <1>0 DEF Delivery
  <2> HIDE DEF to
  <2>3. \A c \in to.picked : c \in Contacts /\ contact[c].source = d
    BY <1>0, <1>00, <2>2 DEF DeliveryWay
  <2> QED
    BY <1>0, <2>1, <2>2, <2>3, RowsKept, WayDelivery
<1>4. CASE SelectCuis(d)
  <2> DEFINE found == {c \in Of(d) : contact[c].cui # Nil}
             step == IF found = {} THEN "done" ELSE "mark"
             cuis == {contact[c].cui : c \in found}
             to == [delivery[d] EXCEPT !.step = step, !.picked = found, !.cuis = cuis]
  <2>1. /\ delivery' = [delivery EXCEPT ![d] = to] /\ UNCHANGED <<contact, job>>
        /\ delivery[d].step = "select"
    BY <1>4 DEF SelectCuis, DeliveryStep
  <2>2. \A c \in found : c \in Contacts /\ contact[c].source = d
    BY DEF Of
  <2> HIDE DEF found, step, cuis
  <2>3. to.unsent = delivery[d].unsent /\ to.picked = found
    BY <1>0 DEF Delivery
  <2> HIDE DEF to
  <2>4. d \notin Singles
    BY <1>0, <2>1 DEF DeliveryWay
  <2> QED
    BY <2>1, <2>2, <2>3, <2>4, RowsKept, WayDelivery
<1>5. CASE SelectRegs(d)
  <2> DEFINE found == {c \in Of(d) : contact[c].cui = Nil /\ contact[c].reg # Nil}
             to == [delivery[d] EXCEPT !.step = "mark_reg", !.picked = found]
  <2>1. /\ delivery' = [delivery EXCEPT ![d] = to] /\ UNCHANGED <<contact, job>>
        /\ delivery[d].step = "select_reg"
    BY <1>5 DEF SelectRegs, DeliveryStep
  <2>2. \A c \in found : c \in Contacts /\ contact[c].source = d
    BY DEF Of
  <2> HIDE DEF found
  <2>3. to.unsent = delivery[d].unsent /\ to.picked = found
    BY <1>0 DEF Delivery
  <2> HIDE DEF to
  <2>4. d \notin Singles
    BY <1>0, <2>1 DEF DeliveryWay
  <2> QED
    BY <2>1, <2>2, <2>3, <2>4, RowsKept, WayDelivery
<1>6. CASE MarkPending(d)
  <2>1. PICK step \in {"select_reg", "enqueue"} :
          delivery' = [delivery EXCEPT ![d] = [delivery[d] EXCEPT !.step = step]]
    BY <1>6 DEF MarkPending, DeliveryStep
  <2> DEFINE to == [delivery[d] EXCEPT !.step = step]
  <2>2. /\ delivery[d].step \in {"mark", "mark_reg"} /\ UNCHANGED job
        /\ contact' = [c \in Contacts |->
                         [contact[c] EXCEPT !.pending = @ \/ c \in delivery[d].picked]]
    BY <1>6 DEF MarkPending, DeliveryStep
  <2>3. d \notin Singles
    BY <1>0, <2>2 DEF DeliveryWay
  <2>4. to.unsent = delivery[d].unsent /\ to.picked = delivery[d].picked
    BY <1>0 DEF Delivery
  <2>5. \A c \in delivery[d].picked : c \in Contacts /\ contact[c].source = d
    BY <1>0, <1>00 DEF DeliveryWay
  <2>6. \A c \in Contacts : Kept(c)
    BY <1>0, <2>2, <2>3, <2>5 DEF Kept, Row
  <2>7. delivery' = [delivery EXCEPT ![d] = to]
    BY <2>1
  <2> HIDE DEF to
  <2> QED
    BY <2>2, <2>3, <2>4, <2>5, <2>6, <2>7, WayDelivery
<1>7. CASE EnqueueEnrich(d)
  <2> DEFINE to == [delivery[d] EXCEPT !.step = "done"]
  <2>1. /\ delivery' = [delivery EXCEPT ![d] = to] /\ UNCHANGED contact
        /\ delivery[d].step = "enqueue"
    BY <1>7 DEF EnqueueEnrich, DeliveryStep
  <2>2. to.unsent = delivery[d].unsent /\ to.picked = delivery[d].picked
    BY <1>0 DEF Delivery
  <2> HIDE DEF to
  <2>3. \A c \in to.picked : c \in Contacts /\ contact[c].source = d
    BY <1>0, <1>00, <2>2 DEF DeliveryWay
  <2>4. d \notin Singles /\ d \in Files
    BY <1>0, <2>1 DEF DeliveryWay, Deliveries
  <2>5. \A k \in Jobs : k \notin EnrichJobs => job'[k] = job[k]
    BY <1>0, <1>7, <2>4 DEF EnqueueEnrich, TypeOK, EnrichJobs
  <2> QED
    BY <2>1, <2>2, <2>3, <2>4, <2>5, RowsKept, WayDelivery
<1> QED
  BY <1>1, <1>2, <1>3, <1>4, <1>5, <1>6, <1>7 DEF Deliver

LEMMA WayRequest ==
    ASSUME IInv, WayInv, NEW d \in Files, EnrichRequest(d)
    PROVE  WayInv'
<1>0. d \in Deliveries /\ d \notin Singles /\ delivery[d] \in Delivery
  BY ConstantsAssumption DEF IInv, TypeOK, Deliveries
<1> DEFINE coded == {c \in {k \in Of(d) : ~contact[k].pending} : contact[c].cui # Nil}
           cuis == {contact[c].cui : c \in coded}
           to == [delivery[d] EXCEPT !.step = "mark", !.picked = coded, !.cuis = cuis]
<1>1. delivery' = [delivery EXCEPT ![d] = to] /\ UNCHANGED <<contact, job>>
  BY DEF EnrichRequest, DeliveryStep
<1>2. \A c \in coded : c \in Contacts /\ contact[c].source = d
  BY DEF Of
<1> HIDE DEF coded, cuis
<1>3. to.unsent = delivery[d].unsent /\ to.picked = coded
  BY <1>0 DEF Delivery
<1> HIDE DEF to
<1> QED
  BY <1>0, <1>1, <1>2, <1>3, RowsKept, WayDelivery

\* A normalisation job of the contact moves on, ends or is forgotten.
LEMMA WayNormalise ==
    ASSUME IInv, WayInv, NEW q \in Normalisers, NEW c \in Contacts,
           NEW j \in NormaliseJobs, j = <<"normalise", q, c>>,
           UNCHANGED delivery, \A k \in Contacts : Kept(k),
           \A k \in Jobs \ {j} : job'[k] = job[k], job[j].state # "absent",
           Checkable(c) /\ job'[j].state = "live" =>
             /\ job'[j].step \in {"read", "write", "gate", "hand"}
             /\ job'[j].step # "read" => job'[j].cui # Nil,
           Checkable(c) /\ q \in contact[c].fields /\ contact'[c].checked = "no"
             /\ job[j].state = "live" => job'[j].state = "live"
    PROVE  WayInv'
<1>1. Way(c) /\ Unsent(c)' = Unsent(c) /\ Kept(c) /\ Checkable(c)' = Checkable(c)
  BY DEF WayInv, Unsent, Kept, Checkable
<1>2. q \notin Unsent(c)
  BY <1>1 DEF Way, NormaliseWay
<1>3. NormaliseWay(q, c)'
  BY <1>1, <1>2 DEF NormaliseWay
<1>4. /\ \A p \in Normalisers \ {q} : <<"normalise", p, c>> \in Jobs \ {j}
      /\ <<"c1", c>> \in Jobs \ {j}
  <2>1. \A p \in Normalisers \ {q} : <<"normalise", p, c>> # j
    OBVIOUS
  <2>2. j[1] = "normalise" /\ <<"c1", c>>[1] = "c1"
    OBVIOUS
  <2> QED
    BY <2>1, <2>2, WayJobs
<1>5. job'[<<"c1", c>>] = job[<<"c1", c>>]
  BY <1>4
<1>6. CheckWay(c)'
  BY <1>1, <1>5 DEF Way, CheckWay, Kept
<1>7. Unsent(c)' \subseteq Unsent(c)
  BY <1>1
<1>8. \A p \in Normalisers \ {q} :
         /\ job'[<<"normalise", p, c>>] = job[<<"normalise", p, c>>]
         /\ p \in Unsent(c) => p \in Unsent(c)'
  BY <1>1, <1>4
<1>9. Way(c)'
  BY <1>1, <1>2, <1>3, <1>5, <1>6, <1>7, <1>8, WayMoves
<1> DEFINE M == {j}
<1>10. \A k \in M, x \in Contacts : OnWay(k, x) => x = c
  BY Fresh DEF OnWay
<1>11. \A k \in Jobs \ M : job'[k] = job[k]
  OBVIOUS
<1> HIDE DEF M
<1> QED
  BY <1>9, <1>10, <1>11, WayWorker

LEMMA WayNormaliser ==
    ASSUME IInv, WayInv, NEW j \in NormaliseJobs, Normaliser(j)
    PROVE  WayInv'
<1>1. PICK q \in Normalisers, c \in Contacts : j = <<"normalise", q, c>>
  BY DEF NormaliseJobs
<1>2. /\ j \in Jobs /\ j[2] = q /\ j[3] = c /\ job[j] \in Job /\ TypeOK /\ Way(c)
      /\ contact[c] \in Row
  BY <1>1 DEF Jobs, IInv, TypeOK, WayInv
<1>3. NormaliserInv(j)
  BY <1>2 DEF IInv, JobInv
<1>4. CASE NormaliseRead(j)
  <2> DEFINE r == [job[j] EXCEPT !.step = "write", !.cui = contact[c].cui, !.reg = contact[c].reg]
  <2>1. /\ UNCHANGED <<contact, delivery>> /\ job[j].state = "live"
        /\ \/ q \in contact[c].fields /\ job' = [job EXCEPT ![j] = r]
           \/ q \notin contact[c].fields /\ job' = [job EXCEPT ![j] = Done]
    BY <1>2, <1>4 DEF NormaliseRead, At
  <2>2. r.state = "live" /\ r.step = "write" /\ r.cui = contact[c].cui
    BY <1>2, <2>1 DEF Job
  <2> HIDE DEF r
  <2>3. \A k \in Jobs \ {j} : job'[k] = job[k]
    BY <1>2, <2>1 DEF TypeOK
  <2>4. \/ q \in contact[c].fields /\ job'[j] = r
        \/ q \notin contact[c].fields /\ job'[j] = Done
    BY <1>2, <2>1, JobAfter
  <2>5. Done.state # "live"
    BY DEF Done, NoJob
  <2> QED
    BY <1>1, <2>1, <2>2, <2>3, <2>4, <2>5, RowsKept, WayNormalise DEF Checkable
<1>5. CASE NormaliseWrite(j)
  <2>1. /\ UNCHANGED delivery /\ job[j].state = "live" /\ job[j].step = "write"
        /\ job' = [job EXCEPT ![j] = Goto(j, "gate")]
        /\ contact' = [contact EXCEPT ![c].cui = IF q = "name" THEN job[j].cui ELSE @]
    BY <1>2, <1>5 DEF NormaliseWrite, At
  <2>2. q = "name" => job[j].cui = contact[c].cui
    BY <1>2, <1>3, <2>1 DEF NormaliserInv
  <2>3. UNCHANGED contact
    BY <1>2, <2>1, <2>2 DEF TypeOK, Row
  <2>4. job'[j].step = "gate" /\ job'[j].state = "live" /\ job'[j].cui = job[j].cui
    <3>1. job'[j] = Goto(j, "gate") /\ "gate" \in Steps
      BY <1>2, <2>1, JobAfter DEF Steps
    <3> QED
      BY <1>2, <2>1, <3>1, GotoFields
  <2>5. Checkable(c) => job[j].cui # Nil
    BY <1>1, <1>2, <2>1 DEF Way, NormaliseWay
  <2>6. \A k \in Jobs \ {j} : job'[k] = job[k]
    BY <1>2, <2>1 DEF TypeOK
  <2> QED
    BY <1>1, <2>1, <2>3, <2>4, <2>5, <2>6, RowsKept, WayNormalise
<1> QED
  BY <1>4, <1>5 DEF Normaliser

\* The steps of the trigger that add no job.
LEMMA WayGate ==
    ASSUME IInv, WayInv, NEW j \in NormaliseJobs \cup EnrichJobs, Gate(j) \/ SkipChecks(j)
    PROVE  WayInv'
<1>0. /\ j \in Jobs /\ TypeOK /\ UNCHANGED delivery /\ job[j].step \in {"gate", "skip"}
      /\ job[j].state = "live"
  BY DEF IInv, Jobs, Gate, SkipChecks, At
<1>1. PICK c \in Contacts : c = Subject(j)
  BY <1>0, SubjectInv
<1>2. contact[c] \in Row /\ Way(c)
  BY DEF IInv, TypeOK, WayInv
<1>3. \/ UNCHANGED contact
      \/ contact' = [contact EXCEPT ![c].checked = "skipped"]
  BY <1>1 DEF Gate, SkipChecks
<1>4. \A k \in Contacts : Kept(k)
  <2>1. CASE UNCHANGED contact
    BY <2>1, RowsKept
  <2>2. CASE contact' = [contact EXCEPT ![c].checked = "skipped"]
    BY <1>0, <2>2 DEF TypeOK, Row, Kept
  <2> QED
    BY <1>3, <2>1, <2>2
<1>5. PICK r : job' = [job EXCEPT ![j] = r]
  BY DEF Gate, SkipChecks
<1>6. job'[j] = r /\ \A k \in Jobs \ {j} : job'[k] = job[k]
  BY <1>0, <1>5 DEF TypeOK
<1>7. CASE j \in EnrichJobs
  BY <1>0, <1>4, <1>6, <1>7, WayBeside
<1>8. CASE j \in NormaliseJobs
  <2>1. PICK q \in Normalisers, s \in Contacts : j = <<"normalise", q, s>>
    BY <1>8 DEF NormaliseJobs
  <2>2. s = c
    BY <1>1, <2>1 DEF Subject
  <2>3. NormaliseWay(q, c)
    BY <1>2 DEF Way
  <2>4. Checkable(c) => /\ job[j].step = "gate" /\ job[j].cui # Nil /\ ~contact[c].pending
    BY <1>0, <1>2, <2>1, <2>2, <2>3 DEF NormaliseWay, Way, Checkable
  <2>5. Checkable(c) => /\ job'[j].state = "live" /\ job'[j].step = "hand"
                        /\ job'[j].cui # Nil
    <3> SUFFICES ASSUME Checkable(c)
                 PROVE  job'[j].state = "live" /\ job'[j].step = "hand" /\ job'[j].cui # Nil
      OBVIOUS
    <3>1. job' = [job EXCEPT ![j] = Goto(j, "hand")]
      BY <1>1, <2>4 DEF Gate, SkipChecks, At
    <3>2. job'[j] = Goto(j, "hand")
      BY <1>0, <3>1, JobAfter
    <3> QED
      BY <1>0, <2>4, <3>2, GotoFields DEF Steps
  <2> QED
    BY <1>0, <1>4, <1>6, <1>8, <2>1, <2>2, <2>5, WayNormalise
<1> QED
  BY <1>7, <1>8

\* Only the C1 job of the contact changes.
LEMMA WayChecks ==
    ASSUME IInv, NEW c \in Contacts, Way(c), Kept(c), Unsent(c)' = Unsent(c),
           \A q \in Normalisers : job'[<<"normalise", q, c>>] = job[<<"normalise", q, c>>],
           CheckWay(c)',
           job[<<"c1", c>>].state = "live" /\ contact'[c].checked = "no" =>
             job'[<<"c1", c>>].state = "live"
    PROVE  Way(c)'
<1>0. contact[c].fields \subseteq Normalisers
  BY WayTypes
<1>1. Checkable(c)' = Checkable(c)
  BY DEF Checkable, Kept
<1>2. \A q \in Normalisers : NormaliseWay(q, c)'
  BY <1>1 DEF Way, NormaliseWay
<1>4. Promised(c)'
  BY <1>0, <1>1 DEF Way, Promised, Kept
<1> QED
  BY <1>2, <1>4 DEF Way, Kept

\* C1 is added for the contact, unless BullMQ holds a job that has begun or done it.
LEMMA WayAdded ==
    ASSUME IInv, NEW c \in Contacts, Way(c), UNCHANGED contact, NEW p \in Job,
           job'[<<"c1", c>>] = Added(<<"c1", c>>, p)
    PROVE  /\ CheckWay(c)'
           /\ contact[c].checked = "no" => job'[<<"c1", c>>].state = "live"
           /\ job[<<"c1", c>>].state = "live" => job'[<<"c1", c>>].state = "live"
<1> DEFINE j == <<"c1", c>>
<1>1. j \in Jobs /\ j \in ChecksumJobs
  BY WayJobs
<1>2. CASE job[j].state = "absent"
  <2>1. job'[j] = [p EXCEPT !.state = "live", !.step = FirstStep[j[1]]]
    BY <1>2 DEF Added
  <2>2. FirstStep[j[1]] = "check"
    BY <1>1, Fresh
  <2>3. job'[j].state = "live" /\ job'[j].step = "check"
    BY <2>1, <2>2 DEF Job
  <2> QED
    BY <1>2, <2>3 DEF CheckWay
<1>3. CASE job[j].state # "absent"
  BY <1>3 DEF Added, Way, CheckWay
<1> QED
  BY <1>2, <1>3

LEMMA WayHand ==
    ASSUME IInv, WayInv, NEW j \in NormaliseJobs \cup EnrichJobs, Hand(j)
    PROVE  WayInv'
<1>0. /\ j \in Jobs /\ TypeOK /\ UNCHANGED <<contact, delivery>> /\ job[j].step = "hand"
      /\ job[j].state = "live" /\ job[j] \in Job
  BY DEF IInv, Jobs, Hand, At, TypeOK
<1>1. PICK c \in Contacts : c = Subject(j)
  BY <1>0, SubjectInv
<1>2. PICK check \in ChecksumJobs : check = <<"c1", c>>
  BY DEF ChecksumJobs
<1>3. check \in Jobs /\ check # j
  BY <1>0, <1>2, WayJobs, Fresh
<1>4. Way(c) /\ (\A k \in Contacts : Kept(k)) /\ Unsent(c)' = Unsent(c)
  BY <1>0, RowsKept DEF WayInv, Unsent
<1> DEFINE payload == [NoJob EXCEPT !.cui = job[j].cui]
<1>5. payload \in Job
  <2>1. job[j].cui \in MaybeCui
    BY <1>0 DEF Job
  <2> QED
    BY <2>1, NoJobType, JobChanged
<1>6. \/ /\ job[j].cui # Nil
         /\ job' = [job EXCEPT ![j] = Caller(j), ![check] = Added(check, payload)]
      \/ job[j].cui = Nil /\ job' = [job EXCEPT ![j] = Caller(j)]
  BY <1>1, <1>2 DEF Hand
<1> HIDE DEF payload
<1>7. /\ job[j].cui # Nil => job'[check] = Added(check, payload)
      /\ job[j].cui = Nil => job'[check] = job[check]
      /\ job'[j] = Caller(j) /\ \A k \in Jobs \ {j, check} : job'[k] = job[k]
  BY <1>0, <1>3, <1>6 DEF TypeOK
<1>8. /\ CheckWay(c)'
      /\ job[check].state = "live" => job'[check].state = "live"
      /\ job[j].cui # Nil /\ contact[c].checked = "no" => job'[check].state = "live"
  <2>1. CASE job[j].cui # Nil
    BY <1>0, <1>2, <1>4, <1>5, <1>7, <2>1, WayAdded
  <2>2. CASE job[j].cui = Nil
    BY <1>0, <1>2, <1>4, <1>7, <2>2 DEF Way, CheckWay
  <2> QED
    BY <2>1, <2>2
<1>9. Way(c)'
  <2>1. CASE j \in EnrichJobs
    <3>1. \A q \in Normalisers : <<"normalise", q, c>> \in Jobs \ {j, check}
      BY <1>0, <1>3, <1>2, <2>1, WayJobs, Fresh
    <3> QED
      BY <1>2, <1>4, <1>7, <1>8, <3>1, WayChecks
  <2>2. CASE j \in NormaliseJobs
    <3>1. PICK q \in Normalisers : j = <<"normalise", q, c>>
      BY <1>1, <2>2 DEF NormaliseJobs, Subject
    <3>2. \A p \in Normalisers \ {q} : <<"normalise", p, c>> \in Jobs \ {j, check}
      <4>1. \A p \in Normalisers \ {q} : <<"normalise", p, c>> # j
        BY <3>1
      <4> QED
        BY <1>2, <4>1, WayJobs, Fresh
    <3>3. \A p \in Normalisers \ {q} :
             /\ job'[<<"normalise", p, c>>] = job[<<"normalise", p, c>>]
             /\ p \in Unsent(c) => p \in Unsent(c)'
      BY <1>4, <1>7, <3>2
    <3>4. q \notin Unsent(c) /\ (Checkable(c) => job[j].cui # Nil)
      BY <1>0, <1>4, <3>1 DEF Way, NormaliseWay
    <3>5. job'[j].state # "live"
      BY <1>7, <3>1 DEF Caller, Done, NoJob
    <3>6. NormaliseWay(q, c)'
      BY <1>4, <3>1, <3>4, <3>5 DEF NormaliseWay
    <3>7. Unsent(c)' \subseteq Unsent(c) /\ Kept(c)
      BY <1>4
    <3>8. job[<<"c1", c>>].state = "live" => job'[<<"c1", c>>].state = "live"
      BY <1>2, <1>8
    <3>9. Checkable(c) /\ contact'[c].checked = "no" => job'[<<"c1", c>>].state = "live"
      BY <1>0, <1>2, <1>8, <3>4
    <3> QED
      BY <1>4, <1>8, <3>3, <3>6, <3>7, <3>8, <3>9, WayMoves
  <2> QED
    BY <2>1, <2>2
<1> DEFINE M == {j, check}
<1>10. \A k \in M, x \in Contacts : OnWay(k, x) => x = c
  BY <1>0, <1>1, <1>2, <1>3, Fresh DEF OnWay, Subject, NormaliseJobs
<1>11. \A k \in Jobs \ M : job'[k] = job[k]
  BY <1>7
<1> HIDE DEF M
<1> QED
  BY <1>0, <1>4, <1>9, <1>10, <1>11, WayWorker

LEMMA WayChecksum ==
    ASSUME IInv, WayInv, NEW j \in ChecksumJobs, Checksum(j)
    PROVE  WayInv'
<1>1. PICK c \in Contacts : j = <<"c1", c>>
  BY DEF ChecksumJobs
<1>2. /\ j \in Jobs /\ j[2] = c /\ TypeOK /\ contact[c] \in Row /\ Way(c) /\ UNCHANGED delivery
      /\ ChecksumInv(j) /\ job[j].state = "live" /\ job[j].step \in {"check", "send"}
  BY <1>1 DEF Jobs, IInv, TypeOK, WayInv, JobInv, Checksum, ChecksumWrite, ChecksumSend, At
<1>3. job[j].cui = contact[c].cui
  BY <1>2 DEF ChecksumInv, Carries
<1>4. /\ \A k \in Contacts : Kept(k)
      /\ contact'[c].checked # "no"
      /\ \A k \in Jobs \ ({j} \cup ValidateJobs) : job'[k] = job[k]
  <2>1. CASE ChecksumWrite(j)
    <3>1. PICK k \in {"valid", "invalid"} :
            contact' = [contact EXCEPT ![c].cui = job[j].cui, ![c].checked = k]
      BY <1>2, <2>1 DEF ChecksumWrite
    <3>2. contact' = [contact EXCEPT ![c].checked = k]
      BY <1>2, <1>3, <3>1 DEF TypeOK, Row
    <3>3. \A x \in Contacts \ {c} : contact'[x] = contact[x]
      BY <3>2, <1>2 DEF TypeOK
    <3>4. contact'[c] = [contact[c] EXCEPT !.checked = k]
      BY <3>2, <1>2 DEF TypeOK
    <3>5. Kept(c) /\ contact'[c].checked # "no"
      BY <1>2, <3>4 DEF Kept, Row
    <3>6. \A k1 \in Jobs \ {j} : job'[k1] = job[k1]
      BY <1>2, <2>1 DEF ChecksumWrite, TypeOK
    <3> QED
      BY <3>3, <3>5, <3>6 DEF Kept
  <2>2. CASE ChecksumSend(j)
    <3>1. UNCHANGED contact /\ job[j].step = "send"
      BY <2>2 DEF ChecksumSend, At
    <3>2. contact[c].checked # "no"
      BY <1>1, <1>2, <3>1 DEF Way, CheckWay
    <3>3. \A k \in Jobs \ ({j} \cup ValidateJobs) : job'[k] = job[k]
      <4>1. <<"c2", job[j].cui>> \in ValidateJobs
        BY <1>2, <3>1 DEF ChecksumInv, Carries, ValidateJobs
      <4> QED
        BY <1>2, <2>2, <4>1 DEF ChecksumSend, TypeOK
    <3> QED
      BY <3>1, <3>2, <3>3, RowsKept
  <2> QED
    BY <2>1, <2>2 DEF Checksum
<1> DEFINE M == {j} \cup ValidateJobs
<1>5. \A k \in M, x \in Contacts : OnWay(k, x) => x = c
  <2>1. \A k \in ValidateJobs, x \in Contacts : ~OnWay(k, x)
    BY WayJobs, Fresh DEF OnWay
  <2>2. \A x \in Contacts : OnWay(j, x) => x = c
    BY <1>1, <1>2, Fresh DEF OnWay
  <2> QED
    BY <2>1, <2>2
<1>6. \A k \in Jobs \ M : job'[k] = job[k]
  BY <1>4
<1>7. Way(c)'
  <2>1. \A q \in Normalisers : <<"normalise", q, c>> \in Jobs \ M
    BY <1>1, <1>2, WayJobs, Fresh
  <2>2. Unsent(c)' = Unsent(c)
    BY <1>2, <1>4 DEF Unsent, Kept
  <2>3. CheckWay(c)'
    BY <1>4 DEF CheckWay
  <2> HIDE DEF M
  <2> QED
    BY <1>2, <1>4, <1>6, <2>1, <2>2, <2>3, WayChecks
<1> HIDE DEF M
<1> QED
  BY <1>2, <1>4, <1>5, <1>6, <1>7, WayWorker

LEMMA WayEnricher ==
    ASSUME IInv, WayInv, NEW j \in EnrichJobs, Enricher(j)
    PROVE  WayInv'
<1>0. /\ j \in Jobs /\ TypeOK /\ EnricherInv(j) /\ UNCHANGED delivery
      /\ \A c \in Contacts : contact[c] \in Row
  BY DEF IInv, Jobs, TypeOK, JobInv, Enricher, EnrichAsk, EnrichSelect, EnrichUpdate,
         EnrichCross, EnrichCrossWrite, EnrichTrigger
<1>1. \A k \in Jobs \ {j} : job'[k] = job[k]
  BY <1>0 DEF TypeOK, Enricher, EnrichAsk, EnrichSelect, EnrichUpdate,
              EnrichCross, EnrichCrossWrite, EnrichTrigger
<1>2. \A c \in Contacts : Kept(c)
  <2>1. ASSUME NEW c \in Contacts, EnrichUpdate(j, c) PROVE \A k \in Contacts : Kept(k)
    <3>1. \E e, g : contact' = [contact EXCEPT ![c].enriched = e, ![c].reg = g]
      BY <2>1 DEF EnrichUpdate
    <3> QED
      BY <1>0, <3>1 DEF TypeOK, Row, Kept
  <2>2. ASSUME NEW c \in Contacts, EnrichCrossWrite(j, c) PROVE \A k \in Contacts : Kept(k)
    <3>1. /\ contact' = [contact EXCEPT ![c].cui = job[j].cui, ![c].enriched = "cross_referenced"]
          /\ job[j].step = "cross" /\ c \in job[j].left
      BY <2>2 DEF EnrichCrossWrite, At
    <3>2. contact[c].source \notin Singles
      BY <1>0, <3>1, ConstantsAssumption DEF EnricherInv, EnrichJobs
    <3> QED
      BY <1>0, <3>1, <3>2 DEF TypeOK, Row, Kept
  <2>3. CASE UNCHANGED contact
    BY <2>3, RowsKept
  <2> QED
    BY <2>1, <2>2, <2>3 DEF Enricher, EnrichAsk, EnrichSelect, EnrichCross, EnrichTrigger
<1> QED
  BY <1>0, <1>1, <1>2, WayBeside

LEMMA WayValidator ==
    ASSUME IInv, WayInv, NEW j \in ValidateJobs, Validator(j)
    PROVE  WayInv'
<1>0. /\ j \in Jobs /\ TypeOK /\ ValidatorInv(j) /\ UNCHANGED delivery
      /\ \A c \in Contacts : contact[c] \in Row
  BY DEF IInv, Jobs, TypeOK, JobInv, Validator, ValidateDedup, ValidateAsk, ValidateMark,
         ValidateSiblings, ValidateSpread, ValidateFan, ValidatePromote
<1>1. \A k \in Jobs \ {j} : job'[k] = job[k]
  BY <1>0 DEF TypeOK, Validator, ValidateDedup, ValidateAsk, ValidateMark, ValidateSiblings,
              ValidateSpread, ValidateFan, ValidatePromote
<1>2. \A c \in Contacts : contact[c].cui = j[2] =>
        /\ Validated(contact[c], j[2]).source = contact[c].source
        /\ Validated(contact[c], j[2]).fields = contact[c].fields
        /\ Validated(contact[c], j[2]).cui = contact[c].cui
        /\ Validated(contact[c], j[2]).pending = contact[c].pending
        /\ Validated(contact[c], j[2]).checked = contact[c].checked
  <2> SUFFICES ASSUME NEW row \in Row, row.cui = j[2], NEW g
               PROVE  LET new == [row EXCEPT !.cui = j[2], !.anaf = "valid", !.reg = g] IN
                      /\ new.source = row.source /\ new.fields = row.fields
                      /\ new.cui = row.cui /\ new.pending = row.pending
                      /\ new.checked = row.checked
    BY <1>0 DEF Validated
  <2> QED
    BY DEF Row
<1>3. \A c \in Contacts : Kept(c)
  <2>1. CASE ValidateAsk(j)
    <3>1. UNCHANGED contact \/ \E c : contact' = [contact EXCEPT ![c].anaf = "not_found"]
      BY <2>1 DEF ValidateAsk
    <3> QED
      BY <1>0, <3>1 DEF TypeOK, Row, Kept
  <2>2. CASE ValidateMark(j)
    <3>1. /\ contact' = [contact EXCEPT ![job[j].contact] = Validated(@, j[2])]
          /\ job[j].step \in {"mark", "reuse"}
      BY <2>2 DEF ValidateMark, At
    <3>2. contact[job[j].contact].cui = j[2] /\ job[j].contact \in Contacts
      BY <1>0, <3>1 DEF ValidatorInv, Carries
    <3> QED
      BY <1>0, <1>2, <3>1, <3>2 DEF TypeOK, Kept
  <2>3. CASE ValidateSpread(j)
    <3>1. \A c \in Contacts :
            contact'[c] = IF c \in Siblings(j) THEN Validated(contact[c], j[2]) ELSE contact[c]
      BY <2>3 DEF ValidateSpread
    <3>2. \A c \in Siblings(j) : contact[c].cui = j[2]
      BY DEF Siblings
    <3> QED
      BY <1>2, <3>1, <3>2 DEF Kept
  <2>4. CASE UNCHANGED contact
    BY <2>4, RowsKept
  <2> QED
    BY <2>1, <2>2, <2>3, <2>4
       DEF Validator, ValidateDedup, ValidateSiblings, ValidateFan, ValidatePromote
<1> QED
  BY <1>0, <1>1, <1>3, WayBeside

LEMMA WayLife ==
    ASSUME StepsGoThrough, IInv, WayInv, NEW j \in Jobs, Break(j) \/ Forget(j)
    PROVE  WayInv'
<1>0. TypeOK /\ UNCHANGED <<contact, delivery>> /\ \A c \in Contacts : Kept(c)
  BY RowsKept DEF IInv, Break, Forget
<1>1. \A k \in Jobs \ {j} : job'[k] = job[k]
  BY <1>0 DEF TypeOK, Break, Forget
<1>2. CASE j \in EnrichJobs \cup ValidateJobs
  BY <1>0, <1>1, <1>2, WayBeside
<1>3. ASSUME j \in NormaliseJobs \cup ChecksumJobs
      PROVE  job[j].state \in {"completed", "failed"} /\ job'[j] = NoJob
  <2>1. j[1] \in {"normalise", "c1"}
    BY <1>3 DEF NormaliseJobs, ChecksumJobs
  <2>2. ~Break(j)
    BY <2>1 DEF StepsGoThrough, Break
  <2> QED
    BY <1>0, <2>2, JobAfter DEF Forget
<1>4. NoJob.state = "absent"
  BY DEF NoJob
<1>5. CASE j \in NormaliseJobs
  <2>1. PICK q \in Normalisers, c \in Contacts : j = <<"normalise", q, c>>
    BY <1>5 DEF NormaliseJobs
  <2> QED
    BY <1>0, <1>1, <1>3, <1>4, <1>5, <2>1, WayNormalise
<1>6. CASE j \in ChecksumJobs
  <2>1. PICK c \in Contacts : j = <<"c1", c>>
    BY <1>6 DEF ChecksumJobs
  <2>2. \A q \in Normalisers : <<"normalise", q, c>> \in Jobs \ {j}
    BY <1>6, WayJobs, Fresh
  <2>3. CheckWay(c)'
    BY <1>3, <1>4, <1>6, <2>1 DEF CheckWay
  <2>4. Way(c) /\ Unsent(c)' = Unsent(c)
    BY <1>0 DEF WayInv, Unsent
  <2>5. Way(c)'
    BY <1>0, <1>1, <1>3, <1>6, <2>1, <2>2, <2>3, <2>4, WayChecks
  <2> DEFINE M == {j}
  <2>6. \A k \in M, x \in Contacts : OnWay(k, x) => x = c
    BY <1>6, <2>1, Fresh DEF OnWay
  <2>7. \A k \in Jobs \ M : job'[k] = job[k]
    BY <1>1
  <2> HIDE DEF M
  <2> QED
    BY <1>0, <2>5, <2>6, <2>7, WayWorker
<1> QED
  BY <1>2, <1>5, <1>6 DEF Jobs

LEMMA WayInit == Init => WayInv
<1> SUFFICES ASSUME Init PROVE WayInv
  OBVIOUS
<1>0. TypeOK
  BY InitType
<1>1. PICK origin \in [Contacts -> Intake] :
        contact = [c \in Contacts |->
                     [source |-> origin[c].source, cui |-> origin[c].cui, reg |-> origin[c].reg,
                      fields |-> origin[c].fields, pending |-> FALSE, enriched |-> "no",
                      checked |-> "no", anaf |-> "no"]]
  BY DEF Init
<1>2. \A d \in Deliveries : delivery[d].step = "parsing" /\ delivery[d].picked = {}
                            /\ delivery[d].unsent = Normalisers
  BY DEF Init
<1>3. \A j \in Jobs : job[j].state = "absent"
  BY DEF Init, NoJob
<1>4. ASSUME NEW c \in Contacts PROVE Way(c)
  <2>1. ~contact[c].pending /\ contact[c] \in Row
    BY <1>0, <1>1 DEF TypeOK
  <2>2. contact[c].fields \subseteq Normalisers /\ Unsent(c) = Normalisers
    BY <1>2, <2>1 DEF Row, Unsent
  <2>3. \A q \in Normalisers : NormaliseWay(q, c)
    BY <1>3, WayJobs DEF NormaliseWay
  <2>4. CheckWay(c)
    BY <1>3, WayJobs DEF CheckWay
  <2>5. Promised(c)
    BY <2>2 DEF Promised
  <2> QED
    BY <2>1, <2>3, <2>4, <2>5 DEF Way
<1>5. \A d \in Deliveries : DeliveryWay(d)
  BY <1>2 DEF DeliveryWay
<1> QED
  BY <1>4, <1>5 DEF WayInv

LEMMA WayNext ==
    ASSUME StepsGoThrough, IInv, WayInv, [Next]_vars
    PROVE  WayInv'
<1>1. ASSUME NEW j \in Jobs, Break(j) \/ Forget(j) PROVE WayInv'
  BY <1>1, WayLife
<1>2. CASE Work
  BY <1>2, WayDeliver, WayNormaliser, WayGate, WayHand, WayEnricher, WayChecksum, WayValidator
     DEF Work, Trigger
<1>3. CASE UNCHANGED vars
  <2>1. UNCHANGED <<contact, delivery, job>>
    BY <1>3 DEF vars
  <2> DEFINE M == {}
  <2>2. (\A k \in Jobs \ M : job'[k] = job[k]) /\ \A k \in M : FALSE
    BY <2>1
  <2> HIDE DEF M
  <2> QED
    BY <2>1, <2>2, RowsKept, WayWorker
<1>4. ASSUME NEW d \in Files, EnrichRequest(d) PROVE WayInv'
  BY <1>4, WayRequest
<1> QED
  BY <1>1, <1>2, <1>3, <1>4 DEF Next

\* Whatever order the workers take their steps in, and whatever B5 and the operator do
\* about files meanwhile: when all is quiet, a contact of a webhook or a manual entry
\* with a CUI and a usable field has been through C1.  The gate of
\* triggerCuiValidationIfPossible is never closed for it, and a C1 job BullMQ holds
\* already has given its verdict or will.  An attempt that throws is retried only so
\* often, so those of the normalisers and of C1 must not (StepsGoThrough).
THEOREM SinglesChecked ==
    ASSUME StepsGoThrough
    PROVE  NamesHaveCuis /\ Spec => []SinglesAreChecked
<1>1. IInv /\ WayInv /\ [Next]_vars => WayInv'
  BY WayNext
<1>2. WayInv /\ IInv => SinglesAreChecked
  <2> SUFFICES ASSUME WayInv, IInv, AtRest, NEW c \in Contacts, contact[c].source \in Singles,
                      contact[c].cui # Nil, contact[c].fields # {}, contact[c].checked = "no"
               PROVE  FALSE
    BY DEF SinglesAreChecked
  <2>1. Promised(c) /\ Checkable(c) /\ DeliveryWay(contact[c].source)
    BY WayTypes DEF WayInv, Way, Checkable
  <2>2. Unsent(c) = {}
    BY <2>1, WayTypes DEF DeliveryWay, AtRest, Unsent
  <2>3. \A k \in NormaliseJobs \cup ChecksumJobs : job[k].state # "live"
    BY DEF AtRest, Jobs
  <2>4. \A q \in contact[c].fields : job[<<"normalise", q, c>>].state # "live"
    BY <2>3, WayTypes, WayJobs
  <2> QED
    BY <2>1, <2>2, <2>3, <2>4, WayJobs DEF Promised
<1> QED
  BY <1>1, <1>2, WayInit, Invariance, PTL DEF Spec
===============================================================================
