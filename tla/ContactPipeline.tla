--------------------------- MODULE ContactPipeline ---------------------------
(***************************************************************************)
(* The contacts of one tenant on their way from a delivery (an imported    *)
(* file, or a single webhook or manual entry) to the promotion queue: the  *)
(* normalisers B1-B4, the ANAF enrichment of a file B5, the checksum test  *)
(* C1 and the ANAF validation C2 (workers/enrichment/src/workers).  Every  *)
(* worker is a sequence of awaits over the same rows of bronze_contacts,   *)
(* and hands work on by adding BullMQ jobs under ids derived from the      *)
(* contact or from its CUI: an id BullMQ still holds is not added again.   *)
(* Pausing and accounting of the jobs is the subject of ImportRuntime.     *)
(***************************************************************************)
EXTENDS Naturals, FiniteSets

CONSTANTS
    Contacts,      \* rows of bronze_contacts
    Cuis,          \* fiscal codes
    Regs,          \* trade register numbers
    Nil,           \* a column that is NULL, an answer that is "not found"
    Files,         \* deliveries that are files
    Singles,       \* deliveries of a webhook, a poll or a manual entry
    Normalisers,   \* the normalisation queues in use
    Intake,        \* what a contact may look like when it is inserted
    ChecksumOk,    \* the CUIs that pass modulo 11
    Anaf,          \* what ANAF answers: its register number, or Nil
    Attempts,      \* BullMQ attempts of a job
    Breaks,        \* where an attempt may throw: kind of job and step
    Forgets        \* the kinds of jobs whose finished records BullMQ may drop

Deliveries == Files \cup Singles
MaybeCui == Cuis \cup {Nil}
MaybeReg == Regs \cup {Nil}

\* "B1:name-normalizer" alone writes the CUI back
NormaliserNames == {"name", "email", "phone", "address"}

Origins == [source : Deliveries, cui : MaybeCui, reg : MaybeReg, fields : SUBSET Normalisers]

Kinds == {"normalise", "anaf-bronze", "c1", "c2"}

Steps == {"start", "read", "write", "gate", "skip", "hand", "ask", "select", "update",
          "cross", "check", "send", "dedup", "reuse", "mark", "siblings", "spread", "fan",
          "promote"}

ASSUME ConstantsAssumption ==
    /\ Normalisers \subseteq NormaliserNames
    /\ Nil \notin Cuis \cup Regs \cup Contacts
    /\ Files \cap Singles = {}
    /\ Intake \subseteq Origins
    /\ ChecksumOk \subseteq Cuis
    /\ Anaf \in [Cuis -> MaybeReg \cup {"absent"}]
    /\ Attempts \in Nat \ {0}
    /\ Breaks \subseteq Kinds \X Steps
    /\ Forgets \subseteq Kinds

\* Job ids.  C2 is named by the CUI, all others by the contact or the batch.
NormaliseJobs == {"normalise"} \X Normalisers \X Contacts
EnrichJobs == {"anaf-bronze"} \X Files
ChecksumJobs == {"c1"} \X Contacts
ValidateJobs == {"c2"} \X Cuis
Jobs == NormaliseJobs \cup EnrichJobs \cup ChecksumJobs \cup ValidateJobs
Promotions == {"promote", "promote-nrc"} \X Contacts

Row == [source : Deliveries, cui : MaybeCui, reg : MaybeReg, fields : SUBSET Normalisers,
        pending : BOOLEAN,
        enriched : {"no", "completed", "cross_referenced", "not_found"},
        checked : {"no", "valid", "invalid", "skipped"},
        anaf : {"no", "valid", "not_found"}]

\* What a delivery's worker remembers: queues it has not dispatched to, and the
\* contacts and CUIs it read for B5
Delivery == [step : {"parsing", "normalise", "select", "mark", "select_reg", "mark_reg",
                     "enqueue", "done"},
             unsent : SUBSET Normalisers, picked : SUBSET Contacts, cuis : SUBSET Cuis]

\* BullMQ's record of a job with its payload (contact, cui, cuis), and what its
\* worker remembers between two awaits
Job == [state : {"absent", "live", "completed", "failed"},
        tries : Nat, step : Steps,
        contact : Contacts \cup {Nil}, cui : MaybeCui, cuis : SUBSET Cuis,
        reg : MaybeReg, seen : SUBSET Cuis, left : SUBSET Contacts,
        due : SUBSET (Contacts \X Cuis)]

VARIABLES
    contact,     \* the rows
    delivery,    \* the workers that insert and dispatch deliveries
    job,         \* the jobs and their workers
    promotions   \* the promotion jobs that were ever added

vars == <<contact, delivery, job, promotions>>

NoJob == [state |-> "absent", tries |-> 0, step |-> "start", contact |-> Nil, cui |-> Nil,
          cuis |-> {}, reg |-> Nil, seen |-> {}, left |-> {}, due |-> {}]

Init ==
    /\ \E origin \in [Contacts -> Intake] :
         contact = [c \in Contacts |->
                      [source |-> origin[c].source, cui |-> origin[c].cui, reg |-> origin[c].reg,
                       fields |-> origin[c].fields, pending |-> FALSE, enriched |-> "no",
                       checked |-> "no", anaf |-> "no"]]
    /\ delivery = [d \in Deliveries |->
                     [step |-> "parsing", unsent |-> Normalisers, picked |-> {}, cuis |-> {}]]
    /\ job = [j \in Jobs |-> NoJob]
    /\ promotions = {}

\* The rows a query can see: those their delivery has inserted
Present == {c \in Contacts : delivery[contact[c].source].step # "parsing"}

FirstStep == [kind \in Kinds |->
                IF kind = "normalise" THEN "read"
                ELSE IF kind = "anaf-bronze" THEN "ask"
                ELSE IF kind = "c1" THEN "check" ELSE "dedup"]

\* Queue.add of a job with payload p: nothing happens while BullMQ holds the id.
\* A live job waits, or a worker is about to take its next step.
Added(j, p) ==
    IF job[j].state = "absent"
    THEN [p EXCEPT !.state = "live", !.step = FirstStep[j[1]]] ELSE job[j]

-----------------------------------------------------------------------------
(* Deliveries: insertBronzeRows, then the dispatch of what was inserted *)

Of(d) == {c \in Contacts : contact[c].source = d}

DeliveryStep(d, from, to) ==
    /\ delivery[d].step = from
    /\ delivery' = [delivery EXCEPT ![d] = to]

Insert(d) ==
    /\ DeliveryStep(d, "parsing", [delivery[d] EXCEPT !.step = "normalise"])
    /\ UNCHANGED <<contact, job, promotions>>

\* The parsers hand their own context to enqueueImportJobBulk, which gives its key to
\* every job of the bulk: PostgreSQL rejects an INSERT ... ON CONFLICT DO UPDATE with
\* two rows of one key.  A3-A5 have no context
Refused(d) == d \in Files /\ Cardinality(Of(d)) > 1

\* The attempt of the parser fails; its retries find every row stored already and
\* have nothing to dispatch
Refuse(d) ==
    /\ Refused(d)
    /\ DeliveryStep(d, "normalise", [delivery[d] EXCEPT !.step = "done"])
    /\ UNCHANGED <<contact, job, promotions>>

\* triggerNormalizationForContacts: one bulk addition per queue.  A3-A5 end here,
\* A1 and A2 go on to triggerAnafBronzeEnrichment
Dispatch(d, q) ==
    /\ ~Refused(d)
    /\ q \in delivery[d].unsent
    /\ DeliveryStep(d, "normalise",
                    [delivery[d] EXCEPT
                       !.unsent = @ \ {q},
                       !.step = IF delivery[d].unsent # {q} THEN "normalise"
                                ELSE IF d \in Files THEN "select" ELSE "done"])
    /\ job' = [j \in Jobs |->
                 IF j \in {"normalise"} \X {q} \X Of(d)
                 THEN Added(j, NoJob) ELSE job[j]]
    /\ UNCHANGED <<contact, promotions>>

SelectCuis(d) ==
    /\ LET found == {c \in Of(d) : contact[c].cui # Nil} IN
       DeliveryStep(d, "select",
                    [delivery[d] EXCEPT !.step = IF found = {} THEN "done" ELSE "mark",
                                        !.picked = found,
                                        !.cuis = {contact[c].cui : c \in found}])
    /\ UNCHANGED <<contact, job, promotions>>

SelectRegs(d) ==
    /\ DeliveryStep(d, "select_reg",
                    [delivery[d] EXCEPT !.step = "mark_reg",
                                        !.picked = {c \in Of(d) : /\ contact[c].cui = Nil
                                                                  /\ contact[c].reg # Nil}])
    /\ UNCHANGED <<contact, job, promotions>>

\* markContactsPendingAnaf: of the contacts with a CUI, then of those with a
\* register number only
MarkPending(d) ==
    /\ \/ DeliveryStep(d, "mark", [delivery[d] EXCEPT !.step = "select_reg"])
       \/ DeliveryStep(d, "mark_reg", [delivery[d] EXCEPT !.step = "enqueue"])
    /\ contact' = [c \in Contacts |->
                     [contact[c] EXCEPT !.pending = @ \/ c \in delivery[d].picked]]
    /\ UNCHANGED <<job, promotions>>

\* The CUIs of one file fit one request to ANAF here (ANAF_BATCH_SIZE)
EnqueueEnrich(d) ==
    /\ DeliveryStep(d, "enqueue", [delivery[d] EXCEPT !.step = "done"])
    /\ LET j == <<"anaf-bronze", d>> IN
       job' = [job EXCEPT ![j] = IF delivery[d].cuis = {} THEN @
                                 ELSE Added(j, [NoJob EXCEPT !.cuis = delivery[d].cuis])]
    /\ UNCHANGED <<contact, promotions>>

\* The operator asks for the enrichment of what no parser has asked for.  The route
\* marks and enqueues as the parser does, under job ids of its own, but a CUI of one
\* file is never in a job of both.  It is called when the parser has ended
EnrichRequest(d) ==
    /\ LET late == {c \in Of(d) : ~contact[c].pending}
           coded == {c \in late : contact[c].cui # Nil} IN
       /\ \E c \in late : contact[c].cui # Nil \/ contact[c].reg # Nil
       /\ DeliveryStep(d, "done", [delivery[d] EXCEPT !.step = "mark",
                                                     !.picked = coded,
                                                     !.cuis = {contact[c].cui : c \in coded}])
    /\ UNCHANGED <<contact, job, promotions>>

Deliver(d) ==
    \/ Insert(d)
    \/ Refuse(d)
    \/ \E q \in Normalisers : Dispatch(d, q)
    \/ SelectCuis(d)
    \/ SelectRegs(d)
    \/ MarkPending(d)
    \/ EnqueueEnrich(d)

-----------------------------------------------------------------------------
(* The life of any job *)

At(j, step) == job[j].state = "live" /\ job[j].step = step

Goto(j, step) == [job[j] EXCEPT !.step = step]

Done == [NoJob EXCEPT !.state = "completed"]

\* The attempt throws: BullMQ tries again from the payload, or gives up
Break(j) ==
    /\ job[j].state = "live"
    /\ <<j[1], job[j].step>> \in Breaks
    /\ job' = [job EXCEPT ![j] =
                 IF @.tries + 1 < Attempts
                 THEN [NoJob EXCEPT !.state = "live", !.step = FirstStep[j[1]], !.tries = job[j].tries + 1,
                                    !.contact = job[j].contact, !.cuis = job[j].cuis,
                                    !.cui = IF j[1] = "c1" THEN job[j].cui ELSE Nil]
                 ELSE [NoJob EXCEPT !.state = "failed"]]
    /\ UNCHANGED <<contact, delivery, promotions>>

\* removeOnComplete, removeOnFail: by age and count
Forget(j) ==
    /\ job[j].state \in {"completed", "failed"}
    /\ j[1] \in Forgets
    /\ job' = [job EXCEPT ![j] = NoJob]
    /\ UNCHANGED <<contact, delivery, promotions>>

-----------------------------------------------------------------------------
(* triggerCuiValidationIfPossible, called by the normalisers and by B5 *)

Subject(j) == IF j[1] = "normalise" THEN j[3] ELSE job[j].contact

\* What the caller does next
Caller(j) == IF j[1] = "normalise" THEN Done ELSE Goto(j, "select")

\* Mutant: The gate waits for an answer of B5, also where none was asked for.
GateAwaitsAnswer(j) ==
    /\ At(j, "gate")
    /\ job' = [job EXCEPT ![j] =
                 IF contact[Subject(j)].enriched = "no" THEN Caller(j)
                 ELSE IF @.cui # Nil THEN Goto(j, "hand")
                 ELSE IF @.reg # Nil THEN Goto(j, "skip") ELSE Caller(j)]
    /\ UNCHANGED <<contact, delivery, promotions>>

\* The row is read again: while B5 is expected the contact waits for it
Gate(j) ==
    /\ At(j, "gate")
    /\ job' = [job EXCEPT ![j] =
                 IF contact[Subject(j)].pending THEN Caller(j)
                 ELSE IF @.cui # Nil THEN Goto(j, "hand")
                 ELSE IF @.reg # Nil THEN Goto(j, "skip") ELSE Caller(j)]
    /\ UNCHANGED <<contact, delivery, promotions>>

\* Mutant: The reason written in the place of the status.
SkipChecksReason(j) ==
    /\ At(j, "skip")
    /\ contact' = [contact EXCEPT ![Subject(j)].checked = "nrregcom_only"]
    /\ job' = [job EXCEPT ![j] = Goto(j, "hand")]
    /\ UNCHANGED <<delivery, promotions>>

\* A contact with a register number only is promoted unchecked
SkipChecks(j) ==
    /\ At(j, "skip")
    /\ contact' = [contact EXCEPT ![Subject(j)].checked = "skipped"]
    /\ job' = [job EXCEPT ![j] = Goto(j, "hand")]
    /\ UNCHANGED <<delivery, promotions>>

Hand(j) ==
    /\ At(j, "hand")
    /\ LET c == Subject(j)
           check == <<"c1", c>> IN
       \/ /\ job[j].cui # Nil
          /\ job' = [job EXCEPT ![j] = Caller(j),
                                ![check] = Added(check, [NoJob EXCEPT !.cui = job[j].cui])]
          /\ UNCHANGED promotions
       \/ /\ job[j].cui = Nil
          /\ job' = [job EXCEPT ![j] = Caller(j)]
          /\ promotions' = promotions \cup {<<"promote-nrc", c>>}
    /\ UNCHANGED <<contact, delivery>>

-----------------------------------------------------------------------------
(* B1-B4: one field of one contact *)

\* Nothing to normalise, or nothing usable: the contact is not handed on
NormaliseRead(j) ==
    /\ At(j, "read")
    /\ LET row == contact[j[3]] IN
       job' = [job EXCEPT ![j] =
                 IF j[2] \in row.fields
                 THEN [@ EXCEPT !.step = "write", !.cui = row.cui, !.reg = row.reg]
                 ELSE Done]
    /\ UNCHANGED <<contact, delivery, promotions>>

\* markNormalizationResult: B1 writes the CUI it read along with the name
NormaliseWrite(j) ==
    /\ At(j, "write")
    /\ contact' = [contact EXCEPT ![j[3]].cui = IF j[2] = "name" THEN job[j].cui ELSE @]
    /\ job' = [job EXCEPT ![j] = Goto(j, "gate")]
    /\ UNCHANGED <<delivery, promotions>>

-----------------------------------------------------------------------------
(* B5: asks ANAF about the CUIs of a file *)

Found(x) == Anaf[x] # "absent"
Referable(x) == Anaf[x] \in Regs

EnrichAsk(j) ==
    /\ j \in EnrichJobs
    /\ At(j, "ask")
    /\ job' = [job EXCEPT ![j] = Goto(j, "select")]
    /\ UNCHANGED <<contact, delivery, promotions>>

\* The work on one CUI is over
EnrichTurn(j) ==
    \/ At(j, "select")
    \/ (At(j, "update") /\ job[j].left = {} /\ ~Referable(job[j].cui))
    \/ (At(j, "cross") /\ job[j].left = {})

\* The CUIs ANAF knows are processed first
EnrichSelect(j, x) ==
    /\ EnrichTurn(j)
    /\ x \in job[j].cuis \ job[j].seen
    /\ Found(x) \/ \A y \in job[j].cuis \ job[j].seen : ~Found(y)
    /\ job' = [job EXCEPT ![j].step = "update", ![j].cui = x, ![j].seen = @ \cup {x},
                          ![j].left = {c \in Of(j[2]) : contact[c].cui = x}]
    /\ UNCHANGED <<contact, delivery, promotions>>

\* contactsToTrigger, of which only the first of each CUI is used
Due(j, c) ==
    IF \E p \in job[j].due : p[2] = job[j].cui THEN job[j].due
    ELSE job[j].due \cup {<<c, job[j].cui>>}

\* The answer is written beside the flag that says "pending"
EnrichUpdate(j, c) ==
    /\ At(j, "update")
    /\ c \in job[j].left
    /\ LET x == job[j].cui IN
       contact' = [contact EXCEPT
                     ![c].enriched = IF Found(x) THEN "completed" ELSE "not_found",
                     ![c].reg = IF @ = Nil /\ Found(x) THEN Anaf[x] ELSE @]
    /\ job' = [job EXCEPT ![j].left = @ \ {c}, ![j].due = Due(j, c)]
    /\ UNCHANGED <<delivery, promotions>>

\* crossReferenceNrRegComContacts: who has the register number but no CUI?
EnrichCross(j) ==
    /\ At(j, "update")
    /\ job[j].left = {}
    /\ LET x == job[j].cui IN
       /\ Referable(x)
       /\ job' = [job EXCEPT ![j].step = "cross",
                             ![j].left = {c \in Of(j[2]) : /\ contact[c].cui = Nil
                                                           /\ contact[c].reg = Anaf[x]}]
    /\ UNCHANGED <<contact, delivery, promotions>>

EnrichCrossWrite(j, c) ==
    /\ At(j, "cross")
    /\ c \in job[j].left
    /\ contact' = [contact EXCEPT ![c].cui = job[j].cui, ![c].enriched = "cross_referenced"]
    /\ job' = [job EXCEPT ![j].left = @ \ {c}, ![j].due = Due(j, c)]
    /\ UNCHANGED <<delivery, promotions>>

EnrichTrigger(j) ==
    /\ EnrichTurn(j)
    /\ job[j].seen = job[j].cuis
    /\ \/ \E p \in job[j].due :
            job' = [job EXCEPT ![j].step = "gate", ![j].due = @ \ {p},
                               ![j].contact = p[1], ![j].cui = p[2]]
       \/ job[j].due = {} /\ job' = [job EXCEPT ![j] = Done]
    /\ UNCHANGED <<contact, delivery, promotions>>

-----------------------------------------------------------------------------
(* C1: the checksum *)

\* Mutant: The result of the checksum is stored but not looked at.
ChecksumWriteAndSend(j) ==
    /\ At(j, "check")
    /\ contact' = [contact EXCEPT
                     ![j[2]].cui = job[j].cui,
                     ![j[2]].checked = IF job[j].cui \in ChecksumOk THEN "valid" ELSE "invalid"]
    /\ job' = [job EXCEPT ![j] = Goto(j, "send")]
    /\ UNCHANGED <<delivery, promotions>>

ChecksumWrite(j) ==
    /\ At(j, "check")
    /\ LET ok == job[j].cui \in ChecksumOk IN
       /\ contact' = [contact EXCEPT ![j[2]].cui = job[j].cui,
                                     ![j[2]].checked = IF ok THEN "valid" ELSE "invalid"]
       /\ job' = [job EXCEPT ![j] = IF ok THEN Goto(j, "send") ELSE Done]
    /\ UNCHANGED <<delivery, promotions>>

\* enqueueAnafValidation: one id for all contacts of a CUI
ChecksumSend(j) ==
    /\ At(j, "send")
    /\ LET validate == <<"c2", job[j].cui>> IN
       job' = [job EXCEPT ![j] = Done,
                          ![validate] = Added(validate, [NoJob EXCEPT !.contact = j[2]])]
    /\ UNCHANGED <<contact, delivery, promotions>>

-----------------------------------------------------------------------------
(* C2: the CUI j[2], on behalf of one contact *)

Valid(c, x) == contact[c].cui = x /\ contact[c].anaf = "valid"

\* findFirst of the valid contacts of that CUI: another one, or no other
ValidateDedup(j) ==
    /\ At(j, "dedup")
    /\ LET valid == {c \in Present : Valid(c, j[2])}
           own == job[j].contact IN
       \/ valid \ {own} # {} /\ job' = [job EXCEPT ![j] = Goto(j, "reuse")]
       \/ /\ valid = {} \/ own \in valid
          /\ job' = [job EXCEPT ![j] = Goto(j, "ask")]
    /\ UNCHANGED <<contact, delivery, promotions>>

\* updateAnafBronzeContact
Validated(row, x) ==
    [row EXCEPT !.cui = x, !.anaf = "valid", !.reg = IF Anaf[x] # Nil THEN Anaf[x] ELSE @]

ValidateAsk(j) ==
    /\ j \in ValidateJobs
    /\ At(j, "ask")
    /\ \/ Found(j[2]) /\ job' = [job EXCEPT ![j] = Goto(j, "mark")] /\ UNCHANGED contact
       \/ /\ ~Found(j[2])
          /\ contact' = [contact EXCEPT ![job[j].contact].anaf = "not_found"]
          /\ job' = [job EXCEPT ![j] = Done]
    /\ UNCHANGED <<delivery, promotions>>

\* Mutant: A reused answer is stored and the job returns.
ValidateMarkOnly(j) ==
    /\ \/ At(j, "mark") /\ job' = [job EXCEPT ![j] = Goto(j, "siblings")]
       \/ At(j, "reuse") /\ job' = [job EXCEPT ![j] = Done]
    /\ contact' = [contact EXCEPT ![job[j].contact] = Validated(@, j[2])]
    /\ UNCHANGED <<delivery, promotions>>

ValidateMark(j) ==
    /\ \/ At(j, "mark") /\ job' = [job EXCEPT ![j] = Goto(j, "siblings")]
       \/ At(j, "reuse") /\ job' = [job EXCEPT ![j] = Goto(j, "promote")]
    /\ contact' = [contact EXCEPT ![job[j].contact] = Validated(@, j[2])]
    /\ UNCHANGED <<delivery, promotions>>

\* fanOutAnafResultToSiblings: the same condition is evaluated by the SELECT
\* and by the UPDATE, in two transactions
Siblings(j) ==
    {c \in Present : /\ contact[c].cui = j[2]
                     /\ c # job[j].contact
                     /\ contact[c].anaf # "valid"}

ValidateSiblings(j) ==
    /\ At(j, "siblings")
    /\ job' = [job EXCEPT ![j].left = Siblings(j),
                          ![j].step = IF Siblings(j) = {} THEN "promote" ELSE "spread"]
    /\ UNCHANGED <<contact, delivery, promotions>>

\* Mutant: The UPDATE spares the siblings that have not passed the checksum yet.
ValidateSpreadChecked(j) ==
    /\ At(j, "spread")
    /\ contact' = [c \in Contacts |->
                     IF c \in Siblings(j) /\ contact[c].checked = "valid"
                     THEN Validated(contact[c], j[2]) ELSE contact[c]]
    /\ job' = [job EXCEPT ![j] = Goto(j, "fan")]
    /\ UNCHANGED <<delivery, promotions>>

ValidateSpread(j) ==
    /\ At(j, "spread")
    /\ contact' = [c \in Contacts |->
                     IF c \in Siblings(j) THEN Validated(contact[c], j[2]) ELSE contact[c]]
    /\ job' = [job EXCEPT ![j] = Goto(j, "fan")]
    /\ UNCHANGED <<delivery, promotions>>

ValidateFan(j) ==
    /\ At(j, "fan")
    /\ \E c \in job[j].left :
         /\ promotions' = promotions \cup {<<"promote", c>>}
         /\ job' = [job EXCEPT ![j].left = @ \ {c}]
    /\ UNCHANGED <<contact, delivery>>

\* enqueueAnafPromotion
ValidatePromote(j) ==
    /\ At(j, "promote") \/ (At(j, "fan") /\ job[j].left = {})
    /\ promotions' = promotions \cup {<<"promote", job[j].contact>>}
    /\ job' = [job EXCEPT ![j] = Done]
    /\ UNCHANGED <<contact, delivery>>

-----------------------------------------------------------------------------

Normaliser(j) == NormaliseRead(j) \/ NormaliseWrite(j)

Trigger(j) == Gate(j) \/ SkipChecks(j) \/ Hand(j)

Enricher(j) ==
    \/ EnrichAsk(j)
    \/ \E x \in Cuis : EnrichSelect(j, x)
    \/ \E c \in Contacts : EnrichUpdate(j, c) \/ EnrichCrossWrite(j, c)
    \/ EnrichCross(j)
    \/ EnrichTrigger(j)

Checksum(j) == ChecksumWrite(j) \/ ChecksumSend(j)

Validator(j) ==
    \/ ValidateDedup(j)
    \/ ValidateAsk(j)
    \/ ValidateMark(j)
    \/ ValidateSiblings(j)
    \/ ValidateSpread(j)
    \/ ValidateFan(j)
    \/ ValidatePromote(j)

Work ==
    \/ \E d \in Deliveries : Deliver(d)
    \/ \E j \in NormaliseJobs : Normaliser(j)
    \/ \E j \in NormaliseJobs \cup EnrichJobs : Trigger(j)
    \/ \E j \in EnrichJobs : Enricher(j)
    \/ \E j \in ChecksumJobs : Checksum(j)
    \/ \E j \in ValidateJobs : Validator(j)

Next ==
    \/ Work
    \/ \E d \in Files : EnrichRequest(d)
    \/ \E j \in Jobs : Break(j) \/ Forget(j)

Spec == Init /\ [][Next]_vars

FairSpec == Spec /\ WF_vars(Work)

-----------------------------------------------------------------------------
(* Properties *)

TypeOK ==
    /\ contact \in [Contacts -> Row]
    /\ delivery \in [Deliveries -> Delivery]
    /\ job \in [Jobs -> Job]
    /\ promotions \subseteq Promotions

\* A contact is sent to promotion as a company ANAF knows only when its own row says
\* so, whichever contact's C2 job sent it (fanOutAnafResultToSiblings selects,
\* updates and enqueues in three steps).
PromotedIsValidated ==
    \A c \in Contacts : <<"promote", c>> \in promotions => contact[c].anaf = "valid"

\* A contact whose CUI fails the checksum is blocked, "nu va fi promovat"
\* (c1-cui-modulo11-validator.ts), also when ANAF would answer for that CUI and
\* other contacts carry it.
InvalidStaysOut ==
    \A c \in Contacts : contact[c].checked = "invalid" => <<"promote", c>> \notin promotions

\* Every row marked valid is sent to promotion in the end: those C2 was asked about,
\* those it reused an answer for, and those it marked as siblings.
ValidIsPromoted ==
    \A c \in Contacts : contact[c].anaf = "valid" ~> <<"promote", c>> \in promotions

AtRest ==
    /\ \A d \in Deliveries : delivery[d].step = "done"
    /\ \A j \in Jobs : job[j].state # "live"

\* When all is quiet a contact of a webhook or a manual entry that has a CUI and a
\* field some normaliser can use has been through the checksum: the gate that waits
\* for B5 is not closed for it.
SinglesAreChecked ==
    AtRest => \A c \in Contacts :
                 (/\ contact[c].source \in Singles
                  /\ contact[c].cui # Nil
                  /\ contact[c].fields # {})
                 => contact[c].checked # "no"

\* When all is quiet a contact that waited for B5, and for which B5 has answered, has
\* gone on: "b5 will call triggerCuiValidationIfPossible when done"
\* (normalization-utils.ts).
ReleasedByB5 ==
    AtRest => \A c \in Contacts :
                 contact[c].enriched # "no" /\ contact[c].cui # Nil
                 => contact[c].checked # "no" \/ contact[c].anaf # "no"
=============================================================================
