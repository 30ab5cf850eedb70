---------------------------- MODULE CompanyIdentity ----------------------------
(***************************************************************************)
(* How imported rows find the company they are about.  The registry of     *)
(* identity keys is read and written in serializable transactions, each    *)
(* one step here; the workers that call them - the ingest, the promotion   *)
(* from bronze to silver, D1 with ANAF's answers, the review of an         *)
(* identity conflict and the reprocessing of a contact - take a step for   *)
(* every transaction or statement, and may die after any of them.          *)
(***************************************************************************)
EXTENDS Naturals, FiniteSets

CONSTANTS
    Companies,   \* ids that silver_companies may use
    Cuis, Nrs,   \* canonical values of the two types of keys
    Contacts,    \* rows of bronze_contacts, numbered by createdAt
    Nil,         \* no key, no company
    Given,       \* the identifiers of the imported row of a contact
    Payload,     \* sourcePayloadHash of a contact
    Chunks,      \* the rows that one INSERT of the ingest brings
    AnafNr,      \* the nr_reg_com that ANAF knows for a cui, or Nil
    Promotions,  \* bound: promotion jobs of all contacts
    Enrichments, \* bound: D1 jobs of all companies
    Reprocessed, \* bound: contacts that are reprocessed, each once
    Reviews      \* bound: decisions on identity conflicts

Keys == Cuis \cup Nrs

ASSUME ConstantsAssumption ==
    /\ Contacts \subseteq Nat
    /\ Given \in [Contacts -> [cui : Cuis \cup {Nil}, nr : Nrs \cup {Nil}]]
    /\ DOMAIN Payload = Contacts
    /\ Chunks \subseteq SUBSET Contacts
    /\ AnafNr \in [Cuis -> Nrs \cup {Nil}]
    /\ Nil \notin Companies \cup Keys
    /\ Cuis \cap Nrs = {}
    /\ Reprocessed \subseteq Contacts
    /\ {Promotions, Enrichments, Reviews} \subseteq Nat

Statuses == {"absent", "unresolved", "resolved", "duplicate_source", "identity_conflict",
             "insufficient_identifiers"}

Company == [made : BOOLEAN, cui : Cuis \cup {Nil}, nr : Nrs \cup {Nil}]

Contact == [status : Statuses, cui : Cuis \cup {Nil}, nr : Nrs \cup {Nil}, skip : BOOLEAN,
            company : Companies \cup {Nil},               \* resolvedCompanyId
            promoted : Companies \cup {Nil}]              \* promotedToSilverId

\* What a worker knows: of promotion and review, or of D1
Worker == [step : {"idle", "find", "save", "cui", "nr", "mark"}, cui : Cuis \cup {Nil},
           nr : Nrs \cup {Nil}, row : Companies \cup {Nil}, company : Companies \cup {Nil}]

VARIABLES
    company,   \* silver_companies
    owner,     \* the company of every active row of company_identity_keys
    contact,   \* bronze_contacts
    ingest,    \* rows that the ingest inserted and has not resolved yet
    promoter,  \* the promotion job of each contact
    enricher,  \* the D1 job of each company
    reviewer,  \* the job that applies a decision on a contact's conflict
    reprocess, \* contacts whose identifiers were read again and are to be resolved
    tasks,     \* contacts with an open identity conflict
    overtaken, \* history: contacts whose key a merge moved during their review
    left       \* what is left of the bounds

vars == <<company, owner, contact, ingest, promoter, enricher, reviewer, reprocess, tasks,
          overtaken, left>>

Idle == [step |-> "idle", cui |-> Nil, nr |-> Nil, row |-> Nil, company |-> Nil]

Init ==
    /\ company = [c \in Companies |-> [made |-> FALSE, cui |-> Nil, nr |-> Nil]]
    /\ owner = [k \in Keys |-> Nil]
    /\ contact = [b \in Contacts |->
                    [status |-> "absent", cui |-> Given[b].cui, nr |-> Given[b].nr,
                     skip |-> FALSE, company |-> Nil, promoted |-> Nil]]
    /\ ingest = {}
    /\ promoter = [b \in Contacts |-> Idle]
    /\ enricher = [c \in Companies |-> Idle]
    /\ reviewer = [b \in Contacts |-> Idle]
    /\ reprocess = {}
    /\ tasks = {}
    /\ overtaken = {}
    /\ left = [promotions |-> Promotions, enrichments |-> Enrichments,
               reprocesses |-> Reprocessed, reviews |-> Reviews]

-----------------------------------------------------------------------------
(* The database as a value, so that a transaction is a composition *)

Now == [co |-> company, own |-> owner, ct |-> contact]

\* The partial unique indexes of silver_companies; a transaction that breaks one aborts
Fits(w) ==
    \A c, d \in Companies : c # d =>
        /\ w.co[c].cui # Nil => w.co[c].cui # w.co[d].cui
        /\ w.co[c].nr # Nil => w.co[c].nr # w.co[d].nr

Commit(w) ==
    /\ Fits(w)
    /\ company' = w.co /\ owner' = w.own /\ contact' = w.ct

Abort == UNCHANGED <<company, owner, contact>>

Made(w) == {c \in Companies : w.co[c].made}

\* Insert a company under an id of its own
Fresh(w) == CHOOSE c \in Companies : ~w.co[c].made

Insert(w, cui, nr) ==
    [w EXCEPT !.co[Fresh(w)] = [made |-> TRUE, cui |-> cui, nr |-> nr]]

HasCui(w, k) == {c \in Companies : k # Nil /\ w.co[c].cui = k}
HasNr(w, k) == {c \in Companies : k # Nil /\ w.co[c].nr = k}

Owners(w, keys) == {w.own[k] : k \in keys \ {Nil}} \ {Nil}

Rejected(w, b, status, c) ==
    [w EXCEPT !.ct[b] = [@ EXCEPT !.status = status, !.skip = TRUE, !.company = c]]

\* Mutant: the merge forgets the keys that the new row does not name
MergeNamed(w, p, s) ==
    [co |-> [w.co EXCEPT ![s] = [@ EXCEPT !.cui = Nil, !.nr = Nil],
                         ![p].nr = IF @ = Nil THEN w.co[s].nr ELSE @],
     own |-> [k \in Keys |-> IF w.own[k] = s /\ k \in Nrs THEN p ELSE w.own[k]],
     ct |-> [b \in Contacts |->
               [w.ct[b] EXCEPT !.company = IF @ = s THEN p ELSE @,
                               !.promoted = IF @ = s THEN p ELSE @]]]

\* Mutant: identifiers and contacts go to p, the keys stay
MergeFields(w, p, s) == [MergeNamed(w, p, s) EXCEPT !.own = w.own]

\* autoMergeSplitCompanies: keys, identifiers and contacts of s go to p
Merge(w, p, s) ==
    [co |-> [w.co EXCEPT ![s] = [@ EXCEPT !.cui = Nil, !.nr = Nil],
                         ![p].nr = IF @ = Nil THEN w.co[s].nr ELSE @],
     own |-> [k \in Keys |-> IF w.own[k] = s THEN p ELSE w.own[k]],
     ct |-> [b \in Contacts |->
               [w.ct[b] EXCEPT !.company = IF @ = s THEN p ELSE @,
                               !.promoted = IF @ = s THEN p ELSE @]]]

\* Identifiers of a company after a row named them: what the row leaves out stays
Identified(row, cui, nr) ==
    [row EXCEPT !.cui = IF cui = Nil THEN @ ELSE cui, !.nr = IF nr = Nil THEN @ ELSE nr]

\* finalizeNormalResolution: a key of somebody else makes a conflict, though the keys before
\* it stay
Finalize(w, b, c) ==
    LET row == w.ct[b]
        taken == {k \in {row.cui, row.nr} \ {Nil} : w.own[k] \notin {c, Nil}} IN
    IF taken = {}
    THEN [co |-> [w.co EXCEPT ![c] = Identified(@, row.cui, row.nr)],
          own |-> [k \in Keys |-> IF k \in {row.cui, row.nr} THEN c ELSE w.own[k]],
          ct |-> [w.ct EXCEPT ![b] = [@ EXCEPT !.status = "resolved", !.skip = FALSE,
                                               !.company = c]]]
    ELSE Rejected([w EXCEPT !.own = [k \in Keys |-> IF k = row.cui /\ k \notin taken THEN c
                                                    ELSE w.own[k]]],
                  b, "identity_conflict", Nil)

\* findSourceDuplicate: any other row with the payload, an earlier one first
Twins(w, b) == {t \in Contacts \ {b} : w.ct[t].status # "absent" /\ Payload[t] = Payload[b]}

Eldest(T) == CHOOSE t \in T : \A u \in T : t <= u

The(S) == CHOOSE x \in S : TRUE

\* The company of a row's cui and the one of its nr_reg_com, if they are two of some companies
Halves(w, b, among) ==
    {h \in among \X among :
        h[1] # h[2] /\ h[1] \in HasCui(w, w.ct[b].cui) /\ h[2] \in HasNr(w, w.ct[b].nr)}

MergeHalves(w, b, among) ==
    IF Halves(w, b, among) = {} THEN Rejected(w, b, "identity_conflict", Nil)
    ELSE LET h == The(Halves(w, b, among)) IN Finalize(Merge(w, h[1], h[2]), b, h[1])

\* ensureResolvedCompany: a placeholder when no company is known
Attach(w, b, c) ==
    IF c # Nil THEN Finalize(w, b, c)
    ELSE Finalize(Insert(w, w.ct[b].cui, w.ct[b].nr), b, Fresh(w))

Remembered(row) == IF row.company # Nil THEN row.company ELSE row.promoted

\* detectSingleCompanyId: the registry first, then the fields of the companies, then the row
Detected(w, b) ==
    LET row == w.ct[b]
        owners == Owners(w, {row.cui, row.nr})
        holders == HasCui(w, row.cui) \cup HasNr(w, row.nr)
        rivals == IF row.cui = Nil THEN {} ELSE HasNr(w, row.nr) \ owners IN
    CASE Cardinality(owners) = 2 ->
            Finalize(Merge(w, w.own[row.cui], w.own[row.nr]), b, w.own[row.cui])
      [] Cardinality(owners) = 1 /\ rivals # {} -> MergeHalves(w, b, owners \cup rivals)
      [] Cardinality(owners) = 1 /\ rivals = {} -> Finalize(w, b, The(owners))
      [] owners = {} /\ Cardinality(holders) = 2 -> MergeHalves(w, b, holders)
      [] owners = {} /\ Cardinality(holders) = 1 -> Finalize(w, b, The(holders))
      [] OTHER -> Attach(w, b, Remembered(row))

\* resolveBronzeContactIdentity, the whole transaction
Resolved(w, b) ==
    IF Twins(w, b) # {}
    THEN Rejected(w, b, "duplicate_source", w.ct[Eldest(Twins(w, b))].company)
    ELSE IF w.ct[b].cui = Nil /\ w.ct[b].nr = Nil
    THEN Rejected(w, b, "insufficient_identifiers", Nil)
    ELSE Detected(w, b)

\* Mutant: a key is written into the field of the other type
UpsertedSwapped(w, c, k, b) ==
    IF w.own[k] \notin {c, Nil}
    THEN IF b = Nil THEN w ELSE Rejected(w, b, "identity_conflict", Nil)
    ELSE [w EXCEPT !.own[k] = c,
                   !.co[c] = IF k \in Nrs THEN [@ EXCEPT !.cui = k] ELSE [@ EXCEPT !.nr = k]]

\* upsertCompanyIdentityKey; the row, if one is named, is rejected when the key is taken
Upserted(w, c, k, b) ==
    IF w.own[k] \notin {c, Nil}
    THEN IF b = Nil THEN w ELSE Rejected(w, b, "identity_conflict", Nil)
    ELSE [w EXCEPT !.own[k] = c,
                   !.co[c] = IF k \in Cuis THEN [@ EXCEPT !.cui = k] ELSE [@ EXCEPT !.nr = k]]

Upsert(c, k, b) == IF k = Nil THEN Abort ELSE Commit(Upserted(Now, c, k, b))

-----------------------------------------------------------------------------
(* The ingest and the reprocessing of a contact *)

InsertRows(chunk) ==
    /\ chunk \in Chunks /\ ingest = {}
    /\ \A b \in chunk : contact[b].status = "absent"
    /\ contact' = [b \in Contacts |->
                     IF b \in chunk THEN [contact[b] EXCEPT !.status = "unresolved"]
                     ELSE contact[b]]
    /\ ingest' = chunk
    /\ UNCHANGED <<company, owner, promoter, enricher, reviewer, reprocess, tasks,
                   overtaken, left>>

\* A conflict becomes a task, unless the worker dies first
AskAboutConflict(b) ==
    IF contact'[b].status = "identity_conflict" THEN tasks' \in {tasks, tasks \cup {b}}
    ELSE UNCHANGED tasks

\* The key a row is found by: its cui, or its nr_reg_com when it has none
Anchor(row) == IF row.cui # Nil THEN row.cui ELSE row.nr

\* Merges move the key that a running review has for its company
Overtake ==
    overtaken' = overtaken \cup
        {b \in Contacts : LET k == Anchor(reviewer[b]) IN
            k # Nil /\ owner[k] = reviewer[b].company /\ owner'[k] # owner[k]}

\* One row after the other
ResolveRow(b) ==
    /\ b \in ingest /\ \A c \in ingest : b <= c
    /\ Made(Now) # Companies       \* bound: an id for a placeholder is left
    /\ Commit(Resolved(Now, b))
    /\ AskAboutConflict(b) /\ Overtake
    /\ ingest' = ingest \ {b}
    /\ UNCHANGED <<promoter, enricher, reviewer, reprocess, left>>

\* The transaction aborts, five times: the row is an error
RowFails(b) ==
    /\ b \in ingest /\ \A c \in ingest : b <= c
    /\ contact' = [contact EXCEPT ![b].skip = TRUE]
    /\ ingest' = ingest \ {b}
    /\ UNCHANGED <<company, owner, promoter, enricher, reviewer, reprocess, tasks,
                   overtaken, left>>

\* The worker dies between rows
IngestDies ==
    /\ ingest # {} /\ ingest' = {}
    /\ UNCHANGED <<company, owner, contact, promoter, enricher, reviewer, reprocess,
                   tasks, overtaken, left>>

\* C2, for the row or for a sibling of it: ANAF knows the nr_reg_com of the cui
TakeAnafNr(b) ==
    /\ contact[b].status # "absent" /\ contact[b].cui # Nil
    /\ AnafNr[contact[b].cui] \notin {Nil, contact[b].nr}
    /\ contact' = [contact EXCEPT ![b].nr = AnafNr[contact[b].cui]]
    /\ UNCHANGED <<company, owner, ingest, promoter, enricher, reviewer, reprocess,
                   tasks, overtaken, left>>

\* backfillBronzeIdentityFields: the identifiers of the payload again
Backfill(b) ==
    /\ contact[b].status # "absent" /\ b \notin reprocess /\ b \in left.reprocesses
    /\ left' = [left EXCEPT !.reprocesses = @ \ {b}]
    /\ contact' = [contact EXCEPT ![b] = Identified(@, Given[b].cui, Given[b].nr)]
    /\ reprocess' = IF contact[b].status = "resolved" /\ contact'[b] = contact[b] THEN reprocess
                    ELSE reprocess \cup {b}
    /\ UNCHANGED <<company, owner, ingest, promoter, enricher, reviewer, tasks, overtaken>>

ResolveAgain(b) ==
    /\ b \in reprocess
    /\ Made(Now) # Companies
    /\ Commit(Resolved(Now, b))
    /\ AskAboutConflict(b) /\ Overtake
    /\ reprocess' = reprocess \ {b}
    /\ UNCHANGED <<ingest, promoter, enricher, reviewer, left>>

\* Three attempts threw, or the worker died
ReprocessFails(b) ==
    /\ b \in reprocess /\ reprocess' = reprocess \ {b}
    /\ UNCHANGED <<company, owner, contact, ingest, promoter, enricher, reviewer,
                   tasks, overtaken, left>>

-----------------------------------------------------------------------------
(* handleCompanyPromotion *)

StartPromotion(b) ==
    /\ promoter[b].step = "idle" /\ left.promotions > 0
    /\ contact[b].status # "absent" /\ ~contact[b].skip
    /\ left' = [left EXCEPT !.promotions = @ - 1]
    /\ promoter' = [promoter EXCEPT ![b] = [step |-> "find", cui |-> contact[b].cui,
                                            nr |-> contact[b].nr, row |-> contact[b].company,
                                            company |-> Nil]]
    /\ UNCHANGED <<company, owner, contact, ingest, enricher, reviewer, reprocess,
                   tasks, overtaken>>

\* findCompanyByIdentifiers: any owner of a key, else the holder of the cui, else of the nr
ByIdentifiers(cui, nr) ==
    IF Owners(Now, {cui, nr}) # {} THEN Owners(Now, {cui, nr})
    ELSE IF HasCui(Now, cui) # {} THEN HasCui(Now, cui) ELSE HasNr(Now, nr)

\* getResolvedCompany; Nil when a company has to be made
FindCompany(b) ==
    /\ promoter[b].step = "find"
    /\ LET p == promoter[b]
           found == IF p.row # Nil THEN {p.row} ELSE ByIdentifiers(p.cui, p.nr) IN
       \E c \in IF found = {} THEN {Nil} ELSE found :
           promoter' = [promoter EXCEPT ![b] = [@ EXCEPT !.step = "save", !.company = c]]
    /\ UNCHANGED <<company, owner, contact, ingest, enricher, reviewer, reprocess,
                   tasks, overtaken, left>>

\* A unique index refuses a new company
Taken(cui, nr) == HasCui(Now, cui) \cup HasNr(Now, nr) # {}

\* persistSilverCompany: update; or insert, and update who was first when an index refuses
SaveCompany(b) ==
    /\ promoter[b].step = "save"
    /\ LET p == promoter[b]
           saved(c) == [Now EXCEPT !.co[c] = Identified(@, Nil, p.nr)] IN
       \/ /\ p.company # Nil
          /\ Commit(saved(p.company))
          /\ promoter' = [promoter EXCEPT ![b].step = "cui"]
       \/ /\ p.company = Nil /\ ~Taken(p.cui, p.nr) /\ Made(Now) # Companies
          /\ Commit(Insert(Now, p.cui, p.nr))
          /\ promoter' = [promoter EXCEPT ![b] = [@ EXCEPT !.step = "cui", !.company = Fresh(Now)]]
       \/ /\ p.company = Nil /\ Taken(p.cui, p.nr)
          /\ \E c \in ByIdentifiers(p.cui, p.nr) :
               /\ Commit(saved(c))
               /\ promoter' = [promoter EXCEPT ![b] = [@ EXCEPT !.step = "cui", !.company = c]]
    /\ UNCHANGED <<ingest, enricher, reviewer, reprocess, tasks, overtaken, left>>

\* upsertPromotionIdentityKeys, whose results nobody reads
ClaimKey(b) ==
    LET p == promoter[b] IN
    /\ \/ p.step = "cui" /\ Upsert(p.company, p.cui, b)
          /\ promoter' = [promoter EXCEPT ![b].step = "nr"]
       \/ p.step = "nr" /\ Upsert(p.company, p.nr, b)
          /\ promoter' = [promoter EXCEPT ![b].step = "mark"]
    /\ UNCHANGED <<ingest, enricher, reviewer, reprocess, tasks, overtaken, left>>

\* markBronzePromoted and triggerCompanyEnrichment, which asks for D1 when there is a cui
MarkPromoted(b) ==
    LET p == promoter[b] IN
    /\ p.step = "mark"
    /\ contact' = [contact EXCEPT ![b].promoted = p.company]
    /\ promoter' = [promoter EXCEPT ![b] = Idle]
    /\ IF left.enrichments > 0 /\ p.cui # Nil /\ enricher[p.company].step = "idle"
       THEN /\ enricher' = [enricher EXCEPT ![p.company] =
                              [step |-> "save", cui |-> p.cui, nr |-> AnafNr[p.cui],
                               row |-> Nil, company |-> Nil]]
            /\ left' = [left EXCEPT !.enrichments = @ - 1]
       ELSE UNCHANGED <<enricher, left>>
    /\ UNCHANGED <<company, owner, ingest, reviewer, reprocess, tasks, overtaken>>

\* withBatchMetadataRetry begins again with the row it read; a failed job gives up
PromotionThrows(b) ==
    /\ promoter[b].step # "idle"
    /\ promoter' \in {[promoter EXCEPT ![b] = Idle],
                      [promoter EXCEPT ![b] = [@ EXCEPT !.step = "find", !.company = Nil]]}
    /\ UNCHANGED <<company, owner, contact, ingest, enricher, reviewer, reprocess,
                   tasks, overtaken, left>>

-----------------------------------------------------------------------------
(* D1 and the review of a conflict *)

\* D1 writes the identifiers that ANAF confirms, then claims them for the company
Enrich(c) ==
    LET e == enricher[c] IN
    /\ \/ /\ e.step = "save"
          /\ Commit([Now EXCEPT !.co[c] = Identified(@, e.cui, e.nr)])
          /\ enricher' = [enricher EXCEPT ![c].step = "cui"]
       \/ /\ e.step = "cui"
          /\ Upsert(c, e.cui, Nil)
          /\ enricher' = [enricher EXCEPT ![c].step = "nr"]
       \/ /\ e.step = "nr"
          /\ Upsert(c, e.nr, Nil)
          /\ enricher' = [enricher EXCEPT ![c] = Idle]
    /\ UNCHANGED <<ingest, promoter, reviewer, reprocess, tasks, overtaken, left>>

EnrichmentFails(c) ==
    /\ enricher[c].step # "idle"
    /\ enricher' = [enricher EXCEPT ![c] = Idle]
    /\ UNCHANGED <<company, owner, contact, ingest, promoter, reviewer, reprocess,
                   tasks, overtaken, left>>

\* handleIdentityConflict: the row is invalid
RejectRow(b) ==
    /\ b \in tasks
    /\ Commit([Now EXCEPT !.ct[b] = [@ EXCEPT !.status = "identity_conflict", !.skip = TRUE]])
    /\ tasks' = tasks \ {b}
    /\ UNCHANGED <<ingest, promoter, enricher, reviewer, reprocess, overtaken, left>>

\* ... or belongs to a company that the reviewer names or makes
AssignRow(b) ==
    /\ b \in tasks /\ left.reviews > 0 /\ reviewer[b].step = "idle"
    /\ left' = [left EXCEPT !.reviews = @ - 1]
    /\ tasks' = tasks \ {b}
    /\ LET job(c) == [step |-> "cui", cui |-> contact[b].cui, nr |-> contact[b].nr,
                      row |-> Nil, company |-> c] IN
       \/ /\ \E c \in Made(Now) : reviewer' = [reviewer EXCEPT ![b] = job(c)]
          /\ Abort
       \/ /\ Made(Now) # Companies
          /\ Commit(Insert(Now, contact[b].cui, contact[b].nr))
          /\ reviewer' = [reviewer EXCEPT ![b] = job(Fresh(Now))]
    /\ UNCHANGED <<ingest, promoter, enricher, reprocess, overtaken>>

\* Mutant: the job goes on when a key is taken
ReviewInsists(b) ==
    LET r == reviewer[b]
        k == IF r.step = "cui" THEN r.cui ELSE r.nr IN
    /\ r.step \in {"cui", "nr"}
    /\ Upsert(r.company, k, b)
    /\ reviewer' = [reviewer EXCEPT ![b].step = IF @ = "cui" THEN "nr" ELSE "mark"]
    /\ UNCHANGED <<ingest, promoter, enricher, reprocess, tasks, overtaken, left>>

\* upsertManualIdentityKeys ends the job at a key of somebody else
ReviewClaims(b) ==
    LET r == reviewer[b]
        k == IF r.step = "cui" THEN r.cui ELSE r.nr
        taken == k # Nil /\ owner[k] \notin {r.company, Nil} IN
    /\ r.step \in {"cui", "nr"}
    /\ Upsert(r.company, k, b)
    /\ reviewer' = [reviewer EXCEPT ![b] =
                      IF taken THEN Idle
                      ELSE [r EXCEPT !.step = IF @ = "cui" THEN "nr" ELSE "mark"]]
    /\ UNCHANGED <<ingest, promoter, enricher, reprocess, tasks, overtaken, left>>

ReviewResolves(b) ==
    /\ reviewer[b].step = "mark"
    /\ Commit([Now EXCEPT !.ct[b] = [@ EXCEPT !.status = "resolved", !.skip = FALSE,
                                              !.company = reviewer[b].company]])
    /\ reviewer' = [reviewer EXCEPT ![b] = Idle]
    /\ UNCHANGED <<ingest, promoter, enricher, reprocess, tasks, overtaken, left>>

\* The job has one attempt
ReviewFails(b) ==
    /\ reviewer[b].step # "idle"
    /\ reviewer' = [reviewer EXCEPT ![b] = Idle]
    /\ UNCHANGED <<company, owner, contact, ingest, promoter, enricher, reprocess,
                   tasks, overtaken, left>>

-----------------------------------------------------------------------------
Ingest == (\E chunk \in Chunks : InsertRows(chunk)) \/ IngestDies
              \/ \E b \in ingest : ResolveRow(b) \/ RowFails(b)

Contacted(b) ==
    \/ TakeAnafNr(b) \/ Backfill(b) \/ ResolveAgain(b) \/ ReprocessFails(b)
    \/ StartPromotion(b) \/ FindCompany(b) \/ SaveCompany(b) \/ ClaimKey(b) \/ MarkPromoted(b)
    \/ PromotionThrows(b) \/ RejectRow(b) \/ AssignRow(b) \/ ReviewClaims(b)
    \/ ReviewResolves(b) \/ ReviewFails(b)

Next ==
    \/ Ingest
    \/ \E b \in Contacts : Contacted(b)
    \/ \E c \in Companies : Enrich(c) \/ EnrichmentFails(c)

Spec == Init /\ [][Next]_vars

-----------------------------------------------------------------------------
TypeOK ==
    /\ company \in [Companies -> Company]
    /\ owner \in [Keys -> Companies \cup {Nil}]
    /\ contact \in [Contacts -> Contact]
    /\ {ingest, reprocess, tasks, overtaken} \subseteq SUBSET Contacts
    /\ promoter \in [Contacts -> Worker]
    /\ reviewer \in [Contacts -> Worker]
    /\ enricher \in [Companies -> Worker]
    /\ left \in [promotions : 0..Promotions, enrichments : 0..Enrichments,
                 reprocesses : SUBSET Reprocessed, reviews : 0..Reviews]

\* A resolved row names the company that owns its key, whatever merges, claims and reviews
\* came after: only a reviewer's job, which claims its keys first and writes the row later,
\* may write a company that has lost the key to a merge in between.
ResolvedNamesOwner ==
    \A b \in Contacts \ overtaken :
        contact[b].status = "resolved" /\ Anchor(contact[b]) # Nil =>
            contact[b].company = owner[Anchor(contact[b])]

\* A resolution that ends in a conflict leaves nothing else behind: it commits what it did
\* before the exception, so a key that is taken must be met before a placeholder is made,
\* companies are merged or the other key is claimed.
ConflictLeavesNothing ==
    \A b \in Contacts :
        contact[b].status # "absent" =>
            LET w == Detected(Now, b) IN
            w.ct[b].status = "resolved" \/ w = Rejected(Now, b, "identity_conflict", Nil)

\* Keys change their company only by a merge
Registry == INSTANCE IdentityRegistry
KeysStayTogether == Registry!Spec
=============================================================================
